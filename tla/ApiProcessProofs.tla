--------------------------- MODULE ApiProcessProofs ---------------------------
(***************************************************************************)
(* Proofs about ApiProcess, for every number of instances, calls, rows and *)
(* faults and every size of the buffers: the instances add nothing to what *)
(* the repository does, and a paid subscription goes unannounced only in   *)
(* the ways the source names.                                              *)
(***************************************************************************)
EXTENDS ApiProcess, RepositoryProofs, NotificationQueueProofs, FiniteSetTheorems

(* A write of a call is an operation of the repository.                    *)
LEMMA WritesAreRepoSteps ==
    ASSUME NEW p \in Intents, NEW next, Writes(p, next)
    PROVE  RepoNext
BY ApiAssumption DEF Writes, RepoNext

LEMMA ApiStepIsRepoStep ==
    ASSUME ApiTypeOK, [ApiNext]_vars
    PROVE  [RepoNext]_repoVars
<1>1. ASSUME NEW g \in Goroutines, Write(g) \/ WriteUnheard(g)
      PROVE  RepoNext
  <2>1. calls[g].sub \in Intents
    BY <1>1 DEF ApiTypeOK, Calls, IdleCall, Write, WriteUnheard
  <2>2. \E next \in CallStates : Writes(calls[g].sub, next)
    BY <1>1 DEF Write, WriteUnheard
  <2> QED BY <2>1, <2>2, WritesAreRepoSteps
<1>2. ASSUME NEW g \in Goroutines,
             \/ \E w \in Instances, p \in Intents : Accept(g, w, p)
             \/ Refuse(g) \/ CountCreated(g) \/ CountCancelled(g) \/ PublishPaid(g) \/ Answer(g)
      PROVE  UNCHANGED repoVars
  BY <1>2 DEF Accept, Refuse, CountCreated, CountCancelled, PublishPaid, Answer
<1>3. ASSUME NEW w \in Instances,
             \/ CountActive(w) \/ SetGauge(w) \/ RefreshFails(w) \/ Start(w)
             \/ ConsumeEvent(w) \/ Signal(w) \/ Exit(w) \/ DrainTimesOut(w) \/ Crash(w)
      PROVE  UNCHANGED repoVars
  BY <1>3 DEF CountActive, SetGauge, RefreshFails, Start, ConsumeEvent, Signal, Exit,
              DrainTimesOut, Crash, End
<1>4. CASE Others
  BY <1>4 DEF Others, RepoNext
<1>5. CASE UNCHANGED vars
  BY <1>5 DEF vars, repoVars
<1> QED BY <1>1, <1>2, <1>3, <1>4, <1>5 DEF ApiNext

-----------------------------------------------------------------------------
(* The gauge counts a finite set: every operation inserts at most one row. *)
ApiInv == ApiTypeOK /\ IsFiniteSet(Inserted)

LEMMA OneRowIsInserted ==
    ASSUME RepoTypeOK, [RepoNext]_repoVars, IsFiniteSet(Inserted)
    PROVE  IsFiniteSet(Inserted')
<1> USE DEF RepoTypeOK, Rows, NoRow, Statuses, Inserted
<1>1. ASSUME NEW p \in Intents, \A q \in Intents : q # p => subs'[q] = subs[q]
      PROVE  IsFiniteSet(Inserted')
  <2>1. IsFiniteSet(Inserted \cup {p})
    BY FS_AddElement
  <2>2. Inserted' \subseteq Inserted \cup {p}
    BY <1>1
  <2> QED BY <2>1, <2>2, FS_Subset
<1>2. ASSUME NEW p \in Intents,
             \/ \E u \in Users, c \in Creators : CreatePending(p, u, c)
             \/ \E e \in Events, amount \in Amounts : MarkPaymentSucceeded(p, e, amount)
             \/ MarkPaymentFailed(p) \/ Cancel(p) \/ Renew(p)
      PROVE  \A q \in Intents : q # p => subs'[q] = subs[q]
  BY <1>2 DEF CreatePending, MarkPaymentSucceeded, MarkPaymentFailed, Cancel, Renew
<1>3. CASE ExpireOverdue
  <2>1. Inserted' \subseteq Inserted
    BY <1>3 DEF ExpireOverdue, Overdue
  <2> QED BY <2>1, FS_Subset
<1>4. CASE Tick \/ UNCHANGED repoVars
  BY <1>4 DEF Tick, repoVars
<1> QED BY <1>1, <1>2, <1>3, <1>4 DEF RepoNext

LEMMA ActiveIsCounted ==
    ASSUME RepoTypeOK, IsFiniteSet(Inserted)
    PROVE  Cardinality(Active) \in Nat
<1>1. Active \subseteq Inserted
  BY DEF Active, Inserted, NoRow
<1>2. IsFiniteSet(Active)
  BY <1>1, FS_Subset
<1> QED BY <1>2, FS_CardinalityType

-----------------------------------------------------------------------------
LEMMA ApiInvInit == ApiInit => ApiInv
<1> SUFFICES ASSUME ApiInit
             PROVE  ApiInv
  OBVIOUS
<1>1. RepoTypeOK
  BY RepoInvInit DEF ApiInit, RepoInv
<1>2. QueueTypeOK
  BY ApiAssumption, CapacityAssumption DEF ApiInit, QueueInit, QueueTypeOK
<1>3. ApiTypeOK
  BY <1>1, <1>2 DEF ApiInit, QueueInit, ApiTypeOK, ServerStates, Calls, IdleCall, IsUp, IsAt,
                    NoResult, Instances
<1>4. Inserted = {}
  BY DEF ApiInit, RepoInit, Inserted
<1> QED BY <1>3, <1>4, FS_EmptySet DEF ApiInv

-----------------------------------------------------------------------------
(* A call that goes on within its instance keeps the types.                *)
LEMMA CallStepKeepsTypes ==
    ASSUME ApiTypeOK, RepoTypeOK', QueueTypeOK', NEW g \in Goroutines, NEW c \in Calls,
           calls' = [calls EXCEPT ![g] = c],
           c = IdleCall \/ (IsUp(c.at) /\ c.at \in Instances),
           \A w \in Instances : ~ IsUp(w) => queue'[w] = queue[w],
           \A w \in Instances : created'[w] = created[w] \/ (IsUp(w) /\ created'[w] = created[w] + 1),
           \A w \in Instances : cancelled'[w] = cancelled[w]
                                   \/ (IsUp(w) /\ cancelled'[w] = cancelled[w] + 1),
           created' = [w \in Instances |-> created'[w]],
           cancelled' = [w \in Instances |-> cancelled'[w]],
           UNCHANGED <<server, gauge, refresh, signals>>, faults' \in Nat
    PROVE  ApiTypeOK'
<1> USE DEF ApiTypeOK
<1>1. calls' \in [Goroutines -> Calls]
  OBVIOUS
<1>2. created' \in [Instances -> Nat] /\ cancelled' \in [Instances -> Nat]
  <2>1. \A w \in Instances : created'[w] \in Nat /\ cancelled'[w] \in Nat
    OBVIOUS
  <2> QED BY <2>1
<1>3. \A w \in Instances : IsUp(w)' <=> IsUp(w)
  BY DEF IsUp
<1>4. ASSUME NEW w \in Instances, ~ IsUp(w)
      PROVE  /\ queue'[w] = <<>>
             /\ created'[w] = 0 /\ cancelled'[w] = 0 /\ refresh'[w] = NoResult
             /\ \A h \in Goroutines : ~ IsAt(h, w)'
  <2>1. queue'[w] = <<>> /\ created'[w] = 0 /\ cancelled'[w] = 0 /\ refresh'[w] = NoResult
    BY <1>4
  <2>2. ASSUME NEW h \in Goroutines
        PROVE  ~ IsAt(h, w)'
    <3>1. CASE h = g
      <4>1. calls'[h] = c
        BY <3>1
      <4> QED BY <1>4, <4>1 DEF IsAt, IdleCall
    <3>2. CASE h # g
      BY <1>4, <3>2 DEF IsAt
    <3> QED BY <3>1, <3>2
  <2> QED BY <2>1, <2>2
<1> QED BY <1>1, <1>2, <1>3, <1>4

(* A call in progress is at an instance that is up.                        *)
LEMMA CallsAreAtInstances ==
    ASSUME ApiTypeOK, NEW g \in Goroutines, calls[g] # IdleCall
    PROVE  /\ calls[g] \in [pc : CallStates, at : Instances, sub : Intents]
           /\ IsUp(calls[g].at) /\ IsAt(g, calls[g].at)
<1>1. calls[g] \in [pc : CallStates, at : Instances, sub : Intents]
  BY DEF ApiTypeOK, Calls
<1>2. IsAt(g, calls[g].at)
  BY <1>1 DEF IsAt, CallStates
<1> QED BY <1>1, <1>2 DEF ApiTypeOK

LEMMA CallTypeStep ==
    ASSUME ApiTypeOK, RepoTypeOK', NEW g \in Goroutines,
           \/ \E w \in Instances, p \in Intents : Accept(g, w, p)
           \/ Write(g) \/ WriteUnheard(g) \/ Refuse(g) \/ CountCreated(g)
           \/ CountCancelled(g) \/ PublishPaid(g) \/ Answer(g)
    PROVE  ApiTypeOK'
<1>1. ASSUME NEW w \in Instances, NEW p \in Intents, Accept(g, w, p)
      PROVE  ApiTypeOK'
  <2> DEFINE c == [pc |-> "working", at |-> w, sub |-> p]
  <2>1. c \in Calls /\ c.at = w /\ IsUp(w) /\ calls' = [calls EXCEPT ![g] = c]
    BY <1>1 DEF Accept, Calls, CallStates, IsUp
  <2>2. UNCHANGED <<queueVars, server, created, cancelled, gauge, refresh, faults, signals>>
    BY <1>1 DEF Accept
  <2>3. QueueTypeOK'
    BY <2>2 DEF ApiTypeOK, QueueTypeOK, queueVars
  <2> HIDE DEF c
  <2> QED BY <2>1, <2>2, <2>3, CallStepKeepsTypes DEF ApiTypeOK, queueVars
<1>2. ASSUME NEW next \in CallStates, calls[g] # IdleCall,
             calls' = [calls EXCEPT ![g].pc = next],
             UNCHANGED <<queueVars, server, created, cancelled, gauge, refresh, signals>>,
             faults' \in Nat
      PROVE  ApiTypeOK'
  <2> DEFINE c == [calls[g] EXCEPT !.pc = next]
  <2>1. calls[g] \in [pc : CallStates, at : Instances, sub : Intents] /\ IsUp(calls[g].at)
    BY <1>2, CallsAreAtInstances
  <2>2. c \in Calls /\ c.at \in Instances /\ c.at = calls[g].at /\ calls' = [calls EXCEPT ![g] = c]
    BY <1>2, <2>1 DEF Calls
  <2>3. QueueTypeOK'
    BY <1>2 DEF ApiTypeOK, QueueTypeOK, queueVars
  <2> HIDE DEF c
  <2> QED BY <1>2, <2>1, <2>2, <2>3, CallStepKeepsTypes DEF ApiTypeOK, queueVars
<1>3. CASE Write(g) \/ WriteUnheard(g) \/ Refuse(g)
  <2>1. calls[g] # IdleCall
    BY <1>3 DEF Write, WriteUnheard, Refuse, IdleCall
  <2>2. PICK next \in CallStates : calls' = [calls EXCEPT ![g].pc = next]
    BY <1>3 DEF Write, WriteUnheard, Refuse, CallStates
  <2>3. UNCHANGED <<queueVars, server, created, cancelled, gauge, refresh, signals>>
    BY <1>3 DEF Write, WriteUnheard, Refuse
  <2>4. faults' \in Nat
    BY <1>3 DEF Write, WriteUnheard, Refuse, Fault, ApiTypeOK
  <2> QED BY <1>2, <2>1, <2>2, <2>3, <2>4
<1>4. CASE CountCreated(g) \/ CountCancelled(g) \/ PublishPaid(g)
  <2> DEFINE c == [calls[g] EXCEPT !.pc = "answering"]
             w == calls[g].at
  <2>1. calls[g] # IdleCall
    BY <1>4 DEF CountCreated, CountCancelled, PublishPaid, IdleCall
  <2>2. calls' = [calls EXCEPT ![g] = c]
    BY <1>4 DEF CountCreated, CountCancelled, PublishPaid
  <2>3. c \in Calls /\ c.at = w /\ w \in Instances /\ IsUp(w) /\ calls[g].sub \in Intents
    BY <2>1, CallsAreAtInstances DEF Calls, CallStates
  <2>4. UNCHANGED <<server, gauge, refresh, signals, faults>>
    BY <1>4 DEF CountCreated, CountCancelled, PublishPaid
  <2>5. QueueTypeOK' /\ \A v \in Instances : ~ IsUp(v) => queue'[v] = queue[v]
    <3>1. CASE PublishPaid(g)
      BY <2>3, <3>1, PublishEffect, ApiAssumption DEF PublishPaid, ApiTypeOK, Instances
    <3>2. CASE UNCHANGED queueVars
      BY <3>2 DEF ApiTypeOK, QueueTypeOK, queueVars
    <3> QED BY <1>4, <3>1, <3>2 DEF CountCreated, CountCancelled
  <2>6. /\ created' = created \/ created' = [created EXCEPT ![w] = @ + 1]
        /\ cancelled' = cancelled \/ cancelled' = [cancelled EXCEPT ![w] = @ + 1]
    BY <1>4 DEF CountCreated, CountCancelled, PublishPaid
  <2>7. /\ \A v \in Instances : created'[v] = created[v] \/ (IsUp(v) /\ created'[v] = created[v] + 1)
        /\ \A v \in Instances : cancelled'[v] = cancelled[v]
                                   \/ (IsUp(v) /\ cancelled'[v] = cancelled[v] + 1)
        /\ created' = [v \in Instances |-> created'[v]]
        /\ cancelled' = [v \in Instances |-> cancelled'[v]]
    BY <2>3, <2>6 DEF ApiTypeOK
  <2>8. faults' \in Nat
    BY <2>4 DEF ApiTypeOK
  <2> HIDE DEF c, w
  <2> QED BY <2>2, <2>3, <2>4, <2>5, <2>7, <2>8, CallStepKeepsTypes
<1>5. CASE Answer(g)
  <2>1. /\ calls' = [calls EXCEPT ![g] = IdleCall]
        /\ UNCHANGED <<queueVars, server, created, cancelled, gauge, refresh, faults, signals>>
    BY <1>5 DEF Answer
  <2>2. QueueTypeOK'
    BY <2>1 DEF ApiTypeOK, QueueTypeOK, queueVars
  <2> QED BY <2>1, <2>2, CallStepKeepsTypes DEF ApiTypeOK, queueVars, Calls
<1> QED BY <1>1, <1>3, <1>4, <1>5

-----------------------------------------------------------------------------
LEMMA ProcessTypeStep ==
    ASSUME ApiInv, RepoTypeOK', NEW w \in Instances,
           \/ CountActive(w) \/ SetGauge(w) \/ RefreshFails(w) \/ Start(w)
           \/ ConsumeEvent(w) \/ Signal(w) \/ Exit(w) \/ DrainTimesOut(w) \/ Crash(w)
    PROVE  ApiTypeOK'
<1> USE DEF ApiInv, ApiTypeOK
<1>1. CASE CountActive(w) \/ SetGauge(w) \/ RefreshFails(w)
  <2>1. UNCHANGED <<queueVars, server, calls, created, cancelled, signals>>
    BY <1>1 DEF CountActive, SetGauge, RefreshFails
  <2>2. QueueTypeOK'
    BY <2>1 DEF QueueTypeOK, queueVars
  <2>3. faults' \in Nat
    BY <1>1 DEF CountActive, SetGauge, RefreshFails, Fault
  <2>4. IsUp(w)
    BY <1>1 DEF CountActive, SetGauge, RefreshFails
  <2>5. \/ refresh' = [refresh EXCEPT ![w] = Cardinality(Active)] /\ gauge' = gauge
        \/ refresh' = [refresh EXCEPT ![w] = NoResult] /\ gauge' = gauge
        \/ /\ refresh' = [refresh EXCEPT ![w] = NoResult]
           /\ gauge' = [gauge EXCEPT ![w] = refresh[w]] /\ refresh[w] # NoResult
    BY <1>1 DEF CountActive, SetGauge, RefreshFails
  <2>6. Cardinality(Active) \in Nat
    BY ActiveIsCounted
  <2>7. refresh' \in [Instances -> Nat \cup {NoResult}] /\ gauge' \in [Instances -> Nat]
    BY <2>5, <2>6
  <2>8. \A v \in Instances : ~ IsUp(v) => refresh'[v] = NoResult
    BY <2>4, <2>5
  <2>9. \A v \in Instances : (IsUp(v)' <=> IsUp(v))
                             /\ \A g \in Goroutines : IsAt(g, v)' <=> IsAt(g, v)
    BY <2>1 DEF IsUp, IsAt
  <2> QED BY <2>1, <2>2, <2>3, <2>7, <2>8, <2>9 DEF queueVars
<1>2. CASE Start(w)
  <2>1. QueueTypeOK'
    BY <1>2, CapacityAssumption DEF Start, OpenQueue, QueueTypeOK, Instances
  <2>2. /\ server' = [server EXCEPT ![w] = "serving"]
        /\ UNCHANGED <<calls, created, cancelled, gauge, refresh, faults, signals>>
    BY <1>2 DEF Start
  <2>3. \A v \in Instances : ~ IsUp(v)' => ~ IsUp(v) /\ v # w
    BY <2>2 DEF IsUp
  <2>4. \A v \in Instances : v # w => queue'[v] = queue[v]
    BY <1>2 DEF Start, OpenQueue, QueueTypeOK, Instances
  <2>5. \A v \in Instances, g \in Goroutines : IsAt(g, v)' <=> IsAt(g, v)
    BY <2>2 DEF IsAt
  <2>6. server' \in [Instances -> ServerStates]
    BY <2>2 DEF ServerStates
  <2> QED BY <2>1, <2>2, <2>3, <2>4, <2>5, <2>6
<1>3. CASE ConsumeEvent(w)
  <2>1. UNCHANGED apiVars /\ Consume(w)
    BY <1>3 DEF ConsumeEvent
  <2>2. /\ QueueTypeOK'
        /\ \A v \in Instances : v # w => queue'[v] = queue[v]
        /\ queue[w] # <<>>
    BY <2>1, ConsumeEffect, ApiAssumption DEF Instances
  <2>3. \A v \in Instances : (IsUp(v)' <=> IsUp(v))
                             /\ \A g \in Goroutines : IsAt(g, v)' <=> IsAt(g, v)
    BY <2>1 DEF IsUp, IsAt, apiVars
  <2> QED BY <2>1, <2>2, <2>3 DEF apiVars
<1>4. CASE Signal(w)
  <2>1. /\ server[w] = "serving" /\ server' = [server EXCEPT ![w] = "draining"]
        /\ signals' = signals + 1
        /\ UNCHANGED <<queueVars, calls, created, cancelled, gauge, refresh, faults>>
    BY <1>4 DEF Signal
  <2>2. QueueTypeOK'
    BY <2>1 DEF QueueTypeOK, queueVars
  <2>3. \A v \in Instances : (IsUp(v)' <=> IsUp(v))
                             /\ \A g \in Goroutines : IsAt(g, v)' <=> IsAt(g, v)
    BY <2>1 DEF IsUp, IsAt
  <2>4. server' \in [Instances -> ServerStates]
    BY <2>1 DEF ServerStates
  <2> QED BY <2>1, <2>2, <2>3, <2>4 DEF queueVars
<1>5. CASE Exit(w) \/ DrainTimesOut(w) \/ Crash(w)
  <2>1. PICK how \in {"exited", "failed"} : End(w, how)
    BY <1>5 DEF Exit, DrainTimesOut, Crash
  <2>2. faults' \in Nat /\ signals' \in Nat
    BY <1>5, <2>1 DEF Exit, DrainTimesOut, Crash, Fault, End
  <2>3. QueueTypeOK' /\ queue' = [queue EXCEPT ![w] = <<>>]
    BY <2>1, CapacityAssumption DEF End, CloseQueue, QueueTypeOK, Instances
  <2>4. /\ server' = [server EXCEPT ![w] = how]
        /\ created' = [created EXCEPT ![w] = 0]
        /\ cancelled' = [cancelled EXCEPT ![w] = 0]
        /\ gauge' = [gauge EXCEPT ![w] = 0]
        /\ refresh' = [refresh EXCEPT ![w] = NoResult]
        /\ calls' = [g \in Goroutines |-> IF IsAt(g, w) THEN IdleCall ELSE calls[g]]
    BY <2>1 DEF End
  <2>5. /\ server' \in [Instances -> ServerStates] /\ created' \in [Instances -> Nat]
        /\ cancelled' \in [Instances -> Nat] /\ gauge' \in [Instances -> Nat]
        /\ refresh' \in [Instances -> Nat \cup {NoResult}]
    BY <2>4 DEF ServerStates
  <2>6. calls' \in [Goroutines -> Calls]
    BY <2>4 DEF Calls
  <2>7. \A v \in Instances, g \in Goroutines : IsAt(g, v)' => IsAt(g, v) /\ v # w
    BY <2>4 DEF IsAt, IdleCall
  <2>8. \A v \in Instances : v # w => (IsUp(v)' <=> IsUp(v)) /\ queue'[v] = queue[v]
    BY <2>3, <2>4 DEF IsUp, QueueTypeOK, Instances
  <2>9. queue'[w] = <<>>
    BY <2>3 DEF QueueTypeOK, Instances
  <2> QED BY <2>2, <2>3, <2>4, <2>5, <2>6, <2>7, <2>8, <2>9
<1> QED BY <1>1, <1>2, <1>3, <1>4, <1>5

LEMMA ApiInvStep == ApiInv /\ [ApiNext]_vars => ApiInv'
<1> SUFFICES ASSUME ApiInv, [ApiNext]_vars
             PROVE  ApiInv'
  OBVIOUS
<1>1. [RepoNext]_repoVars
  BY ApiStepIsRepoStep DEF ApiInv
<1>2. RepoTypeOK'
  BY <1>1, RepoTypeStep DEF ApiInv, ApiTypeOK
<1>3. IsFiniteSet(Inserted')
  BY <1>1, OneRowIsInserted DEF ApiInv, ApiTypeOK
<1>4. CASE Others \/ UNCHANGED vars
  <2>1. UNCHANGED <<queue, consuming, notified, server, calls, created, cancelled, gauge,
                    refresh, faults, signals>>
    BY <1>4 DEF Others, vars, queueVars, apiVars
  <2>2. QueueTypeOK' /\ \A w \in Instances : (IsUp(w)' <=> IsUp(w))
                             /\ \A g \in Goroutines : IsAt(g, w)' <=> IsAt(g, w)
    BY <2>1 DEF ApiInv, ApiTypeOK, QueueTypeOK, IsUp, IsAt
  <2> QED BY <1>2, <1>3, <2>1, <2>2 DEF ApiInv, ApiTypeOK
<1>5. CASE ~ (Others \/ UNCHANGED vars)
  <2>1. ApiTypeOK'
    BY <1>2, <1>5, CallTypeStep, ProcessTypeStep DEF ApiNext, ApiInv
  <2> QED BY <1>3, <2>1 DEF ApiInv
<1> QED BY <1>4, <1>5

THEOREM ApiInvariant == ApiSpec => []ApiInv
BY ApiInvInit, ApiInvStep, PTL DEF ApiSpec

(* The instances' variables keep their types, buffers their size; one that *)
(* is not up holds nothing.                                                *)
THEOREM ApiTypeCorrect == ApiSpec => []ApiTypeOK
<1>1. ApiInv => ApiTypeOK
  BY DEF ApiInv
<1> QED BY <1>1, ApiInvariant, PTL

(* The instances add nothing to what the repository's calls do.            *)
THEOREM ApiKeepsRepository == ApiSpec => RepoSpec /\ []RepoInv
<1>1. ApiInit => RepoInit
  BY DEF ApiInit
<1>2. ApiInv /\ [ApiNext]_vars => [RepoNext]_repoVars
  BY ApiStepIsRepoStep DEF ApiInv
<1> QED BY <1>1, <1>2, ApiInvariant, RepoInvariant, PTL DEF ApiSpec, RepoSpec

-----------------------------------------------------------------------------
(* How a paid subscription can come to be untold: see NoNoticeVanishes.    *)
Forgiven(p) ==
    \/ \E g \in Goroutines : WriteUnheard(g)
    \/ \E g \in Goroutines : PublishPaid(g) /\ IsFull(calls[g].at)
    \/ \E w \in Instances : ~ IsUp(w)' /\ Buffered(w, p)
    \/ \E w \in Instances : server'[w] = "failed" /\ server[w] # "failed"

(* A subscription that some step might leave untold.                       *)
Forgotten(p) == IsPaid(p)' /\ (~ IsPaid(p) \/ Told(p)) /\ ~ Told(p)'

-----------------------------------------------------------------------------
(* What each step does to the payments on record, to the calls that are    *)
(* about to publish, to the buffers and to what creators were told.        *)
LEMMA PaymentIsRecorded ==
    ASSUME RepoTypeOK,
           NEW s \in Intents, \E amount \in Amounts : MarkPaymentSucceeded(s, s, amount)
    PROVE  ~ IsPaid(s) /\ \A p \in Intents : IsPaid(p)' <=> IsPaid(p) \/ p = s
<1>1. PICK amount \in Amounts :
        /\ ~ EventIsRecorded(s)
        /\ Record([event |-> s, sub |-> s, amount |-> amount])
  BY DEF MarkPaymentSucceeded
<1>2. \A p \in Intents : EventIsRecorded(p)' <=> EventIsRecorded(p) \/ p = s
  <2> DEFINE row == [event |-> s, sub |-> s, amount |-> amount]
  <2>1. row.event = s /\ RecordedRows' = RecordedRows \cup {row}
    BY <1>1, RecordAdds DEF RepoTypeOK
  <2> HIDE DEF row
  <2> QED BY <2>1 DEF EventIsRecorded
<1> QED BY <1>1, <1>2 DEF IsPaid

LEMMA WriteEffect ==
    ASSUME ApiTypeOK, NEW g \in Goroutines, Write(g)
    PROVE  /\ UNCHANGED <<queue, notified>>
           /\ \/ /\ \A p \in Intents : IsPaid(p)' <=> IsPaid(p)
                 /\ \A h \in Goroutines, p \in Intents : Publishing(h, p)' <=> Publishing(h, p)
              \/ \E s \in Intents :
                    /\ ~ IsPaid(s)
                    /\ \A p \in Intents : IsPaid(p)' <=> IsPaid(p) \/ p = s
                    /\ \A h \in Goroutines, p \in Intents :
                          Publishing(h, p)' <=> Publishing(h, p) \/ (h = g /\ p = s)
<1>1. calls[g].pc = "working" /\ calls[g] # IdleCall
  BY DEF Write, IdleCall
<1>2. PICK s \in Intents : s = calls[g].sub
  BY <1>1, CallsAreAtInstances
<1>3. PICK next \in CallStates : Writes(s, next) /\ calls' = [calls EXCEPT ![g].pc = next]
  BY <1>2 DEF Write
<1>4. calls'[g].pc = next /\ calls'[g].sub = s /\ \A h \in Goroutines : h # g => calls'[h] = calls[h]
  BY <1>1, <1>2, <1>3, CallsAreAtInstances DEF ApiTypeOK
<1>5. UNCHANGED <<queue, notified>>
  BY DEF Write, queueVars
<1>6. CASE next # "paid"
  <2>1. transactions' = transactions
    BY <1>3, <1>6 DEF Writes, CreatePending, MarkPaymentFailed, Cancel, Renew
  <2>2. \A p \in Intents : IsPaid(p)' <=> IsPaid(p)
    BY <2>1, LedgerStays DEF IsPaid, EventIsRecorded
  <2>3. \A h \in Goroutines, p \in Intents : Publishing(h, p)' <=> Publishing(h, p)
    BY <1>1, <1>4, <1>6 DEF Publishing
  <2> QED BY <1>5, <2>2, <2>3
<1>7. CASE next = "paid"
  <2>1. \E amount \in Amounts : MarkPaymentSucceeded(s, s, amount)
    BY <1>3, <1>7 DEF Writes
  <2>2. ~ IsPaid(s) /\ \A p \in Intents : IsPaid(p)' <=> IsPaid(p) \/ p = s
    BY <2>1, PaymentIsRecorded DEF ApiTypeOK
  <2>3. \A h \in Goroutines, p \in Intents :
           Publishing(h, p)' <=> Publishing(h, p) \/ (h = g /\ p = s)
    BY <1>1, <1>4, <1>7 DEF Publishing
  <2> QED BY <1>5, <2>2, <2>3
<1> QED BY <1>6, <1>7

LEMMA UnheardEffect ==
    ASSUME ApiTypeOK, NEW g \in Goroutines, WriteUnheard(g)
    PROVE  /\ UNCHANGED <<queue, notified>>
           /\ \A h \in Goroutines, p \in Intents : Publishing(h, p)' <=> Publishing(h, p)
           /\ \/ \A p \in Intents : IsPaid(p)' <=> IsPaid(p)
              \/ \E s \in Intents : /\ ~ IsPaid(s)
                                    /\ \A p \in Intents : IsPaid(p)' <=> IsPaid(p) \/ p = s
<1>1. calls[g].pc = "working" /\ calls[g] # IdleCall
  BY DEF WriteUnheard, IdleCall
<1>2. PICK s \in Intents : s = calls[g].sub
  BY <1>1, CallsAreAtInstances
<1>3. PICK next \in CallStates : Writes(s, next)
  BY <1>2 DEF WriteUnheard
<1>4. calls'[g].pc = "answering" /\ \A h \in Goroutines : h # g => calls'[h] = calls[h]
  BY <1>1, CallsAreAtInstances DEF WriteUnheard, ApiTypeOK
<1>5. \A h \in Goroutines, p \in Intents : Publishing(h, p)' <=> Publishing(h, p)
  BY <1>1, <1>4 DEF Publishing
<1>6. UNCHANGED <<queue, notified>>
  BY DEF WriteUnheard, queueVars
<1>7. CASE transactions' = transactions
  BY <1>5, <1>6, <1>7, LedgerStays DEF IsPaid, EventIsRecorded
<1>8. CASE \E amount \in Amounts : MarkPaymentSucceeded(s, s, amount)
  <2>1. ~ IsPaid(s) /\ \A p \in Intents : IsPaid(p)' <=> IsPaid(p) \/ p = s
    BY <1>8, PaymentIsRecorded DEF ApiTypeOK
  <2> QED BY <1>5, <1>6, <2>1
<1> QED BY <1>3, <1>7, <1>8 DEF Writes, CreatePending, MarkPaymentFailed, Cancel, Renew

LEMMA PublishPaidEffect ==
    ASSUME ApiTypeOK, NEW g \in Goroutines, PublishPaid(g)
    PROVE  \E w \in Instances, s \in Intents :
              /\ w = calls[g].at /\ Publishing(g, s) /\ Publish(w, s)
              /\ \A h \in Goroutines, p \in Intents :
                    Publishing(h, p)' <=> Publishing(h, p) /\ h # g
              /\ \A v \in Instances, p \in Intents :
                    Buffered(v, p)' <=> Buffered(v, p) \/ (v = w /\ p = s /\ ~ IsFull(w))
              /\ UNCHANGED <<transactions, notified>>
<1>1. calls[g].pc = "paid" /\ calls[g] # IdleCall
  BY DEF PublishPaid, IdleCall
<1>2. PICK w \in Instances, s \in Intents : w = calls[g].at /\ s = calls[g].sub
  BY <1>1, CallsAreAtInstances
<1>3. Publish(w, s) /\ UNCHANGED <<transactions, notified>>
  BY <1>2 DEF PublishPaid, Publish, repoVars
<1>4. calls'[g].pc = "answering" /\ \A h \in Goroutines : h # g => calls'[h] = calls[h]
  BY <1>1, CallsAreAtInstances DEF PublishPaid, ApiTypeOK
<1>5. \A h \in Goroutines, p \in Intents : Publishing(h, p)' <=> Publishing(h, p) /\ h # g
  BY <1>4 DEF Publishing
<1>6. Publishing(g, s)
  BY <1>1, <1>2 DEF Publishing
<1>7. \A v \in Instances, p \in Intents :
         Buffered(v, p)' <=> Buffered(v, p) \/ (v = w /\ p = s /\ ~ IsFull(w))
  BY <1>3, PublishBuffers, ApiAssumption DEF ApiTypeOK, Instances
<1> QED BY <1>2, <1>3, <1>5, <1>6, <1>7

LEMMA ConsumeEventEffect ==
    ASSUME ApiTypeOK, NEW w \in Instances, ConsumeEvent(w)
    PROVE  /\ UNCHANGED <<transactions, calls>>
           /\ Consume(w)
           /\ \E h \in Intents :
                 /\ h = Head(queue[w]) /\ Buffered(w, h)
                 /\ \A p \in Intents :
                       notified'[p] = IF p = h THEN notified[p] + 1 ELSE notified[p]
                 /\ \A v \in Instances, p \in Intents :
                       /\ Buffered(v, p)' => Buffered(v, p)
                       /\ Buffered(v, p) => Buffered(v, p)' \/ (v = w /\ p = h)
<1>1. UNCHANGED <<transactions, calls>> /\ Consume(w) /\ QueueTypeOK
  BY DEF ConsumeEvent, repoVars, apiVars, ApiTypeOK
<1>2. PICK h \in Intents : h = Head(queue[w])
  BY <1>1, ConsumeEffect, ApiAssumption DEF Instances
<1>3. \A p \in Intents : notified'[p] = IF p = h THEN notified[p] + 1 ELSE notified[p]
  BY <1>1, <1>2, ConsumeEffect, ApiAssumption DEF Instances, QueueTypeOK
<1>4. /\ Buffered(w, h)
      /\ \A v \in Instances, p \in Intents :
            /\ Buffered(v, p)' => Buffered(v, p)
            /\ Buffered(v, p) => Buffered(v, p)' \/ (v = w /\ p = h)
  BY <1>1, <1>2, ConsumeTakesHead, ApiAssumption DEF Instances
<1> QED BY <1>1, <1>2, <1>3, <1>4

(* An instance that begins or ends: its buffer and its calls are gone.     *)
LEMMA LifeEffect ==
    ASSUME ApiTypeOK, NEW w \in Instances, Start(w) \/ Exit(w) \/ DrainTimesOut(w) \/ Crash(w)
    PROVE  /\ UNCHANGED <<transactions, notified>>
           /\ OpenQueue(w) \/ CloseQueue(w)
           /\ \A v \in Instances, p \in Intents : Buffered(v, p)' <=> v # w /\ Buffered(v, p)
           /\ \A g \in Goroutines, p \in Intents : Publishing(g, p)' => Publishing(g, p)
           /\ Start(w) \/ Exit(w) => \A g \in Goroutines, p \in Intents :
                                        Publishing(g, p)' <=> Publishing(g, p)
<1>1. UNCHANGED transactions /\ (OpenQueue(w) \/ CloseQueue(w))
  BY DEF Start, Exit, DrainTimesOut, Crash, End, repoVars
<1>2. /\ UNCHANGED notified
      /\ \A v \in Instances, p \in Intents : Buffered(v, p)' <=> v # w /\ Buffered(v, p)
  BY <1>1, OpenOrCloseEmpties, ApiAssumption DEF ApiTypeOK, Instances
<1>3. \A g \in Goroutines : calls'[g] = calls[g] \/ calls'[g] = IdleCall
  BY DEF Start, Exit, DrainTimesOut, Crash, End
<1>4. Start(w) \/ Exit(w) => \A g \in Goroutines : calls'[g] = calls[g]
  BY DEF Start, Exit, End
<1>5. /\ \A g \in Goroutines, p \in Intents : Publishing(g, p)' => Publishing(g, p)
      /\ Start(w) \/ Exit(w) => \A g \in Goroutines, p \in Intents :
                                   Publishing(g, p)' <=> Publishing(g, p)
  BY <1>3, <1>4 DEF Publishing, IdleCall
<1> QED BY <1>1, <1>2, <1>5

(* The steps that touch neither payments, buffers nor publishing calls.    *)
IsBystander ==
    \/ \E g \in Goroutines :
         \/ \E w \in Instances, q \in Intents : Accept(g, w, q)
         \/ Refuse(g) \/ CountCreated(g) \/ CountCancelled(g) \/ Answer(g)
    \/ \E w \in Instances : CountActive(w) \/ SetGauge(w) \/ RefreshFails(w) \/ Signal(w)
    \/ Others \/ UNCHANGED vars

LEMMA BystanderEffect ==
    ASSUME ApiTypeOK, IsBystander
    PROVE  /\ UNCHANGED <<transactions, queue, notified>>
           /\ \A h \in Goroutines, p \in Intents : Publishing(h, p)' <=> Publishing(h, p)
<1> USE DEF IsBystander
<1>1. UNCHANGED <<transactions, queue, notified>>
  BY DEF Accept, Refuse, CountCreated, CountCancelled, Answer, CountActive, SetGauge,
         RefreshFails, Signal, Others, ExpireOverdue, Tick, vars, repoVars, queueVars
<1>2. CASE UNCHANGED calls
  BY <1>1, <1>2 DEF Publishing
<1>3. ASSUME NEW g \in Goroutines,
             \/ \E w \in Instances, q \in Intents : Accept(g, w, q)
             \/ Refuse(g) \/ CountCreated(g) \/ CountCancelled(g) \/ Answer(g)
      PROVE  \A h \in Goroutines, p \in Intents : Publishing(h, p)' <=> Publishing(h, p)
  <2>1. /\ calls[g].pc # "paid" /\ calls'[g].pc # "paid"
        /\ \A h \in Goroutines : h # g => calls'[h] = calls[h]
    <3>1. CASE Answer(g) \/ \E w \in Instances, q \in Intents : Accept(g, w, q)
      BY <3>1 DEF Answer, Accept, IdleCall, ApiTypeOK
    <3>2. CASE Refuse(g) \/ CountCreated(g) \/ CountCancelled(g)
      <4>1. calls[g].pc # "paid" /\ calls[g] # IdleCall /\ calls' = [calls EXCEPT ![g].pc = "answering"]
        BY <3>2 DEF Refuse, CountCreated, CountCancelled, IdleCall
      <4> QED BY <4>1, CallsAreAtInstances DEF ApiTypeOK
    <3> QED BY <1>3, <3>1, <3>2
  <2> QED BY <2>1 DEF Publishing
<1> QED BY <1>1, <1>2, <1>3 DEF CountActive, SetGauge, RefreshFails, Signal, Others, vars, apiVars

(* Every step is one of these.                                             *)
LEMMA StepsByEffect ==
    ASSUME [ApiNext]_vars
    PROVE  \/ \E g \in Goroutines : Write(g) \/ WriteUnheard(g) \/ PublishPaid(g)
           \/ \E w \in Instances : \/ ConsumeEvent(w)
                                   \/ Start(w) \/ Exit(w) \/ DrainTimesOut(w) \/ Crash(w)
           \/ IsBystander
BY DEF ApiNext, IsBystander

-----------------------------------------------------------------------------
(* A step that records no payment, and neither takes events out of buffers *)
(* nor ends calls that have one to publish, leaves nobody untold.          *)
LEMMA NothingTaken ==
    ASSUME NEW p \in Intents, IsPaid(p)' => IsPaid(p), notified' = notified,
           \A w \in Instances : Buffered(w, p) => Buffered(w, p)',
           \A g \in Goroutines : Publishing(g, p) => Publishing(g, p)'
    PROVE  ~ Forgotten(p)
<1>1. Told(p) => Told(p)'
  BY DEF Told, Announcing
<1> QED BY <1>1 DEF Forgotten

LEMMA ForgottenIsForgiven ==
    ASSUME ApiTypeOK, [ApiNext]_vars, NEW p \in Intents, Forgotten(p)
    PROVE  Forgiven(p)
<1>1. ASSUME NEW g \in Goroutines, Write(g)
      PROVE  FALSE
  <2>1. \A h \in Goroutines : Publishing(h, p) => Publishing(h, p)'
    BY <1>1, WriteEffect
  <2>2. notified' = notified /\ \A w \in Instances : Buffered(w, p) => Buffered(w, p)'
    BY <1>1, WriteEffect DEF Buffered
  <2>3. (IsPaid(p)' => IsPaid(p)) \/ Publishing(g, p)'
    BY <1>1, WriteEffect
  <2> QED BY <2>1, <2>2, <2>3, NothingTaken DEF Forgotten, Told, Announcing
<1>2. ASSUME NEW g \in Goroutines, WriteUnheard(g)
      PROVE  Forgiven(p)
  BY <1>2 DEF Forgiven
<1>3. ASSUME NEW g \in Goroutines, PublishPaid(g)
      PROVE  Forgiven(p)
  <2>1. PICK w \in Instances, s \in Intents :
              /\ w = calls[g].at /\ Publishing(g, s)
              /\ \A h \in Goroutines, q \in Intents :
                    Publishing(h, q)' <=> Publishing(h, q) /\ h # g
              /\ \A v \in Instances, q \in Intents :
                    Buffered(v, q)' <=> Buffered(v, q) \/ (v = w /\ q = s /\ ~ IsFull(w))
              /\ UNCHANGED <<transactions, notified>>
    BY <1>3, PublishPaidEffect
  <2>2. CASE IsFull(w)
    BY <1>3, <2>1, <2>2 DEF Forgiven
  <2>3. CASE ~ IsFull(w)
    <3>1. ~ Buffered(w, p)'
      BY DEF Forgotten, Told, Announcing
    <3>2. p # s
      BY <2>1, <2>3, <3>1
    <3>3. \A h \in Goroutines : Publishing(h, p) => Publishing(h, p)'
      BY <2>1, <3>2 DEF Publishing
    <3>4. IsPaid(p)' => IsPaid(p)
      BY <2>1, LedgerStays DEF IsPaid, EventIsRecorded
    <3> QED BY <2>1, <3>3, <3>4, NothingTaken
  <2> QED BY <2>2, <2>3
<1>4. ASSUME NEW w \in Instances, ConsumeEvent(w)
      PROVE  FALSE
  <2>1. UNCHANGED <<transactions, calls>>
    BY <1>4, ConsumeEventEffect
  <2>2. PICK h \in Intents :
              /\ \A q \in Intents : notified'[q] = IF q = h THEN notified[q] + 1 ELSE notified[q]
              /\ \A v \in Instances, q \in Intents :
                    Buffered(v, q) => Buffered(v, q)' \/ (v = w /\ q = h)
    BY <1>4, ConsumeEventEffect
  <2>3. p # h
    <3>1. notified[p] \in Nat
      BY ApiAssumption DEF ApiTypeOK, QueueTypeOK
    <3>2. ~ notified'[p] > 0
      BY DEF Forgotten, Told
    <3> QED BY <2>2, <3>1, <3>2
  <2>4. Told(p) => Told(p)'
    BY <2>1, <2>2, <2>3 DEF Told, Announcing, Publishing
  <2> QED BY <2>1, <2>4, LedgerStays DEF Forgotten, IsPaid, EventIsRecorded
<1>5. ASSUME NEW w \in Instances, Start(w) \/ Exit(w) \/ DrainTimesOut(w) \/ Crash(w)
      PROVE  Forgiven(p)
  <2>1. CASE DrainTimesOut(w) \/ Crash(w)
    <3>1. server'[w] = "failed" /\ server[w] # "failed"
      BY <2>1 DEF DrainTimesOut, Crash, End, IsUp, ApiTypeOK
    <3> QED BY <3>1 DEF Forgiven
  <2>2. CASE Start(w) \/ Exit(w)
    <3>1. Buffered(w, p)
      <4> SUFFICES ASSUME ~ Buffered(w, p) PROVE FALSE
        OBVIOUS
      <4>1. \A v \in Instances : Buffered(v, p) => Buffered(v, p)'
        BY <1>5, LifeEffect
      <4>2. \A g \in Goroutines : Publishing(g, p) => Publishing(g, p)'
        BY <2>2, LifeEffect
      <4>3. notified' = notified /\ (IsPaid(p)' => IsPaid(p))
        BY <1>5, LifeEffect, LedgerStays DEF IsPaid, EventIsRecorded
      <4> QED BY <4>1, <4>2, <4>3, NothingTaken
    <3>2. ~ Start(w)
      BY <3>1 DEF Start, ApiTypeOK, Buffered
    <3>3. ~ IsUp(w)'
      BY <2>2, <3>2 DEF Exit, End, IsUp, ApiTypeOK
    <3> QED BY <3>1, <3>3 DEF Forgiven
  <2> QED BY <1>5, <2>1, <2>2
<1>6. ASSUME IsBystander
      PROVE  FALSE
  <2>1. UNCHANGED <<transactions, queue, notified>>
        /\ \A h \in Goroutines : Publishing(h, p) => Publishing(h, p)'
    BY <1>6, BystanderEffect
  <2> QED BY <2>1, NothingTaken, LedgerStays DEF Buffered, IsPaid, EventIsRecorded
<1> QED BY <1>1, <1>2, <1>3, <1>4, <1>5, <1>6, StepsByEffect

(* The creator of a paid subscription goes untold only by a write reported *)
(* as an error, a full buffer, a buffer that ends with its process, or a   *)
(* process that fails; an orderly shutdown waits for every publisher.      *)
THEOREM NoticesVanishOnlyAsDocumented == ApiSpec => NoNoticeVanishes
<1>1. ApiInv /\ [ApiNext]_vars
        => [\A p \in Intents :
              /\ IsPaid(p)'
              /\ ~ IsPaid(p) \/ Told(p)
              /\ ~ Told(p)'
              => \/ \E g \in Goroutines : WriteUnheard(g)
                 \/ \E g \in Goroutines : PublishPaid(g) /\ IsFull(calls[g].at)
                 \/ \E w \in Instances : ~ IsUp(w)' /\ Buffered(w, p)
                 \/ \E w \in Instances : server'[w] = "failed" /\ server[w] # "failed"]_vars
  BY ForgottenIsForgiven DEF ApiInv, Forgotten, Forgiven
<1> QED BY <1>1, ApiInvariant, PTL DEF ApiSpec, NoNoticeVanishes

-----------------------------------------------------------------------------
(* A payment's event is in one place: about to be published by one call,   *)
(* at one index of one buffer, or told.                                    *)
NoticedOnce ==
    /\ EachBufferedOnce
    /\ \A p \in Intents : notified[p] <= 1
    /\ \A p \in Intents : notified[p] = 1 => ~ Announcing(p)
    /\ \A p \in Intents : notified[p] = 1 \/ Announcing(p) => IsPaid(p)
    /\ \A p \in Intents, g, h \in Goroutines : Publishing(g, p) /\ Publishing(h, p) => g = h
    /\ \A p \in Intents, g \in Goroutines, w \in Instances : ~ (Publishing(g, p) /\ Buffered(w, p))

NoticeInv == ApiInv /\ NoticedOnce

(* A step that adds no event and tells nobody.                             *)
LEMMA NothingAdded ==
    ASSUME NoticedOnce, EachBufferedOnce', notified' = notified,
           \A p \in Intents : IsPaid(p) => IsPaid(p)',
           \A g \in Goroutines, p \in Intents : Publishing(g, p)' => Publishing(g, p),
           \A w \in Instances, p \in Intents : Buffered(w, p)' => Buffered(w, p)
    PROVE  NoticedOnce'
<1>1. \A p \in Intents : Announcing(p)' => Announcing(p)
  BY DEF Announcing, Instances
<1> QED BY <1>1 DEF NoticedOnce, Instances

LEMMA NoticedOnceStep ==
    ASSUME NoticeInv, [ApiNext]_vars
    PROVE  NoticedOnce'
<1> USE DEF NoticeInv, ApiInv
<1>1. ApiTypeOK /\ QueueTypeOK /\ \A p \in Intents : notified[p] \in Nat
  BY ApiAssumption DEF ApiTypeOK, QueueTypeOK
<1>2. EachBufferedOnce
  BY DEF NoticedOnce
<1>3. ASSUME NEW g \in Goroutines, Write(g)
      PROVE  NoticedOnce'
  <2>1. notified' = notified /\ EachBufferedOnce'
        /\ \A w \in Instances, p \in Intents : Buffered(w, p)' <=> Buffered(w, p)
    BY <1>2, <1>3, WriteEffect DEF EachBufferedOnce, Buffered
  <2>2. CASE /\ \A p \in Intents : IsPaid(p)' <=> IsPaid(p)
             /\ \A h \in Goroutines, p \in Intents : Publishing(h, p)' <=> Publishing(h, p)
    BY <2>1, <2>2, NothingAdded
  <2>3. ASSUME NEW s \in Intents, ~ IsPaid(s),
               \A p \in Intents : IsPaid(p)' <=> IsPaid(p) \/ p = s,
               \A h \in Goroutines, p \in Intents :
                  Publishing(h, p)' <=> Publishing(h, p) \/ (h = g /\ p = s)
        PROVE  NoticedOnce'
    <3>1. ~ Announcing(s) /\ notified[s] # 1
      BY <2>3 DEF NoticedOnce
    <3>2. \A p \in Intents : Announcing(p)' <=> Announcing(p) \/ p = s
      BY <2>1, <2>3 DEF Announcing, Instances
    <3>3. \A h \in Goroutines, w \in Instances : ~ Publishing(h, s) /\ ~ Buffered(w, s)
      BY <3>1 DEF Announcing
    <3>4. /\ \A p \in Intents : notified'[p] <= 1
          /\ \A p \in Intents : notified'[p] = 1 => ~ Announcing(p)'
          /\ \A p \in Intents : notified'[p] = 1 \/ Announcing(p)' => IsPaid(p)'
      BY <2>1, <2>3, <3>1, <3>2 DEF NoticedOnce
    <3>5. ASSUME NEW p \in Intents, NEW h \in Goroutines, NEW k \in Goroutines,
                 Publishing(h, p)', Publishing(k, p)'
          PROVE  h = k
      <4>1. CASE p = s
        <5>1. ~ Publishing(h, p) /\ ~ Publishing(k, p)
          BY <3>1, <4>1 DEF Announcing
        <5>2. h = g /\ k = g
          BY <2>3, <3>5, <5>1
        <5> QED BY <5>2
      <4>2. CASE p # s
        <5>1. Publishing(h, p) /\ Publishing(k, p)
          BY <2>3, <3>5, <4>2
        <5> QED BY <5>1 DEF NoticedOnce
      <4> QED BY <4>1, <4>2
    <3>6. \A p \in Intents, h \in Goroutines, w \in Instances :
             ~ (Publishing(h, p)' /\ Buffered(w, p)')
      BY <2>1, <2>3, <3>3 DEF NoticedOnce
    <3> QED BY <2>1, <3>4, <3>5, <3>6 DEF NoticedOnce, Instances
  <2> QED BY <1>3, <2>2, <2>3, WriteEffect
<1>4. ASSUME NEW g \in Goroutines, WriteUnheard(g)
      PROVE  NoticedOnce'
  <2>1. EachBufferedOnce' /\ \A w \in Instances, p \in Intents : Buffered(w, p)' <=> Buffered(w, p)
    BY <1>2, <1>4, UnheardEffect DEF EachBufferedOnce, Buffered
  <2>2. \A p \in Intents : IsPaid(p) => IsPaid(p)'
    BY <1>4, UnheardEffect
  <2> QED BY <1>4, <2>1, <2>2, UnheardEffect, NothingAdded
<1>5. ASSUME NEW g \in Goroutines, PublishPaid(g)
      PROVE  NoticedOnce'
  <2>1. PICK w \in Instances, s \in Intents :
              /\ Publishing(g, s) /\ Publish(w, s)
              /\ \A h \in Goroutines, p \in Intents :
                    Publishing(h, p)' <=> Publishing(h, p) /\ h # g
              /\ \A v \in Instances, p \in Intents :
                    Buffered(v, p)' <=> Buffered(v, p) \/ (v = w /\ p = s /\ ~ IsFull(w))
              /\ UNCHANGED <<transactions, notified>>
    BY <1>5, PublishPaidEffect
  <2>2. \A v \in Instances : ~ Buffered(v, s)
    BY <2>1 DEF NoticedOnce
  <2>3. EachBufferedOnce'
    BY <1>1, <1>2, <2>1, <2>2, PublishKeepsOnce, ApiAssumption DEF Instances
  <2>4. \A p \in Intents : IsPaid(p)' <=> IsPaid(p)
    BY <2>1, LedgerStays DEF IsPaid, EventIsRecorded
  <2>5. Announcing(s) /\ \A h \in Goroutines : h # g => ~ Publishing(h, s)
    BY <2>1 DEF NoticedOnce, Announcing
  <2>6. \A p \in Intents : Announcing(p)' => Announcing(p)
    BY <2>1, <2>5 DEF Announcing, Instances
  <2>7. /\ \A p \in Intents : notified'[p] <= 1
        /\ \A p \in Intents : notified'[p] = 1 => ~ Announcing(p)'
        /\ \A p \in Intents : notified'[p] = 1 \/ Announcing(p)' => IsPaid(p)'
    BY <2>1, <2>4, <2>6 DEF NoticedOnce
  <2>8. \A p \in Intents, h, k \in Goroutines : Publishing(h, p)' /\ Publishing(k, p)' => h = k
    BY <2>1 DEF NoticedOnce
  <2>9. \A p \in Intents, h \in Goroutines, v \in Instances :
           ~ (Publishing(h, p)' /\ Buffered(v, p)')
    BY <2>1, <2>5 DEF NoticedOnce
  <2> QED BY <2>3, <2>7, <2>8, <2>9 DEF NoticedOnce, Instances
<1>6. ASSUME NEW w \in Instances, ConsumeEvent(w)
      PROVE  NoticedOnce'
  <2>1. UNCHANGED <<transactions, calls>> /\ Consume(w)
    BY <1>6, ConsumeEventEffect
  <2>2. PICK h \in Intents :
                 /\ h = Head(queue[w]) /\ Buffered(w, h)
                 /\ \A p \in Intents :
                       notified'[p] = IF p = h THEN notified[p] + 1 ELSE notified[p]
                 /\ \A v \in Instances, p \in Intents : Buffered(v, p)' => Buffered(v, p)
    BY <1>6, ConsumeEventEffect
  <2>3. EachBufferedOnce' /\ \A v \in Instances : ~ Buffered(v, h)'
    BY <1>1, <1>2, <2>1, <2>2, ConsumeKeepsOnce, ApiAssumption DEF Instances
  <2>4. /\ \A g \in Goroutines, p \in Intents : Publishing(g, p)' <=> Publishing(g, p)
        /\ \A p \in Intents : IsPaid(p)' <=> IsPaid(p)
    BY <2>1, LedgerStays DEF Publishing, IsPaid, EventIsRecorded
  <2>5. Announcing(h) /\ \A g \in Goroutines : ~ Publishing(g, h)
    BY <2>2 DEF NoticedOnce, Announcing
  <2>6. \A p \in Intents : Announcing(p)' => Announcing(p) /\ p # h
    BY <2>2, <2>3, <2>4, <2>5 DEF Announcing, Instances
  <2>7. notified[h] = 0 /\ notified'[h] = 1
    <3>1. notified[h] # 1 /\ notified[h] <= 1
      BY <2>5 DEF NoticedOnce
    <3> QED BY <1>1, <2>2, <3>1
  <2>8. /\ \A p \in Intents : notified'[p] <= 1
        /\ \A p \in Intents : notified'[p] = 1 => ~ Announcing(p)'
        /\ \A p \in Intents : notified'[p] = 1 \/ Announcing(p)' => IsPaid(p)'
    BY <2>2, <2>4, <2>5, <2>6, <2>7 DEF NoticedOnce
  <2>9. \A p \in Intents, g \in Goroutines, v \in Instances :
           ~ (Publishing(g, p)' /\ Buffered(v, p)')
    BY <2>2, <2>4 DEF NoticedOnce
  <2> QED BY <2>3, <2>4, <2>8, <2>9 DEF NoticedOnce, Instances
<1>7. ASSUME NEW w \in Instances, Start(w) \/ Exit(w) \/ DrainTimesOut(w) \/ Crash(w)
      PROVE  NoticedOnce'
  <2>1. EachBufferedOnce'
    BY <1>1, <1>2, <1>7, LifeEffect, OpenOrCloseEmpties DEF Instances
  <2>2. \A p \in Intents : IsPaid(p) => IsPaid(p)'
    BY <1>7, LifeEffect, LedgerStays DEF IsPaid, EventIsRecorded
  <2> QED BY <1>7, <2>1, <2>2, LifeEffect, NothingAdded
<1>8. CASE IsBystander
  <2>1. EachBufferedOnce' /\ \A w \in Instances, p \in Intents : Buffered(w, p)' <=> Buffered(w, p)
    BY <1>2, <1>8, BystanderEffect DEF EachBufferedOnce, Buffered
  <2>2. \A p \in Intents : IsPaid(p) => IsPaid(p)'
    BY <1>8, BystanderEffect, LedgerStays DEF IsPaid, EventIsRecorded
  <2> QED BY <1>8, <2>1, <2>2, BystanderEffect, NothingAdded
<1> QED BY <1>3, <1>4, <1>5, <1>6, <1>7, <1>8, StepsByEffect

LEMMA NoticeInvInit == ApiInit => NoticeInv
<1> SUFFICES ASSUME ApiInit
             PROVE  NoticedOnce
  BY ApiInvInit DEF NoticeInv
<1>1. /\ \A g \in Goroutines, p \in Intents : ~ Publishing(g, p)
      /\ \A w \in Instances : queue[w] = <<>>
      /\ \A p \in Intents : notified[p] = 0
  BY ApiAssumption DEF ApiInit, QueueInit, Publishing, IdleCall, Instances
<1> QED BY <1>1 DEF NoticedOnce, EachBufferedOnce, Announcing, Buffered, Instances

(* However deliveries repeat, instances end and start again: a payment is  *)
(* announced by one call, buffered once and told once.                     *)
THEOREM PaymentsNoticedOnce == ApiSpec => []NoticeInv
<1>1. NoticeInv /\ [ApiNext]_vars => NoticeInv'
  BY ApiInvStep, NoticedOnceStep DEF NoticeInv
<1> QED BY <1>1, NoticeInvInit, PTL DEF ApiSpec

-----------------------------------------------------------------------------
(* In every reachable state a notice is somewhere, and in one place.       *)
Place(p) == IF notified[p] = 1 THEN "told"
            ELSE IF Announcing(p) THEN "due"
            ELSE IF IsPaid(p) THEN "lost"
            ELSE "none"

LEMMA NoticeHasItsPlace == NoticeInv => \A p \in Intents : NoticeOf(p) = Place(p)
<1> SUFFICES ASSUME NoticeInv, NEW p \in Intents
             PROVE  NoticeOf(p) = Place(p)
  OBVIOUS
<1>1. notified[p] = 0 \/ notified[p] = 1
  <2>1. notified[p] \in Nat /\ notified[p] <= 1
    BY ApiAssumption DEF NoticeInv, ApiInv, ApiTypeOK, QueueTypeOK, NoticedOnce
  <2> QED BY <2>1
<1>2. /\ notified[p] = 1 => ~ Announcing(p) /\ IsPaid(p)
      /\ Announcing(p) => IsPaid(p)
  BY DEF NoticeInv, NoticedOnce
<1> QED BY <1>1, <1>2 DEF NoticeOf, Place

(* Notices that all make one legal move make a step of the promise.        *)
LEMMA OneMoveIsAStep ==
    ASSUME NEW from, NEW to,
           <<from, to>> \in {<<"none", "due">>, <<"none", "lost">>, <<"due", "lost">>},
           \A p \in Intents : \/ NoticeOf(p)' = NoticeOf(p)
                              \/ NoticeOf(p) = from /\ NoticeOf(p)' = to
    PROVE  [Promise!Next]_[p \in Intents |-> NoticeOf(p)]
<1> DEFINE S == {p \in Intents : NoticeOf(p) = from /\ NoticeOf(p)' = to}
<1>1. Promise!Move(S, from, to)
  BY ApiAssumption DEF Promise!Move
<1>2. S \in SUBSET Notices
  BY ApiAssumption
<1> HIDE DEF S
<1> QED BY <1>1, <1>2 DEF Promise!Next, Promise!FallDue, Promise!Miss, Promise!Lose

LEMMA TellIsAStep ==
    ASSUME NEW h \in Intents, NoticeOf(h) = "due", NoticeOf(h)' = "told",
           \A p \in Intents : p # h => NoticeOf(p)' = NoticeOf(p)
    PROVE  [Promise!Next]_[p \in Intents |-> NoticeOf(p)]
<1>1. Promise!Tell(h)
  BY ApiAssumption DEF Promise!Tell, Promise!Move
<1> QED BY <1>1, ApiAssumption DEF Promise!Next

LEMMA ApiStepKeepsPromise ==
    ASSUME NoticeInv, NoticeInv', [ApiNext]_vars
    PROVE  [Promise!Next]_[p \in Intents |-> NoticeOf(p)]
<1>1. \A p \in Intents : NoticeOf(p) = Place(p) /\ NoticeOf(p)' = Place(p)'
  <2>1. (NoticeInv => \A p \in Intents : NoticeOf(p) = Place(p))'
    BY NoticeHasItsPlace, PTL
  <2> QED BY <2>1, NoticeHasItsPlace
<1>2. ApiTypeOK /\ \A p \in Intents : /\ notified[p] = 1 => ~ Announcing(p)
                                      /\ notified[p] = 1 \/ Announcing(p) => IsPaid(p)
  BY DEF NoticeInv, ApiInv, NoticedOnce
<1>3. ASSUME NEW g \in Goroutines, Write(g)
      PROVE  [Promise!Next]_[p \in Intents |-> NoticeOf(p)]
  <2>1. notified' = notified /\ \A w \in Instances, p \in Intents : Buffered(w, p)' <=> Buffered(w, p)
    BY <1>2, <1>3, WriteEffect DEF Buffered
  <2>2. CASE /\ \A p \in Intents : IsPaid(p)' <=> IsPaid(p)
             /\ \A h \in Goroutines, p \in Intents : Publishing(h, p)' <=> Publishing(h, p)
    <3>1. \A p \in Intents : Announcing(p)' <=> Announcing(p)
      BY <2>1, <2>2 DEF Announcing, Instances
    <3>2. \A p \in Intents : Place(p)' = Place(p)
      BY <2>1, <2>2, <3>1 DEF Place
    <3> QED BY <1>1, <3>2, OneMoveIsAStep
  <2>3. ASSUME NEW s \in Intents, ~ IsPaid(s),
               \A p \in Intents : IsPaid(p)' <=> IsPaid(p) \/ p = s,
               \A h \in Goroutines, p \in Intents :
                  Publishing(h, p)' <=> Publishing(h, p) \/ (h = g /\ p = s)
        PROVE  [Promise!Next]_[p \in Intents |-> NoticeOf(p)]
    <3>1. \A p \in Intents : Announcing(p)' <=> Announcing(p) \/ p = s
      BY <2>1, <2>3 DEF Announcing, Instances
    <3>2. ASSUME NEW p \in Intents
          PROVE  Place(p)' = Place(p) \/ (Place(p) = "none" /\ Place(p)' = "due")
      BY <1>2, <2>1, <2>3, <3>1 DEF Place
    <3> QED BY <1>1, <3>2, OneMoveIsAStep
  <2> QED BY <1>2, <1>3, <2>2, <2>3, WriteEffect
<1>4. ASSUME NEW g \in Goroutines, WriteUnheard(g)
      PROVE  [Promise!Next]_[p \in Intents |-> NoticeOf(p)]
  <2>1. /\ notified' = notified
        /\ \A w \in Instances, p \in Intents : Buffered(w, p)' <=> Buffered(w, p)
        /\ \A h \in Goroutines, p \in Intents : Publishing(h, p)' <=> Publishing(h, p)
    BY <1>2, <1>4, UnheardEffect DEF Buffered
  <2>2. \A p \in Intents : Announcing(p)' <=> Announcing(p)
    BY <2>1 DEF Announcing, Instances
  <2>3. \A p \in Intents : IsPaid(p) => IsPaid(p)'
    BY <1>2, <1>4, UnheardEffect
  <2>4. ASSUME NEW p \in Intents
        PROVE  Place(p)' = Place(p) \/ (Place(p) = "none" /\ Place(p)' = "lost")
    BY <2>1, <2>2, <2>3 DEF Place
  <2> QED BY <1>1, <2>4, OneMoveIsAStep
<1>5. ASSUME NEW g \in Goroutines, PublishPaid(g)
      PROVE  [Promise!Next]_[p \in Intents |-> NoticeOf(p)]
  <2>1. PICK w \in Instances, s \in Intents :
              /\ Publishing(g, s)
              /\ \A h \in Goroutines, p \in Intents :
                    Publishing(h, p)' <=> Publishing(h, p) /\ h # g
              /\ \A v \in Instances, p \in Intents :
                    Buffered(v, p)' <=> Buffered(v, p) \/ (v = w /\ p = s /\ ~ IsFull(w))
              /\ UNCHANGED <<transactions, notified>>
    BY <1>2, <1>5, PublishPaidEffect
  <2>2. \A p \in Intents : (IsPaid(p)' <=> IsPaid(p)) /\ (Announcing(p)' => Announcing(p))
    BY <2>1, LedgerStays DEF IsPaid, EventIsRecorded, Announcing, Instances
  <2>3. ASSUME NEW p \in Intents
        PROVE  Place(p)' = Place(p) \/ (Place(p) = "due" /\ Place(p)' = "lost")
    BY <1>2, <2>1, <2>2 DEF Place
  <2> QED BY <1>1, <2>3, OneMoveIsAStep
<1>6. ASSUME NEW w \in Instances, ConsumeEvent(w)
      PROVE  [Promise!Next]_[p \in Intents |-> NoticeOf(p)]
  <2>1. UNCHANGED <<transactions, calls>>
    BY <1>2, <1>6, ConsumeEventEffect
  <2>2. PICK h \in Intents :
                 /\ Buffered(w, h)
                 /\ \A p \in Intents :
                       notified'[p] = IF p = h THEN notified[p] + 1 ELSE notified[p]
                 /\ \A v \in Instances, p \in Intents :
                       /\ Buffered(v, p)' => Buffered(v, p)
                       /\ Buffered(v, p) => Buffered(v, p)' \/ (v = w /\ p = h)
    BY <1>2, <1>6, ConsumeEventEffect
  <2>3. \A p \in Intents : /\ IsPaid(p)' <=> IsPaid(p)
                           /\ p # h => (Announcing(p)' <=> Announcing(p))
    BY <2>1, <2>2, LedgerStays DEF IsPaid, EventIsRecorded, Announcing, Publishing, Instances
  <2>4. Announcing(h)
    BY <2>2 DEF Announcing
  <2>5. notified[h] = 0 /\ notified'[h] = 1
    <3>1. notified[h] \in Nat /\ notified[h] <= 1 /\ notified[h] # 1
      BY <1>2, <2>4, ApiAssumption DEF NoticeInv, NoticedOnce, ApiTypeOK, QueueTypeOK
    <3> QED BY <2>2, <3>1
  <2>6. Place(h) = "due" /\ Place(h)' = "told"
    BY <2>4, <2>5 DEF Place
  <2>7. \A p \in Intents : p # h => Place(p)' = Place(p)
    BY <2>2, <2>3 DEF Place
  <2> QED BY <1>1, <2>6, <2>7, TellIsAStep
<1>7. ASSUME NEW w \in Instances, Start(w) \/ Exit(w) \/ DrainTimesOut(w) \/ Crash(w)
      PROVE  [Promise!Next]_[p \in Intents |-> NoticeOf(p)]
  <2>1. /\ UNCHANGED <<transactions, notified>>
        /\ \A v \in Instances, p \in Intents : Buffered(v, p)' => Buffered(v, p)
        /\ \A g \in Goroutines, p \in Intents : Publishing(g, p)' => Publishing(g, p)
    BY <1>2, <1>7, LifeEffect
  <2>2. \A p \in Intents : (IsPaid(p)' <=> IsPaid(p)) /\ (Announcing(p)' => Announcing(p))
    BY <2>1, LedgerStays DEF IsPaid, EventIsRecorded, Announcing, Instances
  <2>3. ASSUME NEW p \in Intents
        PROVE  Place(p)' = Place(p) \/ (Place(p) = "due" /\ Place(p)' = "lost")
    BY <1>2, <2>1, <2>2 DEF Place
  <2> QED BY <1>1, <2>3, OneMoveIsAStep
<1>8. CASE IsBystander
  <2>1. /\ UNCHANGED <<transactions, queue, notified>>
        /\ \A h \in Goroutines, p \in Intents : Publishing(h, p)' <=> Publishing(h, p)
    BY <1>2, <1>8, BystanderEffect
  <2>2. \A p \in Intents : (IsPaid(p)' <=> IsPaid(p)) /\ (Announcing(p)' <=> Announcing(p))
    BY <2>1, LedgerStays DEF IsPaid, EventIsRecorded, Announcing, Buffered, Instances
  <2>3. \A p \in Intents : Place(p)' = Place(p)
    BY <2>1, <2>2 DEF Place
  <2> QED BY <1>1, <2>3, OneMoveIsAStep
<1> QED BY <1>3, <1>4, <1>5, <1>6, <1>7, <1>8, StepsByEffect

(* Instances that serve, drain, exit, crash and start again keep the       *)
(* promise of CreatorNotices: a payment's notice falls due with the COMMIT,*)
(* its creator is told once at most, and what is lost is never told.       *)
THEOREM InstancesKeepNoticePromise == ApiSpec => NoticeSpec
<1>1. ApiInit => Promise!Init
  <2> SUFFICES ASSUME ApiInit
               PROVE  \A p \in Intents : NoticeOf(p) = "none"
    BY ApiAssumption DEF Promise!Init
  <2>1. \A p \in Intents : notified[p] = 0 /\ ~ IsPaid(p) /\ ~ Announcing(p)
    BY ApiAssumption, NothingIsRecordedFirst
       DEF ApiInit, QueueInit, IsPaid, EventIsRecorded, Announcing,
           Publishing, IdleCall, Buffered, Instances
  <2> QED BY <2>1 DEF NoticeOf
<1>2. NoticeInv /\ NoticeInv' /\ [ApiNext]_vars
        => [Promise!Next]_[p \in Intents |-> NoticeOf(p)]
  BY ApiStepKeepsPromise
<1> QED BY <1>1, <1>2, PaymentsNoticedOnce, PTL DEF ApiSpec, NoticeSpec, Promise!Spec

-----------------------------------------------------------------------------
(* The counters.                                                           *)

(* Only a signal makes an instance drain, so an instance that ends leaves  *)
(* a trace in signals or faults.                                           *)
DrainingWasSignalled == \A w \in Instances : server[w] = "draining" => signals > 0

(* Cardinalities mean something of finite sets only: finitely many calls   *)
(* have counted or owe a count, though Goroutines may be any set.          *)
CountsAreFinite ==
    /\ IsFiniteSet(Incs(created)) /\ IsFiniteSet(Owing("created"))
    /\ IsFiniteSet(Incs(cancelled)) /\ IsFiniteSet(Owing("cancelled"))

CounterInv == ApiInv /\ DrainingWasSignalled /\ CountsAreFinite /\ CountersAreRight

-----------------------------------------------------------------------------
(* What an Inc() adds to a counter. *)
LEMMA IncAddsOne ==
    ASSUME NEW c \in [Instances -> Nat], NEW w \in Instances, IsFiniteSet(Incs(c))
    PROVE  LET d == [c EXCEPT ![w] = @ + 1]
           IN  IsFiniteSet(Incs(d)) /\ Cardinality(Incs(d)) = Cardinality(Incs(c)) + 1
<1> DEFINE d == [c EXCEPT ![w] = @ + 1]
           t == <<w, c[w] + 1>>
<1>1. \A v \in Instances :
        {v} \X (1..d[v]) = IF v = w THEN ({w} \X (1..c[w])) \cup {t} ELSE {v} \X (1..c[v])
  <2>1. \A n \in Nat : 1..(n + 1) = (1..n) \cup {n + 1}
    OBVIOUS
  <2>2. c[w] \in Nat /\ d[w] = c[w] + 1
    OBVIOUS
  <2>3. 1..d[w] = (1..c[w]) \cup {c[w] + 1}
    BY <2>1, <2>2
  <2>4. {w} \X (1..d[w]) = ({w} \X (1..c[w])) \cup {t}
    BY <2>3
  <2>5. \A v \in Instances : v # w => d[v] = c[v]
    OBVIOUS
  <2> HIDE DEF d, t
  <2>6. ASSUME NEW v \in Instances, v # w
        PROVE  {v} \X (1..d[v]) = {v} \X (1..c[v])
    BY <2>5, <2>6
  <2>7. ASSUME NEW v \in Instances
        PROVE  {v} \X (1..d[v]) = IF v = w THEN ({w} \X (1..c[w])) \cup {t} ELSE {v} \X (1..c[v])
    <3>1. CASE v = w
      BY <2>4, <3>1
    <3>2. CASE v # w
      BY <2>6, <3>2
    <3> QED BY <3>1, <3>2
  <2> QED BY <2>7
<1>2. Incs(d) = Incs(c) \cup {t}
  <2> HIDE DEF d, t
  <2> QED BY <1>1 DEF Incs
<1>3. t \notin Incs(c)
  <2>1. \A v \in Instances : t \notin {v} \X (1..c[v])
    OBVIOUS
  <2> QED BY <2>1 DEF Incs
<1>4. IsFiniteSet(Incs(c) \cup {t}) /\ Cardinality(Incs(c) \cup {t}) = Cardinality(Incs(c)) + 1
  <2> HIDE DEF t
  <2> QED BY <1>3, FS_AddElement
<1> QED BY <1>2, <1>4

(* What a process that ends takes away.                                    *)
LEMMA EndForgetsIncs ==
    ASSUME NEW c \in [Instances -> Nat], NEW w \in Instances, IsFiniteSet(Incs(c))
    PROVE  LET d == [c EXCEPT ![w] = 0]
           IN  IsFiniteSet(Incs(d)) /\ Cardinality(Incs(d)) <= Cardinality(Incs(c))
<1> DEFINE d == [c EXCEPT ![w] = 0]
<1>1. \A v \in Instances : {v} \X (1..d[v]) \subseteq {v} \X (1..c[v])
  OBVIOUS
<1>2. Incs(d) \subseteq Incs(c)
  BY <1>1 DEF Incs
<1> QED BY <1>2, FS_Subset

(* What the step of one call does to the calls that owe a count.           *)
LEMMA OwingMoves ==
    ASSUME NEW what, IsFiniteSet(Owing(what)), NEW g \in Goroutines,
           \A h \in Goroutines : h # g => calls'[h] = calls[h]
    PROVE  /\ IsFiniteSet(Owing(what)')
           /\ Cardinality(Owing(what)') =
                Cardinality(Owing(what)) - (IF calls[g].pc = what THEN 1 ELSE 0)
                                         + (IF calls'[g].pc = what THEN 1 ELSE 0)
<1> DEFINE rest == Owing(what) \ {g}
<1>1. /\ IsFiniteSet(rest)
      /\ Cardinality(rest) = Cardinality(Owing(what)) - (IF calls[g].pc = what THEN 1 ELSE 0)
  <2>1. g \in Owing(what) <=> calls[g].pc = what
    BY DEF Owing
  <2>2. Cardinality(Owing(what)) \in Nat
    BY FS_CardinalityType
  <2> QED BY <2>1, <2>2, FS_RemoveElement
<1>2. CASE calls'[g].pc = what
  <2>1. Owing(what)' = rest \cup {g}
    BY <1>2 DEF Owing
  <2>2. IsFiniteSet(rest \cup {g}) /\ Cardinality(rest \cup {g}) = Cardinality(rest) + 1
    <3> HIDE DEF rest
    <3>1. g \notin rest
      BY DEF rest
    <3> QED BY <1>1, <3>1, FS_AddElement
  <2> QED BY <1>1, <1>2, <2>1, <2>2
<1>3. CASE calls'[g].pc # what
  <2>1. Owing(what)' = rest
    BY <1>3 DEF Owing
  <2>2. Cardinality(rest) \in Nat
    BY <1>1, FS_CardinalityType
  <2> QED BY <1>1, <1>3, <2>1, <2>2
<1> QED BY <1>2, <1>3

(* What a write does to the rows a counter is compared with.               *)
LEMMA RowsOfWrite ==
    ASSUME ApiInv, NEW p \in Intents, NEW next, Writes(p, next)
    PROVE  /\ Cardinality(Inserted') =
                Cardinality(Inserted) + (IF next = "created" THEN 1 ELSE 0)
           /\ Cardinality(CancelledRows') =
                Cardinality(CancelledRows) + (IF next = "cancelled" THEN 1 ELSE 0)
<1> USE DEF ApiInv, ApiTypeOK, RepoTypeOK
<1>1. /\ IsFiniteSet(Inserted) /\ IsFiniteSet(CancelledRows)
      /\ Cardinality(Inserted) \in Nat /\ Cardinality(CancelledRows) \in Nat
  <2>1. CancelledRows \subseteq Inserted
    BY DEF Inserted, CancelledRows, NoRow
  <2>2. IsFiniteSet(Inserted) /\ IsFiniteSet(CancelledRows)
    BY <2>1, FS_Subset
  <2> QED BY <2>2, FS_CardinalityType
<1>2. CASE next = "created" /\ \E u \in Users, c \in Creators : CreatePending(p, u, c)
  <2>1. p \notin Inserted /\ Inserted' = Inserted \cup {p} /\ CancelledRows' = CancelledRows
    BY <1>2 DEF CreatePending, Inserted, CancelledRows, Rows, NoRow, Statuses
  <2>2. Cardinality(Inserted \cup {p}) = Cardinality(Inserted) + 1
    BY <1>1, <2>1, FS_AddElement
  <2> QED BY <1>1, <1>2, <2>1, <2>2
<1>3. CASE next = "paid" /\ \E amount \in Amounts : MarkPaymentSucceeded(p, p, amount)
  <2>1. Inserted' = Inserted /\ CancelledRows' = CancelledRows
    BY <1>3 DEF MarkPaymentSucceeded, Inserted, CancelledRows, Rows, NoRow, Statuses
  <2> QED BY <1>1, <1>3, <2>1
<1>4. CASE next = "cancelled" /\ (MarkPaymentFailed(p) \/ Cancel(p))
  <2>1. /\ p \notin CancelledRows /\ CancelledRows' = CancelledRows \cup {p}
        /\ Inserted' = Inserted
    BY <1>4 DEF MarkPaymentFailed, Cancel, Inserted, CancelledRows, Rows, NoRow, Statuses
  <2>2. Cardinality(CancelledRows \cup {p}) = Cardinality(CancelledRows) + 1
    BY <1>1, <2>1, FS_AddElement
  <2> QED BY <1>1, <1>4, <2>1, <2>2
<1>5. CASE next = "answering" /\ Renew(p)
  <2>1. Inserted' = Inserted /\ CancelledRows' = CancelledRows
    BY <1>5 DEF Renew, Inserted, CancelledRows, Rows, NoRow, Statuses
  <2> QED BY <1>1, <1>5, <2>1
<1> QED BY <1>2, <1>3, <1>4, <1>5 DEF Writes

(* The sweep neither inserts nor cancels.                                  *)
LEMMA SweepKeepsRows ==
    ASSUME RepoTypeOK, Others
    PROVE  UNCHANGED <<Inserted, CancelledRows>>
BY DEF Others, ExpireOverdue, Overdue, Tick, RepoTypeOK, Rows, NoRow, Statuses, Inserted,
       CancelledRows

(* The cardinalities are numbers.                                          *)
LEMMA CountsAreNumbers ==
    ASSUME IsFiniteSet(Inserted), CountsAreFinite
    PROVE  /\ Cardinality(Incs(created)) \in Nat /\ Cardinality(Owing("created")) \in Nat
           /\ Cardinality(Incs(cancelled)) \in Nat /\ Cardinality(Owing("cancelled")) \in Nat
           /\ Cardinality(Inserted) \in Nat /\ Cardinality(CancelledRows) \in Nat
<1>1. CancelledRows \subseteq Inserted
  BY DEF CancelledRows, Inserted, NoRow
<1>2. IsFiniteSet(CancelledRows)
  BY <1>1, FS_Subset
<1> QED BY <1>2, FS_CardinalityType DEF CountsAreFinite

-----------------------------------------------------------------------------
LEMMA CounterInvInit == ApiInit => CounterInv
<1> SUFFICES ASSUME ApiInit
             PROVE  CounterInv
  OBVIOUS
<1>1. ApiInv /\ DrainingWasSignalled
  BY ApiInvInit DEF ApiInit, DrainingWasSignalled
<1>2. /\ Incs(created) = {} /\ Owing("created") = {}
      /\ Incs(cancelled) = {} /\ Owing("cancelled") = {}
      /\ Inserted = {} /\ CancelledRows = {}
  BY DEF ApiInit, RepoInit, Incs, Owing, Inserted, CancelledRows, IdleCall, NoRow
<1>3. CountsAreFinite /\ CountersAreRight
  BY <1>2, FS_EmptySet DEF CountsAreFinite, CountersAreRight, Counted
<1> QED BY <1>1, <1>3 DEF CounterInv

(* The step of one call changes that call only.                            *)
LEMMA OneCallMoves ==
    ASSUME ApiTypeOK, NEW g \in Goroutines, NEW next, calls' = [calls EXCEPT ![g].pc = next],
           calls[g] # IdleCall
    PROVE  calls'[g].pc = next /\ \A h \in Goroutines : h # g => calls'[h] = calls[h]
<1>1. calls[g] \in [pc : CallStates, at : Instances, sub : Intents]
  BY CallsAreAtInstances
<1>2. calls \in [Goroutines -> Calls]
  BY DEF ApiTypeOK
<1> QED BY <1>1, <1>2

(* A write adds a row and a call that owes its count, or, unheard, a row   *)
(* that is never counted.                                                  *)
LEMMA WriteOwesACount ==
    ASSUME CounterInv, NEW g \in Goroutines, Write(g) \/ WriteUnheard(g)
    PROVE  CountsAreFinite' /\ CountersAreRight'
<1> USE DEF CounterInv
<1>1. calls[g].pc = "working" /\ calls[g].sub \in Intents
  BY DEF Write, WriteUnheard, ApiInv, ApiTypeOK, Calls, IdleCall
<1>2. PICK next \in CallStates :
        /\ Writes(calls[g].sub, next)
        /\ \/ calls' = [calls EXCEPT ![g].pc = next] /\ UNCHANGED <<faults, signals>>
           \/ calls' = [calls EXCEPT ![g].pc = "answering"] /\ faults' > 0
  <2>1. faults \in Nat
    BY DEF ApiInv, ApiTypeOK
  <2>2. CASE Write(g)
    BY <2>2 DEF Write
  <2>3. CASE WriteUnheard(g)
    BY <2>1, <2>3 DEF WriteUnheard, Fault
  <2> QED BY <2>2, <2>3
<1>9. PICK s \in Intents : s = calls[g].sub
  BY <1>1
<1>3. /\ \A h \in Goroutines : h # g => calls'[h] = calls[h]
      /\ \/ calls'[g].pc = next /\ UNCHANGED <<faults, signals>>
         \/ calls'[g].pc = "answering" /\ faults' > 0
  <2>1. ApiTypeOK /\ calls[g] # IdleCall
    BY <1>1 DEF ApiInv, IdleCall
  <2> QED BY <1>2, <2>1, OneCallMoves
<1>4. UNCHANGED <<Incs(created), Incs(cancelled)>>
  BY DEF Write, WriteUnheard, Incs
<1>5. /\ IsFiniteSet(Owing("created")')
      /\ Cardinality(Owing("created")') =
           Cardinality(Owing("created")) + (IF calls'[g].pc = "created" THEN 1 ELSE 0)
      /\ IsFiniteSet(Owing("cancelled")')
      /\ Cardinality(Owing("cancelled")') =
           Cardinality(Owing("cancelled")) + (IF calls'[g].pc = "cancelled" THEN 1 ELSE 0)
  <2>1. /\ Cardinality(Owing("created")) \in Nat /\ Cardinality(Owing("cancelled")) \in Nat
        /\ IsFiniteSet(Owing("created")) /\ IsFiniteSet(Owing("cancelled"))
    BY CountsAreNumbers DEF CountsAreFinite, ApiInv
  <2>2. calls[g].pc # "created" /\ calls[g].pc # "cancelled"
    BY <1>1
  <2>3. /\ IsFiniteSet(Owing("created")')
        /\ Cardinality(Owing("created")') =
             Cardinality(Owing("created")) + (IF calls'[g].pc = "created" THEN 1 ELSE 0)
    BY <1>3, <2>1, <2>2, OwingMoves
  <2>4. /\ IsFiniteSet(Owing("cancelled")')
        /\ Cardinality(Owing("cancelled")') =
             Cardinality(Owing("cancelled")) + (IF calls'[g].pc = "cancelled" THEN 1 ELSE 0)
    BY <1>3, <2>1, <2>2, OwingMoves
  <2> QED BY <2>3, <2>4
<1>6. /\ Cardinality(Inserted') = Cardinality(Inserted) + (IF next = "created" THEN 1 ELSE 0)
      /\ Cardinality(CancelledRows') =
           Cardinality(CancelledRows) + (IF next = "cancelled" THEN 1 ELSE 0)
  <2>1. Writes(s, next)
    BY <1>2, <1>9
  <2> QED BY <2>1, RowsOfWrite
<1>7. CountsAreFinite'
  BY <1>4, <1>5 DEF CountsAreFinite
<1>8. CountersAreRight'
  BY <1>3, <1>4, <1>5, <1>6, CountsAreNumbers DEF CountersAreRight, Counted, ApiInv
<1> QED BY <1>7, <1>8

(* An Inc() settles what the call owes.                                    *)
LEMMA IncSettles ==
    ASSUME CounterInv, NEW g \in Goroutines, CountCreated(g) \/ CountCancelled(g)
    PROVE  CountsAreFinite' /\ CountersAreRight'
<1> USE DEF CounterInv
<1>1. calls[g] # IdleCall
  BY DEF CountCreated, CountCancelled, IdleCall
<1>2. PICK w \in Instances : w = calls[g].at
  BY <1>1, CallsAreAtInstances DEF ApiInv
<1>3. /\ \A h \in Goroutines : h # g => calls'[h] = calls[h]
      /\ calls'[g].pc = "answering"
  <2>1. ApiTypeOK /\ calls' = [calls EXCEPT ![g].pc = "answering"]
    BY DEF CountCreated, CountCancelled, ApiInv
  <2> QED BY <1>1, <2>1, OneCallMoves
<1>4. UNCHANGED <<Inserted, CancelledRows, faults, signals>>
  BY DEF CountCreated, CountCancelled, repoVars, Inserted, CancelledRows
<1>5. /\ IsFiniteSet(Owing("created")') /\ IsFiniteSet(Owing("cancelled")')
      /\ Cardinality(Owing("created")') =
           Cardinality(Owing("created")) - (IF calls[g].pc = "created" THEN 1 ELSE 0)
      /\ Cardinality(Owing("cancelled")') =
           Cardinality(Owing("cancelled")) - (IF calls[g].pc = "cancelled" THEN 1 ELSE 0)
  <2>1. /\ Cardinality(Owing("created")) \in Nat /\ Cardinality(Owing("cancelled")) \in Nat
        /\ IsFiniteSet(Owing("created")) /\ IsFiniteSet(Owing("cancelled"))
    BY CountsAreNumbers DEF CountsAreFinite, ApiInv
  <2>2. calls'[g].pc # "created" /\ calls'[g].pc # "cancelled"
    BY <1>3
  <2>3. /\ IsFiniteSet(Owing("created")')
        /\ Cardinality(Owing("created")') =
             Cardinality(Owing("created")) - (IF calls[g].pc = "created" THEN 1 ELSE 0)
    BY <1>3, <2>1, <2>2, OwingMoves
  <2>4. /\ IsFiniteSet(Owing("cancelled")')
        /\ Cardinality(Owing("cancelled")') =
             Cardinality(Owing("cancelled")) - (IF calls[g].pc = "cancelled" THEN 1 ELSE 0)
    BY <1>3, <2>1, <2>2, OwingMoves
  <2> QED BY <2>3, <2>4
<1>6. CASE CountCreated(g)
  <2>1. /\ Incs(created)' = Incs([created EXCEPT ![w] = @ + 1])
        /\ Incs(cancelled)' = Incs(cancelled)
        /\ calls[g].pc = "created"
    BY <1>2, <1>6 DEF CountCreated, Incs
  <2>2. IsFiniteSet(Incs(created)') /\ Cardinality(Incs(created)') = Cardinality(Incs(created)) + 1
    BY <2>1, IncAddsOne DEF CountsAreFinite, ApiInv, ApiTypeOK
  <2>3. CountsAreFinite'
    BY <1>5, <2>1, <2>2 DEF CountsAreFinite
  <2>4. CountersAreRight'
    BY <1>4, <1>5, <2>1, <2>2, CountsAreNumbers DEF CountersAreRight, Counted, ApiInv
  <2> QED BY <2>3, <2>4
<1>7. CASE CountCancelled(g)
  <2>1. /\ Incs(cancelled)' = Incs([cancelled EXCEPT ![w] = @ + 1])
        /\ Incs(created)' = Incs(created)
        /\ calls[g].pc = "cancelled"
    BY <1>2, <1>7 DEF CountCancelled, Incs
  <2>2. /\ IsFiniteSet(Incs(cancelled)')
        /\ Cardinality(Incs(cancelled)') = Cardinality(Incs(cancelled)) + 1
    BY <2>1, IncAddsOne DEF CountsAreFinite, ApiInv, ApiTypeOK
  <2>3. CountsAreFinite'
    BY <1>5, <2>1, <2>2 DEF CountsAreFinite
  <2>4. CountersAreRight'
    BY <1>4, <1>5, <2>1, <2>2, CountsAreNumbers DEF CountersAreRight, Counted, ApiInv
  <2> QED BY <2>3, <2>4
<1> QED BY <1>6, <1>7

(* A call that neither wrote nor counts owes nothing before and after.     *)
LEMMA OtherCallSteps ==
    ASSUME CounterInv, NEW g \in Goroutines,
           \/ \E w \in Instances, p \in Intents : Accept(g, w, p)
           \/ Refuse(g) \/ PublishPaid(g) \/ Answer(g)
    PROVE  CountsAreFinite' /\ CountersAreRight'
<1> USE DEF CounterInv
<1>1. /\ \A h \in Goroutines : h # g => calls'[h] = calls[h]
      /\ calls[g].pc \notin {"created", "cancelled"}
      /\ calls'[g].pc \notin {"created", "cancelled"}
  <2>1. ApiTypeOK /\ calls \in [Goroutines -> Calls]
    BY DEF ApiInv, ApiTypeOK
  <2>2. CASE Answer(g) \/ \E w \in Instances, p \in Intents : Accept(g, w, p)
    BY <2>1, <2>2 DEF Accept, Answer, IdleCall
  <2>3. CASE Refuse(g) \/ PublishPaid(g)
    <3>1. /\ calls[g].pc \in {"working", "paid"} /\ calls[g] # IdleCall
          /\ calls' = [calls EXCEPT ![g].pc = "answering"]
      BY <2>3 DEF Refuse, PublishPaid, IdleCall
    <3> QED BY <2>1, <3>1, OneCallMoves
  <2> QED BY <2>2, <2>3
<1>2. UNCHANGED <<Inserted, CancelledRows, faults, signals, Incs(created), Incs(cancelled)>>
  BY DEF Accept, Refuse, PublishPaid, Answer, repoVars, Inserted, CancelledRows, Incs
<1>3. UNCHANGED <<Owing("created"), Owing("cancelled")>>
  BY <1>1 DEF Owing
<1> QED BY <1>2, <1>3 DEF CountsAreFinite, CountersAreRight, Counted

(* An instance that ends takes its counts and its debts along, and has     *)
(* been signalled or has failed.                                           *)
LEMMA EndIsAccountedFor ==
    ASSUME CounterInv, NEW w \in Instances, Exit(w) \/ DrainTimesOut(w) \/ Crash(w)
    PROVE  CountsAreFinite' /\ CountersAreRight'
<1> USE DEF CounterInv
<1>1. PICK how : End(w, how)
  BY DEF Exit, DrainTimesOut, Crash
<1>2. UNCHANGED <<Inserted, CancelledRows>>
  BY <1>1 DEF End, repoVars, Inserted, CancelledRows
<1>3. ~ (faults' = 0 /\ signals' = 0)
  BY <1>1 DEF Exit, DrainTimesOut, Crash, Fault, End, DrainingWasSignalled, ApiInv, ApiTypeOK
<1>4. /\ Incs(created)' = Incs([created EXCEPT ![w] = 0])
      /\ Incs(cancelled)' = Incs([cancelled EXCEPT ![w] = 0])
  BY <1>1 DEF End, Incs
<1>5. /\ IsFiniteSet(Incs(created)') /\ Cardinality(Incs(created)') <= Cardinality(Incs(created))
      /\ IsFiniteSet(Incs(cancelled)')
      /\ Cardinality(Incs(cancelled)') <= Cardinality(Incs(cancelled))
  BY <1>4, EndForgetsIncs DEF CountsAreFinite, ApiInv, ApiTypeOK
<1>6. Owing("created")' \subseteq Owing("created") /\ Owing("cancelled")' \subseteq Owing("cancelled")
  BY <1>1 DEF End, Owing, IdleCall
<1>7. /\ IsFiniteSet(Owing("created")')
      /\ Cardinality(Owing("created")') <= Cardinality(Owing("created"))
      /\ IsFiniteSet(Owing("cancelled")')
      /\ Cardinality(Owing("cancelled")') <= Cardinality(Owing("cancelled"))
  BY <1>6, FS_Subset DEF CountsAreFinite
<1>8. CountsAreFinite'
  BY <1>5, <1>7 DEF CountsAreFinite
<1>9. CountersAreRight'
  <2>1. /\ Cardinality(Incs(created)') \in Nat /\ Cardinality(Owing("created")') \in Nat
        /\ Cardinality(Incs(cancelled)') \in Nat /\ Cardinality(Owing("cancelled")') \in Nat
    BY <1>8, FS_CardinalityType DEF CountsAreFinite
  <2> QED BY <1>2, <1>3, <1>5, <1>7, <2>1, CountsAreNumbers DEF CountersAreRight, Counted, ApiInv
<1> QED BY <1>8, <1>9

(* The gauge, a start, a signal, the consumer, the sweep and the clock     *)
(* touch no counter and no row a counter is compared with.                 *)
LEMMA BystandersCountNothing ==
    ASSUME CounterInv,
           \/ \E w \in Instances : \/ CountActive(w) \/ SetGauge(w) \/ RefreshFails(w) \/ Start(w)
                                   \/ ConsumeEvent(w) \/ Signal(w)
           \/ Others \/ UNCHANGED vars
    PROVE  CountsAreFinite' /\ CountersAreRight'
<1> USE DEF CounterInv
<1>1. UNCHANGED <<created, cancelled, calls>> /\ (faults' = 0 => faults = 0)
      /\ (signals' = 0 => signals = 0)
  BY DEF CountActive, SetGauge, RefreshFails, Start, ConsumeEvent, Signal, Others, Fault, vars,
         apiVars, ApiInv, ApiTypeOK
<1>2. UNCHANGED <<Inserted, CancelledRows>>
  <2>1. CASE Others
    BY <2>1, SweepKeepsRows DEF ApiInv, ApiTypeOK
  <2>2. CASE UNCHANGED subs
    BY <2>2 DEF Inserted, CancelledRows
  <2> QED BY <2>1, <2>2 DEF CountActive, SetGauge, RefreshFails, Start, ConsumeEvent, Signal,
                            vars, repoVars
<1>3. UNCHANGED <<Incs(created), Incs(cancelled), Owing("created"), Owing("cancelled")>>
  BY <1>1 DEF Incs, Owing
<1> QED BY <1>1, <1>2, <1>3 DEF CountsAreFinite, CountersAreRight, Counted

LEMMA DrainingStep ==
    ASSUME ApiTypeOK, DrainingWasSignalled, [ApiNext]_vars
    PROVE  DrainingWasSignalled'
<1> USE DEF ApiTypeOK, DrainingWasSignalled
<1>1. ASSUME NEW w \in Instances, Start(w) \/ Signal(w) \/ Exit(w) \/ DrainTimesOut(w) \/ Crash(w)
      PROVE  DrainingWasSignalled'
  <2>1. \A v \in Instances : v # w => server'[v] = server[v]
    BY <1>1 DEF Start, Signal, Exit, DrainTimesOut, Crash, End
  <2>2. server'[w] = "draining" => signals' > 0
    BY <1>1 DEF Start, Signal, Exit, DrainTimesOut, Crash, End, ServerStates
  <2>3. signals \in Nat /\ (signals' = signals \/ signals' = signals + 1)
    BY <1>1 DEF Start, Signal, Exit, DrainTimesOut, Crash, End
  <2>4. \A v \in Instances : server'[v] = "draining" => signals' > 0
    BY <2>1, <2>2, <2>3
  <2> QED BY <2>4 DEF Instances
<1>2. CASE UNCHANGED <<server, signals>>
  BY <1>2
<1> QED BY <1>1, <1>2 DEF ApiNext, Accept, Write, WriteUnheard, Refuse, CountCreated,
           CountCancelled, PublishPaid, Answer, CountActive, SetGauge, RefreshFails,
           ConsumeEvent, Others, vars, apiVars

LEMMA CounterInvStep == CounterInv /\ [ApiNext]_vars => CounterInv'
<1> SUFFICES ASSUME CounterInv, [ApiNext]_vars
             PROVE  CounterInv'
  OBVIOUS
<1>1. ApiInv' /\ DrainingWasSignalled'
  BY ApiInvStep, DrainingStep DEF CounterInv, ApiInv
<1>2. CountsAreFinite' /\ CountersAreRight'
  BY WriteOwesACount, IncSettles, OtherCallSteps, EndIsAccountedFor, BystandersCountNothing
     DEF ApiNext
<1> QED BY <1>1, <1>2 DEF CounterInv

THEOREM CounterInvariant == ApiSpec => []CounterInv
BY CounterInvInit, CounterInvStep, PTL DEF ApiSpec

(* However many instances, calls, crashes and shutdowns: the counters of   *)
(* all instances together never exceed the rows they count, and as long as *)
(* none has ended and no answer was lost they lag behind only by the calls *)
(* on their way to Inc().                                                  *)
THEOREM CountersNeverOvercount == ApiSpec => []CountersAreRight
<1>1. CounterInv => CountersAreRight
  BY DEF CounterInv
<1> QED BY <1>1, CounterInvariant, PTL
=============================================================================
