------------------------ MODULE ExpirationWorkerProofs ------------------------
(***************************************************************************)
(* Proofs about ExpirationWorker, for every number of workers, rows and    *)
(* faults and every size of the buffer: an expiry is announced at most     *)
(* once, and goes unannounced only in the three ways the source names.     *)
(***************************************************************************)
EXTENDS ExpirationWorker, RepositoryProofs, NotificationQueueProofs

(* A worker outside the loop over its rows has none left, and one that is  *)
(* down has no queue.                                                      *)
IdleHoldsNothing ==
    \A w \in Workers : /\ pc[w] # "announce" => batch[w] = {}
                       /\ pc[w] = "down" => queue[w] = <<>>

WorkerInv == WorkerTypeOK /\ AnnouncedAtMostOnce /\ IdleHoldsNothing

(* A step of a worker is an operation of the repository or leaves the      *)
(* tables alone.                                                           *)
LEMMA WorkerStepIsRepoStep == [WorkerNext]_vars => [RepoNext]_repoVars
<1> SUFFICES ASSUME [WorkerNext]_vars
             PROVE  [RepoNext]_repoVars
  OBVIOUS
<1>1. ASSUME NEW w \in Workers,
             \/ Start(w) \/ TickerFires(w) \/ PublishExpired(w) \/ ConsumeEvent(w)
             \/ Signal(w) \/ ConsumerStops(w) \/ Exit(w) \/ Crash(w)
      PROVE  UNCHANGED repoVars
  BY <1>1 DEF Start, TickerFires, PublishExpired, ConsumeEvent, Signal, ConsumerStops, Exit, Crash
<1>2. ASSUME NEW w \in Workers, Update(w) \/ SweepFails(w)
      PROVE  [RepoNext]_repoVars
  BY <1>2 DEF Update, SweepFails, RepoNext
<1>3. CASE Others
  BY <1>3 DEF Others, RepoNext
<1>4. CASE UNCHANGED vars
  BY <1>4 DEF vars, repoVars
<1> QED BY <1>1, <1>2, <1>3, <1>4 DEF WorkerNext, Sweeping

(* The workers add nothing to what the repository's calls do.              *)
THEOREM WorkerKeepsRepository == WorkerSpec => RepoSpec /\ []RepoInv
<1>1. WorkerInit => RepoInit
  BY DEF WorkerInit
<1> QED BY <1>1, WorkerStepIsRepoStep, RepoInvariant, PTL DEF WorkerSpec, RepoSpec

-----------------------------------------------------------------------------
(* Expired rows stay expired.                                              *)
LEMMA ExpiredStays ==
    ASSUME RepoTypeOK, [RepoNext]_repoVars, NEW p \in Intents, subs[p].status = "expired"
    PROVE  subs'[p].status = "expired"
<1> USE DEF RepoTypeOK, Rows, NoRow, Statuses
<1>1. ASSUME NEW q \in Intents, NEW u \in Users, NEW c \in Creators, CreatePending(q, u, c)
      PROVE  subs'[p].status = "expired"
  BY <1>1 DEF CreatePending
<1>2. ASSUME NEW q \in Intents, NEW e \in Events, NEW amount \in Amounts,
             MarkPaymentSucceeded(q, e, amount)
      PROVE  subs'[p].status = "expired"
  BY <1>2 DEF MarkPaymentSucceeded
<1>3. ASSUME NEW q \in Intents, MarkPaymentFailed(q) \/ Cancel(q)
      PROVE  subs'[p].status = "expired"
  BY <1>3 DEF MarkPaymentFailed, Cancel
<1>4. ASSUME NEW q \in Intents, Renew(q)
      PROVE  subs'[p].status = "expired"
  BY <1>4 DEF Renew
<1>5. CASE ExpireOverdue
  BY <1>5 DEF ExpireOverdue, Overdue
<1>6. CASE Tick \/ UNCHANGED repoVars
  BY <1>6 DEF Tick, repoVars
<1> QED BY <1>1, <1>2, <1>3, <1>4, <1>5, <1>6 DEF RepoNext

(* The sweep is the only way to expire a row.                              *)
LEMMA OthersDoNotExpire ==
    ASSUME RepoTypeOK, Others, NEW p \in Intents, subs'[p].status = "expired"
    PROVE  subs[p].status = "expired"
<1> USE DEF RepoTypeOK, Rows, NoRow, Statuses
<1>1. ASSUME NEW q \in Intents, NEW u \in Users, NEW c \in Creators, CreatePending(q, u, c)
      PROVE  subs[p].status = "expired"
  BY <1>1 DEF CreatePending
<1>2. ASSUME NEW q \in Intents, NEW e \in Events, NEW amount \in Amounts,
             MarkPaymentSucceeded(q, e, amount)
      PROVE  subs[p].status = "expired"
  BY <1>2 DEF MarkPaymentSucceeded
<1>3. ASSUME NEW q \in Intents, MarkPaymentFailed(q) \/ Cancel(q)
      PROVE  subs[p].status = "expired"
  BY <1>3 DEF MarkPaymentFailed, Cancel
<1>4. ASSUME NEW q \in Intents, Renew(q)
      PROVE  subs[p].status = "expired"
  BY <1>4 DEF Renew
<1>5. CASE Tick
  BY <1>5 DEF Tick
<1> QED BY <1>1, <1>2, <1>3, <1>4, <1>5 DEF Others

-----------------------------------------------------------------------------
LEMMA WorkerInvInit == WorkerInit => WorkerInv
<1> SUFFICES ASSUME WorkerInit
             PROVE  WorkerInv
  OBVIOUS
<1>1. RepoTypeOK
  BY RepoInvInit DEF WorkerInit, RepoInv
<1>2. QueueTypeOK
  BY WorkerAssumption, CapacityAssumption DEF WorkerInit, QueueInit, QueueTypeOK
<1>3. WorkerTypeOK /\ IdleHoldsNothing
  BY <1>1, <1>2 DEF WorkerInit, QueueInit, WorkerTypeOK, WorkerStates, IdleHoldsNothing, Workers
<1>4. AnnouncedAtMostOnce
  BY WorkerAssumption DEF WorkerInit, QueueInit, AnnouncedAtMostOnce, InFlight, Holds, Buffered, Workers
<1> QED BY <1>3, <1>4 DEF WorkerInv

-----------------------------------------------------------------------------
(* A step that adds no event anywhere and notifies nobody keeps the        *)
(* promise.                                                                *)
LEMMA NothingAdded ==
    ASSUME WorkerInv, [RepoNext]_repoVars, notified' = notified,
           \A w \in Workers : batch'[w] = batch[w] \/ batch'[w] \subseteq batch[w],
           \A w \in Workers : queue'[w] = queue[w] \/ queue'[w] = <<>>
    PROVE  AnnouncedAtMostOnce'
<1> USE DEF WorkerInv, AnnouncedAtMostOnce
<1>1. \A w \in Workers, p \in Intents : /\ p \in batch'[w] => p \in batch[w]
                                        /\ Buffered(w, p)' => Buffered(w, p)
                                        /\ Holds(w, p)' => Holds(w, p)
  BY DEF Buffered, Holds
<1>2. \A p \in Intents : InFlight(p)' => InFlight(p)
  BY <1>1 DEF InFlight, Workers
<1>3. \A p \in Intents : subs[p].status = "expired" => subs'[p].status = "expired"
  BY ExpiredStays DEF WorkerTypeOK
<1>4. \A w \in Workers : \A i, j \in 1..Len(queue'[w]) : queue'[w][i] = queue'[w][j] => i = j
  OBVIOUS
<1>5. \A p \in Intents : /\ notified'[p] <= 1
                         /\ notified'[p] = 1 => ~ InFlight(p)'
                         /\ notified'[p] = 1 \/ InFlight(p)' => subs'[p].status = "expired"
  BY <1>2, <1>3
<1>6. \A p \in Intents, v, w \in Workers : Holds(v, p)' /\ Holds(w, p)' => v = w
  BY <1>1
<1>7. \A p \in Intents, w \in Workers : ~ (p \in batch'[w] /\ Buffered(w, p)')
  BY <1>1
<1> QED BY <1>4, <1>5, <1>6, <1>7 DEF Workers

(* The rows a sweep expires are nobody's event yet.                        *)
LEMMA UpdateStep ==
    ASSUME WorkerInv, NEW w \in Workers, Update(w)
    PROVE  AnnouncedAtMostOnce'
<1>1. CASE Overdue = {} /\ UNCHANGED <<repoVars, batch>>
  <2>1. UNCHANGED <<queue, notified>>
    BY DEF Update, queueVars
  <2> QED BY <1>1, <2>1, NothingAdded
<1>2. CASE ExpireOverdue /\ batch' = [batch EXCEPT ![w] = Overdue]
  <2> USE DEF WorkerInv, AnnouncedAtMostOnce
  <2>1. UNCHANGED <<queue, notified>>
    BY DEF Update, queueVars
  <2>2. batch'[w] = Overdue /\ \A v \in Workers : v # w => batch'[v] = batch[v]
    BY <1>2 DEF WorkerTypeOK
  <2>3. \A p \in Overdue : p \in Intents /\ ~ InFlight(p) /\ notified[p] # 1
    BY DEF Overdue
  <2>4. \A p \in Intents : IF p \in Overdue THEN subs'[p].status = "expired"
                                            ELSE subs'[p] = subs[p]
    BY <1>2 DEF ExpireOverdue, Overdue, WorkerTypeOK, RepoTypeOK, Rows, NoRow
  <2>5. \A p \in Intents, v \in Workers : /\ Buffered(v, p)' <=> Buffered(v, p)
                                          /\ Holds(v, p)' => Holds(v, p) \/ (v = w /\ p \in Overdue)
    BY <2>1, <2>2 DEF Holds, Buffered
  <2>6. \A p \in Intents : InFlight(p)' => InFlight(p) \/ p \in Overdue
    BY <2>5 DEF InFlight, Workers
  <2>7. \A p \in Intents : /\ notified'[p] <= 1
                           /\ notified'[p] = 1 => ~ InFlight(p)'
                           /\ notified'[p] = 1 \/ InFlight(p)' => subs'[p].status = "expired"
    BY <2>1, <2>3, <2>4, <2>6
  <2>8. \A p \in Overdue, v \in Workers : ~ Holds(v, p)
    BY <2>3 DEF InFlight
  <2>9. \A p \in Intents, v, x \in Workers : Holds(v, p)' /\ Holds(x, p)' => v = x
    BY <2>5, <2>8
  <2>10. \A p \in Intents, v \in Workers : ~ (p \in batch'[v] /\ Buffered(v, p)')
    BY <2>2, <2>5, <2>8 DEF Holds
  <2>11. \A v \in Workers : \A i, j \in 1..Len(queue'[v]) : queue'[v][i] = queue'[v][j] => i = j
    BY <2>1
  <2> QED BY <2>7, <2>9, <2>10, <2>11 DEF Workers
<1> QED BY <1>1, <1>2 DEF Update

(* Publishing moves an event from the batch to the buffer of its worker.   *)
LEMMA PublishStep ==
    ASSUME WorkerInv, NEW w \in Workers, PublishExpired(w)
    PROVE  AnnouncedAtMostOnce'
<1>1. PICK p \in batch[w] : Publish(w, p) /\ batch' = [batch EXCEPT ![w] = @ \ {p}]
  BY DEF PublishExpired
<1>2. p \in Intents /\ batch'[w] = batch[w] \ {p}
      /\ \A v \in Workers : v # w => batch'[v] = batch[v]
  BY <1>1 DEF WorkerInv, WorkerTypeOK
<1>3. /\ UNCHANGED <<consuming, notified>>
      /\ \A v \in Workers : v # w => queue'[v] = queue[v]
      /\ \/ IsFull(w) /\ queue'[w] = queue[w]
         \/ queue'[w] = Append(queue[w], p)
  BY <1>1, <1>2, PublishEffect, WorkerAssumption DEF WorkerInv, WorkerTypeOK, Workers
<1>4. UNCHANGED repoVars
  BY DEF PublishExpired
<1>5. CASE queue'[w] = queue[w]
  <2>1. \A v \in Workers : batch'[v] = batch[v] \/ batch'[v] \subseteq batch[v]
    BY <1>2
  <2>2. \A v \in Workers : queue'[v] = queue[v] \/ queue'[v] = <<>>
    BY <1>3, <1>5
  <2> QED BY <1>3, <1>4, <2>1, <2>2, NothingAdded
<1>6. CASE queue'[w] = Append(queue[w], p)
  <2> USE DEF WorkerInv, AnnouncedAtMostOnce
  <2>1. queue[w] \in Seq(Notices)
    BY DEF WorkerTypeOK, QueueTypeOK, Workers
  <2>2. /\ Len(queue'[w]) = Len(queue[w]) + 1 /\ Len(queue[w]) \in Nat
        /\ queue'[w][Len(queue[w]) + 1] = p
        /\ \A i \in 1..Len(queue[w]) : queue'[w][i] = queue[w][i]
    BY <1>6, <2>1
  <2>3. ~ Buffered(w, p)
    BY <1>2
  <2>4. \A q \in Intents : Buffered(w, q)' <=> Buffered(w, q) \/ q = p
    BY <2>2 DEF Buffered
  <2>5. \A q \in Intents, v \in Workers : v # w => (Buffered(v, q)' <=> Buffered(v, q))
    BY <1>3 DEF Buffered
  <2>6. \A q \in Intents, v \in Workers : Holds(v, q)' <=> Holds(v, q)
    BY <1>1, <1>2, <2>4, <2>5 DEF Holds
  <2>7. \A q \in Intents : InFlight(q)' <=> InFlight(q)
    BY <2>6 DEF InFlight, Workers
  <2>8. \A q \in Intents : /\ notified'[q] <= 1
                           /\ notified'[q] = 1 => ~ InFlight(q)'
                           /\ notified'[q] = 1 \/ InFlight(q)' => subs'[q].status = "expired"
    BY <1>3, <1>4, <2>7 DEF repoVars
  <2>9. \A q \in Intents, v, x \in Workers : Holds(v, q)' /\ Holds(x, q)' => v = x
    BY <2>6
  <2>10. \A q \in Intents, v \in Workers : ~ (q \in batch'[v] /\ Buffered(v, q)')
    BY <1>2, <2>4, <2>5
  <2>11. \A i, j \in 1..Len(queue'[w]) : queue'[w][i] = queue'[w][j] => i = j
    <3>1. \A i \in 1..Len(queue[w]) : queue[w][i] # p
      BY <2>3 DEF Buffered
    <3>2. \A i \in 1..Len(queue'[w]) : i \in 1..Len(queue[w]) \/ i = Len(queue[w]) + 1
      BY <2>2
    <3>3. \A i, j \in 1..Len(queue[w]) : queue[w][i] = queue[w][j] => i = j
      OBVIOUS
    <3> QED BY <2>2, <3>1, <3>2, <3>3
  <2>12. \A v \in Workers : \A i, j \in 1..Len(queue'[v]) : queue'[v][i] = queue'[v][j] => i = j
    BY <1>3, <2>11
  <2> QED BY <2>8, <2>9, <2>10, <2>12 DEF Workers
<1> QED BY <1>3, <1>5, <1>6

(* Consuming moves an event from the buffer to its creator.                *)
LEMMA ConsumeStep ==
    ASSUME WorkerInv, NEW w \in Workers, ConsumeEvent(w)
    PROVE  AnnouncedAtMostOnce'
<1> USE DEF WorkerInv, AnnouncedAtMostOnce
<1> DEFINE h == Head(queue[w])
<1>1. UNCHANGED <<subs, batch>> /\ Consume(w)
  BY DEF ConsumeEvent, repoVars, workerVars
<1>2. /\ \A v \in Workers : v # w => queue'[v] = queue[v]
      /\ queue[w] # <<>> /\ queue'[w] = Tail(queue[w])
      /\ h \in Intents
      /\ notified' = [notified EXCEPT ![h] = @ + 1]
  BY <1>1, ConsumeEffect, WorkerAssumption DEF WorkerTypeOK, Workers
<1>3. queue[w] \in Seq(Notices)
  BY DEF WorkerTypeOK, QueueTypeOK, Workers
<1>4. /\ Len(queue[w]) \in Nat /\ Len(queue'[w]) = Len(queue[w]) - 1 /\ Len(queue[w]) >= 1
      /\ queue[w][1] = h
      /\ \A i \in 1..Len(queue'[w]) : queue'[w][i] = queue[w][i + 1] /\ i + 1 \in 1..Len(queue[w])
  BY <1>2, <1>3
<1>5. Buffered(w, h)
  BY <1>4 DEF Buffered
<1>6. \A q \in Intents : Buffered(w, q)' => Buffered(w, q) /\ q # h
  <2>1. \A i \in 1..Len(queue'[w]) : queue[w][i + 1] # queue[w][1]
    BY <1>4
  <2> QED BY <1>4, <2>1 DEF Buffered
<1>7. \A q \in Intents, v \in Workers : v # w => (Buffered(v, q)' <=> Buffered(v, q))
  BY <1>2 DEF Buffered
<1>8. \A q \in Intents, v \in Workers : Holds(v, q)' => Holds(v, q) /\ q # h
  <2>1. \A v \in Workers : v # w => ~ Holds(v, h)
    BY <1>2, <1>5 DEF Holds
  <2>2. h \notin batch[w]
    BY <1>2, <1>5
  <2> QED BY <1>1, <1>6, <1>7, <2>1, <2>2 DEF Holds
<1>9. \A q \in Intents : InFlight(q)' => InFlight(q) /\ q # h
  BY <1>8 DEF InFlight, Workers
<1>10. InFlight(h)
  BY <1>5 DEF InFlight, Holds
<1>11. /\ \A q \in Intents : notified[q] \in Nat
       /\ \A q \in Intents : notified'[q] = IF q = h THEN notified[h] + 1 ELSE notified[q]
  BY <1>2, WorkerAssumption DEF WorkerTypeOK, QueueTypeOK
<1>12. notified'[h] = 1
  BY <1>2, <1>10, <1>11
<1>13. \A q \in Intents : /\ notified'[q] <= 1
                          /\ notified'[q] = 1 => ~ InFlight(q)'
                          /\ notified'[q] = 1 \/ InFlight(q)' => subs'[q].status = "expired"
  BY <1>1, <1>9, <1>10, <1>11, <1>12
<1>14. \A q \in Intents, v, x \in Workers : Holds(v, q)' /\ Holds(x, q)' => v = x
  BY <1>8
<1>15. \A q \in Intents, v \in Workers : ~ (q \in batch'[v] /\ Buffered(v, q)')
  BY <1>1, <1>6, <1>7
<1>16. \A v \in Workers : \A i, j \in 1..Len(queue'[v]) : queue'[v][i] = queue'[v][j] => i = j
  <2>1. \A i, j \in 1..Len(queue[w]) : queue[w][i] = queue[w][j] => i = j
    OBVIOUS
  <2>2. \A i, j \in 1..Len(queue'[w]) : queue'[w][i] = queue'[w][j] => i = j
    <3> TAKE i \in 1..Len(queue'[w]), j \in 1..Len(queue'[w])
    <3> HAVE queue'[w][i] = queue'[w][j]
    <3>1. i + 1 = j + 1
      BY <1>4, <2>1
    <3> QED BY <3>1
  <2> QED BY <1>2, <2>2
<1> QED BY <1>13, <1>14, <1>15, <1>16 DEF Workers

-----------------------------------------------------------------------------
LEMMA WorkerTypeStep ==
    ASSUME WorkerInv, [WorkerNext]_vars
    PROVE  WorkerTypeOK' /\ IdleHoldsNothing'
<1> USE DEF WorkerInv, WorkerTypeOK, IdleHoldsNothing, WorkerStates
<1>1. RepoTypeOK'
  BY WorkerStepIsRepoStep, RepoTypeStep
<1>2. ASSUME NEW w \in Workers, Start(w)
      PROVE  WorkerTypeOK' /\ IdleHoldsNothing'
  <2>1. QueueTypeOK'
    BY <1>2, CapacityAssumption DEF Start, OpenQueue, QueueTypeOK, Workers
  <2> QED BY <1>1, <1>2, <2>1 DEF Start, OpenQueue
<1>3. ASSUME NEW w \in Workers, TickerFires(w) \/ Signal(w)
      PROVE  WorkerTypeOK' /\ IdleHoldsNothing'
  <2>1. UNCHANGED queueVars
    BY <1>3 DEF TickerFires, Signal
  <2>2. QueueTypeOK'
    BY <2>1 DEF queueVars, QueueTypeOK
  <2>3. batch' = batch /\ faults' = faults /\ signals' \in Nat /\ pc[w] # "down"
    BY <1>3 DEF TickerFires, Signal
  <2>4. /\ \/ pc' = [pc EXCEPT ![w] = "update"] /\ pc[w] = "idle"
           \/ pc' = pc
        /\ \/ ctxDone' = ctxDone
           \/ ctxDone' = [ctxDone EXCEPT ![w] = TRUE]
    BY <1>3 DEF TickerFires, Signal
  <2>5. pc' \in [Workers -> WorkerStates] /\ ctxDone' \in [Workers -> BOOLEAN]
    BY <2>4
  <2>6. IdleHoldsNothing'
    BY <2>1, <2>3, <2>4 DEF queueVars
  <2> QED BY <1>1, <2>2, <2>3, <2>5, <2>6
<1>4. ASSUME NEW w \in Workers, Update(w) \/ SweepFails(w)
      PROVE  WorkerTypeOK' /\ IdleHoldsNothing'
  <2>1. UNCHANGED queueVars
    BY <1>4 DEF Update, SweepFails
  <2>2. QueueTypeOK'
    BY <2>1 DEF queueVars, QueueTypeOK
  <2>3. Overdue \subseteq Intents
    BY DEF Overdue
  <2>4. CASE Update(w)
    <3>1. /\ ctxDone' = ctxDone /\ faults' = faults /\ signals' = signals
          /\ \/ /\ batch' = [batch EXCEPT ![w] = Overdue]
                /\ pc' = [pc EXCEPT ![w] = "announce"]
             \/ batch' = batch /\ pc' = [pc EXCEPT ![w] = "idle"]
          /\ pc[w] = "update"
      BY <2>4 DEF Update
    <3>2. batch' \in [Workers -> SUBSET Intents] /\ pc' \in [Workers -> WorkerStates]
      BY <2>3, <3>1
    <3>3. IdleHoldsNothing'
      BY <2>1, <3>1 DEF queueVars
    <3> QED BY <1>1, <2>2, <3>1, <3>2, <3>3
  <2>5. CASE SweepFails(w)
    <3>1. /\ pc' = [pc EXCEPT ![w] = "idle"] /\ pc[w] = "update"
          /\ ctxDone' = ctxDone /\ batch' = batch /\ signals' = signals
          /\ faults' = faults \/ faults' = faults + 1
      BY <2>5 DEF SweepFails, Fault
    <3>2. IdleHoldsNothing'
      BY <2>1, <3>1 DEF queueVars
    <3> QED BY <1>1, <2>2, <3>1, <3>2
  <2> QED BY <1>4, <2>4, <2>5
<1>5. ASSUME NEW w \in Workers, PublishExpired(w)
      PROVE  WorkerTypeOK' /\ IdleHoldsNothing'
  <2>1. PICK p \in batch[w] : Publish(w, p) /\ batch' = [batch EXCEPT ![w] = @ \ {p}]
    BY <1>5 DEF PublishExpired
  <2>2. /\ QueueTypeOK'
        /\ \A v \in Workers : v # w => queue'[v] = queue[v]
    BY <2>1, PublishEffect, WorkerAssumption DEF Workers
  <2>3. pc[w] = "announce" /\ pc' = [pc EXCEPT ![w] = IF batch'[w] = {} THEN "idle" ELSE @]
    BY <1>5 DEF PublishExpired, EndOfLoop
  <2> QED BY <1>1, <1>5, <2>1, <2>2, <2>3 DEF PublishExpired
<1>6. ASSUME NEW w \in Workers, ConsumeEvent(w)
      PROVE  WorkerTypeOK' /\ IdleHoldsNothing'
  <2>1. UNCHANGED workerVars /\ Consume(w)
    BY <1>6 DEF ConsumeEvent
  <2>2. /\ QueueTypeOK'
        /\ \A v \in Workers : v # w => queue'[v] = queue[v]
        /\ queue[w] # <<>>
    BY <2>1, ConsumeEffect, WorkerAssumption DEF Workers
  <2> QED BY <1>1, <2>1, <2>2 DEF workerVars
<1>7. ASSUME NEW w \in Workers, ConsumerStops(w)
      PROVE  WorkerTypeOK' /\ IdleHoldsNothing'
  <2>1. QueueTypeOK'
    BY <1>7 DEF ConsumerStops, StopConsuming, QueueTypeOK, Workers
  <2> QED BY <1>1, <1>7, <2>1 DEF ConsumerStops, StopConsuming, workerVars
<1>8. ASSUME NEW w \in Workers, Exit(w) \/ Crash(w)
      PROVE  WorkerTypeOK' /\ IdleHoldsNothing'
  <2>1. CloseQueue(w)
    BY <1>8 DEF Exit, Crash
  <2>2. QueueTypeOK'
    BY <2>1, CapacityAssumption DEF CloseQueue, QueueTypeOK, Workers
  <2>3. queue' = [queue EXCEPT ![w] = <<>>] /\ queue \in [Workers -> Seq(Notices)]
    BY <2>1 DEF CloseQueue, QueueTypeOK, Workers
  <2>4. /\ pc' = [pc EXCEPT ![w] = "down"]
        /\ ctxDone' = [ctxDone EXCEPT ![w] = FALSE]
        /\ \/ batch' = [batch EXCEPT ![w] = {}]
           \/ pc[w] = "idle" /\ batch' = batch
    BY <1>8 DEF Exit, Crash
  <2>5. faults' \in Nat /\ signals' \in Nat
    BY <1>8 DEF Exit, Crash, Fault
  <2>6. /\ pc' \in [Workers -> WorkerStates]
        /\ batch' \in [Workers -> SUBSET Intents]
        /\ ctxDone' \in [Workers -> BOOLEAN]
    BY <2>4
  <2>7. IdleHoldsNothing'
    BY <2>3, <2>4
  <2> QED BY <1>1, <2>2, <2>5, <2>6, <2>7
<1>9. CASE Others \/ UNCHANGED vars
  <2>1. UNCHANGED <<queue, consuming, notified, pc, batch, ctxDone, faults, signals>>
    BY <1>9 DEF Others, vars, queueVars, workerVars
  <2>2. QueueTypeOK'
    BY <2>1 DEF QueueTypeOK
  <2> QED BY <1>1, <2>1, <2>2
<1> QED BY <1>2, <1>3, <1>4, <1>5, <1>6, <1>7, <1>8, <1>9 DEF WorkerNext, Sweeping

LEMMA AnnouncedStep ==
    ASSUME WorkerInv, [WorkerNext]_vars
    PROVE  AnnouncedAtMostOnce'
<1>1. [RepoNext]_repoVars
  BY WorkerStepIsRepoStep
<1>2. ASSUME NEW w \in Workers,
             \/ Start(w) \/ TickerFires(w) \/ SweepFails(w) \/ Signal(w)
             \/ ConsumerStops(w) \/ Exit(w) \/ Crash(w)
      PROVE  AnnouncedAtMostOnce'
  <2>1. notified' = notified
    BY <1>2 DEF Start, OpenQueue, TickerFires, SweepFails, Signal, ConsumerStops, StopConsuming,
                Exit, Crash, CloseQueue, queueVars
  <2>2. \A v \in Workers : batch'[v] = batch[v] \/ batch'[v] \subseteq batch[v]
    BY <1>2 DEF Start, TickerFires, SweepFails, Signal, ConsumerStops, Exit, Crash, workerVars,
                WorkerInv, WorkerTypeOK
  <2>3. \A v \in Workers : queue'[v] = queue[v] \/ queue'[v] = <<>>
    BY <1>2 DEF Start, OpenQueue, TickerFires, SweepFails, Signal, ConsumerStops, StopConsuming,
                Exit, Crash, CloseQueue, queueVars, WorkerInv, WorkerTypeOK, QueueTypeOK, Workers
  <2> QED BY <1>1, <2>1, <2>2, <2>3, NothingAdded
<1>3. CASE Others \/ UNCHANGED vars
  <2>1. UNCHANGED <<queue, notified, batch>>
    BY <1>3 DEF Others, vars, queueVars, workerVars
  <2> QED BY <1>1, <2>1, NothingAdded
<1> QED BY <1>2, <1>3, UpdateStep, PublishStep, ConsumeStep DEF WorkerNext, Sweeping

LEMMA WorkerInvStep == WorkerInv /\ [WorkerNext]_vars => WorkerInv'
BY WorkerTypeStep, AnnouncedStep DEF WorkerInv

THEOREM WorkerInvariant == WorkerSpec => []WorkerInv
BY WorkerInvInit, WorkerInvStep, PTL DEF WorkerSpec

(* The worker's variables keep their types; the buffer keeps its size.     *)
THEOREM WorkerTypeCorrect == WorkerSpec => []WorkerTypeOK
<1>1. WorkerInv => WorkerTypeOK
  BY DEF WorkerInv
<1> QED BY <1>1, WorkerInvariant, PTL

(* Whatever workers sweep, fail, die and start again at the same time, no  *)
(* expiry is announced twice: the predicate of the UPDATE hands every row  *)
(* to one sweep.                                                           *)
THEOREM ExpiryAnnouncedAtMostOnce == WorkerSpec => []AnnouncedAtMostOnce
<1>1. WorkerInv => AnnouncedAtMostOnce
  BY DEF WorkerInv
<1> QED BY <1>1, WorkerInvariant, PTL

-----------------------------------------------------------------------------
(* How an expired row can come to be without an event: see NoEventVanishes.*)
Excused(p) ==
    \E w \in Workers :
       \/ SweepFails(w)
       \/ IsFull(w) /\ p \in batch[w] /\ p \notin batch'[w]
       \/ Holds(w, p) /\ pc'[w] = "down"

LEMMA VanishStep ==
    ASSUME WorkerInv, [WorkerNext]_vars, NEW p \in Intents, subs'[p].status = "expired",
           subs[p].status # "expired" \/ Announced(p), ~ Announced(p)'
    PROVE  Excused(p)
<1> USE DEF WorkerInv, WorkerTypeOK
<1>1. \A q \in Intents : notified[q] \in Nat
  BY WorkerAssumption DEF QueueTypeOK
<1>2. ASSUME UNCHANGED <<queue, notified, batch>>
      PROVE  Announced(p)' <=> Announced(p)
  BY <1>2 DEF Announced, InFlight, Holds, Buffered, Workers
<1>4. ASSUME NEW w \in Workers, Start(w) \/ Exit(w) \/ Crash(w)
      PROVE  Excused(p)
  <2>1. subs' = subs /\ notified' = notified
    BY <1>4 DEF Start, OpenQueue, Exit, Crash, CloseQueue, repoVars
  <2>2. InFlight(p) /\ ~ InFlight(p)'
    BY <2>1 DEF Announced
  <2>3. PICK v \in Workers : Holds(v, p)
    BY <2>2 DEF InFlight
  <2>4. ~ Holds(v, p)'
    BY <2>2 DEF InFlight, Workers
  <2>5. v = w
    <3>1. ASSUME v # w PROVE queue'[v] = queue[v] /\ batch'[v] = batch[v]
      BY <1>4, <3>1 DEF Start, OpenQueue, Exit, Crash, CloseQueue, QueueTypeOK, Workers
    <3> QED BY <2>3, <2>4, <3>1 DEF Holds, Buffered
  <2>6. CASE Start(w)
    <3>1. queue[w] = <<>> /\ batch[w] = {}
      BY <2>6 DEF Start, IdleHoldsNothing
    <3> QED BY <2>3, <2>5, <3>1 DEF Holds, Buffered
  <2>7. CASE Exit(w) \/ Crash(w)
    <3>1. pc'[w] = "down"
      BY <2>7 DEF Exit, Crash
    <3> QED BY <2>3, <2>5, <3>1 DEF Excused
  <2> QED BY <1>4, <2>6, <2>7
<1>5. ASSUME NEW w \in Workers, TickerFires(w) \/ Signal(w) \/ ConsumerStops(w)
      PROVE  FALSE
  <2>1. UNCHANGED <<subs, queue, notified, batch>>
    BY <1>5 DEF TickerFires, Signal, ConsumerStops, StopConsuming, queueVars, repoVars, workerVars
  <2> QED BY <1>2, <2>1
<1>6. ASSUME NEW w \in Workers, SweepFails(w)
      PROVE  Excused(p)
  BY <1>6 DEF Excused
<1>7. ASSUME NEW w \in Workers, Update(w)
      PROVE  FALSE
  <2>1. UNCHANGED <<queue, notified>> /\ pc[w] = "update"
    BY <1>7 DEF Update, queueVars
  <2>2. CASE UNCHANGED <<repoVars, batch>>
    BY <1>2, <2>1, <2>2 DEF repoVars
  <2>3. CASE ExpireOverdue /\ batch' = [batch EXCEPT ![w] = Overdue]
    <3>1. subs[p].status # "expired" => p \in Overdue
      BY <2>3 DEF ExpireOverdue
    <3>2. p \in Overdue => p \in batch'[w]
      BY <2>3
    <3>3. subs[p].status = "expired"
      BY <3>1, <3>2 DEF Announced, InFlight, Holds, Workers
    <3>4. batch[w] = {}
      BY <2>1 DEF IdleHoldsNothing
    <3>5. \A v \in Workers : batch[v] \subseteq batch'[v]
      BY <2>3, <3>4
    <3>6. \A v \in Workers : Holds(v, p) => Holds(v, p)'
      BY <2>1, <3>5 DEF Holds, Buffered
    <3> QED BY <2>1, <3>3, <3>6 DEF Announced, InFlight, Workers
  <2> QED BY <1>7, <2>2, <2>3 DEF Update
<1>8. ASSUME NEW w \in Workers, PublishExpired(w)
      PROVE  Excused(p)
  <2>1. PICK q \in batch[w] : Publish(w, q) /\ batch' = [batch EXCEPT ![w] = @ \ {q}]
    BY <1>8 DEF PublishExpired
  <2>2. /\ UNCHANGED <<consuming, notified>>
        /\ \A v \in Workers : v # w => queue'[v] = queue[v]
        /\ \/ IsFull(w) /\ queue'[w] = queue[w]
           \/ queue'[w] = Append(queue[w], q)
    BY <2>1, PublishEffect, WorkerAssumption DEF Workers
  <2>3. subs' = subs
    BY <1>8 DEF PublishExpired, repoVars
  <2>4. PICK v \in Workers : Holds(v, p) /\ ~ Holds(v, p)'
    BY <2>2, <2>3 DEF Announced, InFlight, Workers
  <2>5. queue[w] \in Seq(Notices)
    BY DEF QueueTypeOK, Workers
  <2>6. Buffered(v, p) => Buffered(v, p)'
    <3>1. ASSUME queue'[v] = queue[v]
          PROVE  Buffered(v, p) => Buffered(v, p)'
      BY <3>1 DEF Buffered
    <3>2. ASSUME v = w, queue'[w] = Append(queue[w], q)
          PROVE  Buffered(v, p) => Buffered(v, p)'
      BY <2>5, <3>2 DEF Buffered
    <3> QED BY <2>2, <3>1, <3>2
  <2>7. p \in batch[v] /\ p \notin batch'[v]
    BY <2>4, <2>6 DEF Holds
  <2>8. v = w /\ p = q
    BY <2>1, <2>7
  <2>9. CASE queue'[w] = Append(queue[w], q)
    <3>1. /\ Len(queue'[w]) = Len(queue[w]) + 1 /\ Len(queue[w]) \in Nat
          /\ queue'[w][Len(queue[w]) + 1] = q
      BY <2>5, <2>9
    <3>2. Buffered(w, q)'
      BY <3>1 DEF Buffered
    <3> QED BY <2>4, <2>8, <3>2 DEF Holds
  <2>10. CASE IsFull(w)
    BY <2>7, <2>8, <2>10 DEF Excused
  <2> QED BY <2>2, <2>9, <2>10
<1>9. ASSUME NEW w \in Workers, ConsumeEvent(w)
      PROVE  FALSE
  <2>1. UNCHANGED <<subs, batch>> /\ Consume(w)
    BY <1>9 DEF ConsumeEvent, repoVars, workerVars
  <2>2. /\ \A v \in Workers : v # w => queue'[v] = queue[v]
        /\ queue[w] # <<>> /\ queue'[w] = Tail(queue[w])
        /\ Head(queue[w]) \in Intents
        /\ notified' = [notified EXCEPT ![Head(queue[w])] = @ + 1]
    BY <2>1, ConsumeEffect, WorkerAssumption DEF Workers
  <2>3. p # Head(queue[w]) /\ notified'[p] = notified[p]
    BY <1>1, <2>2, WorkerAssumption DEF QueueTypeOK, Announced
  <2>4. PICK v \in Workers : Holds(v, p) /\ ~ Holds(v, p)'
    BY <2>1, <2>3 DEF Announced, InFlight, Workers
  <2>5. v = w
    BY <2>1, <2>2, <2>4 DEF Holds, Buffered
  <2>6. PICK i \in 1..Len(queue[w]) : queue[w][i] = p
    BY <2>1, <2>4, <2>5 DEF Holds, Buffered
  <2>7. queue[w] \in Seq(Notices)
    BY DEF QueueTypeOK, Workers
  <2>8. i # 1
    BY <2>2, <2>3, <2>6, <2>7
  <2>9. i - 1 \in 1..Len(queue'[w]) /\ queue'[w][i - 1] = p
    BY <2>2, <2>6, <2>7, <2>8
  <2> QED BY <2>4, <2>5, <2>9 DEF Holds, Buffered
<1>10. CASE Others \/ UNCHANGED vars
  <2>1. UNCHANGED <<queue, notified, batch>>
    BY <1>10 DEF Others, vars, queueVars, workerVars
  <2>2. ~ Announced(p) /\ subs[p].status # "expired"
    BY <1>2, <2>1
  <2>3. ASSUME Others PROVE subs[p].status = "expired"
    BY <2>3, OthersDoNotExpire
  <2>4. ASSUME UNCHANGED vars PROVE subs' = subs
    BY <2>4 DEF vars
  <2> QED BY <1>10, <2>2, <2>3, <2>4
<1> QED BY <1>4, <1>5, <1>6, <1>7, <1>8, <1>9, <1>10 DEF WorkerNext, Sweeping

(* An expiry goes unannounced only by a sweep that reported an error, a    *)
(* full buffer, or the end of the process that held the event.             *)
THEOREM EventsVanishOnlyAsDocumented == WorkerSpec => NoEventVanishes
<1>1. WorkerInv /\ [WorkerNext]_vars
        => [\A p \in Intents :
              /\ subs'[p].status = "expired"
              /\ subs[p].status # "expired" \/ Announced(p)
              /\ ~ Announced(p)'
              => \E w \in Workers :
                    \/ SweepFails(w)
                    \/ IsFull(w) /\ p \in batch[w] /\ p \notin batch'[w]
                    \/ Holds(w, p) /\ pc'[w] = "down"]_vars
  BY VanishStep DEF Excused
<1> QED BY <1>1, WorkerInvariant, PTL DEF WorkerSpec, NoEventVanishes

-----------------------------------------------------------------------------
(* In every reachable state a notice is somewhere, and in one place.       *)
Place(p) == IF notified[p] = 1 THEN "told"
            ELSE IF InFlight(p) THEN "due"
            ELSE IF subs[p].status = "expired" THEN "lost"
            ELSE "none"

LEMMA NoticeHasItsPlace == WorkerInv => \A p \in Intents : NoticeOf(p) = Place(p)
<1> SUFFICES ASSUME WorkerInv, NEW p \in Intents
             PROVE  NoticeOf(p) = Place(p)
  OBVIOUS
<1>1. notified[p] = 0 \/ notified[p] = 1
  <2>1. notified[p] \in Nat /\ notified[p] <= 1
    BY WorkerAssumption DEF WorkerInv, WorkerTypeOK, QueueTypeOK, AnnouncedAtMostOnce
  <2> QED BY <2>1
<1>2. /\ notified[p] = 1 => ~ InFlight(p) /\ subs[p].status = "expired"
      /\ InFlight(p) => subs[p].status = "expired"
  BY DEF WorkerInv, AnnouncedAtMostOnce
<1> QED BY <1>1, <1>2 DEF NoticeOf, Place

(* Notices that all make one legal move make a step of the promise.        *)
LEMMA OneMoveIsAStep ==
    ASSUME NEW from, NEW to,
           <<from, to>> \in {<<"none", "due">>, <<"none", "lost">>, <<"due", "lost">>},
           \A p \in Intents : \/ NoticeOf(p)' = NoticeOf(p)
                              \/ NoticeOf(p) = from /\ NoticeOf(p)' = to
    PROVE  [Promise!Next]_[p \in Intents |-> NoticeOf(p)]
<1> DEFINE S == {p \in Intents : NoticeOf(p) = from /\ NoticeOf(p)' = to}
<1>1. Promise!Move(S, from, to)
  BY WorkerAssumption DEF Promise!Move
<1>2. S \in SUBSET Notices
  BY WorkerAssumption
<1> HIDE DEF S
<1> QED BY <1>1, <1>2 DEF Promise!Next, Promise!FallDue, Promise!Miss, Promise!Lose

LEMMA TellIsAStep ==
    ASSUME NEW h \in Intents, NoticeOf(h) = "due", NoticeOf(h)' = "told",
           \A p \in Intents : p # h => NoticeOf(p)' = NoticeOf(p)
    PROVE  [Promise!Next]_[p \in Intents |-> NoticeOf(p)]
<1>1. Promise!Tell(h)
  BY WorkerAssumption DEF Promise!Tell, Promise!Move
<1> QED BY <1>1, WorkerAssumption DEF Promise!Next

(* A step that moves no event and expires no row moves no notice.          *)
LEMMA NothingMoves ==
    ASSUME UNCHANGED <<queue, batch, notified>>,
           NEW p \in Intents, subs'[p].status = "expired" <=> subs[p].status = "expired"
    PROVE  Place(p)' = Place(p)
<1>1. InFlight(p)' <=> InFlight(p)
  BY DEF InFlight, Holds, Buffered, Workers
<1> QED BY <1>1 DEF Place

LEMMA WorkerStepKeepsPromise ==
    ASSUME WorkerInv, WorkerInv', [WorkerNext]_vars
    PROVE  [Promise!Next]_[p \in Intents |-> NoticeOf(p)]
<1>1. \A p \in Intents : NoticeOf(p) = Place(p) /\ NoticeOf(p)' = Place(p)'
  <2>1. (WorkerInv => \A p \in Intents : NoticeOf(p) = Place(p))'
    BY NoticeHasItsPlace, PTL
  <2> QED BY <2>1, NoticeHasItsPlace
<1>2. /\ RepoTypeOK /\ QueueTypeOK /\ batch \in [Workers -> SUBSET Intents]
      /\ \A p \in Intents : notified[p] \in Nat
  BY WorkerAssumption DEF WorkerInv, WorkerTypeOK, QueueTypeOK
<1>3. \A p \in Intents : /\ notified[p] = 1 => ~ InFlight(p)
                         /\ notified[p] = 1 \/ InFlight(p) => subs[p].status = "expired"
  BY DEF WorkerInv, AnnouncedAtMostOnce
<1>4. [RepoNext]_repoVars
  BY WorkerStepIsRepoStep
<1>5. ASSUME NEW w \in Workers, Update(w)
      PROVE  [Promise!Next]_[p \in Intents |-> NoticeOf(p)]
  <2>1. UNCHANGED <<queue, notified>>
    BY <1>5 DEF Update, queueVars
  <2>2. CASE UNCHANGED <<repoVars, batch>>
    BY <1>1, <2>1, <2>2, NothingMoves, OneMoveIsAStep DEF repoVars
  <2>3. CASE ExpireOverdue /\ batch' = [batch EXCEPT ![w] = Overdue]
    <3>1. batch[w] = {}
      BY <1>5 DEF Update, WorkerInv, IdleHoldsNothing
    <3>2. \A v \in Workers, p \in Intents : Holds(v, p)' <=> Holds(v, p) \/ (v = w /\ p \in Overdue)
      BY <1>2, <2>1, <2>3, <3>1 DEF Holds, Buffered
    <3>3. \A p \in Intents : InFlight(p)' <=> InFlight(p) \/ p \in Overdue
      BY <3>2 DEF InFlight, Workers
    <3>4. ASSUME NEW p \in Intents, p \in Overdue
          PROVE  Place(p) = "none" /\ Place(p)' = "due"
      BY <1>3, <2>1, <3>3, <3>4 DEF Place, Overdue
    <3>5. ASSUME NEW p \in Intents, p \notin Overdue
          PROVE  Place(p)' = Place(p)
      <4>1. subs'[p] = subs[p]
        BY <2>3, <3>5 DEF ExpireOverdue
      <4> QED BY <2>1, <3>3, <3>5, <4>1 DEF Place
    <3> QED BY <1>1, <3>4, <3>5, OneMoveIsAStep
  <2> QED BY <1>5, <2>2, <2>3 DEF Update
<1>6. ASSUME NEW w \in Workers, SweepFails(w)
      PROVE  [Promise!Next]_[p \in Intents |-> NoticeOf(p)]
  <2>1. UNCHANGED <<queue, batch, notified>>
    BY <1>6 DEF SweepFails, queueVars
  <2>2. CASE UNCHANGED repoVars
    BY <1>1, <2>1, <2>2, NothingMoves, OneMoveIsAStep DEF repoVars
  <2>3. CASE ExpireOverdue
    <3>1. \A p \in Intents : InFlight(p)' <=> InFlight(p)
      BY <2>1 DEF InFlight, Holds, Buffered, Workers
    <3>2. ASSUME NEW p \in Intents, p \in Overdue
          PROVE  Place(p) = "none" /\ Place(p)' = "lost"
      <4>1. subs'[p].status = "expired"
        BY <1>2, <2>3, <3>2 DEF ExpireOverdue, Overdue, RepoTypeOK, Rows, NoRow
      <4> QED BY <1>3, <2>1, <3>1, <3>2, <4>1 DEF Place, Overdue
    <3>3. ASSUME NEW p \in Intents, p \notin Overdue
          PROVE  Place(p)' = Place(p)
      <4>1. subs'[p] = subs[p]
        BY <2>3, <3>3 DEF ExpireOverdue
      <4> QED BY <2>1, <4>1, NothingMoves
    <3> QED BY <1>1, <3>2, <3>3, OneMoveIsAStep
  <2> QED BY <1>6, <2>2, <2>3 DEF SweepFails
<1>7. ASSUME NEW w \in Workers, PublishExpired(w)
      PROVE  [Promise!Next]_[p \in Intents |-> NoticeOf(p)]
  <2>1. PICK e \in batch[w] : Publish(w, e) /\ batch' = [batch EXCEPT ![w] = @ \ {e}]
    BY <1>7 DEF PublishExpired
  <2>2. e \in Intents
    BY <1>2
  <2>3. /\ notified' = notified
        /\ \A v \in Workers, p \in Intents :
              Buffered(v, p)' <=> Buffered(v, p) \/ (v = w /\ p = e /\ ~ IsFull(w))
    BY <1>2, <2>1, <2>2, PublishEffect, PublishBuffers, WorkerAssumption DEF Workers
  <2>4. \A v \in Workers, p \in Intents : p \in batch'[v] <=> p \in batch[v] /\ ~ (v = w /\ p = e)
    BY <1>2, <2>1
  <2>5. ~ Buffered(w, e) /\ \A v \in Workers : Holds(v, e) => v = w
    BY <2>2 DEF WorkerInv, AnnouncedAtMostOnce, Holds
  <2>6. \A p \in Intents : InFlight(p)' <=> InFlight(p) /\ ~ (p = e /\ IsFull(w))
    BY <2>3, <2>4, <2>5 DEF InFlight, Holds, Workers
  <2>7. InFlight(e) /\ subs' = subs
    BY <1>7, <2>1 DEF InFlight, Holds, PublishExpired, repoVars
  <2>8. ASSUME NEW p \in Intents
        PROVE  Place(p)' = Place(p) \/ (Place(p) = "due" /\ Place(p)' = "lost")
    BY <1>3, <2>3, <2>6, <2>7 DEF Place
  <2> QED BY <1>1, <2>8, OneMoveIsAStep
<1>8. ASSUME NEW w \in Workers, ConsumeEvent(w)
      PROVE  [Promise!Next]_[p \in Intents |-> NoticeOf(p)]
  <2>1. UNCHANGED <<subs, batch>> /\ Consume(w)
    BY <1>8 DEF ConsumeEvent, repoVars, workerVars
  <2>2. PICK h \in Intents : h = Head(queue[w])
    BY <1>2, <2>1, ConsumeEffect, WorkerAssumption DEF Workers
  <2>3. \A p \in Intents : notified'[p] = IF p = h THEN notified[p] + 1 ELSE notified[p]
    BY <1>2, <2>1, <2>2, ConsumeEffect, WorkerAssumption DEF Workers, QueueTypeOK
  <2>4. /\ Buffered(w, h)
        /\ \A v \in Workers, p \in Intents :
              /\ Buffered(v, p)' => Buffered(v, p)
              /\ Buffered(v, p) => Buffered(v, p)' \/ (v = w /\ p = h)
    BY <1>2, <2>1, <2>2, ConsumeTakesHead, WorkerAssumption DEF Workers
  <2>5. \A p \in Intents : p # h => (InFlight(p)' <=> InFlight(p))
    BY <2>1, <2>4 DEF InFlight, Holds, Workers
  <2>6. InFlight(h)
    BY <2>4 DEF InFlight, Holds
  <2>7. notified[h] = 0 /\ notified'[h] = 1
    <3>1. notified[h] # 1 /\ notified[h] <= 1
      BY <1>3, <2>6 DEF WorkerInv, AnnouncedAtMostOnce
    <3> QED BY <1>2, <2>3, <3>1
  <2>8. Place(h) = "due" /\ Place(h)' = "told"
    BY <2>6, <2>7 DEF Place
  <2>9. \A p \in Intents : p # h => Place(p)' = Place(p)
    BY <2>1, <2>3, <2>5 DEF Place
  <2> QED BY <1>1, <2>8, <2>9, TellIsAStep
<1>9. ASSUME NEW w \in Workers, Start(w) \/ Exit(w) \/ Crash(w)
      PROVE  [Promise!Next]_[p \in Intents |-> NoticeOf(p)]
  <2>1. /\ subs' = subs /\ notified' = notified
        /\ \A v \in Workers, p \in Intents : Buffered(v, p)' <=> v # w /\ Buffered(v, p)
    BY <1>2, <1>9, OpenOrCloseEmpties, WorkerAssumption DEF Start, Exit, Crash, repoVars, Workers
  <2>2. \A v \in Workers, p \in Intents : p \in batch'[v] => p \in batch[v]
    BY <1>2, <1>9 DEF Start, Exit, Crash
  <2>3. \A p \in Intents : InFlight(p)' => InFlight(p)
    BY <2>1, <2>2 DEF InFlight, Holds, Workers
  <2>4. ASSUME NEW p \in Intents
        PROVE  Place(p)' = Place(p) \/ (Place(p) = "due" /\ Place(p)' = "lost")
    BY <1>3, <2>1, <2>3 DEF Place
  <2> QED BY <1>1, <2>4, OneMoveIsAStep
<1>10. CASE \/ \E w \in Workers : TickerFires(w) \/ Signal(w) \/ ConsumerStops(w)
            \/ Others \/ UNCHANGED vars
  <2>1. UNCHANGED <<queue, batch, notified>>
    BY <1>10 DEF TickerFires, Signal, ConsumerStops, StopConsuming, Others, vars, queueVars,
                 workerVars
  <2>2. ASSUME NEW p \in Intents
        PROVE  subs'[p].status = "expired" <=> subs[p].status = "expired"
    <3>1. CASE Others
      BY <1>2, <1>4, <3>1, ExpiredStays, OthersDoNotExpire
    <3>2. CASE subs' = subs
      BY <3>2
    <3> QED BY <1>10, <3>1, <3>2 DEF TickerFires, Signal, ConsumerStops, repoVars, vars
  <2> QED BY <1>1, <2>1, <2>2, NothingMoves, OneMoveIsAStep
<1> QED BY <1>5, <1>6, <1>7, <1>8, <1>9, <1>10 DEF WorkerNext, Sweeping

(* Workers that sweep, fail, die and start again keep the promise of       *)
(* CreatorNotices: an expiry falls due with the UPDATE, its creator is     *)
(* told once at most, and what is lost is never told.                      *)
THEOREM WorkersKeepNoticePromise == WorkerSpec => NoticeSpec
<1>1. WorkerInit => Promise!Init
  <2> SUFFICES ASSUME WorkerInit
               PROVE  \A p \in Intents : NoticeOf(p) = "none"
    BY WorkerAssumption DEF Promise!Init
  <2>1. \A p \in Intents : notified[p] = 0 /\ subs[p].status # "expired" /\ ~ InFlight(p)
    BY WorkerAssumption DEF WorkerInit, QueueInit, RepoInit, NoRow, InFlight, Holds, Buffered,
                            Workers
  <2> QED BY <2>1 DEF NoticeOf
<1>2. WorkerInv /\ WorkerInv' /\ [WorkerNext]_vars
        => [Promise!Next]_[p \in Intents |-> NoticeOf(p)]
  BY WorkerStepKeepsPromise
<1> QED BY <1>1, <1>2, WorkerInvariant, PTL DEF WorkerSpec, NoticeSpec, Promise!Spec
=============================================================================
