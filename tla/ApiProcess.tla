----------------------------- MODULE ApiProcess -----------------------------
(***************************************************************************)
(* The API process (cmd/api/main.go): it serves calls, each of them a      *)
(* write of the tables followed by a metric or an event                    *)
(* (internal/services), keeps counters and a gauge in its memory           *)
(* (internal/metrics), and on a signal stops accepting calls, waits ten    *)
(* seconds for those in progress and ends.  Any number of instances run,   *)
(* each with its own notification queue.                                   *)
(*                                                                         *)
(* A write is one atomic operation of SubscriptionRepository; PaymentFlow  *)
(* has the statements of the webhook's, UserListCache the DELs that follow.*)
(***************************************************************************)
EXTENDS SubscriptionRepository, NotificationQueue

CONSTANTS
    Goroutines,  \* calls in progress at once
    MaxFaults,   \* bound on crashes, unheard commits and failed refreshes
    MaxSignals   \* bound on SIGINT/SIGTERM

(* The processes are API instances and announce paid subscriptions; Stripe *)
(* has one succeeded event per PaymentIntent.                              *)
ASSUME ApiAssumption == Notices = Intents /\ Events = Intents

Instances == Processes

VARIABLES
    server,      \* what each instance is doing
    calls,       \* how far each call is
    created,     \* subscriptions_created_total
    cancelled,   \* subscriptions_cancelled_total
    gauge,       \* active_subscriptions
    refresh,     \* what the gauge's query has returned and not yet Set
    faults,      \* failures so far
    signals      \* signals so far

apiVars == <<server, calls, created, cancelled, gauge, refresh, faults, signals>>
vars == <<subs, transactions, now, queue, consuming, notified,
          server, calls, created, cancelled, gauge, refresh, faults, signals>>

(* "failed" is an exit by log.Fatalf or a crash. *)
ServerStates == {"exited", "failed", "serving", "draining"}

IsUp(w) == server[w] \in {"serving", "draining"}

(* After its write a call is named for what it has left to do. *)
CallStates == {"working", "created", "cancelled", "paid", "answering"}
IdleCall == [pc |-> "idle"]
Calls == {IdleCall} \cup [pc : CallStates, at : Instances, sub : Intents]

NoResult == -1

ApiInit ==
    /\ RepoInit
    /\ QueueInit
    /\ server = [w \in Instances |-> "exited"]
    /\ calls = [g \in Goroutines |-> IdleCall]
    /\ created = [w \in Instances |-> 0]
    /\ cancelled = [w \in Instances |-> 0]
    /\ gauge = [w \in Instances |-> 0]
    /\ refresh = [w \in Instances |-> NoResult]
    /\ faults = 0
    /\ signals = 0

Fault ==
    /\ faults < MaxFaults
    /\ faults' = faults + 1

IsAt(g, w) == calls[g].pc # "idle" /\ calls[g].at = w

-----------------------------------------------------------------------------
(* Calls.  A call on subscription p may be any of the service's writes.    *)
Accept(g, w, p) ==
    /\ server[w] = "serving"
    /\ calls[g] = IdleCall
    /\ calls' = [calls EXCEPT ![g] = [pc |-> "working", at |-> w, sub |-> p]]
    /\ UNCHANGED <<repoVars, queueVars, server, created, cancelled, gauge,
                   refresh, faults, signals>>

(* The repository's writes and what the service does after each. *)
Writes(p, next) ==
    \/ /\ \E u \in Users, c \in Creators : CreatePending(p, u, c)
       /\ next = "created"
    \/ /\ \E amount \in Amounts : MarkPaymentSucceeded(p, p, amount)
       /\ next = "paid"
    \/ /\ MarkPaymentFailed(p) \/ Cancel(p)
       /\ next = "cancelled"
    \/ /\ Renew(p)
       /\ next = "answering"

Write(g) ==
    /\ calls[g].pc = "working"
    /\ \E next \in CallStates :
         /\ Writes(calls[g].sub, next)
         /\ calls' = [calls EXCEPT ![g].pc = next]
    /\ UNCHANGED <<queueVars, server, created, cancelled, gauge, refresh,
                   faults, signals>>

(* The write goes through and its caller is told of an error. *)
WriteUnheard(g) ==
    /\ calls[g].pc = "working"
    /\ Fault
    /\ \E next \in CallStates : Writes(calls[g].sub, next)
    /\ calls' = [calls EXCEPT ![g].pc = "answering"]
    /\ UNCHANGED <<queueVars, server, created, cancelled, gauge, refresh, signals>>

MutantCountAttempts(g) ==
    /\ calls[g].pc = "working"
    /\ calls' = [calls EXCEPT ![g].pc = "created"]
    /\ UNCHANGED <<repoVars, queueVars, server, created, cancelled, gauge,
                   refresh, faults, signals>>

MutantPublishDuplicates(g) ==
    /\ calls[g].pc = "working"
    /\ calls' = [calls EXCEPT
           ![g].pc = IF EventIsRecorded(calls[g].sub) THEN "paid" ELSE "answering"]
    /\ UNCHANGED <<repoVars, queueVars, server, created, cancelled, gauge,
                   refresh, faults, signals>>

(* Not found, not the caller's, a duplicate, or an error. *)
Refuse(g) ==
    /\ calls[g].pc = "working"
    /\ calls' = [calls EXCEPT ![g].pc = "answering"]
    /\ UNCHANGED <<repoVars, queueVars, server, created, cancelled, gauge,
                   refresh, faults, signals>>

(* SubscriptionsCreatedTotal.Inc(). *)
CountCreated(g) ==
    /\ calls[g].pc = "created"
    /\ created' = [created EXCEPT ![calls[g].at] = @ + 1]
    /\ calls' = [calls EXCEPT ![g].pc = "answering"]
    /\ UNCHANGED <<repoVars, queueVars, server, cancelled, gauge, refresh,
                   faults, signals>>

(* SubscriptionsCancelledTotal.Inc(), for a declined payment too. *)
CountCancelled(g) ==
    /\ calls[g].pc = "cancelled"
    /\ cancelled' = [cancelled EXCEPT ![calls[g].at] = @ + 1]
    /\ calls' = [calls EXCEPT ![g].pc = "answering"]
    /\ UNCHANGED <<repoVars, queueVars, server, created, gauge, refresh,
                   faults, signals>>

PublishPaid(g) ==
    /\ calls[g].pc = "paid"
    /\ Publish(calls[g].at, calls[g].sub)
    /\ calls' = [calls EXCEPT ![g].pc = "answering"]
    /\ UNCHANGED <<repoVars, server, created, cancelled, gauge, refresh,
                   faults, signals>>

Answer(g) ==
    /\ calls[g].pc = "answering"
    /\ calls' = [calls EXCEPT ![g] = IdleCall]
    /\ UNCHANGED <<repoVars, queueVars, server, created, cancelled, gauge,
                   refresh, faults, signals>>

-----------------------------------------------------------------------------
(* The gauge's goroutine: at start and at every tick one SELECT COUNT and  *)
(* one Set.                                                                *)
Active == {p \in Intents : subs[p].status = "active"}

MutantCountOnceAtBoot(w) ==
    /\ IsUp(w)
    /\ refresh[w] = NoResult
    /\ gauge[w] = 0
    /\ refresh' = [refresh EXCEPT ![w] = Cardinality(Active)]
    /\ UNCHANGED <<repoVars, queueVars, server, calls, created, cancelled,
                   gauge, faults, signals>>

CountActive(w) ==
    /\ IsUp(w)
    /\ refresh[w] = NoResult
    /\ refresh' = [refresh EXCEPT ![w] = Cardinality(Active)]
    /\ UNCHANGED <<repoVars, queueVars, server, calls, created, cancelled,
                   gauge, faults, signals>>

SetGauge(w) ==
    /\ refresh[w] # NoResult
    /\ gauge' = [gauge EXCEPT ![w] = refresh[w]]
    /\ refresh' = [refresh EXCEPT ![w] = NoResult]
    /\ UNCHANGED <<repoVars, queueVars, server, calls, created, cancelled,
                   faults, signals>>

(* The query fails or takes more than two seconds: the gauge stays. *)
RefreshFails(w) ==
    /\ refresh[w] # NoResult
    /\ Fault
    /\ refresh' = [refresh EXCEPT ![w] = NoResult]
    /\ UNCHANGED <<repoVars, queueVars, server, calls, created, cancelled,
                   gauge, signals>>

-----------------------------------------------------------------------------
(* The life of an instance. *)
Start(w) ==
    /\ ~ IsUp(w)
    /\ OpenQueue(w)
    /\ server' = [server EXCEPT ![w] = "serving"]
    /\ UNCHANGED <<repoVars, calls, created, cancelled, gauge, refresh, faults,
                   signals>>

ConsumeEvent(w) == Consume(w) /\ UNCHANGED <<repoVars, apiVars>>

(* SIGINT or SIGTERM: Shutdown closes the listener. *)
Signal(w) ==
    /\ server[w] = "serving"
    /\ signals < MaxSignals
    /\ signals' = signals + 1
    /\ server' = [server EXCEPT ![w] = "draining"]
    /\ UNCHANGED <<repoVars, queueVars, calls, created, cancelled, gauge,
                   refresh, faults>>

(* What the process kept in memory is gone, with its calls. *)
End(w, how) ==
    /\ CloseQueue(w)
    /\ server' = [server EXCEPT ![w] = how]
    /\ calls' = [g \in Goroutines |-> IF IsAt(g, w) THEN IdleCall ELSE calls[g]]
    /\ created' = [created EXCEPT ![w] = 0]
    /\ cancelled' = [cancelled EXCEPT ![w] = 0]
    /\ gauge' = [gauge EXCEPT ![w] = 0]
    /\ refresh' = [refresh EXCEPT ![w] = NoResult]
    /\ UNCHANGED <<repoVars, signals>>

MutantCloseAtOnce(w) ==
    /\ server[w] = "draining"
    /\ End(w, "exited")
    /\ UNCHANGED faults

(* Shutdown returns when no call is in progress.  main returns; its        *)
(* consumer may read on until then, nobody waits for it.                   *)
Exit(w) ==
    /\ server[w] = "draining"
    /\ \A g \in Goroutines : ~ IsAt(g, w)
    /\ End(w, "exited")
    /\ UNCHANGED faults

MutantNoDeadline(w) == FALSE /\ UNCHANGED vars

(* Ten seconds are over and calls are still in progress: log.Fatalf. *)
DrainTimesOut(w) ==
    /\ server[w] = "draining"
    /\ \E g \in Goroutines : IsAt(g, w)
    /\ End(w, "failed")
    /\ UNCHANGED faults

Crash(w) ==
    /\ IsUp(w)
    /\ Fault
    /\ End(w, "failed")

(* The worker's sweep, and time. *)
Others ==
    /\ ExpireOverdue \/ Tick
    /\ UNCHANGED <<queueVars, apiVars>>

ApiNext ==
    \/ \E g \in Goroutines :
         \/ \E w \in Instances, p \in Intents : Accept(g, w, p)
         \/ Write(g)
         \/ WriteUnheard(g)
         \/ Refuse(g)
         \/ CountCreated(g)
         \/ CountCancelled(g)
         \/ PublishPaid(g)
         \/ Answer(g)
    \/ \E w \in Instances :
         \/ CountActive(w)
         \/ SetGauge(w)
         \/ RefreshFails(w)
         \/ Start(w)
         \/ ConsumeEvent(w)
         \/ Signal(w)
         \/ Exit(w)
         \/ DrainTimesOut(w)
         \/ Crash(w)
    \/ Others

ApiSpec == ApiInit /\ [][ApiNext]_vars

(* The gauge's ticker fires and its query ends; Shutdown has a deadline.   *)
(* A call may hang: the server has no timeouts.  Nobody has to start an    *)
(* instance.                                                               *)
ApiFairness ==
    \A w \in Instances : /\ WF_vars(CountActive(w))
                         /\ WF_vars(SetGauge(w))
                         /\ WF_vars(Exit(w) \/ DrainTimesOut(w))

FairApiSpec == ApiSpec /\ ApiFairness

-----------------------------------------------------------------------------
(* The instances' variables have their types, and an instance that is not  *)
(* up has no calls, no events and nothing in its memory.                   *)
ApiTypeOK ==
    /\ RepoTypeOK
    /\ QueueTypeOK
    /\ server \in [Instances -> ServerStates]
    /\ calls \in [Goroutines -> Calls]
    /\ created \in [Instances -> Nat]
    /\ cancelled \in [Instances -> Nat]
    /\ gauge \in [Instances -> Nat]
    /\ refresh \in [Instances -> Nat \cup {NoResult}]
    /\ faults \in Nat
    /\ signals \in Nat
    /\ \A w \in Instances : ~ IsUp(w) =>
          /\ queue[w] = <<>>
          /\ created[w] = 0 /\ cancelled[w] = 0 /\ refresh[w] = NoResult
          /\ \A g \in Goroutines : ~ IsAt(g, w)

(* Subscription p's event is about to be published, or buffered.           *)
Publishing(g, p) == calls[g].pc = "paid" /\ calls[g].sub = p

Announcing(p) ==
    \/ \E g \in Goroutines : Publishing(g, p)
    \/ \E w \in Instances : Buffered(w, p)

Told(p) == Announcing(p) \/ notified[p] > 0

IsPaid(p) == EventIsRecorded(p)

(* The creator of a paid subscription goes untold in four ways only: the   *)
(* write was reported as an error, the buffer was full, the event was in   *)
(* the buffer when the process ended, or the process failed.  A graceful   *)
(* shutdown loses no event that a call has still to publish.               *)
NoNoticeVanishes ==
    [][\A p \in Intents :
          /\ IsPaid(p)'
          /\ ~ IsPaid(p) \/ Told(p)
          /\ ~ Told(p)'
          => \/ \E g \in Goroutines : WriteUnheard(g)
             \/ \E g \in Goroutines : PublishPaid(g) /\ IsFull(calls[g].at)
             \/ \E w \in Instances : ~ IsUp(w)' /\ Buffered(w, p)
             \/ \E w \in Instances : server'[w] = "failed" /\ server[w] # "failed"]_vars

(* Where the notice of p's payment stands; "wrong" is no place for it.     *)
NoticeOf(p) ==
    CASE notified[p] = 0 /\ Announcing(p) /\ IsPaid(p)     -> "due"
      [] notified[p] = 0 /\ ~ Announcing(p) /\ IsPaid(p)   -> "lost"
      [] notified[p] = 0 /\ ~ Announcing(p) /\ ~ IsPaid(p) -> "none"
      [] notified[p] = 1 /\ ~ Announcing(p) /\ IsPaid(p)   -> "told"
      [] OTHER -> "wrong"

Promise == INSTANCE CreatorNotices WITH notices <- [p \in Intents |-> NoticeOf(p)]

(* The instances keep the promise of CreatorNotices for paid rows.         *)
NoticeSpec == Promise!Spec

(* The Inc() calls a counter shows, and the calls that have yet to count.  *)
Incs(counter) == UNION {{w} \X (1..counter[w]) : w \in Instances}
Owing(what) == {g \in Goroutines : calls[g].pc = what}
Counted(counter, what) == Cardinality(Incs(counter)) + Cardinality(Owing(what))

Inserted == {p \in Intents : subs[p] # NoRow}
CancelledRows == {p \in Intents : subs[p].status = "cancelled"}

(* The counters of all instances together never count a subscription that  *)
(* was not created or cancelled, or one twice; and they are exact until an *)
(* instance ends or a write's answer is lost.                              *)
CountersAreRight ==
    /\ Counted(created, "created") <= Cardinality(Inserted)
    /\ Counted(cancelled, "cancelled") <= Cardinality(CancelledRows)
    /\ faults = 0 /\ signals = 0
          => /\ Counted(created, "created") = Cardinality(Inserted)
             /\ Counted(cancelled, "cancelled") = Cardinality(CancelledRows)

(* metrics.go:157-165: the gauge cannot drift.  Whatever was refused, lost *)
(* or failed before, it is right again when the tables have settled.       *)
GaugeConverges ==
    \A w \in Instances : \A n \in 0..Cardinality(Intents) :
        <>[](IsUp(w) /\ Cardinality(Active) = n) => <>[](gauge[w] = n)

(* An instance that is told to stop stops, also when a call hangs.         *)
StopsWhenTold == \A w \in Instances : server[w] = "draining" ~> ~ IsUp(w)
=============================================================================
