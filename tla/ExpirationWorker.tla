--------------------------- MODULE ExpirationWorker ---------------------------
(***************************************************************************)
(* The background worker (cmd/worker/main.go): a sweep at boot and at      *)
(* every tick, each of them one UPDATE and then one Publish per row it     *)
(* returned (ExpireOverdue in internal/services/subscription_service.go).  *)
(* Any number of workers run at once, each with its own notification       *)
(* queue.  A sweep can fail or hit its timeout, a worker can be told to    *)
(* stop or die anywhere, and can be started again.                         *)
(*                                                                         *)
(* The DELs between the publishes are in UserListCache.  A tick that finds *)
(* the context cancelled fails at once and is a stuttering step.           *)
(***************************************************************************)
EXTENDS SubscriptionRepository, NotificationQueue

CONSTANTS
    MaxFaults,   \* bound on failed sweeps and crashes
    MaxSignals   \* bound on SIGINT/SIGTERM

(* The processes are the workers, and what they announce are expired rows. *)
ASSUME WorkerAssumption == Notices = Intents

Workers == Processes

VARIABLES
    pc,        \* where a worker stands
    batch,     \* rows its sweep has expired and not yet published
    ctxDone,   \* whether its root context is cancelled
    faults,    \* failures so far
    signals    \* signals so far

workerVars == <<pc, batch, ctxDone, faults, signals>>
vars == <<subs, transactions, now, queue, consuming, notified,
          pc, batch, ctxDone, faults, signals>>

(* "update": the UPDATE is under way; "announce": the loop over its rows;  *)
(* "idle": the select on ticker and context.                               *)
WorkerStates == {"down", "update", "announce", "idle"}

WorkerInit ==
    /\ RepoInit
    /\ QueueInit
    /\ pc = [w \in Workers |-> "down"]
    /\ batch = [w \in Workers |-> {}]
    /\ ctxDone = [w \in Workers |-> FALSE]
    /\ faults = 0
    /\ signals = 0

Fault ==
    /\ faults < MaxFaults
    /\ faults' = faults + 1

-----------------------------------------------------------------------------
(* main(): a queue, its consumer, and a sweep without waiting for a tick. *)
Start(w) ==
    /\ pc[w] = "down"
    /\ OpenQueue(w)
    /\ pc' = [pc EXCEPT ![w] = "update"]
    /\ UNCHANGED <<repoVars, batch, ctxDone, faults, signals>>

TickerFires(w) ==
    /\ pc[w] = "idle"
    /\ ~ ctxDone[w]
    /\ pc' = [pc EXCEPT ![w] = "update"]
    /\ UNCHANGED <<repoVars, queueVars, batch, ctxDone, faults, signals>>

(* The UPDATE and its RETURNING rows. *)
Update(w) ==
    /\ pc[w] = "update"
    /\ \/ /\ ExpireOverdue
          /\ batch' = [batch EXCEPT ![w] = Overdue]
          /\ pc' = [pc EXCEPT ![w] = "announce"]
       \/ /\ Overdue = {}
          /\ pc' = [pc EXCEPT ![w] = "idle"]
          /\ UNCHANGED <<repoVars, batch>>
    /\ UNCHANGED <<queueVars, ctxDone, faults, signals>>

MutantSweepHangs(w) ==
    /\ pc[w] = "update"
    /\ \/ Fault
       \/ ctxDone[w] /\ UNCHANGED faults
    /\ ExpireOverdue \/ UNCHANGED repoVars
    /\ pc' = [pc EXCEPT ![w] = "announce"]
    /\ UNCHANGED <<queueVars, batch, ctxDone, signals>>

(* The statement fails, hits the sweep's timeout or is cancelled; it may   *)
(* have committed all the same, and its rows are then returned to nobody.  *)
SweepFails(w) ==
    /\ pc[w] = "update"
    /\ \/ Fault
       \/ ctxDone[w] /\ UNCHANGED faults
    /\ ExpireOverdue \/ UNCHANGED repoVars
    /\ pc' = [pc EXCEPT ![w] = "idle"]
    /\ UNCHANGED <<queueVars, batch, ctxDone, signals>>

EndOfLoop(w) == pc' = [pc EXCEPT ![w] = IF batch'[w] = {} THEN "idle" ELSE @]

MutantOneEventPerUser(w) ==
    /\ pc[w] = "announce"
    /\ \E p \in batch[w] :
         /\ Publish(w, p)
         /\ batch' = [batch EXCEPT ![w] = {q \in @ : subs[q].user # subs[p].user}]
    /\ EndOfLoop(w)
    /\ UNCHANGED <<repoVars, ctxDone, faults, signals>>

(* One event per row, not per user, in the order the rows came. *)
PublishExpired(w) ==
    /\ pc[w] = "announce"
    /\ \E p \in batch[w] :
         /\ Publish(w, p)
         /\ batch' = [batch EXCEPT ![w] = @ \ {p}]
    /\ EndOfLoop(w)
    /\ UNCHANGED <<repoVars, ctxDone, faults, signals>>

ConsumeEvent(w) == Consume(w) /\ UNCHANGED <<repoVars, workerVars>>

-----------------------------------------------------------------------------
(* SIGINT or SIGTERM cancels the root context. *)
Signal(w) ==
    /\ pc[w] # "down"
    /\ ~ ctxDone[w]
    /\ signals < MaxSignals
    /\ signals' = signals + 1
    /\ ctxDone' = [ctxDone EXCEPT ![w] = TRUE]
    /\ UNCHANGED <<repoVars, queueVars, pc, batch, faults>>

ConsumerStops(w) ==
    /\ ctxDone[w]
    /\ StopConsuming(w)
    /\ UNCHANGED <<repoVars, workerVars>>

MutantExitWaitsForConsumer(w) ==
    /\ pc[w] = "idle"
    /\ ctxDone[w]
    /\ queue[w] = <<>>
    /\ CloseQueue(w)
    /\ pc' = [pc EXCEPT ![w] = "down"]
    /\ ctxDone' = [ctxDone EXCEPT ![w] = FALSE]
    /\ UNCHANGED <<repoVars, batch, faults, signals>>

(* main returns without waiting for the consumer. *)
Exit(w) ==
    /\ pc[w] = "idle"
    /\ ctxDone[w]
    /\ CloseQueue(w)
    /\ pc' = [pc EXCEPT ![w] = "down"]
    /\ ctxDone' = [ctxDone EXCEPT ![w] = FALSE]
    /\ UNCHANGED <<repoVars, batch, faults, signals>>

Crash(w) ==
    /\ pc[w] # "down"
    /\ Fault
    /\ CloseQueue(w)
    /\ pc' = [pc EXCEPT ![w] = "down"]
    /\ batch' = [batch EXCEPT ![w] = {}]
    /\ ctxDone' = [ctxDone EXCEPT ![w] = FALSE]
    /\ UNCHANGED <<repoVars, signals>>

-----------------------------------------------------------------------------
(* Everybody else who writes the tables. *)
Others ==
    /\ \/ \E p \in Intents :
            \/ \E u \in Users, c \in Creators : CreatePending(p, u, c)
            \/ \E e \in Events, amount \in Amounts : MarkPaymentSucceeded(p, e, amount)
            \/ MarkPaymentFailed(p)
            \/ Cancel(p)
            \/ Renew(p)
       \/ Tick
    /\ UNCHANGED <<queueVars, workerVars>>

Sweeping(w) == Update(w) \/ SweepFails(w) \/ PublishExpired(w)

WorkerNext ==
    \/ \E w \in Workers :
         \/ Start(w)
         \/ TickerFires(w)
         \/ Sweeping(w)
         \/ ConsumeEvent(w)
         \/ Signal(w)
         \/ ConsumerStops(w)
         \/ Exit(w)
         \/ Crash(w)
    \/ Others

WorkerSpec == WorkerInit /\ [][WorkerNext]_vars

(* The ticker fires, a sweep ends by its timeout at the latest, goroutines *)
(* that can run do, main sees the cancelled context.  Nobody has to start  *)
(* a worker.                                                               *)
WorkerFairness ==
    \A w \in Workers : /\ WF_vars(TickerFires(w))
                       /\ WF_vars(Sweeping(w))
                       /\ WF_vars(ConsumeEvent(w))
                       /\ WF_vars(Exit(w))

FairWorkerSpec == WorkerSpec /\ WorkerFairness

-----------------------------------------------------------------------------
WorkerTypeOK ==
    /\ RepoTypeOK
    /\ QueueTypeOK
    /\ pc \in [Workers -> WorkerStates]
    /\ batch \in [Workers -> SUBSET Intents]
    /\ ctxDone \in [Workers -> BOOLEAN]
    /\ faults \in Nat
    /\ signals \in Nat

(* A row's event is waiting to be published or buffered at w. *)
Holds(w, p) == p \in batch[w] \/ Buffered(w, p)

InFlight(p) == \E w \in Workers : Holds(w, p)

(* However many workers sweep at once, crash and start again, an expiry is *)
(* announced at most once: one worker holds its event, in one place, and   *)
(* nobody after the creator has been notified.  Only expired rows have one.*)
AnnouncedAtMostOnce ==
    /\ \A p \in Intents : notified[p] <= 1
    /\ \A p \in Intents : notified[p] = 1 => ~ InFlight(p)
    /\ \A p \in Intents : notified[p] = 1 \/ InFlight(p) => subs[p].status = "expired"
    /\ \A p \in Intents, v, w \in Workers : Holds(v, p) /\ Holds(w, p) => v = w
    /\ \A p \in Intents, w \in Workers : ~ (p \in batch[w] /\ Buffered(w, p))
    /\ \A w \in Workers : \A i, j \in 1..Len(queue[w]) : queue[w][i] = queue[w][j] => i = j

(* The event of an expired row is on its way, or its creator is notified. *)
Announced(p) == InFlight(p) \/ notified[p] > 0

(* An expiry goes unannounced in three ways only: the sweep that committed *)
(* it reported an error, the buffer was full, or the process that held the *)
(* event ended.                                                            *)
NoEventVanishes ==
    [][\A p \in Intents :
          /\ subs'[p].status = "expired"
          /\ subs[p].status # "expired" \/ Announced(p)
          /\ ~ Announced(p)'
          => \E w \in Workers :
                \/ SweepFails(w)
                \/ IsFull(w) /\ p \in batch[w] /\ p \notin batch'[w]
                \/ Holds(w, p) /\ pc'[w] = "down"]_vars

(* Where the notice of p's expiry stands; "wrong" is no place for it.      *)
NoticeOf(p) ==
    CASE notified[p] = 0 /\ InFlight(p) /\ subs[p].status = "expired"   -> "due"
      [] notified[p] = 0 /\ ~ InFlight(p) /\ subs[p].status = "expired" -> "lost"
      [] notified[p] = 0 /\ ~ InFlight(p) /\ subs[p].status # "expired" -> "none"
      [] notified[p] = 1 /\ ~ InFlight(p) /\ subs[p].status = "expired" -> "told"
      [] OTHER -> "wrong"

Promise == INSTANCE CreatorNotices WITH notices <- [p \in Intents |-> NoticeOf(p)]

(* The workers keep the promise of CreatorNotices for expired rows.        *)
NoticeSpec == Promise!Spec

(* As long as a worker runs, an overdue row does not stay active: a failed *)
(* or timed-out sweep is followed by another.                              *)
OverdueIsSwept ==
    \A p \in Intents :
        p \in Overdue ~> (p \notin Overdue \/ \A w \in Workers : pc[w] = "down")

(* A buffered event is delivered unless its worker is stopped or dies. *)
EventsAreConsumed ==
    \A w \in Workers, p \in Intents :
        Holds(w, p) ~> (~ Holds(w, p) \/ ctxDone[w])

(* A worker that is told to stop stops, whatever its sweep and its         *)
(* consumer are at.                                                        *)
StopsWhenTold == \A w \in Workers : ctxDone[w] ~> pc[w] = "down"
=============================================================================
