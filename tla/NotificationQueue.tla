-------------------------- MODULE NotificationQueue --------------------------
(***************************************************************************)
(* The in-process notification queue                                       *)
(* (internal/notifications/notifications.go): a bounded Go channel and one *)
(* consumer goroutine in every process that publishes.  A process starts   *)
(* with an empty channel and takes what is left in it to the grave.        *)
(***************************************************************************)
EXTENDS Naturals, Sequences

CONSTANTS
    Processes,   \* processes with a queue of their own
    Notices,     \* what is announced
    Capacity     \* size of the channel's buffer

ASSUME CapacityAssumption == Capacity \in Nat \ {0}

VARIABLES
    queue,       \* the buffered events of each process
    consuming,   \* whether its consumer goroutine runs
    notified     \* how often NotifyCreator was called, per notice

queueVars == <<queue, consuming, notified>>

QueueInit ==
    /\ queue = [w \in Processes |-> <<>>]
    /\ consuming = [w \in Processes |-> FALSE]
    /\ notified = [e \in Notices |-> 0]

(* NewQueue and the go statement that runs Consume. *)
OpenQueue(w) ==
    /\ queue' = [queue EXCEPT ![w] = <<>>]
    /\ consuming' = [consuming EXCEPT ![w] = TRUE]
    /\ UNCHANGED notified

(* The process ends. *)
CloseQueue(w) ==
    /\ queue' = [queue EXCEPT ![w] = <<>>]
    /\ consuming' = [consuming EXCEPT ![w] = FALSE]
    /\ UNCHANGED notified

IsFull(w) == Len(queue[w]) >= Capacity

MutantUnboundedSend(w, e) ==
    /\ queue' = [queue EXCEPT ![w] = Append(@, e)]
    /\ UNCHANGED <<consuming, notified>>

(* A send that never blocks: a full buffer drops the event. *)
Publish(w, e) ==
    /\ queue' = IF IsFull(w) THEN queue ELSE [queue EXCEPT ![w] = Append(@, e)]
    /\ UNCHANGED <<consuming, notified>>

MutantConsumeOnce(w) ==
    /\ consuming[w]
    /\ queue[w] # <<>>
    /\ notified' = [notified EXCEPT ![Head(queue[w])] = @ + 1]
    /\ queue' = [queue EXCEPT ![w] = Tail(@)]
    /\ consuming' = [consuming EXCEPT ![w] = FALSE]

(* The consumer's loop: receive, NotifyCreator. *)
Consume(w) ==
    /\ consuming[w]
    /\ queue[w] # <<>>
    /\ notified' = [notified EXCEPT ![Head(queue[w])] = @ + 1]
    /\ queue' = [queue EXCEPT ![w] = Tail(@)]
    /\ UNCHANGED consuming

(* ctx.Done(): the consumer leaves what is in the buffer. *)
StopConsuming(w) ==
    /\ consuming[w]
    /\ consuming' = [consuming EXCEPT ![w] = FALSE]
    /\ UNCHANGED <<queue, notified>>

Buffered(w, e) == \E i \in 1..Len(queue[w]) : queue[w][i] = e

(* The buffers never hold more than the channel takes. *)
QueueTypeOK ==
    /\ queue \in [Processes -> Seq(Notices)]
    /\ \A w \in Processes : Len(queue[w]) <= Capacity
    /\ consuming \in [Processes -> BOOLEAN]
    /\ notified \in [Notices -> Nat]
=============================================================================
