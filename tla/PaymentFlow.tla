----------------------------- MODULE PaymentFlow -----------------------------
(***************************************************************************)
(* How a subscription is paid for: the Subscribe call                      *)
(* (internal/services/subscription_service.go), Stripe, and the webhook    *)
(* handler (internal/handlers/stripe_webhook_handler.go) with              *)
(* MarkPaymentSucceeded taken apart into its SQL statements                *)
(* (internal/repository/subscription_repository.go).                       *)
(*                                                                         *)
(* Each Subscribe call is named by the PaymentIntent it creates.  Webhook  *)
(* deliveries run concurrently in Handlers (one goroutine each); Stripe    *)
(* delivers every event until it is acknowledged, in any order, and may    *)
(* deliver it again while an earlier delivery is still running.  A call or *)
(* a statement can fail, fail after it took effect, or die with the        *)
(* process; MaxFaults bounds how often.  The user's cancel and renew, the  *)
(* worker's sweep and the clock are the atomic steps of                    *)
(* SubscriptionRepository; the cache and the queue behind Publish have     *)
(* modules of their own.                                                   *)
(***************************************************************************)
EXTENDS SubscriptionRepository

CONSTANTS
    Handlers,      \* concurrent webhook deliveries
    MaxDeclines,   \* bound on declined attempts per PaymentIntent
    MaxFaults      \* bound on failures, lost answers and crashes

VARIABLES
    intents,    \* Stripe's PaymentIntents: id -> record or NoIntent
    unacked,    \* events Stripe has emitted and holds no 2xx for
    calls,      \* Subscribe calls: PaymentIntent -> where the call stands
    handlers,   \* webhook deliveries being handled
    published,  \* EventSubscribed notifications handed to the queue, per row
    faults      \* failures so far

flowVars == <<intents, unacked, calls, handlers, published, faults>>
vars == <<subs, transactions, now, intents, unacked, calls, handlers, published, faults>>

(* stripe_webhook_handler.go: the amount every transaction is recorded     *)
(* with, whatever plan was quoted; plans and prices decide nothing else    *)
(* and are left out.                                                       *)
PaymentAmountCents == 499

ASSUME FlowAssumption ==
    /\ PaymentAmountCents \in Amounts
    /\ MaxDeclines \in Nat

-----------------------------------------------------------------------------
(* payments.go: the event types the handler tells apart. *)
SucceededEvent(p) == [type |-> "succeeded", intent |-> p, n |-> 0]
FailedEvent(p, n) == [type |-> "failed", intent |-> p, n |-> n]
CanceledEvent(p)  == [type |-> "unhandled", intent |-> p, n |-> 0]

StripeEvents == [type : {"succeeded", "failed", "unhandled"}, intent : Intents,
                 n : 0..MaxDeclines]

ASSUME EventAssumption == StripeEvents \subseteq Events

NoIntent == [state |-> "none"]

PaymentIntents == [state : {"open", "succeeded", "canceled"}, user : Users,
                   creator : Creators, declines : 0..MaxDeclines]

(* Where a Subscribe call stands.  "intent": Stripe has created the        *)
(* PaymentIntent; "inserted": the pending row is committed; "returned":    *)
(* the client holds the client_secret; "rejected": answered 409; "failed": *)
(* answered with an error; "lost": no answer reached the client.           *)
CallStates == {"idle", "intent", "inserted", "returned", "rejected", "failed", "lost"}

(* Where a delivery stands: the next statement to run, or the outcome to   *)
(* answer with.                                                            *)
Statements == {"select", "insert", "update", "commit", "publish", "fail"}
Acks == {"processed", "duplicate", "unknown", "ignored"}

NoDelivery == [pc |-> "idle"]

(* status is s.Status of the Go code, flipped says the UPDATE matched.     *)
Deliveries == [pc : Statements \cup Acks \cup {"error"}, event : StripeEvents,
               status : Statuses \cup {"none"}, flipped : BOOLEAN]

FlowInit ==
    /\ RepoInit
    /\ intents = [p \in Intents |-> NoIntent]
    /\ unacked = {}
    /\ calls = [p \in Intents |-> "idle"]
    /\ handlers = [h \in Handlers |-> NoDelivery]
    /\ published = [p \in Intents |-> 0]
    /\ faults = 0

Fault ==
    /\ faults < MaxFaults
    /\ faults' = faults + 1

-----------------------------------------------------------------------------
(* POST /subscriptions: Stripe first, then the row, then the answer.       *)
CreatePaymentIntent(p, u, c) ==
    /\ calls[p] = "idle"
    /\ calls' = [calls EXCEPT ![p] = "intent"]
    /\ intents' = [intents EXCEPT ![p] = [state |-> "open", user |-> u, creator |-> c,
                                          declines |-> 0]]
    /\ UNCHANGED <<repoVars, unacked, handlers, published, faults>>

InsertRow(p) ==
    /\ calls[p] = "intent"
    /\ CreatePending(p, intents[p].user, intents[p].creator)
    /\ calls' = [calls EXCEPT ![p] = "inserted"]
    /\ UNCHANGED <<intents, unacked, handlers, published, faults>>

(* ErrDuplicateActive: the PaymentIntent stays behind at Stripe. *)
RejectDuplicate(p) ==
    /\ calls[p] = "intent"
    /\ PairIsTaken(intents[p].user, intents[p].creator)
    /\ calls' = [calls EXCEPT ![p] = "rejected"]
    /\ UNCHANGED <<repoVars, intents, unacked, handlers, published, faults>>

(* The INSERT fails, or commits without the service hearing of it. *)
InsertFails(p) ==
    /\ calls[p] = "intent"
    /\ Fault
    /\ \/ UNCHANGED repoVars
       \/ CreatePending(p, intents[p].user, intents[p].creator)
    /\ calls' = [calls EXCEPT ![p] = "failed"]
    /\ UNCHANGED <<intents, unacked, handlers, published>>

(* 201 with the client_secret reaches the client, or the connection drops. *)
AnswerSubscribe(p) ==
    /\ calls[p] = "inserted"
    /\ calls' = [calls EXCEPT ![p] = "returned"]
    /\ UNCHANGED <<repoVars, intents, unacked, handlers, published, faults>>

LoseAnswer(p) ==
    /\ calls[p] = "inserted"
    /\ Fault
    /\ calls' = [calls EXCEPT ![p] = "lost"]
    /\ UNCHANGED <<repoVars, intents, unacked, handlers, published>>

-----------------------------------------------------------------------------
(* The client confirms with the client_secret; Stripe charges it, declines *)
(* it (another attempt may follow on the same PaymentIntent), or cancels a *)
(* PaymentIntent nobody pays.                                              *)
ConfirmPayment(p) ==
    /\ calls[p] = "returned"
    /\ intents[p].state = "open"
    /\ intents' = [intents EXCEPT ![p].state = "succeeded"]
    /\ unacked' = unacked \cup {SucceededEvent(p)}
    /\ UNCHANGED <<repoVars, calls, handlers, published, faults>>

DeclinePayment(p) ==
    /\ calls[p] = "returned"
    /\ intents[p].state = "open"
    /\ intents[p].declines < MaxDeclines
    /\ intents' = [intents EXCEPT ![p].declines = @ + 1]
    /\ unacked' = unacked \cup {FailedEvent(p, intents[p].declines + 1)}
    /\ UNCHANGED <<repoVars, calls, handlers, published, faults>>

AbandonIntent(p) ==
    /\ intents[p].state = "open"
    /\ intents' = [intents EXCEPT ![p].state = "canceled"]
    /\ unacked' = unacked \cup {CanceledEvent(p)}
    /\ UNCHANGED <<repoVars, calls, handlers, published, faults>>

-----------------------------------------------------------------------------
(* POST /webhooks/stripe. *)
At(h, pc) == handlers[h].pc = pc
Event(h)  == handlers[h].event
Row(h)    == Event(h).intent

Goto(h, pc) == handlers' = [handlers EXCEPT ![h].pc = pc]

MutantFailedIsSucceeded(h, e) ==
    /\ handlers[h] = NoDelivery
    /\ e \in unacked
    /\ handlers' = [handlers EXCEPT ![h] =
           [pc |-> "select", event |-> e, status |-> "none", flipped |-> FALSE]]
    /\ UNCHANGED <<repoVars, intents, unacked, calls, published, faults>>

(* The signature holds and the switch on the event type picks a branch. *)
Receive(h, e) ==
    /\ handlers[h] = NoDelivery
    /\ e \in unacked
    /\ handlers' = [handlers EXCEPT ![h] =
           [pc |-> CASE e.type = "succeeded" -> "select"
                     [] e.type = "failed"    -> "fail"
                     [] OTHER                -> "ignored",
            event |-> e, status |-> "none", flipped |-> FALSE]]
    /\ UNCHANGED <<repoVars, intents, unacked, calls, published, faults>>

(* MarkPaymentSucceeded, statement 1: a plain SELECT, it locks nothing. *)
SelectRow(h) ==
    /\ At(h, "select")
    /\ handlers' = [handlers EXCEPT
           ![h].pc = IF subs[Row(h)] = NoRow THEN "unknown" ELSE "insert",
           ![h].status = subs[Row(h)].status]
    /\ UNCHANGED <<repoVars, intents, unacked, calls, published, faults>>

(* The uncommitted INSERT of an event makes every other INSERT of it wait. *)
HoldsEvent(h, e) ==
    /\ handlers[h].pc \in {"update", "commit"}
    /\ Event(h) = e

MutantDuplicateIsError(h) ==
    /\ At(h, "insert")
    /\ \A other \in Handlers \ {h} : ~ HoldsEvent(other, Event(h))
    /\ Goto(h, IF EventIsRecorded(Event(h)) THEN "error" ELSE "update")
    /\ UNCHANGED <<repoVars, intents, unacked, calls, published, faults>>

MutantDuplicateIsPublished(h) ==
    /\ At(h, "insert")
    /\ \A other \in Handlers \ {h} : ~ HoldsEvent(other, Event(h))
    /\ Goto(h, IF EventIsRecorded(Event(h)) THEN "publish" ELSE "update")
    /\ UNCHANGED <<repoVars, intents, unacked, calls, published, faults>>

MutantLookThenInsert(h) ==
    /\ At(h, "insert")
    /\ Goto(h, IF EventIsRecorded(Event(h)) THEN "duplicate" ELSE "update")
    /\ UNCHANGED <<repoVars, intents, unacked, calls, published, faults>>

(* Statement 2: the idempotency gate. *)
InsertTransaction(h) ==
    /\ At(h, "insert")
    /\ \A other \in Handlers \ {h} : ~ HoldsEvent(other, Event(h))
    /\ Goto(h, IF EventIsRecorded(Event(h)) THEN "duplicate" ELSE "update")
    /\ UNCHANGED <<repoVars, intents, unacked, calls, published, faults>>

(* A matched row is locked until the transaction ends. *)
HoldsRow(h, p) ==
    /\ At(h, "commit")
    /\ handlers[h].flipped
    /\ Row(h) = p

RowIsFree(p) == \A h \in Handlers : ~ HoldsRow(h, p)

(* Statement 3: pending -> active, or no row matched and s.Status keeps    *)
(* what the SELECT read.                                                   *)
MutantFlipAnyStatus(h) ==
    /\ At(h, "update")
    /\ RowIsFree(Row(h))
    /\ handlers' = [handlers EXCEPT ![h].pc = "commit", ![h].status = "active",
                                    ![h].flipped = TRUE]
    /\ UNCHANGED <<repoVars, intents, unacked, calls, published, faults>>

MutantUpdateOutsideTransaction(h) ==
    /\ At(h, "update")
    /\ subs' = IF subs[Row(h)].status = "pending"
               THEN [subs EXCEPT ![Row(h)].status = "active"]
               ELSE subs
    /\ Goto(h, "commit")
    /\ UNCHANGED <<transactions, now, intents, unacked, calls, published, faults>>

UpdateRow(h) ==
    /\ At(h, "update")
    /\ \/ /\ subs[Row(h)].status = "pending"
          /\ RowIsFree(Row(h))
          /\ handlers' = [handlers EXCEPT ![h].pc = "commit", ![h].status = "active",
                                          ![h].flipped = TRUE]
       \/ /\ subs[Row(h)].status # "pending"
          /\ Goto(h, "commit")
    /\ UNCHANGED <<repoVars, intents, unacked, calls, published, faults>>

(* What the COMMIT makes visible. *)
CommitWrites(h) ==
    /\ Record([event |-> Event(h), sub |-> Row(h), amount |-> PaymentAmountCents])
    /\ subs' = IF handlers[h].flipped
               THEN [subs EXCEPT ![Row(h)].status = "active"]
               ELSE subs
    /\ UNCHANGED now

Commit(h) ==
    /\ At(h, "commit")
    /\ CommitWrites(h)
    /\ Goto(h, "publish")
    /\ UNCHANGED <<intents, unacked, calls, published, faults>>

(* The connection breaks during COMMIT: done, but reported as an error. *)
CommitUnheard(h) ==
    /\ At(h, "commit")
    /\ Fault
    /\ CommitWrites(h)
    /\ Goto(h, "error")
    /\ UNCHANGED <<intents, unacked, calls, published>>

(* The service, after the repository returned without an error. *)
PublishSubscribed(h) ==
    /\ At(h, "publish")
    /\ published' = [published EXCEPT ![Row(h)] = @ + 1]
    /\ Goto(h, "processed")
    /\ UNCHANGED <<repoVars, intents, unacked, calls, faults>>

(* payment_intent.payment_failed: one UPDATE, which waits for a locked row *)
(* and then looks at it again; ErrNotFound is acknowledged too.            *)
CancelPending(h) ==
    /\ At(h, "fail")
    /\ \/ /\ RowIsFree(Row(h))
          /\ MarkPaymentFailed(Row(h))
          /\ Goto(h, "processed")
       \/ /\ subs[Row(h)].status # "pending"
          /\ UNCHANGED repoVars
          /\ Goto(h, "unknown")
    /\ UNCHANGED <<intents, unacked, calls, published, faults>>

CancelPendingUnheard(h) ==
    /\ At(h, "fail")
    /\ Fault
    /\ RowIsFree(Row(h))
    /\ MarkPaymentFailed(Row(h))
    /\ Goto(h, "error")
    /\ UNCHANGED <<intents, unacked, calls, published>>

(* A statement fails; an open transaction rolls back. *)
StatementFails(h) ==
    /\ handlers[h].pc \in {"select", "insert", "update", "commit", "fail"}
    /\ Fault
    /\ Goto(h, "error")
    /\ UNCHANGED <<repoVars, intents, unacked, calls, published>>

(* 200: Stripe stops delivering the event. *)
Acknowledge(h) ==
    /\ handlers[h].pc \in Acks
    /\ unacked' = unacked \ {Event(h)}
    /\ handlers' = [handlers EXCEPT ![h] = NoDelivery]
    /\ UNCHANGED <<repoVars, intents, calls, published, faults>>

(* The 200 is lost: Stripe delivers the event again. *)
LoseAcknowledgement(h) ==
    /\ handlers[h].pc \in Acks
    /\ Fault
    /\ handlers' = [handlers EXCEPT ![h] = NoDelivery]
    /\ UNCHANGED <<repoVars, intents, unacked, calls, published>>

MutantErrorIsAcknowledged(h) ==
    /\ At(h, "error")
    /\ unacked' = unacked \ {Event(h)}
    /\ handlers' = [handlers EXCEPT ![h] = NoDelivery]
    /\ UNCHANGED <<repoVars, intents, calls, published, faults>>

(* 500: Stripe delivers the event again. *)
ReportError(h) ==
    /\ At(h, "error")
    /\ handlers' = [handlers EXCEPT ![h] = NoDelivery]
    /\ UNCHANGED <<repoVars, intents, unacked, calls, published, faults>>

(* The API process dies and is restarted: open transactions roll back,     *)
(* calls and deliveries in progress are gone.                              *)
Crash ==
    /\ Fault
    /\ handlers' = [h \in Handlers |-> NoDelivery]
    /\ calls' = [p \in Intents |-> IF calls[p] \in {"intent", "inserted"} THEN "lost"
                                   ELSE calls[p]]
    /\ UNCHANGED <<repoVars, intents, unacked, published>>

-----------------------------------------------------------------------------
(* Everybody else who writes the tables. *)
Others ==
    /\ \/ \E p \in Intents : Cancel(p) \/ Renew(p)
       \/ ExpireOverdue
       \/ Tick
    /\ UNCHANGED flowVars

Subscribe(p) ==
    \/ \E u \in Users, c \in Creators : CreatePaymentIntent(p, u, c)
    \/ InsertRow(p)
    \/ RejectDuplicate(p)
    \/ InsertFails(p)
    \/ AnswerSubscribe(p)
    \/ LoseAnswer(p)

Stripe(p) ==
    \/ ConfirmPayment(p)
    \/ DeclinePayment(p)
    \/ AbandonIntent(p)

Handle(h) ==
    \/ SelectRow(h)
    \/ InsertTransaction(h)
    \/ UpdateRow(h)
    \/ Commit(h)
    \/ PublishSubscribed(h)
    \/ CancelPending(h)
    \/ Acknowledge(h)
    \/ ReportError(h)

HandleFails(h) ==
    \/ CommitUnheard(h)
    \/ CancelPendingUnheard(h)
    \/ StatementFails(h)
    \/ LoseAcknowledgement(h)

FlowNext ==
    \/ \E p \in Intents : Subscribe(p) \/ Stripe(p)
    \/ \E h \in Handlers : \/ \E e \in unacked : Receive(h, e)
                           \/ Handle(h)
                           \/ HandleFails(h)
    \/ Crash
    \/ Others

FlowSpec == FlowInit /\ [][FlowNext]_vars

(* Go schedules every handler goroutine that can run, Postgres lets a      *)
(* waiting statement go on once the lock is free, and Stripe keeps         *)
(* delivering what it holds no 2xx for.  Users, clients and faults owe     *)
(* nothing.                                                                *)
Fairness ==
    /\ \A h \in Handlers : WF_vars(Handle(h))
    /\ \A e \in StripeEvents : WF_vars(\E h \in Handlers : Receive(h, e))

FairFlowSpec == FlowSpec /\ Fairness

-----------------------------------------------------------------------------
FlowTypeOK ==
    /\ RepoTypeOK
    /\ intents \in [Intents -> PaymentIntents \cup {NoIntent}]
    /\ unacked \subseteq StripeEvents
    /\ calls \in [Intents -> CallStates]
    /\ handlers \in [Handlers -> Deliveries \cup {NoDelivery}]
    /\ published \in [Intents -> Nat]
    /\ faults \in Nat

Recorded(p) == \E t \in RecordedRows : t.sub = p

(* Stripe stops delivering a charge only when the transaction row is       *)
(* there: neither the ErrNotFound branch nor the ErrDuplicateEvent branch  *)
(* of handleSucceeded, which both answer 200, ever swallows a payment.     *)
NoPaymentLost ==
    \A p \in Intents :
        /\ intents[p].state = "succeeded"
        /\ SucceededEvent(p) \notin unacked
        => Recorded(p)

(* Every transaction row stands for a charge Stripe really made, on the    *)
(* PaymentIntent of its row.                                               *)
TransactionWasCharged ==
    \A t \in RecordedRows : /\ t.event = SucceededEvent(t.sub)
                            /\ intents[t.sub].state = "succeeded"

(* A creator hears of a subscription at most once, and only of one whose   *)
(* payment is recorded, however often and concurrently Stripe delivers.    *)
NotifiedAtMostOnce ==
    \A p \in Intents : published[p] <= 1 /\ (published[p] = 1 => Recorded(p))

Publishing(p) == \E h \in Handlers : At(h, "publish") /\ Row(h) = p

(* Where the notice of p's payment stands; "wrong" is no place for it.     *)
NoticeOf(p) ==
    CASE published[p] = 0 /\ Publishing(p) /\ Recorded(p)     -> "due"
      [] published[p] = 0 /\ ~ Publishing(p) /\ Recorded(p)   -> "lost"
      [] published[p] = 0 /\ ~ Publishing(p) /\ ~ Recorded(p) -> "none"
      [] published[p] = 1 /\ ~ Publishing(p) /\ Recorded(p)   -> "told"
      [] OTHER -> "wrong"

Promise == INSTANCE CreatorNotices
               WITH Notices <- Intents, notices <- [p \in Intents |-> NoticeOf(p)]

(* The webhook keeps the promise of CreatorNotices up to the publish call: *)
(* redelivery of a payment whose publish was lost does not make up for it. *)
NoticeSpec == Promise!Spec

(* The row lock and the unique index serialise the open transactions: one  *)
(* at a time holds an event, and a row matched by the UPDATE is still      *)
(* pending when its transaction commits.                                   *)
OpenTransactionsAreSerial ==
    \A h \in Handlers :
        /\ handlers[h].pc \in {"update", "commit"}
             => /\ ~ EventIsRecorded(Event(h))
                /\ \A other \in Handlers \ {h} : ~ HoldsEvent(other, Event(h))
        /\ At(h, "commit")
             => (handlers[h].flipped <=> subs[Row(h)].status = "pending")

(* A Subscribe call has its row once the client can pay, and none before.  *)
CallsHaveRows ==
    \A p \in Intents :
        /\ calls[p] = "idle" <=> intents[p] = NoIntent
        /\ calls[p] \in {"idle", "intent"} => subs[p] = NoRow
        /\ calls[p] \in {"inserted", "returned"} => subs[p] # NoRow
        /\ intents[p].state = "succeeded" => calls[p] = "returned"

(* Only what Stripe did is delivered. *)
WasCharged(e) == /\ e = SucceededEvent(e.intent)
                 /\ intents[e.intent].state = "succeeded"

EventsAreGenuine ==
    /\ \A e \in unacked : e.type = "succeeded" => WasCharged(e)
    /\ \A h \in Handlers : /\ handlers[h] # NoDelivery
                            /\ Event(h).type = "succeeded"
                            => WasCharged(Event(h))

(* What a delivery has established by the time it stands where it stands.  *)
DeliveriesAreSound ==
    \A h \in Handlers :
        /\ handlers[h].pc \in {"select", "insert", "update", "commit", "publish", "duplicate"}
             => Event(h).type = "succeeded"
        /\ handlers[h].pc \in {"select", "insert", "update"} => ~ handlers[h].flipped
        /\ handlers[h].pc \in {"insert", "update", "commit"} => subs[Row(h)] # NoRow
        /\ At(h, "fail") => Event(h).type = "failed"
        /\ handlers[h].pc \in {"unknown", "ignored"} => Event(h).type # "succeeded"
        /\ handlers[h].pc \in {"publish", "duplicate"} => Recorded(Row(h))
        /\ At(h, "processed") /\ Event(h).type = "succeeded" => Recorded(Row(h))

(* At most one delivery is about to publish for a row, and nobody has yet. *)
OnePublisher ==
    \A h \in Handlers :
        At(h, "publish")
            => /\ published[Row(h)] = 0
               /\ \A other \in Handlers \ {h} : ~ (At(other, "publish") /\ Row(other) = Row(h))

(* The inductive invariant behind the safety properties. *)
FlowInv ==
    /\ FlowTypeOK
    /\ CallsHaveRows
    /\ EventsAreGenuine
    /\ DeliveriesAreSound
    /\ OpenTransactionsAreSerial
    /\ OnePublisher
    /\ NoPaymentLost
    /\ TransactionWasCharged
    /\ NotifiedAtMostOnce

(* Every event is acknowledged in the end: no delivery waits for ever for  *)
(* a lock, and no event is answered with an error for ever.                *)
EveryEventIsAcknowledged ==
    \A e \in StripeEvents : e \in unacked ~> e \notin unacked

(* Whoever is charged ends up with the payment recorded and a row that has *)
(* left pending, through any bounded number of faults.                     *)
ChargeIsSettled ==
    \A p \in Intents :
        intents[p].state = "succeeded"
            ~> (Recorded(p) /\ subs[p].status \in {"active", "cancelled", "expired"})

-----------------------------------------------------------------------------
(* subscription_service.go:199-202: "The event only fires when we          *)
(* successfully flipped pending -> active on a fresh event".               *)
PublishesOnlyOnActivation ==
    \A h \in Handlers : At(h, "publish") => handlers[h].flipped

(* README.md:791-793: "Net effect across any number of redeliveries of the *)
(* same event: [...] exactly one notification".  Once Stripe has its 200   *)
(* and nobody is about to publish, the notification has been published.    *)
ExactlyOneNotification ==
    \A p \in Intents :
        /\ intents[p].state = "succeeded"
        /\ SucceededEvent(p) \notin unacked
        /\ \A h \in Handlers : ~ (At(h, "publish") /\ Row(h) = p)
        => published[p] = 1
=============================================================================
