----------------------- MODULE SubscriptionRepository -----------------------
(***************************************************************************)
(* The two Postgres tables of the service and the operations of the        *)
(* SubscriptionRepository interface that write them, each as one atomic    *)
(* step (internal/repository/subscription_repository.go, migrations 001    *)
(* and 002).  This is what the interface's comments promise; PaymentFlow   *)
(* takes MarkPaymentSucceeded apart into its SQL statements and shows that *)
(* the promise is kept.                                                    *)
(*                                                                         *)
(* A subscription row is named by the PaymentIntent it carries: every row  *)
(* is inserted with one (Subscribe), the column is unique, and nothing     *)
(* deletes a row or changes its user, creator or PaymentIntent.  A         *)
(* transaction row is named by nothing but its SERIAL id: the table is a   *)
(* bag, whose copies are rows that differ in the id alone.  Calls          *)
(* that end in ErrNotFound, ErrDuplicateActive or ErrDuplicateEvent change *)
(* nothing and are stuttering steps.                                       *)
(***************************************************************************)
EXTENDS Integers, FiniteSets, Bags

CONSTANTS
    Intents,     \* Stripe PaymentIntent ids
    Users,       \* subscribers
    Creators,    \* creators subscribed to
    Events,      \* Stripe event ids
    Amounts,     \* amounts in cents a transaction may carry
    Period,      \* the 30 days a row is valid for, in clock units
    MaxTime,     \* bound on the clock
    MaxExpiry    \* bound on expires_at, which Renew would push on forever

ASSUME PeriodAssumption == Period \in Nat \ {0}

VARIABLES
    subs,          \* table subscriptions: PaymentIntent -> row or NoRow
    transactions,  \* table transactions: a bag of rows
    now            \* Postgres NOW() and the API's clock

repoVars == <<subs, transactions, now>>

(* models.go: the values of the status column. *)
Statuses == {"pending", "active", "cancelled", "expired"}

Rows == [status : Statuses, user : Users, creator : Creators, expires : Nat]

NoRow == [status |-> "none"]

Transactions == [event : Events, sub : Intents, amount : Amounts]

RecordedRows == BagToSet(transactions)

(* INSERT INTO transactions: one more row, whatever the table holds.       *)
Record(t) == transactions' = transactions (+) SetToBag({t})

(* Migration 002: the predicate of the partial unique index                *)
(* subscriptions_one_active_per_pair.                                      *)
IsLive(row) == row.status \in {"active", "pending"}

MutantOnlyActiveTakesPair(u, c) ==
    \E p \in Intents : /\ subs[p].status = "active"
                       /\ subs[p].user = u
                       /\ subs[p].creator = c

PairIsTaken(u, c) ==
    \E p \in Intents : /\ IsLive(subs[p])
                       /\ subs[p].user = u
                       /\ subs[p].creator = c

(* Migration 002: the unique index on transactions.stripe_event_id. *)
EventIsRecorded(e) == \E t \in RecordedRows : t.event = e

RepoInit ==
    /\ subs = [p \in Intents |-> NoRow]
    /\ transactions = EmptyBag
    /\ now = 0

-----------------------------------------------------------------------------
MutantCreateActive(p, u, c) ==
    /\ subs[p] = NoRow
    /\ ~ PairIsTaken(u, c)
    /\ subs' = [subs EXCEPT ![p] = [status |-> "active", user |-> u,
                                    creator |-> c, expires |-> now + Period]]
    /\ UNCHANGED <<transactions, now>>

(* INSERT of a pending row; the two unique indexes reject a second row for *)
(* the PaymentIntent or a second live row for the pair.                    *)
CreatePending(p, u, c) ==
    /\ subs[p] = NoRow
    /\ ~ PairIsTaken(u, c)
    /\ subs' = [subs EXCEPT ![p] = [status |-> "pending", user |-> u,
                                    creator |-> c, expires |-> now + Period]]
    /\ UNCHANGED <<transactions, now>>

MutantRecordOnly(p, e, amount) ==
    /\ subs[p] # NoRow
    /\ ~ EventIsRecorded(e)
    /\ Record([event |-> e, sub |-> p, amount |-> amount])
    /\ UNCHANGED <<subs, now>>

MutantResurrect(p, e, amount) ==
    /\ subs[p] # NoRow
    /\ ~ EventIsRecorded(e)
    /\ Record([event |-> e, sub |-> p, amount |-> amount])
    /\ subs' = [subs EXCEPT ![p].status = "active"]
    /\ UNCHANGED now

(* One database transaction: record the event, then activate the row if it *)
(* is still pending.  A cancelled row stays cancelled, its payment is      *)
(* recorded all the same.                                                  *)
MarkPaymentSucceeded(p, e, amount) ==
    /\ subs[p] # NoRow
    /\ ~ EventIsRecorded(e)
    /\ Record([event |-> e, sub |-> p, amount |-> amount])
    /\ subs' = IF subs[p].status = "pending"
               THEN [subs EXCEPT ![p].status = "active"]
               ELSE subs
    /\ UNCHANGED now

MutantCanceledSpelling(p) ==
    /\ subs[p].status = "pending"
    /\ subs' = [subs EXCEPT ![p].status = "canceled"]
    /\ UNCHANGED <<transactions, now>>

MarkPaymentFailed(p) ==
    /\ subs[p].status = "pending"
    /\ subs' = [subs EXCEPT ![p].status = "cancelled"]
    /\ UNCHANGED <<transactions, now>>

MutantCancelAnyRow(p) ==
    /\ subs[p] # NoRow
    /\ subs' = [subs EXCEPT ![p].status = "cancelled"]
    /\ UNCHANGED <<transactions, now>>

Cancel(p) ==
    /\ subs[p].status = "active"
    /\ subs' = [subs EXCEPT ![p].status = "cancelled"]
    /\ UNCHANGED <<transactions, now>>

MutantRenewAnyRow(p) ==
    /\ subs[p] # NoRow
    /\ subs[p].expires + Period <= MaxExpiry
    /\ subs' = [subs EXCEPT ![p].expires = @ + Period]
    /\ UNCHANGED <<transactions, now>>

(* Thirty more days counted from the old expires_at, not from now. *)
Renew(p) ==
    /\ subs[p].status = "active"
    /\ subs[p].expires + Period <= MaxExpiry
    /\ subs' = [subs EXCEPT ![p].expires = @ + Period]
    /\ UNCHANGED <<transactions, now>>

MutantOverdueAnyStatus ==
    {p \in Intents : subs[p].status # "none" /\ subs[p].expires < now}

Overdue == {p \in Intents : subs[p].status = "active" /\ subs[p].expires < now}

(* The sweep: one UPDATE over every overdue active row. *)
ExpireOverdue ==
    /\ Overdue # {}
    /\ subs' = [p \in Intents |-> IF p \in Overdue
                                  THEN [subs[p] EXCEPT !.status = "expired"]
                                  ELSE subs[p]]
    /\ UNCHANGED <<transactions, now>>

Tick ==
    /\ now < MaxTime
    /\ now' = now + 1
    /\ UNCHANGED <<subs, transactions>>

RepoNext ==
    \/ \E p \in Intents :
         \/ \E u \in Users, c \in Creators : CreatePending(p, u, c)
         \/ \E e \in Events, amount \in Amounts : MarkPaymentSucceeded(p, e, amount)
         \/ MarkPaymentFailed(p)
         \/ Cancel(p)
         \/ Renew(p)
    \/ ExpireOverdue
    \/ Tick

RepoSpec == RepoInit /\ [][RepoNext]_repoVars

-----------------------------------------------------------------------------
(* The rows, the transactions and the clock have their types. *)
RepoTypeOK ==
    /\ subs \in [Intents -> Rows \cup {NoRow}]
    /\ IsABag(transactions) /\ RecordedRows \subseteq Transactions
    /\ now \in Nat

(* A user has at most one active or pending row per creator, although a    *)
(* pair collects any number of cancelled and expired rows.                 *)
OneLivePerPair ==
    \A p, q \in Intents :
        (p # q /\ IsLive(subs[p]) /\ IsLive(subs[q]))
            => (subs[p].user # subs[q].user \/ subs[p].creator # subs[q].creator)

(* A Stripe event is turned into money once, however often and however     *)
(* concurrently it is delivered: no second row for it, on another          *)
(* subscription or on its own.                                             *)
OneTransactionPerEvent ==
    \A t1, t2 \in RecordedRows :
        t1.event = t2.event => t1 = t2 /\ transactions[t1] = 1

(* Whoever has, or had until it ran out, a subscription has paid for it:   *)
(* no sequence of calls reaches active or expired around the payment.      *)
ActiveWasPaid ==
    \A p \in Intents : subs[p].status \in {"active", "expired"}
                          => \E t \in RecordedRows : t.sub = p

(* Money recorded against a subscription never leaves it waiting for money, *)
(* and is never recorded against a row that does not exist.                *)
PaidIsNotPending ==
    \A t \in RecordedRows : subs[t.sub].status \in {"active", "cancelled", "expired"}

(* No renewal is lost to the sweep: an expired row's expires_at is in the  *)
(* past, also when the renewal and the sweep race.                         *)
ExpiredIsOverdue ==
    \A p \in Intents : subs[p].status = "expired" => subs[p].expires < now

RepoInv ==
    /\ RepoTypeOK
    /\ OneLivePerPair
    /\ OneTransactionPerEvent
    /\ ActiveWasPaid
    /\ PaidIsNotPending
    /\ ExpiredIsOverdue

(* The state machine of a row's status.  Cancelled and expired are final:  *)
(* a late payment, a renewal or a second sweep never brings a row back.    *)
LegalMoves == {<<"none", "pending">>, <<"pending", "active">>,
               <<"pending", "cancelled">>, <<"active", "cancelled">>,
               <<"active", "expired">>}

StatusMovesLegally ==
    [][\A p \in Intents : subs'[p].status # subs[p].status
                             => <<subs[p].status, subs'[p].status>> \in LegalMoves]_repoVars

(* What a pair sees is the status of its live row. *)
AccessOf(pair) ==
    LET live == {p \in Intents : /\ IsLive(subs[p])
                                 /\ subs[p].user = pair[1]
                                 /\ subs[p].creator = pair[2]}
    IN  IF live = {} THEN "none" ELSE subs[CHOOSE p \in live : TRUE].status

Access == INSTANCE CreatorAccess WITH
              Pairs <- Users \X Creators,
              access <- [pair \in Users \X Creators |-> AccessOf(pair)],
              ledger <- {t.event : t \in RecordedRows}

(* The tables implement the promise of CreatorAccess. *)
AccessSpec == Access!Spec
=============================================================================
