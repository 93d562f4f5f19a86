-------------------------- MODULE RepositoryProofs --------------------------
(***************************************************************************)
(* Proofs about SubscriptionRepository: its invariants are inductive       *)
(* together, and the status machine follows from the actions.              *)
(***************************************************************************)
EXTENDS SubscriptionRepository, TLAPS

(* INSERT INTO transactions adds one copy of one row to the table and      *)
(* leaves the other rows alone.                                            *)
LEMMA RecordAdds ==
    ASSUME IsABag(transactions), NEW t, Record(t)
    PROVE  /\ IsABag(transactions')
           /\ RecordedRows' = RecordedRows \cup {t}
           /\ t \notin RecordedRows => transactions'[t] = 1
           /\ \A row \in RecordedRows \ {t} : transactions'[row] = transactions[row]
<1> DEFINE B == transactions
           N == [e \in DOMAIN B \cup {t} |-> (IF e \in DOMAIN B THEN B[e] ELSE 0)
                                           + (IF e = t THEN 1 ELSE 0)]
<1>1. transactions' = N
  BY DEF Record, (+), SetToBag
<1>2. B \in [DOMAIN B -> {n \in Nat : n > 0}]
  BY DEF IsABag
<1>3. /\ DOMAIN N = DOMAIN B \cup {t}
      /\ \A e \in DOMAIN B \ {t} : N[e] = B[e]
      /\ t \notin DOMAIN B => N[t] = 1
      /\ \A e \in DOMAIN N : N[e] \in Nat /\ N[e] > 0
  BY <1>2
<1>4. N = [e \in DOMAIN N |-> N[e]]
  OBVIOUS
<1> HIDE DEF N
<1>5. IsABag(N)
  BY <1>3, <1>4 DEF IsABag
<1> QED BY <1>1, <1>3, <1>5 DEF RecordedRows, BagToSet

(* A table that is left alone keeps its rows. *)
LEMMA LedgerStays == ASSUME UNCHANGED transactions PROVE UNCHANGED RecordedRows
BY DEF RecordedRows

(* The tables keep their types whatever sequence of operations runs. *)
LEMMA RepoTypeStep == RepoTypeOK /\ [RepoNext]_repoVars => RepoTypeOK'
<1> SUFFICES ASSUME RepoTypeOK, [RepoNext]_repoVars
             PROVE  RepoTypeOK'
  OBVIOUS
<1> USE PeriodAssumption DEF RepoTypeOK, Rows, NoRow, Statuses, Transactions
<1>1. ASSUME NEW p \in Intents, NEW u \in Users, NEW c \in Creators, CreatePending(p, u, c)
      PROVE  RepoTypeOK'
  BY <1>1, LedgerStays DEF CreatePending
<1>2. ASSUME NEW p \in Intents, NEW e \in Events, NEW amount \in Amounts,
             MarkPaymentSucceeded(p, e, amount)
      PROVE  RepoTypeOK'
  <2>1. Record([event |-> e, sub |-> p, amount |-> amount])
    BY <1>2 DEF MarkPaymentSucceeded
  <2>2. IsABag(transactions') /\ RecordedRows' \subseteq Transactions
    BY <2>1, RecordAdds
  <2> QED BY <1>2, <2>2 DEF MarkPaymentSucceeded
<1>3. ASSUME NEW p \in Intents, MarkPaymentFailed(p)
      PROVE  RepoTypeOK'
  BY <1>3, LedgerStays DEF MarkPaymentFailed
<1>4. ASSUME NEW p \in Intents, Cancel(p)
      PROVE  RepoTypeOK'
  BY <1>4, LedgerStays DEF Cancel
<1>5. ASSUME NEW p \in Intents, Renew(p)
      PROVE  RepoTypeOK'
  BY <1>5, LedgerStays DEF Renew
<1>6. ASSUME ExpireOverdue
      PROVE  RepoTypeOK'
  BY <1>6, LedgerStays DEF ExpireOverdue, Overdue
<1>7. ASSUME Tick
      PROVE  RepoTypeOK'
  BY <1>7, LedgerStays DEF Tick
<1>8. CASE UNCHANGED repoVars
  BY <1>8, LedgerStays DEF repoVars
<1> QED BY <1>1, <1>2, <1>3, <1>4, <1>5, <1>6, <1>7, <1>8 DEF RepoNext

(* Every step of the tables as a flat disjunction of the operations. *)
RepoAction ==
    \/ \E p \in Intents, u \in Users, c \in Creators : CreatePending(p, u, c)
    \/ \E p \in Intents, e \in Events, amount \in Amounts : MarkPaymentSucceeded(p, e, amount)
    \/ \E p \in Intents : MarkPaymentFailed(p) \/ Cancel(p) \/ Renew(p)
    \/ ExpireOverdue
    \/ Tick
    \/ UNCHANGED repoVars

(* Only these operations touch the tables: the proofs below split on them. *)
LEMMA RepoCases == ASSUME [RepoNext]_repoVars PROVE RepoAction
BY DEF RepoNext, RepoAction

-----------------------------------------------------------------------------
(* At most one live row per pair is kept: only CreatePending makes a row   *)
(* live, and it checks the pair; everything else keeps or ends live rows.  *)
LEMMA OneLiveStep ==
    RepoTypeOK /\ OneLivePerPair /\ [RepoNext]_repoVars => OneLivePerPair'
<1> SUFFICES ASSUME RepoTypeOK, OneLivePerPair, [RepoNext]_repoVars
             PROVE  OneLivePerPair'
  OBVIOUS
<1> USE DEF RepoTypeOK, Rows, NoRow, Statuses, OneLivePerPair, IsLive
<1>1. ASSUME NEW p \in Intents, NEW u \in Users, NEW c \in Creators, CreatePending(p, u, c)
      PROVE  OneLivePerPair'
  BY <1>1, PeriodAssumption DEF CreatePending, PairIsTaken
<1>2. ASSUME NEW p \in Intents, NEW e \in Events, NEW amount \in Amounts,
             MarkPaymentSucceeded(p, e, amount)
      PROVE  OneLivePerPair'
  BY <1>2 DEF MarkPaymentSucceeded
<1>3. ASSUME NEW p \in Intents, MarkPaymentFailed(p) \/ Cancel(p) \/ Renew(p)
      PROVE  OneLivePerPair'
  BY <1>3, PeriodAssumption DEF MarkPaymentFailed, Cancel, Renew
<1>4. CASE ExpireOverdue
  BY <1>4 DEF ExpireOverdue, Overdue
<1>5. CASE Tick \/ UNCHANGED repoVars
  BY <1>5 DEF Tick, repoVars
<1> QED BY <1>1, <1>2, <1>3, <1>4, <1>5, RepoCases DEF RepoAction

(* An event already recorded is not recorded again. *)
LEMMA OneTransactionStep ==
    RepoTypeOK /\ OneTransactionPerEvent /\ [RepoNext]_repoVars
        => OneTransactionPerEvent'
<1> SUFFICES ASSUME RepoTypeOK, OneTransactionPerEvent, [RepoNext]_repoVars
             PROVE  OneTransactionPerEvent'
  OBVIOUS
<1> USE DEF OneTransactionPerEvent
<1>1. ASSUME NEW p \in Intents, NEW e \in Events, NEW amount \in Amounts,
             MarkPaymentSucceeded(p, e, amount)
      PROVE  OneTransactionPerEvent'
  <2> DEFINE paid == [event |-> e, sub |-> p, amount |-> amount]
  <2>1. paid.event = e /\ Record(paid) /\ \A t \in RecordedRows : t.event # e
    BY <1>1 DEF MarkPaymentSucceeded, EventIsRecorded
  <2> HIDE DEF paid
  <2>2. /\ RecordedRows' = RecordedRows \cup {paid} /\ transactions'[paid] = 1
        /\ \A row \in RecordedRows : transactions'[row] = transactions[row]
    BY <2>1, RecordAdds DEF RepoTypeOK
  <2> QED BY <2>1, <2>2
<1>2. CASE UNCHANGED transactions
  BY <1>2, LedgerStays
<1>3. ASSUME NEW p \in Intents, NEW u \in Users, NEW c \in Creators, CreatePending(p, u, c)
      PROVE  UNCHANGED transactions
  BY <1>3 DEF CreatePending
<1>4. ASSUME NEW p \in Intents, MarkPaymentFailed(p) \/ Cancel(p) \/ Renew(p)
      PROVE  UNCHANGED transactions
  BY <1>4 DEF MarkPaymentFailed, Cancel, Renew
<1>5. ASSUME ExpireOverdue \/ Tick \/ UNCHANGED repoVars
      PROVE  UNCHANGED transactions
  BY <1>5 DEF ExpireOverdue, Tick, repoVars
<1> QED BY <1>1, <1>2, <1>3, <1>4, <1>5, RepoCases DEF RepoAction

(* Payment and access stay together: ActiveWasPaid and PaidIsNotPending    *)
(* are preserved because MarkPaymentSucceeded writes both tables at once.  *)
LEMMA PaidStep ==
    /\ RepoTypeOK /\ ActiveWasPaid /\ PaidIsNotPending
    /\ [RepoNext]_repoVars
    => ActiveWasPaid' /\ PaidIsNotPending'
<1> SUFFICES ASSUME RepoTypeOK, ActiveWasPaid, PaidIsNotPending, [RepoNext]_repoVars
             PROVE  ActiveWasPaid' /\ PaidIsNotPending'
  OBVIOUS
<1> USE DEF RepoTypeOK, Rows, NoRow, Statuses, Transactions
<1>1. ASSUME NEW p \in Intents, NEW u \in Users, NEW c \in Creators, CreatePending(p, u, c)
      PROVE  ActiveWasPaid' /\ PaidIsNotPending'
  BY <1>1, LedgerStays DEF CreatePending, ActiveWasPaid, PaidIsNotPending
<1>2. ASSUME NEW p \in Intents, NEW e \in Events, NEW amount \in Amounts,
             MarkPaymentSucceeded(p, e, amount)
      PROVE  ActiveWasPaid' /\ PaidIsNotPending'
  <2> DEFINE paid == [event |-> e, sub |-> p, amount |-> amount]
  <2>1. RecordedRows' = RecordedRows \cup {paid} /\ paid.sub = p
    BY <1>2, RecordAdds DEF MarkPaymentSucceeded
  <2> HIDE DEF paid
  <2>2. /\ subs'[p].status \in {"active", "cancelled", "expired"}
        /\ \A q \in Intents : q # p => subs'[q] = subs[q]
    BY <1>2 DEF MarkPaymentSucceeded
  <2>3. ActiveWasPaid'
    <3> SUFFICES ASSUME NEW q \in Intents, subs'[q].status \in {"active", "expired"}
                 PROVE  \E t \in RecordedRows' : t.sub = q
      BY DEF ActiveWasPaid
    <3>1. CASE q = p
      BY <3>1, <2>1
    <3>2. CASE q # p
      BY <3>2, <2>1, <2>2 DEF ActiveWasPaid
    <3> QED BY <3>1, <3>2
  <2>4. PaidIsNotPending'
    BY <2>1, <2>2 DEF PaidIsNotPending
  <2> QED BY <2>3, <2>4
<1>3. ASSUME NEW p \in Intents, MarkPaymentFailed(p) \/ Cancel(p) \/ Renew(p)
      PROVE  ActiveWasPaid' /\ PaidIsNotPending'
  BY <1>3, LedgerStays DEF MarkPaymentFailed, Cancel, Renew, ActiveWasPaid, PaidIsNotPending
<1>4. CASE ExpireOverdue
  BY <1>4, LedgerStays DEF ExpireOverdue, Overdue, ActiveWasPaid, PaidIsNotPending
<1>5. CASE Tick \/ UNCHANGED repoVars
  BY <1>5, LedgerStays DEF Tick, repoVars, ActiveWasPaid, PaidIsNotPending
<1> QED BY <1>1, <1>2, <1>3, <1>4, <1>5, RepoCases DEF RepoAction

(* An expired row stays overdue: nothing renews it and the clock runs on.  *)
LEMMA ExpiredStep ==
    RepoTypeOK /\ ExpiredIsOverdue /\ [RepoNext]_repoVars => ExpiredIsOverdue'
<1> SUFFICES ASSUME RepoTypeOK, ExpiredIsOverdue, [RepoNext]_repoVars
             PROVE  ExpiredIsOverdue'
  OBVIOUS
<1> USE PeriodAssumption DEF RepoTypeOK, Rows, NoRow, Statuses, ExpiredIsOverdue
<1>1. ASSUME NEW p \in Intents, NEW u \in Users, NEW c \in Creators, CreatePending(p, u, c)
      PROVE  ExpiredIsOverdue'
  BY <1>1 DEF CreatePending
<1>2. ASSUME NEW p \in Intents, NEW e \in Events, NEW amount \in Amounts,
             MarkPaymentSucceeded(p, e, amount)
      PROVE  ExpiredIsOverdue'
  BY <1>2 DEF MarkPaymentSucceeded
<1>3. ASSUME NEW p \in Intents, MarkPaymentFailed(p) \/ Cancel(p) \/ Renew(p)
      PROVE  ExpiredIsOverdue'
  BY <1>3 DEF MarkPaymentFailed, Cancel, Renew
<1>4. CASE ExpireOverdue
  BY <1>4 DEF ExpireOverdue, Overdue
<1>5. CASE Tick \/ UNCHANGED repoVars
  BY <1>5 DEF Tick, repoVars
<1> QED BY <1>1, <1>2, <1>3, <1>4, <1>5, RepoCases DEF RepoAction

-----------------------------------------------------------------------------
(* The empty bag is a bag without rows. *)
LEMMA NothingIsRecordedFirst == RepoInit => IsABag(transactions) /\ RecordedRows = {}
BY DEF RepoInit, RecordedRows, IsABag, BagToSet, EmptyBag, SetToBag

(* Empty tables satisfy every invariant. *)
LEMMA RepoInvInit == RepoInit => RepoInv
BY NothingIsRecordedFirst
   DEF RepoInit, RepoInv, RepoTypeOK, Rows, NoRow, Statuses, Transactions, OneLivePerPair,
       IsLive, OneTransactionPerEvent, ActiveWasPaid, PaidIsNotPending, ExpiredIsOverdue

(* The invariants are preserved together by every operation. *)
LEMMA RepoInvStep == RepoInv /\ [RepoNext]_repoVars => RepoInv'
BY RepoTypeStep, OneLiveStep, OneTransactionStep, PaidStep, ExpiredStep DEF RepoInv

(* Every state the repository's operations can reach satisfies all of its  *)
(* invariants, for any number of PaymentIntents, users, creators, events.  *)
THEOREM RepoInvariant == RepoSpec => []RepoInv
BY RepoInvInit, RepoInvStep, PTL DEF RepoSpec

(* The type invariant that the runs check. *)
THEOREM RepoTypeCorrect == RepoSpec => []RepoTypeOK
<1>1. RepoInv => RepoTypeOK
  BY DEF RepoInv
<1> QED BY <1>1, RepoInvariant, PTL

(* No user ever has two active or pending subscriptions to one creator. *)
THEOREM OneLiveSubscription == RepoSpec => []OneLivePerPair
<1>1. RepoInv => OneLivePerPair
  BY DEF RepoInv
<1> QED BY <1>1, RepoInvariant, PTL

(* The sweep never expires a row that was renewed in time. *)
THEOREM ExpiredRowsAreOverdue == RepoSpec => []ExpiredIsOverdue
<1>1. RepoInv => ExpiredIsOverdue
  BY DEF RepoInv
<1> QED BY <1>1, RepoInvariant, PTL

(* Access always rests on a recorded payment. *)
THEOREM AccessIsPaid == RepoSpec => []ActiveWasPaid
<1>1. RepoInv => ActiveWasPaid
  BY DEF RepoInv
<1> QED BY <1>1, RepoInvariant, PTL

(* A recorded payment never leaves its row pending. *)
THEOREM PaymentSettlesRow == RepoSpec => []PaidIsNotPending
<1>1. RepoInv => PaidIsNotPending
  BY DEF RepoInv
<1> QED BY <1>1, RepoInvariant, PTL

(* A row's status moves only along LegalMoves: cancelled and expired rows  *)
(* are never revived.                                                      *)
THEOREM StatusMoves == RepoSpec => StatusMovesLegally
<1> DEFINE Legal == \A p \in Intents :
                      subs'[p].status # subs[p].status
                        => <<subs[p].status, subs'[p].status>> \in LegalMoves
<1>1. RepoTypeOK /\ [RepoNext]_repoVars => [Legal]_repoVars
  <2> SUFFICES ASSUME RepoTypeOK, [RepoNext]_repoVars
               PROVE  Legal
    OBVIOUS
  <2> USE DEF RepoTypeOK, Rows, NoRow, Statuses, LegalMoves
  <2>1. ASSUME NEW p \in Intents, NEW u \in Users, NEW c \in Creators, CreatePending(p, u, c)
        PROVE  Legal
    BY <2>1 DEF CreatePending
  <2>2. ASSUME NEW p \in Intents, NEW e \in Events, NEW amount \in Amounts,
               MarkPaymentSucceeded(p, e, amount)
        PROVE  Legal
    BY <2>2 DEF MarkPaymentSucceeded
  <2>3. ASSUME NEW p \in Intents, MarkPaymentFailed(p) \/ Cancel(p) \/ Renew(p)
        PROVE  Legal
    BY <2>3 DEF MarkPaymentFailed, Cancel, Renew
  <2>4. CASE ExpireOverdue
    BY <2>4 DEF ExpireOverdue, Overdue
  <2>5. CASE Tick \/ UNCHANGED repoVars
    BY <2>5 DEF Tick, repoVars
  <2> QED BY <2>1, <2>2, <2>3, <2>4, <2>5, RepoCases DEF RepoAction
<1> QED BY <1>1, RepoTypeCorrect, PTL DEF RepoSpec, StatusMovesLegally

-----------------------------------------------------------------------------
(* What a pair sees, in terms of its live row.                             *)
LiveFor(p, pair) ==
    /\ IsLive(subs[p])
    /\ subs[p].user = pair[1]
    /\ subs[p].creator = pair[2]

AccessIsOfTheLiveRow ==
    RepoTypeOK /\ OneLivePerPair =>
        \A pair \in Users \X Creators :
            /\ \A p \in Intents : LiveFor(p, pair) => AccessOf(pair) = subs[p].status
            /\ (\A p \in Intents : ~ LiveFor(p, pair)) => AccessOf(pair) = "none"

LEMMA AccessValues == AccessIsOfTheLiveRow
<1> SUFFICES ASSUME OneLivePerPair, NEW pair \in Users \X Creators
             PROVE  /\ \A p \in Intents : LiveFor(p, pair) => AccessOf(pair) = subs[p].status
                    /\ (\A p \in Intents : ~ LiveFor(p, pair)) => AccessOf(pair) = "none"
  BY DEF AccessIsOfTheLiveRow
<1> DEFINE live == {p \in Intents : LiveFor(p, pair)}
<1>0. AccessOf(pair) = IF live = {} THEN "none" ELSE subs[CHOOSE p \in live : TRUE].status
  BY DEF AccessOf, LiveFor
<1>1. ASSUME NEW p \in Intents, LiveFor(p, pair)
      PROVE  AccessOf(pair) = subs[p].status
  <2>1. live = {p}
    BY <1>1 DEF OneLivePerPair, LiveFor
  <2> HIDE DEF live
  <2>2. (CHOOSE q \in live : TRUE) = p
    BY <2>1
  <2> QED BY <1>0, <2>1, <2>2
<1>2. ASSUME \A p \in Intents : ~ LiveFor(p, pair)
      PROVE  AccessOf(pair) = "none"
  <2>1. live = {}
    BY <1>2
  <2> QED BY <1>0, <2>1
<1> QED BY <1>1, <1>2

LEMMA AccessValuesNext == AccessIsOfTheLiveRow'
BY AccessValues, PTL

(* A pair whose live row a step leaves alone sees what it saw.             *)
LEMMA AccessStays ==
    ASSUME RepoInv, RepoInv', NEW pair \in Users \X Creators,
           \A p \in Intents : LiveFor(p, pair) \/ LiveFor(p, pair)' => subs'[p] = subs[p]
    PROVE  AccessOf(pair)' = AccessOf(pair)
<1>1. /\ \A p \in Intents : LiveFor(p, pair) => AccessOf(pair) = subs[p].status
      /\ (\A p \in Intents : ~ LiveFor(p, pair)) => AccessOf(pair) = "none"
  BY AccessValues DEF RepoInv, AccessIsOfTheLiveRow
<1>2. /\ \A p \in Intents : LiveFor(p, pair)' => AccessOf(pair)' = subs'[p].status
      /\ (\A p \in Intents : ~ LiveFor(p, pair)') => AccessOf(pair)' = "none"
  BY AccessValuesNext DEF RepoInv, AccessIsOfTheLiveRow
<1>3. CASE \E p \in Intents : LiveFor(p, pair)
  <2>1. PICK p \in Intents : LiveFor(p, pair)
    BY <1>3
  <2>2. LiveFor(p, pair)' /\ subs'[p] = subs[p]
    BY <2>1 DEF LiveFor, IsLive
  <2> QED BY <1>1, <1>2, <2>1, <2>2
<1>4. CASE \A p \in Intents : ~ LiveFor(p, pair)
  <2>1. \A p \in Intents : ~ LiveFor(p, pair)'
    BY <1>4 DEF LiveFor, IsLive
  <2> QED BY <1>1, <1>2, <1>4, <2>1
<1> QED BY <1>3, <1>4

(* The operations on one row, seen from its pair.                          *)
LEMMA AccessOfOneRow ==
    ASSUME RepoInv, RepoInv', NEW p \in Intents,
           \A q \in Intents : q # p => subs'[q] = subs[q],
           NEW pair \in Users \X Creators,
           subs'[p] # NoRow, subs'[p].user = pair[1], subs'[p].creator = pair[2],
           subs[p] # NoRow => subs[p].user = pair[1] /\ subs[p].creator = pair[2]
    PROVE  \A other \in Users \X Creators : other # pair => AccessOf(other)' = AccessOf(other)
<1> SUFFICES ASSUME NEW other \in Users \X Creators, other # pair
             PROVE  AccessOf(other)' = AccessOf(other)
  OBVIOUS
<1>1. ~ LiveFor(p, other) /\ ~ LiveFor(p, other)'
  <2>1. other[1] # pair[1] \/ other[2] # pair[2]
    OBVIOUS
  <2>2. NoRow.status \notin {"active", "pending"}
    BY DEF NoRow
  <2> QED BY <2>1, <2>2 DEF LiveFor, IsLive
<1> QED BY <1>1, AccessStays

-----------------------------------------------------------------------------
(* Each operation of the repository is a step of CreatorAccess, or none.   *)
LEMMA AccessStep ==
    RepoInv /\ RepoInv' /\ [RepoNext]_repoVars => [Access!Next]_(Access!vars)
<1> SUFFICES ASSUME RepoInv, RepoInv', [RepoNext]_repoVars
             PROVE  [Access!Next]_(Access!vars)
  OBVIOUS
<1> DEFINE Pairs == Users \X Creators
           ledger == {t.event : t \in RecordedRows}
           access == [pair \in Pairs |-> AccessOf(pair)]
<1>0. /\ subs \in [Intents -> Rows \cup {NoRow}]
      /\ \A pair \in Pairs :
            /\ \A p \in Intents : LiveFor(p, pair) => AccessOf(pair) = subs[p].status
            /\ (\A p \in Intents : ~ LiveFor(p, pair)) => AccessOf(pair) = "none"
      /\ \A pair \in Pairs :
            /\ \A p \in Intents : LiveFor(p, pair)' => AccessOf(pair)' = subs'[p].status
            /\ (\A p \in Intents : ~ LiveFor(p, pair)') => AccessOf(pair)' = "none"
  BY AccessValues, AccessValuesNext DEF RepoInv, RepoTypeOK, AccessIsOfTheLiveRow
<1>p. ASSUME NEW p \in Intents, subs[p] # NoRow
      PROVE  /\ subs[p] \in Rows
             /\ <<subs[p].user, subs[p].creator>> \in Pairs
  BY <1>0, <1>p DEF Rows
<1>1. ASSUME NEW p \in Intents, NEW u \in Users, NEW c \in Creators, CreatePending(p, u, c)
      PROVE  Access!Request(<<u, c>>)
  <2>1. /\ subs[p] = NoRow /\ ~ PairIsTaken(u, c) /\ UNCHANGED RecordedRows
        /\ subs' = [subs EXCEPT ![p] = [status |-> "pending", user |-> u,
                                        creator |-> c, expires |-> now + Period]]
    BY <1>1, LedgerStays DEF CreatePending
  <2>2. /\ subs'[p].status = "pending" /\ subs'[p].user = u /\ subs'[p].creator = c
        /\ \A q \in Intents : q # p => subs'[q] = subs[q]
    BY <1>0, <2>1
  <2> DEFINE pair == <<u, c>>
  <2>3. pair \in Pairs /\ pair[1] = u /\ pair[2] = c
    OBVIOUS
  <2>4. AccessOf(pair) = "none"
    BY <1>0, <2>1, <2>3 DEF PairIsTaken, LiveFor
  <2>5. AccessOf(pair)' = "pending"
    <3>1. LiveFor(p, pair)'
      BY <2>2, <2>3 DEF LiveFor, IsLive
    <3> QED BY <1>0, <2>2, <2>3, <3>1
  <2>6. subs'[p] # NoRow
    BY <2>2 DEF NoRow
  <2> HIDE DEF pair
  <2>7. \A other \in Pairs : other # pair => AccessOf(other)' = AccessOf(other)
    BY <2>1, <2>2, <2>3, <2>6, AccessOfOneRow
  <2>8. access' = [access EXCEPT ![pair] = "pending"]
    BY <2>3, <2>5, <2>7
  <2> QED BY <2>1, <2>3, <2>4, <2>8 DEF Access!Request, pair
<1>2. ASSUME NEW p \in Intents, NEW e \in Events, NEW amount \in Amounts,
             MarkPaymentSucceeded(p, e, amount)
      PROVE  Access!Next
  <2> DEFINE paid == [event |-> e, sub |-> p, amount |-> amount]
  <2>1. /\ subs[p] # NoRow /\ ~ EventIsRecorded(e)
        /\ RecordedRows' = RecordedRows \cup {paid}
        /\ subs' = IF subs[p].status = "pending"
                   THEN [subs EXCEPT ![p].status = "active"]
                   ELSE subs
    BY <1>2, RecordAdds DEF MarkPaymentSucceeded, RepoInv, RepoTypeOK
  <2>2. paid.event = e
    OBVIOUS
  <2> HIDE DEF paid
  <2>3. e \notin ledger /\ ledger' = ledger \cup {e}
    BY <2>1, <2>2 DEF EventIsRecorded
  <2>4. CASE subs[p].status = "pending"
    <3>1. subs[p] \in Rows
      BY <1>p, <2>1
    <3>0. PICK pair \in Pairs : pair = <<subs[p].user, subs[p].creator>>
      BY <1>p, <2>1
    <3>2. /\ subs'[p].status = "active"
          /\ subs'[p].user = subs[p].user /\ subs'[p].creator = subs[p].creator
          /\ \A q \in Intents : q # p => subs'[q] = subs[q]
      BY <1>0, <2>1, <2>4, <3>1 DEF Rows
    <3>3. pair[1] = subs[p].user /\ pair[2] = subs[p].creator
      BY <3>0
    <3>4. LiveFor(p, pair) /\ LiveFor(p, pair)'
      BY <2>4, <3>2, <3>3 DEF LiveFor, IsLive
    <3>5. AccessOf(pair) = "pending" /\ AccessOf(pair)' = "active"
      BY <1>0, <2>4, <3>1, <3>2, <3>4
    <3>6. subs'[p] # NoRow
      BY <3>2 DEF NoRow
    <3>7. \A other \in Pairs : other # pair => AccessOf(other)' = AccessOf(other)
      BY <3>1, <3>2, <3>3, <3>6, AccessOfOneRow
    <3>8. access' = [access EXCEPT ![pair] = "active"]
      BY <3>1, <3>5, <3>7
    <3>9. Access!Grant(pair, e)
      BY <2>3, <3>1, <3>5, <3>8 DEF Access!Grant
    <3> QED BY <3>1, <3>9 DEF Access!Next
  <2>5. CASE subs[p].status # "pending"
    <3>1. UNCHANGED subs
      BY <2>1, <2>5
    <3>2. \A pair \in Pairs : AccessOf(pair)' = AccessOf(pair)
      BY <3>1, AccessStays
    <3>3. Access!KeepLatePayment(e)
      BY <2>3, <3>2 DEF Access!KeepLatePayment
    <3> QED BY <3>3 DEF Access!Next
  <2> QED BY <2>4, <2>5
<1>3. ASSUME NEW p \in Intents, MarkPaymentFailed(p) \/ Cancel(p)
      PROVE  Access!Next
  <2>1. /\ subs[p].status \in {"pending", "active"}
        /\ subs' = [subs EXCEPT ![p].status = "cancelled"]
        /\ UNCHANGED RecordedRows
    BY <1>3, LedgerStays DEF MarkPaymentFailed, Cancel
  <2>2. subs[p] # NoRow
    BY <2>1 DEF NoRow
  <2>3. subs[p] \in Rows
    BY <1>p, <2>2
  <2>0. PICK pair \in Pairs : pair = <<subs[p].user, subs[p].creator>>
    BY <1>p, <2>2
  <2>4. /\ subs'[p].status = "cancelled"
        /\ subs'[p].user = subs[p].user /\ subs'[p].creator = subs[p].creator
        /\ \A q \in Intents : q # p => subs'[q] = subs[q]
    BY <1>0, <2>1, <2>3 DEF Rows
  <2>5. pair[1] = subs[p].user /\ pair[2] = subs[p].creator
    BY <2>0
  <2>6. LiveFor(p, pair)
    BY <2>1, <2>5 DEF LiveFor, IsLive
  <2>7. AccessOf(pair) # "none"
    BY <1>0, <2>1, <2>3, <2>6
  <2>8. \A q \in Intents : ~ LiveFor(q, pair)'
    <3> SUFFICES ASSUME NEW q \in Intents, LiveFor(q, pair)' PROVE FALSE
      OBVIOUS
    <3>1. q # p
      BY <2>4 DEF LiveFor, IsLive
    <3>2. LiveFor(q, pair)
      BY <2>4, <3>1 DEF LiveFor, IsLive
    <3> QED BY <2>6, <3>1, <3>2 DEF RepoInv, OneLivePerPair, LiveFor
  <2>9. AccessOf(pair)' = "none"
    BY <1>0, <2>3, <2>8
  <2>10. subs'[p] # NoRow
    BY <2>4 DEF NoRow
  <2>11. \A other \in Pairs : other # pair => AccessOf(other)' = AccessOf(other)
    BY <2>3, <2>4, <2>5, <2>10, AccessOfOneRow
  <2>12. access' = [access EXCEPT ![pair] = "none"]
    BY <2>3, <2>9, <2>11
  <2>13. Access!Withdraw(pair)
    BY <2>1, <2>3, <2>7, <2>12 DEF Access!Withdraw
  <2> QED BY <2>3, <2>13 DEF Access!Next
<1>4. ASSUME NEW p \in Intents, Renew(p)
      PROVE  UNCHANGED Access!vars
  <2>1. /\ subs[p].status = "active" /\ UNCHANGED RecordedRows
        /\ subs' = [subs EXCEPT ![p].expires = @ + Period]
    BY <1>4, LedgerStays DEF Renew
  <2>2. subs[p] # NoRow
    BY <2>1 DEF NoRow
  <2>3. subs[p] \in Rows
    BY <1>p, <2>2
  <2>0. PICK pair \in Pairs : pair = <<subs[p].user, subs[p].creator>>
    BY <1>p, <2>2
  <2>4. /\ subs'[p].status = "active"
        /\ subs'[p].user = subs[p].user /\ subs'[p].creator = subs[p].creator
        /\ \A q \in Intents : q # p => subs'[q] = subs[q]
    BY <1>0, <2>1, <2>3 DEF Rows
  <2>5. pair[1] = subs[p].user /\ pair[2] = subs[p].creator
    BY <2>0
  <2>6. LiveFor(p, pair) /\ LiveFor(p, pair)'
    BY <2>1, <2>4, <2>5 DEF LiveFor, IsLive
  <2>7. AccessOf(pair)' = AccessOf(pair)
    BY <1>0, <2>1, <2>3, <2>4, <2>6
  <2>8. subs'[p] # NoRow
    BY <2>4 DEF NoRow
  <2>9. \A other \in Pairs : other # pair => AccessOf(other)' = AccessOf(other)
    BY <2>3, <2>4, <2>5, <2>8, AccessOfOneRow
  <2>10. UNCHANGED <<access, ledger>>
    BY <2>1, <2>7, <2>9
  <2> QED BY <2>10 DEF Access!vars
<1>5. CASE ExpireOverdue
  <2> DEFINE lapsed == {pair \in Pairs : \E p \in Overdue : LiveFor(p, pair)}
  <2>1. /\ UNCHANGED RecordedRows
        /\ subs' = [p \in Intents |-> IF p \in Overdue
                                      THEN [subs[p] EXCEPT !.status = "expired"]
                                      ELSE subs[p]]
    BY <1>5, LedgerStays DEF ExpireOverdue
  <2>2. \A p \in Overdue : p \in Intents /\ subs[p].status = "active"
    BY DEF Overdue
  <2>3. \A p \in Overdue : subs'[p].status = "expired"
    <3> SUFFICES ASSUME NEW p \in Overdue PROVE subs'[p].status = "expired"
      OBVIOUS
    <3>1. p \in Intents /\ subs[p] # NoRow
      BY <2>2 DEF NoRow
    <3>2. subs[p] \in Rows
      BY <1>p, <3>1
    <3> QED BY <2>1, <3>1, <3>2 DEF Rows
  <2>4. \A pair \in lapsed : AccessOf(pair) = "active"
    BY <1>0, <2>2
  <2>5. ASSUME NEW pair \in lapsed
        PROVE  AccessOf(pair)' = "none"
    <3>1. PICK p \in Overdue : LiveFor(p, pair)
      OBVIOUS
    <3>2. \A q \in Intents : ~ LiveFor(q, pair)'
      <4> SUFFICES ASSUME NEW q \in Intents, LiveFor(q, pair)' PROVE FALSE
        OBVIOUS
      <4>1. q \notin Overdue
        BY <2>3 DEF LiveFor, IsLive
      <4>2. LiveFor(q, pair)
        BY <2>1, <4>1 DEF LiveFor, IsLive
      <4> QED BY <2>2, <3>1, <4>1, <4>2 DEF RepoInv, OneLivePerPair, LiveFor
    <3> QED BY <1>0, <3>2
  <2>6. ASSUME NEW pair \in Pairs, pair \notin lapsed
        PROVE  AccessOf(pair)' = AccessOf(pair)
    <3>1. ASSUME NEW p \in Intents, LiveFor(p, pair) \/ LiveFor(p, pair)'
          PROVE  subs'[p] = subs[p]
      <4>1. p \notin Overdue
        BY <2>3, <2>6, <3>1 DEF LiveFor, IsLive
      <4> QED BY <2>1, <4>1
    <3> QED BY <3>1, AccessStays
  <2> HIDE DEF lapsed
  <2>7. access' = [pair \in Pairs |-> IF pair \in lapsed THEN "none" ELSE access[pair]]
    BY <2>5, <2>6
  <2>8. lapsed \in SUBSET Pairs
    BY DEF lapsed
  <2>9. Access!Lapse(lapsed)
    BY <2>1, <2>4, <2>7, <2>8 DEF Access!Lapse
  <2> QED BY <2>8, <2>9 DEF Access!Next
<1>6. CASE Tick \/ UNCHANGED repoVars
  <2>1. UNCHANGED <<subs, RecordedRows>>
    BY <1>6, LedgerStays DEF Tick, repoVars
  <2>2. \A pair \in Pairs : AccessOf(pair)' = AccessOf(pair)
    BY <2>1, AccessStays
  <2> QED BY <2>1, <2>2 DEF Access!vars
<1>7. ASSUME NEW p \in Intents, NEW u \in Users, NEW c \in Creators, CreatePending(p, u, c)
      PROVE  Access!Next
  BY <1>1, <1>7 DEF Access!Next
<1> QED BY <1>2, <1>3, <1>4, <1>5, <1>6, <1>7, RepoCases DEF RepoAction

(* Seen through its live row, every pair is the small state machine of     *)
(* CreatorAccess, whatever rows it has behind it.                          *)
THEOREM RepositoryImplementsAccess == RepoSpec => AccessSpec
<1>1. RepoInit => Access!Init
  <2> SUFFICES ASSUME RepoInit PROVE Access!Init
    OBVIOUS
  <2>1. subs = [p \in Intents |-> NoRow] /\ RecordedRows = {}
    BY NothingIsRecordedFirst DEF RepoInit
  <2>2. ASSUME NEW pair \in Users \X Creators PROVE AccessOf(pair) = "none"
    BY <2>1 DEF AccessOf, IsLive, NoRow
  <2> QED BY <2>1, <2>2 DEF Access!Init
<1> QED BY <1>1, AccessStep, RepoInvariant, PTL DEF RepoSpec, AccessSpec, Access!Spec
=============================================================================
