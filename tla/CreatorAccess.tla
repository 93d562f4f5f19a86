---------------------------- MODULE CreatorAccess ----------------------------
(***************************************************************************)
(* What the subscription tables promise to the product: seen through its   *)
(* live row, a (user, creator) pair is one small state machine, whatever   *)
(* history of cancelled and expired rows lies behind it.  A pair reaches   *)
(* "active" only from "pending", in the step that adds a payment to the    *)
(* ledger, and the ledger only grows.                                      *)
(* SubscriptionRepository implements this module; see AccessSpec there.    *)
(***************************************************************************)
CONSTANTS
    Pairs,    \* (user, creator) pairs
    Events    \* payment events the ledger may hold

VARIABLES
    access,   \* what each pair sees: "none", "pending" or "active"
    ledger    \* payment events recorded so far

vars == <<access, ledger>>

Init ==
    /\ access = [pair \in Pairs |-> "none"]
    /\ ledger = {}

Request(pair) ==
    /\ access[pair] = "none"
    /\ access' = [access EXCEPT ![pair] = "pending"]
    /\ UNCHANGED ledger

Grant(pair, e) ==
    /\ access[pair] = "pending"
    /\ e \notin ledger
    /\ access' = [access EXCEPT ![pair] = "active"]
    /\ ledger' = ledger \cup {e}

(* A payment that arrives for a row no longer pending is kept for          *)
(* reconciliation and gives nobody access.                                 *)
KeepLatePayment(e) ==
    /\ e \notin ledger
    /\ ledger' = ledger \cup {e}
    /\ UNCHANGED access

(* A declined payment or a cancellation. *)
Withdraw(pair) ==
    /\ access[pair] # "none"
    /\ access' = [access EXCEPT ![pair] = "none"]
    /\ UNCHANGED ledger

(* The sweep ends the access of several active pairs at once. *)
Lapse(lapsed) ==
    /\ \A pair \in lapsed : access[pair] = "active"
    /\ access' = [pair \in Pairs |-> IF pair \in lapsed THEN "none" ELSE access[pair]]
    /\ UNCHANGED ledger

Next ==
    \/ \E pair \in Pairs : \/ Request(pair)
                           \/ Withdraw(pair)
                           \/ \E e \in Events : Grant(pair, e)
    \/ \E e \in Events : KeepLatePayment(e)
    \/ \E lapsed \in SUBSET Pairs : Lapse(lapsed)

Spec == Init /\ [][Next]_vars
=============================================================================
