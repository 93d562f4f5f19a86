---------------------------- MODULE CreatorNotices ----------------------------
(***************************************************************************)
(* What a process that publishes notifications promises the creators,      *)
(* wherever the events are held and whatever ends it.  A notice falls due  *)
(* at most once, its creator is told at most once and only of what is due, *)
(* and a notice that is lost is never told: nothing is retried.            *)
(* PaymentFlow and ApiProcess (payments, up to the publish call and up to  *)
(* the creator) and ExpirationWorker (expired subscriptions) implement     *)
(* this module; see NoticeSpec in each.                                    *)
(***************************************************************************)
CONSTANT Notices   \* what there is to tell

VARIABLE notices   \* where each notice stands

Init == notices = [n \in Notices |-> "none"]

(* The notices in S are all at from, and move to to. *)
Move(S, from, to) ==
    /\ \A n \in S : notices[n] = from
    /\ notices' = [n \in Notices |-> IF n \in S THEN to ELSE notices[n]]

(* One statement can make several notices due; if the process does not     *)
(* hear of its commit, they are lost from the start.                       *)
FallDue(S) == Move(S, "none", "due")
Miss(S) == Move(S, "none", "lost")

Tell(n) == Move({n}, "due", "told")

(* A full buffer, or the end of the process that held them. *)
Lose(S) == Move(S, "due", "lost")

Next ==
    \/ \E S \in SUBSET Notices : FallDue(S) \/ Miss(S) \/ Lose(S)
    \/ \E n \in Notices : Tell(n)

Spec == Init /\ [][Next]_notices
=============================================================================
