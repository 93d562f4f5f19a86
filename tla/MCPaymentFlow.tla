---------------------------- MODULE MCPaymentFlow ----------------------------
(***************************************************************************)
(* PaymentFlow for TLC: the event ids the repository may store are the ids *)
(* of Stripe's events.                                                     *)
(***************************************************************************)
EXTENDS PaymentFlow, TLC

MCEvents == [type : {"succeeded", "failed", "unhandled"}, intent : Intents,
             n : 0..MaxDeclines]

(* PaymentIntents and deliveries are interchangeable; used with invariants *)
(* and step properties only.                                               *)
Symmetry == Permutations(Intents) \cup Permutations(Handlers)
=============================================================================
