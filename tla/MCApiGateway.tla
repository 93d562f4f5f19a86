---------------------------- MODULE MCApiGateway ----------------------------
(***************************************************************************)
(* Constants for checking ApiGateway on a small instance.                  *)
(***************************************************************************)
EXTENDS ApiGateway

MCKeys == {LoginKey(address) : address \in Addresses}
          \cup {UserKey(r, u) : r \in Protected, u \in Users}
=============================================================================
