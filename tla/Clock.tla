-------------------------------- MODULE Clock --------------------------------
(***************************************************************************)
(* The time of Redis and of the API, taken for one clock.                  *)
(***************************************************************************)
EXTENDS Integers

CONSTANT MaxTime    \* bound on the clock

VARIABLE now

ClockInit == now = 0

Advance ==
    /\ now < MaxTime
    /\ now' = now + 1
=============================================================================
