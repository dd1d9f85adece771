----------------------------- MODULE MCClockDelta -----------------------------
(***************************************************************************)
(* A client on the host of the server and one on a host whose clock is     *)
(* behind.                                                                 *)
(***************************************************************************)
EXTENDS ClockDelta

MCOffset == [c \in Client |-> IF c \in Local THEN 0 ELSE -2]
===============================================================================
