----------------------------- MODULE MCUDPBase -----------------------------
(***************************************************************************)
(* A UDPBase with one shared pool, as RGBDStreamIO initialises it, and one *)
(* registered family.                                                      *)
(***************************************************************************)
EXTENDS UDPBase

CONSTANTS o1, o2, pool, qs, qr, qd

SharedStock == [p \in {pool} |-> <<o1, o2>>]
SharedPool == [q \in {qs, qr, qd} |-> pool]
DataQueue == [f \in {"DATA"} |-> qd]
NetMessages == Messages
==============================================================================
