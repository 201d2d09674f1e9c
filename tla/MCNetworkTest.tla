---------------------------- MODULE MCNetworkTest ----------------------------
(***************************************************************************)
(* A client of the network test with a pool of two buffers, which its four *)
(* acquisitions (listener, sender and the client's own) fight for.         *)
(***************************************************************************)
EXTENDS NetworkTest

CONSTANTS o1, o2, pool, qs, qr, inA, inB

SharedStock == [p \in {pool} |-> <<o1, o2>>]
SharedPool == [q \in {qs, qr, inA, inB} |-> pool]
TestQueues == [f \in {"A", "B"} |-> IF f = "A" THEN inA ELSE inB]
TestMessages == Messages \cup Packets
==============================================================================
