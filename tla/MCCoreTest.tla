----------------------------- MODULE MCCoreTest -----------------------------
(***************************************************************************)
(* The oi.core test with a pool of two objects, as in the source, and a    *)
(* smaller number of runs.                                                 *)
(***************************************************************************)
EXTENDS CoreTest

CONSTANTS o1, o2, p1, q1, k1, k2, x1, x2

TestStock == [p \in {p1} |-> <<o1, o2>>]
TestPool == [q \in {q1} |-> p1]
TestX == [k \in {k1, k2} |-> IF k = k1 THEN x1 ELSE x2]
==============================================================================
