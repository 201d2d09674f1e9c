------------------------------ MODULE MCWorker ------------------------------
(***************************************************************************)
(* Instances of OIWorker for TLC.                                          *)
(***************************************************************************)
EXTENDS OIWorker, TLC

CONSTANTS o1, o2, p1, p2, q1, q2

\* Two queues, each with a pool of its own and one object in each pool: an
\* object can travel through the queue of the other pool.
TwoPools == [p \in {p1, p2} |-> IF p = p1 THEN <<o1>> ELSE <<o2>>]
OwnPools == [q \in {q1, q2} |-> IF q = q1 THEN p1 ELSE p2]

\* Acquisitions are interchangeable.
AcqSymmetry == Permutations(Acqs)
==============================================================================
