----------------------------- MODULE ObjectStock -----------------------------
(***************************************************************************)
(* The fixed inventory of a program that uses the worker library: its      *)
(* queues, its pools, and the objects each pool constructs.  No object is  *)
(* built or deleted later.                                                 *)
(***************************************************************************)
EXTENDS Naturals, Sequences

CONSTANTS
    Queues,   \* the WorkerQueues
    Pools,    \* the ObjectPools
    Objects,  \* the DataObjects
    Stock,    \* Stock[p]: the objects pool p constructs, in that order
    Values,   \* what a client can write into an object
    Blank     \* what reset() leaves in an object

Stores == Queues \cup Pools

\* Every object is constructed once, by one pool.
ASSUME StockAssumption ==
    /\ Queues \cap Pools = {}
    /\ Blank \notin Values
    /\ Stock \in [Pools -> Seq(Objects)]
    /\ \A o \in Objects : \E p \in Pools : \E i \in DOMAIN Stock[p] : Stock[p][i] = o
    /\ \A p, r \in Pools : \A i \in DOMAIN Stock[p], j \in DOMAIN Stock[r] :
           Stock[p][i] = Stock[r][j] => p = r /\ i = j

\* The pool that constructed an object: the object's _return_to_pool.
Home == [o \in Objects |->
            CHOOSE p \in Pools : \E i \in DOMAIN Stock[p] : Stock[p][i] = o]

\* What the stores hold when the pools have been constructed.
InitialItems == [s \in Stores |-> IF s \in Pools THEN Stock[s] ELSE <<>>]
==============================================================================
