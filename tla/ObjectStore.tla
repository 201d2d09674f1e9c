----------------------------- MODULE ObjectStore -----------------------------
(***************************************************************************)
(* What the worker library of oi.core promises, without threads, locks or  *)
(* condition variables: a fixed stock of data objects moves between FIFO   *)
(* stores (the unused objects of a pool, the ready objects of a queue) and *)
(* the hands of the program.  An object is handed over by a store, written *)
(* while it is held, and put into a queue or, wiped, back into the pool    *)
(* that built it.  OIWorker implements this specification.                 *)
(***************************************************************************)
EXTENDS ObjectStock

VARIABLES
    items,    \* items[s]: the objects in store s, oldest first
    held,     \* the objects in the program's hands
    content   \* content[o]: what is in object o

vars == <<items, held, content>>

Init ==
    /\ items = InitialItems
    /\ held = {}
    /\ content = [o \in Objects |-> Blank]

\* A store hands out its oldest object.
Take(s) ==
    /\ items[s] # <<>>
    /\ items' = [items EXCEPT ![s] = Tail(@)]
    /\ held' = held \cup {Head(items[s])}
    /\ UNCHANGED content

\* The program writes into an object it holds.
Write(o, v) ==
    /\ o \in held
    /\ content' = [content EXCEPT ![o] = v]
    /\ UNCHANGED <<items, held>>

\* A held object goes to the tail of a queue as it is.
Put(o, q) ==
    /\ o \in held
    /\ items' = [items EXCEPT ![q] = Append(@, o)]
    /\ held' = held \ {o}
    /\ UNCHANGED content

\* A held object goes home, wiped.
Return(o) ==
    /\ o \in held
    /\ items' = [items EXCEPT ![Home[o]] = Append(@, o)]
    /\ held' = held \ {o}
    /\ content' = [content EXCEPT ![o] = Blank]

Next ==
    \/ \E s \in Stores : Take(s)
    \/ \E o \in Objects, v \in Values : Write(o, v)
    \/ \E o \in Objects, q \in Queues : Put(o, q)
    \/ \E o \in Objects : Return(o)

Spec == Init /\ [][Next]_vars
==============================================================================
