------------------------------ MODULE OIWorker ------------------------------
(***************************************************************************)
(* The worker library of oi.core (OIWorker.hpp): object pools, worker      *)
(* queues and the DataObjectAcquisition through which threads take an      *)
(* object and give it back.  The client is the most general one: it calls  *)
(* every operation of the library in every order the types allow.          *)
(*                                                                         *)
(* An acquisition stands for a DataObjectAcquisition variable together     *)
(* with the thread that runs its constructor.  The constructor is not      *)
(* atomic: it unlocks the store's mutex before it locks the wait mutex and *)
(* waits, so the state of a blocked constructor is kept in pc.  What runs  *)
(* under _m_ready or _m_unused is one step; _m_wait guards no data and is  *)
(* never held while another thread needs it to proceed, so waking up,      *)
(* locking again and taking the object are one step too.                   *)
(***************************************************************************)
EXTENDS ObjectStock

CONSTANTS
    Acqs,     \* DataObjectAcquisition variables
    Closers,  \* threads that call close() or notify_all()
    PoolOf,   \* PoolOf[q]: the _object_pool of queue q
    Spurious, \* may a condition variable wake a waiter without a notify?
    NULL

ASSUME WorkerAssumption ==
    /\ PoolOf \in [Queues -> Pools]
    /\ Spurious \in BOOLEAN
    /\ NULL \notin Objects \cup Stores

\* The arguments of a constructor call: queue, W_TYPE and W_FLOW.
Calls == [q : Queues, t : {"UNUSED", "QUEUED"}, f : {"BLOCKING", "NONBLOCKING"}]

\* The store _get_data(t, f) takes from; its two branches differ in nothing else.
StoreOf(c) == IF c.t = "UNUSED" THEN PoolOf[c.q] ELSE c.q

VARIABLES
    items,    \* items[s]: _queue_ready or _queue_unused, oldest first
    content,  \* content[o]: what is in the object
    running,  \* running[q]: _running
    notifier, \* notifier[c]: the close()/notify_all() that closer c is inside
    pc,       \* where acquisition a is
    call,     \* the constructor call that runs, or that ended without an object
    data,     \* data
    enq,      \* _enqueue
    next,     \* _enqueue_next
    returnTo  \* _return_to

acqVars == <<pc, call, data, enq, next, returnTo>>
vars == <<items, content, running, notifier, acqVars>>

PCs == {"idle",      \* not constructed
        "unlocked",  \* found the store empty and unlocked it, not yet waiting
        "waiting",   \* on the store's condition variable
        "notified",  \* woken, about to lock the store again
        "empty",     \* got null, the constructor is about to read _running
        "thrown",    \* the constructor threw OIError
        "live"}      \* constructed

Init ==
    /\ items = InitialItems
    /\ content = [o \in Objects |-> Blank]
    /\ running = [q \in Queues |-> TRUE]
    /\ notifier = [c \in Closers |-> NULL]
    /\ pc = [a \in Acqs |-> "idle"]
    /\ call = [a \in Acqs |-> NULL]
    /\ data = [a \in Acqs |-> NULL]
    /\ enq = [a \in Acqs |-> FALSE]
    /\ next = [a \in Acqs |-> NULL]
    /\ returnTo = [a \in Acqs |-> NULL]

------------------------------------------------------------------------------
(* The constructor and _get_data.                                          *)

\* Wrong variants of operators, named for the mistake, stand before the operators
\* they vary: with one of them in its place a property below fails.

WaitsWhenNonblocking(c) == running[c.q] /\ c.f # "BLOCKING" /\ items[StoreOf(c)] = <<>>

\* The condition under which _get_data unlocks the store and waits.
MustWait(c) == running[c.q] /\ c.f = "BLOCKING" /\ items[StoreOf(c)] = <<>>

TakesNewest(a, c) ==
    LET s == StoreOf(c) IN
    /\ items[s] # <<>>
    /\ items' = [items EXCEPT ![s] = SubSeq(@, 1, Len(@) - 1)]
    /\ data' = [data EXCEPT ![a] = items[s][Len(items[s])]]
    /\ returnTo' = [returnTo EXCEPT ![a] = Home[items[s][Len(items[s])]]]
    /\ enq' = [enq EXCEPT ![a] = FALSE]
    /\ next' = [next EXCEPT ![a] = c.q]
    /\ call' = [call EXCEPT ![a] = NULL]
    /\ pc' = [pc EXCEPT ![a] = "live"]

\* The end of _get_data, and the constructor's body when it got an object.
TakeObject(a, c) ==
    LET s == StoreOf(c) IN
    /\ items[s] # <<>>
    /\ items' = [items EXCEPT ![s] = Tail(@)]
    /\ data' = [data EXCEPT ![a] = Head(items[s])]
    /\ returnTo' = [returnTo EXCEPT ![a] = Home[Head(items[s])]]
    /\ enq' = [enq EXCEPT ![a] = FALSE]
    /\ next' = [next EXCEPT ![a] = c.q]
    /\ call' = [call EXCEPT ![a] = NULL]
    /\ pc' = [pc EXCEPT ![a] = "live"]

\* The same when the store is empty: a blocking call for an unused object has
\* still to read _running.  _return_to stays unset; nothing reads it then.
TakeNull(a, c) ==
    /\ items[StoreOf(c)] = <<>>
    /\ enq' = [enq EXCEPT ![a] = FALSE]
    /\ next' = [next EXCEPT ![a] = c.q]
    /\ call' = [call EXCEPT ![a] = c]
    /\ pc' = [pc EXCEPT ![a] =
                 IF c.f = "BLOCKING" /\ c.t = "UNUSED" THEN "empty" ELSE "live"]
    /\ UNCHANGED <<items, data, returnTo>>

Take(a, c) == TakeObject(a, c) \/ TakeNull(a, c)

\* The constructor is called and does not wait.
Acquire(a, c) ==
    /\ pc[a] = "idle"
    /\ ~MustWait(c)
    /\ Take(a, c)
    /\ UNCHANGED <<content, running, notifier>>

\* The constructor is called, finds the store empty and unlocks it.
AcquireUnlock(a, c) ==
    /\ pc[a] = "idle"
    /\ MustWait(c)
    /\ call' = [call EXCEPT ![a] = c]
    /\ pc' = [pc EXCEPT ![a] = "unlocked"]
    /\ UNCHANGED <<items, content, running, notifier, data, enq, next, returnTo>>

\* It begins to wait, whatever has happened since it unlocked the store.
Wait(a) ==
    /\ pc[a] = "unlocked"
    /\ pc' = [pc EXCEPT ![a] = "waiting"]
    /\ UNCHANGED <<items, content, running, notifier, call, data, enq, next, returnTo>>

\* The wait has no predicate: a spurious wakeup ends it like a notify.
WakeSpuriously(a) ==
    /\ Spurious
    /\ pc[a] = "waiting"
    /\ pc' = [pc EXCEPT ![a] = "notified"]
    /\ UNCHANGED <<items, content, running, notifier, call, data, enq, next, returnTo>>

\* Locks the store again and takes what is there, once.
Resume(a) ==
    /\ pc[a] = "notified"
    /\ Take(a, call[a])
    /\ UNCHANGED <<content, running, notifier>>

NeverThrows(a) ==
    /\ pc[a] = "empty"
    /\ pc' = [pc EXCEPT ![a] = "live"]
    /\ UNCHANGED <<items, content, running, notifier, call, data, enq, next, returnTo>>

\* A blocking call for an unused object that got null throws while the queue runs.
CheckRunning(a) ==
    /\ pc[a] = "empty"
    /\ pc' = [pc EXCEPT ![a] = IF running[call[a].q] THEN "thrown" ELSE "live"]
    /\ UNCHANGED <<items, content, running, notifier, call, data, enq, next, returnTo>>

\* The client catches the OIError; the acquisition was never constructed.
Catch(a) ==
    /\ pc[a] = "thrown"
    /\ pc' = [pc EXCEPT ![a] = "idle"]
    /\ call' = [call EXCEPT ![a] = NULL]
    /\ enq' = [enq EXCEPT ![a] = FALSE]
    /\ next' = [next EXCEPT ![a] = NULL]
    /\ UNCHANGED <<items, content, running, notifier, data, returnTo>>

------------------------------------------------------------------------------
(* What a client does with a constructed acquisition.                      *)

Fill(a, v) ==
    /\ pc[a] = "live"
    /\ data[a] # NULL
    /\ content' = [content EXCEPT ![data[a]] = v]
    /\ UNCHANGED <<items, running, notifier, acqVars>>

\* enqueue()
Enqueue(a) ==
    /\ pc[a] = "live"
    /\ enq' = [enq EXCEPT ![a] = TRUE]
    /\ UNCHANGED <<items, content, running, notifier, pc, call, data, next, returnTo>>

\* enqueue(q)
EnqueueTo(a, q) ==
    /\ pc[a] = "live"
    /\ enq' = [enq EXCEPT ![a] = TRUE]
    /\ next' = [next EXCEPT ![a] = q]
    /\ UNCHANGED <<items, content, running, notifier, pc, call, data, returnTo>>

Release(a) ==
    /\ pc[a] = "live"
    /\ enq' = [enq EXCEPT ![a] = FALSE]
    /\ next' = [next EXCEPT ![a] = NULL]
    /\ UNCHANGED <<items, content, running, notifier, pc, call, data, returnTo>>

MoveKeepsSource(a, b) ==
    /\ pc[a] = "live" /\ pc[b] = "idle"
    /\ pc' = [pc EXCEPT ![b] = "live"]
    /\ data' = [data EXCEPT ![b] = data[a]]
    /\ enq' = [enq EXCEPT ![b] = enq[a], ![a] = FALSE]
    /\ next' = [next EXCEPT ![b] = next[a], ![a] = NULL]
    /\ returnTo' = [returnTo EXCEPT ![b] = returnTo[a]]
    /\ call' = [call EXCEPT ![a] = NULL]
    /\ UNCHANGED <<items, content, running, notifier>>

\* The move constructor makes b out of a; a keeps nothing.
Move(a, b) ==
    /\ pc[a] = "live" /\ pc[b] = "idle"
    /\ pc' = [pc EXCEPT ![b] = "live"]
    /\ data' = [data EXCEPT ![b] = data[a], ![a] = NULL]
    /\ enq' = [enq EXCEPT ![b] = enq[a], ![a] = FALSE]
    /\ next' = [next EXCEPT ![b] = next[a], ![a] = NULL]
    /\ returnTo' = [returnTo EXCEPT ![b] = returnTo[a], ![a] = NULL]
    /\ call' = [call EXCEPT ![a] = NULL]
    /\ UNCHANGED <<items, content, running, notifier>>

------------------------------------------------------------------------------
(* The destructor.                                                         *)

WaitersOn(s) == {a \in Acqs : pc[a] = "waiting" /\ StoreOf(call[a]) = s}

\* notify_one: some waiter is woken, none if there is none.  The acquisition
\* that notifies is gone afterwards.
NotifyOneAndEnd(a, s) ==
    IF WaitersOn(s) = {}
    THEN pc' = [pc EXCEPT ![a] = "idle"]
    ELSE \E w \in WaitersOn(s) : pc' = [pc EXCEPT ![a] = "idle", ![w] = "notified"]

\* _enqueue and _return: under the store's lock, push and notify one.
PushAndEnd(a, s) ==
    /\ items' = [items EXCEPT ![s] = Append(@, data[a])]
    /\ NotifyOneAndEnd(a, s)

Forget(a) ==
    /\ call' = [call EXCEPT ![a] = NULL]
    /\ data' = [data EXCEPT ![a] = NULL]
    /\ enq' = [enq EXCEPT ![a] = FALSE]
    /\ next' = [next EXCEPT ![a] = NULL]
    /\ returnTo' = [returnTo EXCEPT ![a] = NULL]

DestroyNull(a) ==
    /\ pc[a] = "live"
    /\ data[a] = NULL
    /\ pc' = [pc EXCEPT ![a] = "idle"]
    /\ Forget(a)
    /\ UNCHANGED <<items, content, running, notifier>>

GoesOnWithoutQueue(a) == enq[a] /\ next[a] = NULL
GoesOn(a) == enq[a] /\ next[a] # NULL

DestroyEnqueuesNull(a) ==
    /\ pc[a] = "live"
    /\ GoesOn(a)
    /\ PushAndEnd(a, next[a])
    /\ Forget(a)
    /\ UNCHANGED <<content, running, notifier>>

DestroyEnqueue(a) ==
    /\ pc[a] = "live"
    /\ data[a] # NULL
    /\ GoesOn(a)
    /\ PushAndEnd(a, next[a])
    /\ Forget(a)
    /\ UNCHANGED <<content, running, notifier>>

DestroyReturnsUnreset(a) ==
    /\ pc[a] = "live"
    /\ data[a] # NULL
    /\ ~GoesOn(a)
    /\ PushAndEnd(a, returnTo[a])
    /\ Forget(a)
    /\ UNCHANGED <<content, running, notifier>>

\* reset() comes before _return, while the object is still held.
DestroyReturn(a) ==
    /\ pc[a] = "live"
    /\ data[a] # NULL
    /\ ~GoesOn(a)
    /\ content' = [content EXCEPT ![data[a]] = Blank]
    /\ PushAndEnd(a, returnTo[a])
    /\ Forget(a)
    /\ UNCHANGED <<running, notifier>>

Destroy(a) == DestroyNull(a) \/ DestroyEnqueue(a) \/ DestroyReturn(a)

------------------------------------------------------------------------------
(* close() and notify_all().                                               *)

Phases == {"mark", "unused", "queued"}

\* close(): reads _running, then marks the queue closed, then notify_all().
Close(c, q) ==
    /\ notifier[c] = NULL
    /\ running[q]
    /\ notifier' = [notifier EXCEPT ![c] = [q |-> q, at |-> "mark"]]
    /\ UNCHANGED <<items, content, running, acqVars>>

MarkClosed(c) ==
    /\ notifier[c] # NULL
    /\ notifier[c].at = "mark"
    /\ running' = [running EXCEPT ![notifier[c].q] = FALSE]
    /\ notifier' = [notifier EXCEPT ![c].at = "unused"]
    /\ UNCHANGED <<items, content, acqVars>>

\* notify_all(), called on its own.
NotifyAll(c, q) ==
    /\ notifier[c] = NULL
    /\ notifier' = [notifier EXCEPT ![c] = [q |-> q, at |-> "unused"]]
    /\ UNCHANGED <<items, content, running, acqVars>>

WakeAll(s) == pc' = [a \in Acqs |-> IF a \in WaitersOn(s) THEN "notified" ELSE pc[a]]

\* First everybody who waits for an unused object of the queue's pool...
NotifyUnused(c) ==
    /\ notifier[c] # NULL
    /\ notifier[c].at = "unused"
    /\ WakeAll(PoolOf[notifier[c].q])
    /\ notifier' = [notifier EXCEPT ![c].at = "queued"]
    /\ UNCHANGED <<items, content, running, call, data, enq, next, returnTo>>

\* ... then everybody who waits for an object in the queue.
NotifyQueued(c) ==
    /\ notifier[c] # NULL
    /\ notifier[c].at = "queued"
    /\ WakeAll(notifier[c].q)
    /\ notifier' = [notifier EXCEPT ![c] = NULL]
    /\ UNCHANGED <<items, content, running, call, data, enq, next, returnTo>>

------------------------------------------------------------------------------
\* The steps a thread takes inside the library, without its client.
Constructing(a) == Wait(a) \/ Resume(a) \/ CheckRunning(a)
Notifying(c) == MarkClosed(c) \/ NotifyUnused(c) \/ NotifyQueued(c)

Client(a) ==
    \/ \E c \in Calls : Acquire(a, c) \/ AcquireUnlock(a, c)
    \/ \E v \in Values : Fill(a, v)
    \/ Enqueue(a)
    \/ \E q \in Queues : EnqueueTo(a, q)
    \/ Release(a)
    \/ \E b \in Acqs : Move(a, b)
    \/ Destroy(a)
    \/ Catch(a)

Next ==
    \/ \E a \in Acqs : Client(a) \/ Constructing(a) \/ WakeSpuriously(a)
    \/ \E c \in Closers : \/ \E q \in Queues : Close(c, q) \/ NotifyAll(c, q)
                          \/ Notifying(c)

Spec == Init /\ [][Next]_vars

------------------------------------------------------------------------------
\* The variables hold what the declarations in OIWorker.hpp allow.
TypeOK ==
    /\ items \in [Stores -> Seq(Objects)]
    /\ content \in [Objects -> Values \cup {Blank}]
    /\ running \in [Queues -> BOOLEAN]
    /\ notifier \in [Closers -> [q : Queues, at : Phases] \cup {NULL}]
    /\ pc \in [Acqs -> PCs]
    /\ call \in [Acqs -> Calls \cup {NULL}]
    /\ data \in [Acqs -> Objects \cup {NULL}]
    /\ enq \in [Acqs -> BOOLEAN]
    /\ next \in [Acqs -> Queues \cup {NULL}]
    /\ returnTo \in [Acqs -> Pools \cup {NULL}]

Held == {data[a] : a \in Acqs} \ {NULL}

StoredOnce ==
    \A s, t \in Stores : \A i \in DOMAIN items[s], j \in DOMAIN items[t] :
        items[s][i] = items[t][j] => s = t /\ i = j

HeldOnce ==
    \A a, b \in Acqs : data[a] = data[b] /\ data[a] # NULL => a = b

HeldNotStored ==
    \A s \in Stores : \A i \in DOMAIN items[s] : items[s][i] \notin Held

NoneLost ==
    \A o \in Objects :
        o \in Held \/ \E s \in Stores : \E i \in DOMAIN items[s] : items[s][i] = o

\* Every object is in exactly one place, at all times: one position of one
\* store or one acquisition.  So no two threads touch the same buffer, and
\* no object leaks, however constructors, moves, destructors and close() of
\* different threads interleave.
OneOwner == StoredOnce /\ HeldOnce /\ HeldNotStored /\ NoneLost

\* What lies in a pool was built by that pool and has been reset, wherever
\* it was in the meantime: an object may travel through queues of other pools.
PoolsClean ==
    \A p \in Pools : \A i \in DOMAIN items[p] :
        Home[items[p][i]] = p /\ content[items[p][i]] = Blank

\* A constructed acquisition with no object, made by a blocking call for an
\* unused one, says that its queue was closed: the callers return -1 or leave
\* their loop on it.  An empty pool of a running queue is an OIError instead.
NullMeansClosed ==
    \A a \in Acqs :
        /\ pc[a] = "live"
        /\ data[a] = NULL
        /\ call[a] # NULL
        /\ call[a].f = "BLOCKING"
        /\ call[a].t = "UNUSED"
        => ~running[call[a].q]

\* The library implements the object store: seen from outside, an object is
\* only ever taken from the front of a store, written while held, put at the
\* tail of a queue, or wiped and returned to the pool that built it.
Store == INSTANCE ObjectStore WITH held <- Held
ImplementsStore == Store!Spec
==============================================================================
