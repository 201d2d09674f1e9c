------------------------------ MODULE CoreTest ------------------------------
(***************************************************************************)
(* The threaded test of oi.core (oi.core.test.cpp), a client of OIWorker:  *)
(* one thread takes unused objects and enqueues them, two threads poll the *)
(* queue, main joins the three and closes the queue.  Each thread's        *)
(* acquisitions are members of Acqs: the producer's doa, and of a consumer *)
(* its doa and the x it moves it into.                                     *)
(***************************************************************************)
EXTENDS OIWorker

CONSTANTS
    Producer,   \* the doa of CreateObjects
    Consumers,  \* the doa of each ConsumeObjects thread
    XOf,        \* XOf[k]: the x of consumer k
    Main,       \* the closer
    Worker1,    \* the queue
    Runs        \* objects to create

\* There is a consumer, and every acquisition is a local variable of its own.
ASSUME TestAssumption ==
    /\ {Producer} \cup Consumers \subseteq Acqs
    /\ Consumers # {}
    /\ XOf \in [Consumers -> Acqs]
    /\ Producer \notin Consumers \cup {XOf[k] : k \in Consumers}
    /\ Consumers \cap {XOf[k] : k \in Consumers} = {}
    /\ \A k, m \in Consumers : XOf[k] = XOf[m] => k = m
    /\ Main \in Closers
    /\ Worker1 \in Queues
    /\ Runs \in Nat

VARIABLES
    created,   \* x of CreateObjects
    consumed,  \* the atomic counter
    id,        \* id[o]: the id field of object o
    kpc,       \* where each consumer is
    got,       \* got[k]: the ids consumer k has read, in order
    main,      \* where main is
    disturbed  \* history: some wakeup was spurious

testVars == <<created, consumed, id, kpc, got, main, disturbed>>
allVars == <<vars, testVars>>

TestInit ==
    /\ Init
    /\ created = 0
    /\ consumed = 0
    /\ id = [o \in Objects |-> 0]
    /\ kpc = [k \in Consumers |-> "test"]
    /\ got = [k \in Consumers |-> <<>>]
    /\ main = "join"
    /\ disturbed = FALSE

------------------------------------------------------------------------------
(* CreateObjects.  An OIError is not caught: the program ends there.       *)
CreateCall == [q |-> Worker1, t |-> "UNUSED", f |-> "BLOCKING"]

CreateAcquire ==
    /\ created < Runs
    /\ Acquire(Producer, CreateCall) \/ AcquireUnlock(Producer, CreateCall)
    /\ UNCHANGED testVars

CreateInLibrary == Constructing(Producer) /\ UNCHANGED testVars

CreateFill ==
    /\ data[Producer] # NULL
    /\ ~enq[Producer]
    /\ Enqueue(Producer)
    /\ id' = [id EXCEPT ![data[Producer]] = created]
    /\ created' = created + 1
    /\ UNCHANGED <<consumed, kpc, got, main, disturbed>>

CreateEndOfScope ==
    /\ data[Producer] = NULL \/ enq[Producer]
    /\ Destroy(Producer)
    /\ UNCHANGED testVars

Create == CreateAcquire \/ CreateInLibrary \/ CreateFill \/ CreateEndOfScope
CreateDone == created = Runs /\ pc[Producer] = "idle"

------------------------------------------------------------------------------
(* ConsumeObjects.                                                         *)
ConsumeCall == [q |-> Worker1, t |-> "QUEUED", f |-> "NONBLOCKING"]

Goto(k, here, there) == kpc[k] = here /\ kpc' = [kpc EXCEPT ![k] = there]

ConsumeTest(k) ==
    /\ Goto(k, "test", IF consumed < Runs THEN "get" ELSE "done")
    /\ UNCHANGED <<vars, created, consumed, id, got, main, disturbed>>

ConsumeGet(k) ==
    /\ Goto(k, "get", "got")
    /\ Acquire(k, ConsumeCall)
    /\ UNCHANGED <<created, consumed, id, got, main, disturbed>>

ConsumeMove(k) ==
    /\ data[k] # NULL
    /\ Goto(k, "got", "moved")
    /\ Move(k, XOf[k])
    /\ UNCHANGED <<created, consumed, id, got, main, disturbed>>

ConsumeRead(k) ==
    /\ Goto(k, "moved", "read")
    /\ got' = [got EXCEPT ![k] = Append(@, id[data[XOf[k]]])]
    /\ consumed' = consumed + 1
    /\ UNCHANGED <<vars, created, id, main, disturbed>>

ConsumeDropX(k) ==
    /\ Goto(k, "read", "left")
    /\ Destroy(XOf[k])
    /\ UNCHANGED <<created, consumed, id, got, main, disturbed>>

CountsNull(k) ==
    /\ \/ Goto(k, "left", "test") /\ UNCHANGED consumed
       \/ data[k] = NULL /\ Goto(k, "got", "test") /\ consumed' = consumed + 1
    /\ Destroy(k)
    /\ UNCHANGED <<created, id, got, main, disturbed>>

ConsumeDropDoa(k) ==
    /\ Goto(k, "left", "test") \/ (data[k] = NULL /\ Goto(k, "got", "test"))
    /\ Destroy(k)
    /\ UNCHANGED <<created, consumed, id, got, main, disturbed>>

Consume(k) ==
    \/ ConsumeTest(k) \/ ConsumeGet(k) \/ ConsumeMove(k)
    \/ ConsumeRead(k) \/ ConsumeDropX(k) \/ ConsumeDropDoa(k)

------------------------------------------------------------------------------
\* main: join, join, join, close.
MainJoined ==
    /\ main = "join"
    /\ CreateDone
    /\ \A k \in Consumers : kpc[k] = "done"
    /\ main' = "closing"
    /\ Close(Main, Worker1)
    /\ UNCHANGED <<created, consumed, id, kpc, got, disturbed>>

MainClosing ==
    /\ Notifying(Main)
    /\ main' = IF notifier'[Main] = NULL THEN "end" ELSE main
    /\ UNCHANGED <<created, consumed, id, kpc, got, disturbed>>

Running == pc[Producer] # "thrown"   \* the program has not been terminated

Disturb ==
    /\ WakeSpuriously(Producer)
    /\ disturbed' = TRUE
    /\ UNCHANGED <<created, consumed, id, kpc, got, main>>

TestNext ==
    /\ Running
    /\ \/ Create
       \/ \E k \in Consumers : Consume(k)
       \/ MainJoined \/ MainClosing
       \/ Disturb

TestFairness ==
    /\ WF_allVars(Running /\ Create)
    /\ \A k \in Consumers : WF_allVars(Running /\ Consume(k))
    /\ WF_allVars(Running /\ (MainJoined \/ MainClosing))

TestSpec == TestInit /\ [][TestNext]_allVars
FairTestSpec == TestSpec /\ TestFairness

------------------------------------------------------------------------------
\* The ids consumer k has read come in the order they were created, and no id
\* is read by both consumers or twice, although objects are reused: the queue
\* is a FIFO whose objects have one owner.
EachIdOnceInOrder ==
    \A k, m \in Consumers : \A i \in DOMAIN got[k], j \in DOMAIN got[m] :
        /\ k = m /\ i < j => got[k][i] < got[m][j]
        /\ got[k][i] = got[m][j] => k = m /\ i = j

\* When every thread has left its loop, every id was read and every object is
\* unused again.
EndsClean ==
    main # "join" =>
        /\ {n \in 0 .. Runs - 1 : \E k \in Consumers : \E i \in DOMAIN got[k] :
                got[k][i] = n} = 0 .. Runs - 1
        /\ \A p \in Pools : Len(items[p]) = Len(Stock[p])

\* With one thread taking unused objects, it is woken only when there is one:
\* the OIError "has no free elements" is not raised, unless a wakeup is spurious.
NoAbort == ~disturbed => Running

\* What has been enqueued is read, even after the producer has left its loop
\* or is stuck, unless an OIError ends the program.
EnqueuedIsRead ==
    \A n \in 0 .. Runs - 1 :
        (created > n /\ ~enq[Producer]) ~> (consumed > n \/ ~Running)
==============================================================================
