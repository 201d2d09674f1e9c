---------------------------- MODULE RGBDStreamIO ----------------------------
(***************************************************************************)
(* The way of a frame through oi.rgbd, a client of OIWorker: the threads   *)
(* that call the Queue... operations of RGBDDevice and SendConfig fill a   *)
(* buffer of the frame pool and hand it to the live queue, the live thread *)
(* takes it on, the writer thread takes it last.  The network shares the   *)
(* pool.  One message is one buffer: an audio, body, body index or colour  *)
(* frame, a block of depth rows (see RGBDFrame), or the configuration.     *)
(*                                                                         *)
(* Nobody catches the OIError of an empty pool: it ends the program.       *)
(***************************************************************************)
EXTENDS OIWorker, FiniteSets

CONSTANTS
    Producers,       \* data_out of each thread that queues messages
    Live, Writer,    \* doa_s of the live and of the writer thread
    Network,         \* an acquisition of the network's threads
    LiveQueue, WriteQueue, SendQueue,
    MaxFrames        \* bound: messages per producer

Frame(p, n, all) == [from |-> p, seq |-> n, all |-> all]
Frames == {Frame(p, n, all) : p \in Producers, n \in 1 .. MaxFrames, all \in BOOLEAN}

\* Every acquisition is a local variable of its own, every queue a queue of its own.
ASSUME StreamAssumption ==
    /\ Producers \cup {Live, Writer, Network} \subseteq Acqs
    /\ Live # Writer /\ Live # Network /\ Writer # Network
    /\ {Live, Writer, Network} \cap Producers = {}
    /\ {LiveQueue, WriteQueue, SendQueue} \subseteq Queues
    /\ LiveQueue # WriteQueue /\ LiveQueue # SendQueue /\ WriteQueue # SendQueue
    /\ MaxFrames \in Nat
    /\ Frames \subseteq Values

VARIABLES
    queued,   \* queued[p]: how many messages p has been told are queued
    written,  \* the messages the writer has seen, in order
    crashed   \* an OIError has ended the program

streamVars == <<queued, written, crashed>>
allVars == <<vars, streamVars>>

StreamInit ==
    /\ Init
    /\ queued = [p \in Producers |-> 0]
    /\ written = <<>>
    /\ crashed = FALSE

Blocking(q, t) == [q |-> q, t |-> t, f |-> "BLOCKING"]
Construct(a, c) == Acquire(a, c) \/ AcquireUnlock(a, c)

\* An OIError nobody catches.
Throws(a) ==
    /\ pc[a] = "thrown"
    /\ crashed' = TRUE
    /\ UNCHANGED <<vars, queued, written>>

------------------------------------------------------------------------------
(* RGBDDevice's operations.                                                *)
QueueFrame(p) ==
    /\ queued[p] < MaxFrames
    /\ Construct(p, Blocking(LiveQueue, "UNUSED"))
    /\ UNCHANGED streamVars

\* The message goes into the buffer, then enqueue(live_frame_queue()).
FillFrame(p) ==
    /\ pc[p] = "live"
    /\ data[p] # NULL
    /\ ~enq[p]
    /\ content' = [content EXCEPT ![data[p]] = Frame(p, queued[p] + 1, FALSE)]
    /\ enq' = [enq EXCEPT ![p] = TRUE]
    /\ next' = [next EXCEPT ![p] = LiveQueue]
    /\ UNCHANGED <<items, running, notifier, pc, call, data, returnTo, streamVars>>

\* Returns the length, or -1 without an object.
FrameQueued(p) ==
    /\ enq[p] \/ data[p] = NULL
    /\ Destroy(p)
    /\ queued' = [queued EXCEPT ![p] = IF data[p] = NULL THEN @ ELSE @ + 1]
    /\ UNCHANGED <<written, crashed>>

Producer(p) ==
    \/ QueueFrame(p) \/ FillFrame(p) \/ FrameQueued(p) \/ Throws(p)
    \/ Constructing(p) /\ UNCHANGED streamVars

------------------------------------------------------------------------------
(* The live thread.                                                        *)
LiveTake ==
    /\ Construct(Live, Blocking(LiveQueue, "QUEUED"))
    /\ UNCHANGED streamVars

\* Marks the message for all endpoints, then enqueue(_udpc->send_queue()) and
\* enqueue(_queue_write): the second replaces the destination of the first.
LiveMark ==
    /\ pc[Live] = "live"
    /\ data[Live] # NULL
    /\ ~enq[Live]
    /\ content' = [content EXCEPT ![data[Live]].all = TRUE]
    /\ enq' = [enq EXCEPT ![Live] = TRUE]
    /\ next' = [next EXCEPT ![Live] = WriteQueue]
    /\ UNCHANGED <<items, running, notifier, pc, call, data, returnTo, streamVars>>

\* An early end of the scope, before enqueue(_queue_write).
LiveDropsUnmarked ==
    /\ pc[Live] = "live"
    /\ Destroy(Live)
    /\ UNCHANGED streamVars

\* The end of the scope, or `continue` without an object.
LiveEndOfScope ==
    /\ enq[Live] \/ data[Live] = NULL
    /\ Destroy(Live)
    /\ UNCHANGED streamVars

LiveThread ==
    \/ LiveTake \/ LiveMark \/ LiveEndOfScope
    \/ Constructing(Live) /\ UNCHANGED streamVars

------------------------------------------------------------------------------
(* The writer thread: takes a message and drops it; recording is not there *)
(* yet.                                                                    *)
WriterTake ==
    /\ Construct(Writer, Blocking(WriteQueue, "QUEUED"))
    /\ UNCHANGED streamVars

WriterEndOfScope ==
    /\ Destroy(Writer)
    /\ written' = IF data[Writer] = NULL THEN written
                  ELSE Append(written, content[data[Writer]])
    /\ UNCHANGED <<queued, crashed>>

WriterThread ==
    \/ WriterTake \/ WriterEndOfScope
    \/ Constructing(Writer) /\ UNCHANGED streamVars

------------------------------------------------------------------------------
\* The listener of the connector takes a buffer of the same pool and drops it; its
\* OIError is caught.
NetworkThread ==
    /\ \/ Construct(Network, Blocking(LiveQueue, "UNUSED"))
       \/ Constructing(Network)
       \/ Destroy(Network)
       \/ Catch(Network)
    /\ UNCHANGED streamVars

StreamNext ==
    /\ ~crashed
    /\ \/ \E p \in Producers : Producer(p)
       \/ LiveThread
       \/ WriterThread
       \/ NetworkThread
       \/ \E a \in Acqs : WakeSpuriously(a) /\ UNCHANGED streamVars

StreamSpec == StreamInit /\ [][StreamNext]_allVars

------------------------------------------------------------------------------
\* The messages on their way, the oldest first: what the writer holds, what waits
\* for it, what the live thread holds and what waits for that.
Carried(a) == IF data[a] = NULL THEN <<>> ELSE <<content[data[a]]>>
Stored(q) == [i \in DOMAIN items[q] |-> content[items[q][i]]]
Line == Carried(Writer) \o Stored(WriteQueue) \o Carried(Live) \o Stored(LiveQueue)
Unmarked(s) == [i \in DOMAIN s |-> [from |-> s[i].from, seq |-> s[i].seq]]

\* The three threads, two queues and the pool they share with the network are one
\* line: no message is lost, doubled or overtaken on its way to the writer, not
\* even by one of another producer.
Flow == INSTANCE FrameFlow WITH line <- Unmarked(Line), written <- Unmarked(written)
ImplementsFrameFlow == Flow!Spec

\* A message whose producer was told its length is in exactly one buffer until
\* the writer has it, and marked for all endpoints from the live thread on.
FramesConserved ==
    \A p \in Producers : \A n \in 1 .. queued[p] :
        LET isIt(v) == v # Blank /\ v.from = p /\ v.seq = n
            carriers == {o \in Objects : isIt(content[o])}
            seen == {i \in DOMAIN written : isIt(written[i])}
        IN /\ Cardinality(carriers) + Cardinality(seen) = 1
           /\ \A i \in seen : written[i].all
           /\ \A i \in DOMAIN items[WriteQueue] : content[items[WriteQueue][i]].all

\* "ERROR: No free buffers available", and -1: what the operations of RGBDDevice
\* do when the acquisition has no object, instead of ending the program.
EmptyPoolIsReported == ~crashed

\* "Send data from our queue": what the live thread hands on goes to the sender.
\* It does not hold: all of it goes to the writer (README, section 4).
LiveSends ==
    [][\A o \in Objects :
           data[Live] = o /\ data'[Live] # o =>
               \E i \in DOMAIN items'[SendQueue] : items'[SendQueue][i] = o]_allVars
==============================================================================
