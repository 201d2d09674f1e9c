------------------------- MODULE RGBDStreamIOProofs -------------------------
(***************************************************************************)
(* Theorems about RGBDStreamIO, for any number of producers, messages,     *)
(* queues, pools and objects: a message that a producer was told is queued *)
(* is in one buffer until the writer has seen it, and threads, queues and  *)
(* buffers together are the line of FrameFlow.                             *)
(***************************************************************************)
EXTENDS RGBDStreamIO, OIWorkerProofs, FiniteSetTheorems

PutCall == Blocking(LiveQueue, "UNUSED")
LiveCall == Blocking(LiveQueue, "QUEUED")
WriteCall == Blocking(WriteQueue, "QUEUED")

Marked == {v \in Frames : v.all}

\* Only what the live thread has marked is in, or bound for, the write queue.
Kinds == [q \in Queues |-> IF q = WriteQueue THEN Marked ELSE Frames]

\* Inside an operation of RGBDDevice there is a message left to queue; the buffer
\* is clean until it is filled, and then holds that message.
ProducerInPlace(p) ==
    /\ pc[p] # "idle" => queued[p] < MaxFrames /\ (InCall(p, PutCall) \/ pc[p] = "live")
    /\ data[p] # NULL /\ ~enq[p] => content[data[p]] = Blank
    /\ enq[p] => /\ data[p] # NULL
                 /\ next[p] = LiveQueue
                 /\ content[data[p]] = Frame(p, queued[p] + 1, FALSE)

LiveInPlace ==
    /\ pc[Live] # "idle" => InCall(Live, LiveCall) \/ pc[Live] = "live"
    /\ data[Live] # NULL => content[data[Live]] \in Frames
    /\ enq[Live] => /\ data[Live] # NULL
                    /\ next[Live] = WriteQueue
                    /\ content[data[Live]] \in Marked

WriterInPlace ==
    /\ pc[Writer] # "idle" => InCall(Writer, WriteCall) \/ pc[Writer] = "live"
    /\ data[Writer] # NULL => content[data[Writer]] \in Marked
    /\ ~enq[Writer]

NetworkInPlace ==
    /\ pc[Network] # "idle" => InCall(Network, PutCall) \/ pc[Network] = "live"
    /\ data[Network] # NULL => content[data[Network]] = Blank
    /\ ~enq[Network]

InPlace ==
    /\ \A p \in Producers : ProducerInPlace(p)
    /\ LiveInPlace /\ WriterInPlace /\ NetworkInPlace

Same(v, w) == v.from = w.from /\ v.seq = w.seq

\* Whatever is in an object is a message that was queued, or that its producer is
\* about to enqueue; no two objects, and no object and the writer, have the same.
OneCopy ==
    /\ \A o \in Objects : content[o] \in Frames \cup {Blank}
    /\ \A o \in Objects : content[o] # Blank =>
           \/ content[o].seq <= queued[content[o].from]
           \/ enq[content[o].from] /\ data[content[o].from] = o
    /\ \A o, r \in Objects :
           content[o] # Blank /\ content[r] # Blank /\ Same(content[o], content[r]) => o = r

SeenOnce ==
    /\ \A i \in DOMAIN written : written[i].seq <= queued[written[i].from]
    /\ \A i, j \in DOMAIN written : Same(written[i], written[j]) => i = j
    /\ \A i \in DOMAIN written : \A o \in Objects :
           content[o] # Blank => ~Same(content[o], written[i])

InObject(p, n) ==
    \E o \in Objects : content[o] # Blank /\ content[o].from = p /\ content[o].seq = n
Seen(p, n) == \E i \in DOMAIN written : written[i].from = p /\ written[i].seq = n

NothingLost == \A p \in Producers : \A n \in 1 .. queued[p] : InObject(p, n) \/ Seen(p, n)

Counted ==
    /\ queued \in [Producers -> 0 .. MaxFrames]
    /\ written \in Seq(Marked)

StreamIInv ==
    /\ IInv
    /\ Counted
    /\ InPlace
    /\ QueuesHold(Kinds)
    /\ BoundFor(Kinds)
    /\ OneCopy
    /\ SeenOnce
    /\ NothingLost


------------------------------------------------------------------------------
LEMMA StreamRoles ==
    /\ Producers \subseteq Acqs /\ Live \in Acqs /\ Writer \in Acqs /\ Network \in Acqs
    /\ Live # Writer /\ Live # Network /\ Writer # Network
    /\ \A p \in Producers : p # Live /\ p # Writer /\ p # Network
    /\ LiveQueue \in Queues /\ WriteQueue \in Queues /\ LiveQueue # WriteQueue
    /\ MaxFrames \in Nat
  BY StreamAssumption

LEMMA StreamCalls ==
    /\ PutCall \in Calls /\ PutCall.f = "BLOCKING" /\ PutCall.t = "UNUSED"
    /\ StoreOf(PutCall) \in Pools /\ StoreOf(PutCall) \notin Queues
    /\ LiveCall \in Calls /\ LiveCall.f = "BLOCKING" /\ StoreOf(LiveCall) = LiveQueue
    /\ WriteCall \in Calls /\ WriteCall.f = "BLOCKING" /\ StoreOf(WriteCall) = WriteQueue
<1>1. /\ PutCall \in Calls /\ PutCall.f = "BLOCKING" /\ PutCall.t = "UNUSED"
      /\ LiveCall \in Calls /\ LiveCall.f = "BLOCKING" /\ StoreOf(LiveCall) = LiveQueue
      /\ WriteCall \in Calls /\ WriteCall.f = "BLOCKING" /\ StoreOf(WriteCall) = WriteQueue
  BY StreamRoles DEF PutCall, LiveCall, WriteCall, Blocking, Calls, StoreOf
<1>2. QED
  BY <1>1, UnusedComesFromPool

\* A message is its producer, its number and the mark.
LEMMA FrameFacts ==
    /\ Blank \notin Frames
    /\ Frames \subseteq Values
    /\ Marked \subseteq Frames
    /\ \A v \in Frames : v.from \in Producers /\ v.seq \in 1 .. MaxFrames
    /\ \A v \in Marked : v.all
    /\ \A p \in Producers, n \in 1 .. MaxFrames : Frame(p, n, FALSE) \in Frames
    /\ \A v \in Frames : /\ [v EXCEPT !.all = TRUE] \in Marked
                         /\ Same([v EXCEPT !.all = TRUE], v)
<1>1. Blank \notin Frames /\ Frames \subseteq Values
  BY StreamAssumption, StockAssumption
<1>2. Frames = [from : Producers, seq : 1 .. MaxFrames, all : BOOLEAN]
  <2>1. ASSUME NEW v \in Frames
        PROVE  v \in [from : Producers, seq : 1 .. MaxFrames, all : BOOLEAN]
    BY DEF Frames, Frame
  <2>2. ASSUME NEW v \in [from : Producers, seq : 1 .. MaxFrames, all : BOOLEAN]
        PROVE  v \in Frames
    <3>1. v = Frame(v.from, v.seq, v.all)
      BY DEF Frame
    <3>2. QED
      BY <3>1 DEF Frames, Frame
  <2>3. QED
    BY <2>1, <2>2
<1>3. \A v \in Frames : v.from \in Producers /\ v.seq \in 1 .. MaxFrames
  BY <1>2
<1>4. Marked \subseteq Frames /\ \A v \in Marked : v.all
  BY DEF Marked
<1>5. \A v \in Frames : [v EXCEPT !.all = TRUE] \in Marked /\ Same([v EXCEPT !.all = TRUE], v)
  BY <1>2 DEF Same, Marked
<1>6. \A p \in Producers, n \in 1 .. MaxFrames : Frame(p, n, FALSE) \in Frames
  BY <1>2 DEF Frame
<1>7. QED
  BY <1>1, <1>3, <1>4, <1>5, <1>6

------------------------------------------------------------------------------
(* Frames: a part of the invariant survives the steps of the others.       *)
LEMMA ProducerStays ==
    ASSUME NEW p \in Producers, ProducerInPlace(p), Untouched(p), queued'[p] = queued[p]
    PROVE  ProducerInPlace(p)'
  BY DEF ProducerInPlace, Untouched, Undisturbed, InCall

LEMMA LiveStays ==
    ASSUME LiveInPlace, Untouched(Live)
    PROVE  LiveInPlace'
  BY DEF LiveInPlace, Untouched, Undisturbed, InCall

LEMMA WriterStays ==
    ASSUME WriterInPlace, Untouched(Writer)
    PROVE  WriterInPlace'
  BY DEF WriterInPlace, Untouched, Undisturbed, InCall

LEMMA NetworkStays ==
    ASSUME NetworkInPlace, Untouched(Network)
    PROVE  NetworkInPlace'
  BY DEF NetworkInPlace, Untouched, Undisturbed, InCall

\* A step of a leaves the places of the others alone.
LEMMA OthersStay ==
    ASSUME StreamIInv, NEW a \in Acqs, OwnStep(a),
           \A p \in Producers \ {a} : queued'[p] = queued[p]
    PROVE  /\ \A p \in Producers \ {a} : ProducerInPlace(p)'
           /\ a # Live => LiveInPlace'
           /\ a # Writer => WriterInPlace'
           /\ a # Network => NetworkInPlace'
<1>1. \A b \in Acqs \ {a} : Untouched(b)
  BY OwnStepAlone DEF StreamIInv
<1>2. InPlace
  BY DEF StreamIInv
<1>3. QED
  BY <1>1, <1>2, StreamRoles, ProducerStays, LiveStays, WriterStays, NetworkStays DEF InPlace

\* What is in the buffers is not moved, and no producer lets go of a message.
LEMMA CopiesStay ==
    ASSUME OneCopy, SeenOnce, NothingLost, UNCHANGED <<content, queued, written>>,
           \A p \in Producers : enq[p] => enq'[p] /\ data'[p] = data[p]
    PROVE  OneCopy' /\ SeenOnce' /\ NothingLost'
<1>1. \A o \in Objects : content[o] # Blank => content[o].from \in Producers
  BY FrameFacts DEF OneCopy
<1>2. OneCopy'
  BY <1>1 DEF OneCopy
<1>3. SeenOnce' /\ NothingLost'
  BY DEF SeenOnce, NothingLost, InObject, Seen
<1>4. QED
  BY <1>2, <1>3


------------------------------------------------------------------------------
(* Constructors: whoever takes a buffer, no message is changed by it.      *)
LEMMA CallKeeps ==
    ASSUME StreamIInv, NEW a \in Acqs, NEW c \in Calls, c.f = "BLOCKING", BlockingCall(a, c),
           UNCHANGED streamVars, InPlace'
    PROVE  StreamIInv'
<1>0. IInv /\ InPlace
  BY DEF StreamIInv
<1>1. /\ OwnStep(a)
      /\ UNCHANGED content
      /\ data'[a] = NULL \/ ~enq'[a]
  BY <1>0, BlockingCallEffect
<1>2. IInv'
  BY <1>0, <1>1, OwnStepKeepsIInv
<1>3. QueuesHold(Kinds)' /\ BoundFor(Kinds)'
  <2>1. (data[a] # NULL /\ GoesOn(a) => content[data[a]] \in Kinds[next[a]])'
    BY <1>1 DEF GoesOn
  <2>2. QueuesHold(Kinds) /\ BoundFor(Kinds)
    BY DEF StreamIInv
  <2>3. QED
    BY <1>0, <1>1, <2>1, <2>2, OwnStepKeepsKinds
<1>4. OneCopy' /\ SeenOnce' /\ NothingLost'
  <2>1. pc[a] # "live"
    BY DEF BlockingCall, Acquire, AcquireUnlock, InCall
  <2>2. data[a] = NULL
    BY <1>0, <2>1 DEF IInv, HoldsWhenLive
  <2>3. a \in Producers => ~enq[a]
    BY <1>0, <2>2 DEF InPlace, ProducerInPlace
  <2>4. \A b \in Acqs \ {a} : Untouched(b)
    BY <1>0, <1>1, OwnStepAlone
  <2>5. \A p \in Producers : enq[p] => enq'[p] /\ data'[p] = data[p]
    BY <2>3, <2>4, StreamRoles DEF Untouched, Undisturbed
  <2>6. UNCHANGED <<content, queued, written>>
    BY <1>1 DEF streamVars
  <2>7. OneCopy /\ SeenOnce /\ NothingLost
    BY DEF StreamIInv
  <2>8. QED
    BY <2>5, <2>6, <2>7, CopiesStay
<1>5. Counted'
  BY DEF StreamIInv, Counted, streamVars
<1>6. QED
  BY <1>2, <1>3, <1>4, <1>5 DEF StreamIInv

\* Whoever asks for an unused buffer gets a clean one.
LEMMA PutCallEffect ==
    ASSUME IInv, NEW a \in Acqs, BlockingCall(a, PutCall)
    PROVE  /\ OwnStep(a)
           /\ enq'[a] => enq[a]
           /\ InCall(a, PutCall)' \/ pc'[a] = "live"
           /\ data'[a] # NULL => content'[data'[a]] = Blank /\ ~enq'[a]
<1>1. /\ OwnStep(a) /\ UNCHANGED content
      /\ enq'[a] => enq[a]
      /\ \/ InCall(a, PutCall)' /\ data'[a] = NULL
         \/ pc'[a] = "live" /\ data'[a] = NULL
         \/ /\ pc'[a] = "live" /\ data'[a] # NULL /\ ~enq'[a]
            /\ items[StoreOf(PutCall)] # <<>>
            /\ data'[a] = Head(items[StoreOf(PutCall)])
  BY StreamCalls, BlockingCallEffect
<1>2. ASSUME items[StoreOf(PutCall)] # <<>>
      PROVE  content[Head(items[StoreOf(PutCall)])] = Blank
  <2>1. items[StoreOf(PutCall)] \in Seq(Objects)
    BY StreamCalls DEF IInv, TypeOK, Stores
  <2>2. 1 \in DOMAIN items[StoreOf(PutCall)]
    BY <1>2, <2>1
  <2>3. Head(items[StoreOf(PutCall)]) = items[StoreOf(PutCall)][1]
    BY <1>2, <2>1
  <2>4. QED
    BY <2>2, <2>3, StreamCalls DEF IInv, PoolsClean
<1>3. QED
  BY <1>1, <1>2

\* Whoever takes from a queue gets a message of that queue's kind.
LEMMA QueuedCallEffect ==
    ASSUME IInv, QueuesHold(Kinds), NEW a \in Acqs, NEW q \in Queues, NEW c \in Calls,
           c.f = "BLOCKING", StoreOf(c) = q, BlockingCall(a, c)
    PROVE  /\ OwnStep(a) /\ UNCHANGED content
           /\ enq'[a] => enq[a]
           /\ InCall(a, c)' \/ pc'[a] = "live"
           /\ \/ data'[a] = NULL
              \/ /\ ~enq'[a]
                 /\ content[data'[a]] \in Kinds[q]
<1>1. /\ OwnStep(a) /\ UNCHANGED content
      /\ enq'[a] => enq[a]
      /\ \/ InCall(a, c)' /\ data'[a] = NULL
         \/ pc'[a] = "live" /\ data'[a] = NULL
         \/ /\ pc'[a] = "live" /\ data'[a] # NULL /\ ~enq'[a]
            /\ items[q] # <<>>
            /\ data'[a] = Head(items[q])
  BY BlockingCallEffect
<1>2. ASSUME items[q] # <<>>
      PROVE  content[Head(items[q])] \in Kinds[q]
  <2>1. items[q] \in Seq(Objects)
    BY DEF IInv, TypeOK, Stores
  <2>2. 1 \in DOMAIN items[q] /\ Head(items[q]) = items[q][1]
    BY <1>2, <2>1
  <2>3. QED
    BY <2>2 DEF QueuesHold
<1>3. QED
  BY <1>1, <1>2

\* A constructor that goes on was called for what its thread calls.
LEMMA InConstructor ==
    ASSUME NEW a, NEW c, Constructing(a), pc[a] # "idle" => InCall(a, c) \/ pc[a] = "live"
    PROVE  BlockingCall(a, c)
<1>1. pc[a] # "live" /\ pc[a] # "idle"
  BY DEF Constructing, Wait, Resume, CheckRunning
<1>2. QED
  BY <1>1 DEF BlockingCall


------------------------------------------------------------------------------
(* The operations of RGBDDevice.                                           *)
LEMMA QueueFrameKeeps ==
    ASSUME StreamIInv, NEW p \in Producers,
           QueueFrame(p) \/ (Constructing(p) /\ UNCHANGED streamVars)
    PROVE  StreamIInv'
<1>0. IInv /\ ProducerInPlace(p) /\ p \in Acqs
  BY StreamRoles DEF StreamIInv, InPlace
<1>1. queued[p] < MaxFrames /\ UNCHANGED streamVars /\ BlockingCall(p, PutCall)
  <2>1. CASE QueueFrame(p)
    BY <2>1 DEF QueueFrame, Construct, BlockingCall, PutCall
  <2>2. CASE Constructing(p) /\ UNCHANGED streamVars
    <3>1. pc[p] # "idle"
      BY <2>2 DEF Constructing, Wait, Resume, CheckRunning
    <3>2. pc[p] # "idle" => InCall(p, PutCall) \/ pc[p] = "live"
      BY <1>0 DEF ProducerInPlace
    <3>3. BlockingCall(p, PutCall)
      BY <2>2, <3>2, InConstructor
    <3>4. QED
      BY <1>0, <2>2, <3>1, <3>3 DEF ProducerInPlace
  <2>3. QED
    BY <2>1, <2>2
<1>2. /\ OwnStep(p)
      /\ enq'[p] => enq[p]
      /\ InCall(p, PutCall)' \/ pc'[p] = "live"
      /\ data'[p] # NULL => content'[data'[p]] = Blank /\ ~enq'[p]
  BY <1>0, <1>1, PutCallEffect
<1>3. ~enq[p]
  <2>1. pc[p] # "live"
    BY <1>1 DEF BlockingCall, Acquire, AcquireUnlock, InCall
  <2>2. QED
    BY <1>0, <2>1 DEF IInv, HoldsWhenLive, ProducerInPlace
<1>4. UNCHANGED queued
  BY <1>1 DEF streamVars
<1>5. InPlace'
  <2>1. ProducerInPlace(p)'
    BY <1>1, <1>2, <1>3, <1>4 DEF ProducerInPlace
  <2>2. QED
    BY <1>0, <1>2, <1>4, <2>1, OthersStay, StreamRoles DEF InPlace
<1>6. QED
  BY <1>0, <1>1, <1>5, StreamCalls, CallKeeps

\* The next message of p is in no object and was not seen before p writes it.
LEMMA NextIsNew ==
    ASSUME StreamIInv, NEW p \in Producers, ~enq[p]
    PROVE  /\ ~InObject(p, queued[p] + 1)
           /\ ~Seen(p, queued[p] + 1)
<1>1. queued[p] \in Nat
  BY StreamRoles DEF StreamIInv, Counted
<1>2. \A o \in Objects : content[o] # Blank /\ content[o].from = p => content[o].seq \in Nat
  BY FrameFacts DEF StreamIInv, OneCopy
<1>3. ~InObject(p, queued[p] + 1)
  BY <1>1, <1>2 DEF StreamIInv, OneCopy, InObject
<1>4. \A i \in DOMAIN written : written[i].seq <= queued[written[i].from]
  BY DEF StreamIInv, SeenOnce
<1>5. QED
  BY <1>1, <1>3, <1>4 DEF Seen

LEMMA FillFrameIsOwnStep ==
    ASSUME StreamIInv, NEW p \in Producers, FillFrame(p)
    PROVE  OwnStep(p)
<1>1. HandOver(p, Frame(p, queued[p] + 1, FALSE), LiveQueue)
  BY DEF FillFrame, HandOver
<1>2. queued[p] + 1 \in 1 .. MaxFrames
  <2>1. queued[p] < MaxFrames
    BY DEF FillFrame, StreamIInv, InPlace, ProducerInPlace
  <2>2. queued[p] \in 0 .. MaxFrames
    BY DEF StreamIInv, Counted
  <2>3. QED
    BY <2>1, <2>2, StreamRoles
<1>3. Frame(p, queued[p] + 1, FALSE) \in Values
  BY <1>2, FrameFacts
<1>4. QED
  BY <1>1, <1>3, StreamRoles DEF OwnStep

LEMMA FillFrameKeeps ==
    ASSUME StreamIInv, NEW p \in Producers, FillFrame(p)
    PROVE  StreamIInv'
<1> DEFINE v == Frame(p, queued[p] + 1, FALSE)
           o == data[p]
<1>0. /\ IInv /\ ProducerInPlace(p) /\ p \in Acqs
      /\ OneCopy /\ SeenOnce /\ NothingLost /\ QueuesHold(Kinds) /\ BoundFor(Kinds)
  BY StreamRoles DEF StreamIInv, InPlace
<1>1. /\ pc[p] = "live" /\ o # NULL /\ ~enq[p]
      /\ content' = [content EXCEPT ![o] = v]
      /\ enq' = [enq EXCEPT ![p] = TRUE]
      /\ next' = [next EXCEPT ![p] = LiveQueue]
      /\ UNCHANGED <<items, running, notifier, pc, call, data, returnTo>>
      /\ UNCHANGED <<queued, written>>
  BY DEF FillFrame, streamVars
<1>2. /\ o \in Objects /\ content[o] = Blank
      /\ content \in [Objects -> Values \cup {Blank}]
      /\ enq \in [Acqs -> BOOLEAN] /\ next \in [Acqs -> Queues \cup {NULL}]
      /\ queued[p] \in Nat /\ queued[p] + 1 \in 1 .. MaxFrames
  BY <1>0, <1>1, StreamRoles DEF IInv, TypeOK, ProducerInPlace, StreamIInv, Counted
<1>3. /\ v \in Frames /\ v # Blank
      /\ v.from = p /\ v.seq = queued[p] + 1
  <2>1. v \in Frames
    BY <1>2, FrameFacts
  <2>2. QED
    BY <2>1, FrameFacts DEF Frame
<1> HIDE DEF v, o
<1>4. OwnStep(p)
  BY FillFrameIsOwnStep
<1>5. IInv'
  BY <1>0, <1>4, OwnStepKeepsIInv
<1>6. /\ data'[p] = o /\ next'[p] = LiveQueue /\ enq'[p] /\ content'[o] = v
      /\ \A r \in Objects \ {o} : content'[r] = content[r]
      /\ \A b \in Acqs \ {p} : enq'[b] = enq[b]
  BY <1>0, <1>1, <1>2 DEF o
<1>7. InPlace'
  <2>1. ProducerInPlace(p)'
    <3>1. /\ pc[p] # "idle" => queued[p] < MaxFrames /\ (InCall(p, PutCall) \/ pc[p] = "live")
          /\ queued' = queued /\ pc' = pc /\ data' = data /\ call' = call
      BY <1>0, <1>1 DEF ProducerInPlace
    <3>2. content'[data[p]] = Frame(p, queued'[p] + 1, FALSE)
      BY <1>6, <3>1 DEF v, o
    <3>3. QED
      BY <1>1, <1>6, <3>1, <3>2 DEF ProducerInPlace, InCall, o
  <2>2. QED
    BY <1>0, <1>1, <1>4, <2>1, OthersStay, StreamRoles DEF InPlace
<1>8. QueuesHold(Kinds)' /\ BoundFor(Kinds)'
  <2>1. (data[p] # NULL /\ GoesOn(p) => content[data[p]] \in Kinds[next[p]])'
    BY <1>3, <1>6, StreamRoles DEF Kinds
  <2>2. QED
    BY <1>0, <1>4, <2>1, OwnStepKeepsKinds
<1>9. \A r \in Objects : content[r] # Blank => ~Same(content[r], v)
  BY <1>1, <1>3, NextIsNew DEF InObject, Same
<1>10. OneCopy'
  <2>1. \A r \in Objects : content'[r] \in Frames \cup {Blank}
    BY <1>0, <1>3, <1>6 DEF OneCopy
  <2>2. ASSUME NEW r \in Objects, content'[r] # Blank
        PROVE  \/ content'[r].seq <= queued'[content'[r].from]
               \/ enq'[content'[r].from] /\ data'[content'[r].from] = r
    <3>1. CASE r = o
      BY <1>3, <1>6, <3>1
    <3>2. CASE r # o
      <4>1. /\ content'[r] = content[r] /\ content[r].from \in Producers
            /\ \/ content[r].seq <= queued[content[r].from]
               \/ enq[content[r].from] /\ data[content[r].from] = r
        BY <1>0, <1>6, <2>2, <3>2, FrameFacts DEF OneCopy
      <4>2. QED
        BY <1>1, <1>6, <4>1, StreamRoles
    <3>3. QED
      BY <3>1, <3>2
  <2>3. ASSUME NEW r \in Objects, NEW s \in Objects, content'[r] # Blank, content'[s] # Blank,
               Same(content'[r], content'[s])
        PROVE  r = s
    <3>1. CASE r # o /\ s # o
      BY <1>0, <1>6, <2>3, <3>1 DEF OneCopy
    <3>2. QED
      BY <1>6, <1>9, <2>3, <3>1 DEF Same
  <2>4. QED
    BY <2>1, <2>2, <2>3 DEF OneCopy
<1>11. SeenOnce'
  <2>1. \A i \in DOMAIN written : ~Same(v, written[i])
    BY <1>1, <1>3, NextIsNew DEF Seen, Same
  <2>2. QED
    BY <1>0, <1>1, <1>6, <2>1 DEF SeenOnce
<1>12. NothingLost'
  <2>1. ASSUME NEW q \in Producers, NEW n, InObject(q, n)
        PROVE  InObject(q, n)'
    BY <1>2, <1>6, <2>1 DEF InObject
  <2>2. QED
    BY <1>0, <1>1, <2>1 DEF NothingLost, Seen
<1>13. QED
  BY <1>1, <1>5, <1>7, <1>8, <1>10, <1>11, <1>12 DEF StreamIInv, Counted


\* A destructor that has nothing to wipe.
LEMMA EndOfScope ==
    ASSUME StreamIInv, NEW a \in Acqs, Destroy(a),
           data[a] = NULL \/ GoesOn(a) \/ content[data[a]] = Blank
    PROVE  /\ OwnStep(a)
           /\ IInv'
           /\ UNCHANGED content
           /\ pc'[a] = "idle" /\ data'[a] = NULL /\ ~enq'[a]
           /\ QueuesHold(Kinds)' /\ BoundFor(Kinds)'
           /\ \A b \in Acqs \ {a} : Untouched(b)
<1>0. IInv /\ QueuesHold(Kinds) /\ BoundFor(Kinds)
  BY DEF StreamIInv
<1>1. OwnStep(a)
  BY DEF OwnStep
<1>2. IInv'
  BY <1>0, <1>1, OwnStepKeepsIInv
<1>3. pc'[a] = "idle" /\ data'[a] = NULL /\ enq'[a] = FALSE
  BY <1>0, DestroyEffect
<1>4. UNCHANGED content
  <2>1. \/ UNCHANGED content
        \/ data[a] # NULL /\ ~GoesOn(a) /\ content' = [content EXCEPT ![data[a]] = Blank]
    BY <1>0, DestroyEffect
  <2>2. content \in [Objects -> Values \cup {Blank}] /\ data[a] \in Objects \cup {NULL}
    BY <1>0 DEF IInv, TypeOK
  <2>3. QED
    BY <2>1, <2>2
<1>5. QueuesHold(Kinds)' /\ BoundFor(Kinds)'
  <2>1. (data[a] # NULL /\ GoesOn(a) => content[data[a]] \in Kinds[next[a]])'
    BY <1>3
  <2>2. QED
    BY <1>0, <1>1, <2>1, OwnStepKeepsKinds
<1>6. \A b \in Acqs \ {a} : Untouched(b)
  BY <1>0, <1>1, OwnStepAlone
<1>7. QED
  BY <1>1, <1>2, <1>3, <1>4, <1>5, <1>6

LEMMA FrameQueuedKeeps ==
    ASSUME StreamIInv, NEW p \in Producers, FrameQueued(p)
    PROVE  StreamIInv'
<1>0. /\ IInv /\ ProducerInPlace(p) /\ p \in Acqs
      /\ OneCopy /\ SeenOnce /\ NothingLost /\ Counted
  BY StreamRoles DEF StreamIInv, InPlace
<1>1. /\ Destroy(p)
      /\ queued' = [queued EXCEPT ![p] = IF data[p] = NULL THEN @ ELSE @ + 1]
      /\ UNCHANGED <<written, crashed>>
  BY DEF FrameQueued
<1>2. data[p] = NULL \/ GoesOn(p)
  BY <1>0, StreamRoles, WorkerAssumption DEF FrameQueued, ProducerInPlace, GoesOn, Stores
<1>3. /\ OwnStep(p) /\ IInv' /\ UNCHANGED content
      /\ pc'[p] = "idle" /\ data'[p] = NULL /\ ~enq'[p]
      /\ QueuesHold(Kinds)' /\ BoundFor(Kinds)'
      /\ \A b \in Acqs \ {p} : Untouched(b)
  BY <1>0, <1>1, <1>2, EndOfScope
<1>4. queued[p] < MaxFrames
  <2>1. pc[p] = "live"
    BY <1>1 DEF Destroy, DestroyNull, DestroyEnqueue, DestroyReturn
  <2>2. QED
    BY <1>0, <2>1 DEF ProducerInPlace
<1>5. /\ queued' \in [Producers -> 0 .. MaxFrames]
      /\ \A q \in Producers \ {p} : queued'[q] = queued[q]
      /\ queued'[p] = IF data[p] = NULL THEN queued[p] ELSE queued[p] + 1
      /\ \A q \in Producers : queued[q] \in Nat /\ queued'[q] \in Nat
  BY <1>0, <1>1, <1>4, StreamRoles DEF Counted
<1>6. InPlace'
  <2>1. ProducerInPlace(p)'
    BY <1>3 DEF ProducerInPlace
  <2>2. QED
    BY <1>0, <1>3, <1>5, <2>1, OthersStay, StreamRoles DEF InPlace
<1>7. \A r \in Objects : content[r] # Blank =>
          content[r].from \in Producers /\ content[r].seq \in Nat
  BY <1>0, FrameFacts DEF OneCopy
<1>8. data[p] # NULL => /\ content[data[p]] # Blank /\ data[p] \in Objects
                        /\ content[data[p]].from = p /\ content[data[p]].seq = queued[p] + 1
  <2>1. data[p] # NULL => /\ content[data[p]] = Frame(p, queued[p] + 1, FALSE)
                          /\ data[p] \in Objects
    BY <1>0, <1>2 DEF ProducerInPlace, GoesOn, IInv, TypeOK
  <2>2. Frame(p, queued[p] + 1, FALSE) \in Frames
    <3>1. queued[p] + 1 \in 1 .. MaxFrames
      BY <1>4, <1>5, StreamRoles
    <3>2. QED
      BY <3>1, FrameFacts
  <2>3. QED
    BY <2>1, <2>2, FrameFacts DEF Frame
<1>9. OneCopy'
  <2>1. ASSUME NEW r \in Objects, content[r] # Blank
        PROVE  \/ content[r].seq <= queued'[content[r].from]
               \/ enq'[content[r].from] /\ data'[content[r].from] = r
    <3>1. CASE content[r].seq <= queued[content[r].from]
      BY <1>5, <1>7, <2>1, <3>1
    <3>2. CASE enq[content[r].from] /\ data[content[r].from] = r /\ content[r].from = p
      <4>1. data[p] # NULL /\ data[p] = r
        BY <1>0, <3>2 DEF ProducerInPlace
      <4>2. content[r].seq = queued'[p]
        BY <1>5, <1>8, <4>1
      <4>3. QED
        BY <1>5, <3>2, <4>2
    <3>3. CASE enq[content[r].from] /\ data[content[r].from] = r /\ content[r].from # p
      BY <1>3, <1>7, <2>1, <3>3, StreamRoles DEF Untouched, Undisturbed
    <3>4. QED
      BY <1>0, <2>1, <3>1, <3>2, <3>3 DEF OneCopy
  <2>2. QED
    BY <1>0, <1>3, <2>1 DEF OneCopy
<1>10. SeenOnce'
  <2>1. \A i \in DOMAIN written : written[i] \in Frames
    BY <1>0, FrameFacts DEF Counted
  <2>2. \A i \in DOMAIN written : written[i].seq \in Nat /\ written[i].from \in Producers
    BY <2>1, FrameFacts
  <2>3. \A i \in DOMAIN written : written[i].seq <= queued'[written[i].from]
    BY <1>0, <1>5, <2>2 DEF SeenOnce
  <2>4. QED
    BY <1>0, <1>1, <1>3, <2>3 DEF SeenOnce
<1>11. NothingLost'
  <2>1. ASSUME NEW q \in Producers, NEW n \in 1 .. queued'[q]
        PROVE  InObject(q, n) \/ Seen(q, n)
    <3>1. CASE n \in 1 .. queued[q]
      BY <1>0, <3>1 DEF NothingLost
    <3>2. CASE n \notin 1 .. queued[q]
      <4>1. q = p /\ data[p] # NULL /\ n = queued[p] + 1
        BY <1>5, <3>2
      <4>2. QED
        BY <1>8, <4>1 DEF InObject
    <3>3. QED
      BY <3>1, <3>2
  <2>2. \A q, n : (InObject(q, n) => InObject(q, n)') /\ (Seen(q, n) => Seen(q, n)')
    BY <1>1, <1>3 DEF InObject, Seen
  <2>3. QED
    BY <2>1, <2>2 DEF NothingLost
<1>12. QED
  BY <1>0, <1>1, <1>3, <1>5, <1>6, <1>9, <1>10, <1>11 DEF StreamIInv, Counted


\* The end of a scope that changes no message and lets go of none of a producer's.
LEMMA EndOfScopeKeeps ==
    ASSUME StreamIInv, NEW a \in Acqs \ Producers, Destroy(a),
           data[a] = NULL \/ GoesOn(a) \/ content[data[a]] = Blank,
           UNCHANGED streamVars
    PROVE  StreamIInv'
<1>1. /\ OwnStep(a) /\ IInv' /\ UNCHANGED content
      /\ pc'[a] = "idle" /\ data'[a] = NULL /\ ~enq'[a]
      /\ QueuesHold(Kinds)' /\ BoundFor(Kinds)'
      /\ \A b \in Acqs \ {a} : Untouched(b)
  BY EndOfScope
<1>2. UNCHANGED <<queued, written>>
  BY DEF streamVars
<1>3. InPlace'
  <2>1. (a = Live => LiveInPlace') /\ (a = Writer => WriterInPlace') /\ (a = Network => NetworkInPlace')
    BY <1>1 DEF LiveInPlace, WriterInPlace, NetworkInPlace
  <2>2. QED
    BY <1>1, <1>2, <2>1, OthersStay DEF InPlace
<1>4. OneCopy' /\ SeenOnce' /\ NothingLost'
  <2>1. \A p \in Producers : enq[p] => enq'[p] /\ data'[p] = data[p]
    BY <1>1, StreamRoles DEF Untouched, Undisturbed
  <2>2. OneCopy /\ SeenOnce /\ NothingLost
    BY DEF StreamIInv
  <2>3. QED
    BY <1>1, <1>2, <2>1, <2>2, CopiesStay
<1>5. QED
  BY <1>1, <1>2, <1>3, <1>4 DEF StreamIInv, Counted

------------------------------------------------------------------------------
(* The live thread.                                                        *)
LEMMA LiveTakes ==
    ASSUME StreamIInv, LiveTake \/ (Constructing(Live) /\ UNCHANGED streamVars)
    PROVE  StreamIInv' /\ BlockingCall(Live, LiveCall)
<1>0. IInv /\ LiveInPlace /\ QueuesHold(Kinds)
  BY DEF StreamIInv, InPlace
<1>1. UNCHANGED streamVars /\ BlockingCall(Live, LiveCall)
  <2>1. CASE LiveTake
    BY <2>1 DEF LiveTake, Construct, BlockingCall, LiveCall
  <2>2. pc[Live] # "idle" => InCall(Live, LiveCall) \/ pc[Live] = "live"
    BY <1>0 DEF LiveInPlace
  <2>3. QED
    BY <2>1, <2>2, InConstructor
<1>2. Kinds[LiveQueue] = Frames
  BY StreamRoles DEF Kinds
<1>3. /\ OwnStep(Live) /\ UNCHANGED content
      /\ enq'[Live] => enq[Live]
      /\ InCall(Live, LiveCall)' \/ pc'[Live] = "live"
      /\ data'[Live] = NULL \/ (~enq'[Live] /\ content[data'[Live]] \in Frames)
  BY <1>0, <1>1, <1>2, QueuedCallEffect, StreamCalls, StreamRoles
<1>4. ~enq[Live]
  <2>1. pc[Live] # "live"
    BY <1>1 DEF BlockingCall, Acquire, AcquireUnlock, InCall
  <2>2. QED
    BY <1>0, <2>1, StreamRoles DEF IInv, HoldsWhenLive, LiveInPlace
<1>5. InPlace'
  <2>1. LiveInPlace'
    BY <1>3, <1>4 DEF LiveInPlace
  <2>2. UNCHANGED queued
    BY <1>1 DEF streamVars
  <2>3. QED
    BY <1>3, <2>1, <2>2, OthersStay, StreamRoles DEF InPlace
<1>6. QED
  BY <1>1, <1>5, StreamCalls, StreamRoles, CallKeeps

LEMMA LiveMarkIsOwnStep ==
    ASSUME StreamIInv, LiveMark
    PROVE  OwnStep(Live)
<1>1. HandOver(Live, [content[data[Live]] EXCEPT !.all = TRUE], WriteQueue)
  BY DEF LiveMark, HandOver
<1>2. content[data[Live]] \in Frames
  BY DEF LiveMark, StreamIInv, InPlace, LiveInPlace
<1>3. [content[data[Live]] EXCEPT !.all = TRUE] \in Values
  BY <1>2, FrameFacts
<1>4. QED
  BY <1>1, <1>3, StreamRoles DEF OwnStep

\* Marking a message leaves it the same message.
LEMMA LiveMarkKeeps ==
    ASSUME StreamIInv, LiveMark
    PROVE  StreamIInv'
<1> DEFINE o == data[Live]
           v == [content[o] EXCEPT !.all = TRUE]
<1>0. /\ IInv /\ LiveInPlace /\ Live \in Acqs
      /\ OneCopy /\ SeenOnce /\ NothingLost /\ QueuesHold(Kinds) /\ BoundFor(Kinds)
  BY StreamRoles DEF StreamIInv, InPlace
<1>1. /\ pc[Live] = "live" /\ o # NULL /\ ~enq[Live]
      /\ enq' = [enq EXCEPT ![Live] = TRUE]
      /\ next' = [next EXCEPT ![Live] = WriteQueue]
      /\ UNCHANGED <<items, running, notifier, pc, call, data, returnTo>>
      /\ UNCHANGED <<queued, written>>
  BY DEF LiveMark, streamVars
<1>2. content' = [content EXCEPT ![o] = v]
  BY DEF LiveMark
<1>3. /\ o \in Objects /\ content[o] \in Frames /\ content[o] # Blank
      /\ content \in [Objects -> Values \cup {Blank}]
      /\ enq \in [Acqs -> BOOLEAN] /\ next \in [Acqs -> Queues \cup {NULL}]
  BY <1>0, <1>1, FrameFacts DEF IInv, TypeOK, LiveInPlace
<1>4. v \in Marked /\ v \in Frames /\ v # Blank /\ Same(v, content[o])
  BY <1>3, FrameFacts
<1> HIDE DEF v, o
<1>5. OwnStep(Live)
  BY LiveMarkIsOwnStep
<1>6. IInv'
  BY <1>0, <1>5, OwnStepKeepsIInv
<1>7. /\ data'[Live] = o /\ next'[Live] = WriteQueue /\ enq'[Live] /\ content'[o] = v
      /\ \A r \in Objects \ {o} : content'[r] = content[r]
      /\ \A b \in Acqs \ {Live} : enq'[b] = enq[b]
  BY <1>0, <1>1, <1>2, <1>3 DEF o
<1>8. InPlace'
  <2>1. LiveInPlace'
    BY <1>0, <1>1, <1>4, <1>7 DEF LiveInPlace, InCall
  <2>2. QED
    BY <1>0, <1>1, <1>5, <2>1, OthersStay, StreamRoles DEF InPlace
<1>9. QueuesHold(Kinds)' /\ BoundFor(Kinds)'
  <2>1. (data[Live] # NULL /\ GoesOn(Live) => content[data[Live]] \in Kinds[next[Live]])'
    BY <1>4, <1>7, StreamRoles DEF Kinds
  <2>2. QED
    BY <1>0, <1>5, <2>1, OwnStepKeepsKinds
<1>10. \A r \in Objects :
          /\ content'[r] # Blank <=> content[r] # Blank
          /\ content[r] # Blank => Same(content'[r], content[r])
  <2>1. ASSUME NEW r \in Objects
        PROVE  /\ content'[r] # Blank <=> content[r] # Blank
               /\ Same(content'[r], content[r])
    <3>1. CASE r = o
      BY <1>3, <1>4, <1>7, <3>1
    <3>2. CASE r # o
      BY <1>7, <2>1, <3>2 DEF Same
    <3>3. QED
      BY <3>1, <3>2
  <2>2. QED
    BY <2>1
<1>11. OneCopy'
  <2>1. \A r \in Objects : content'[r] \in Frames \cup {Blank}
    BY <1>0, <1>4, <1>7 DEF OneCopy
  <2>2. ASSUME NEW r \in Objects, content'[r] # Blank
        PROVE  \/ content'[r].seq <= queued'[content'[r].from]
               \/ enq'[content'[r].from] /\ data'[content'[r].from] = r
    <3>1. /\ content'[r].seq = content[r].seq /\ content'[r].from = content[r].from
          /\ content[r].from \in Producers
          /\ \/ content[r].seq <= queued[content[r].from]
             \/ enq[content[r].from] /\ data[content[r].from] = r
      BY <1>0, <1>10, <2>2, FrameFacts DEF OneCopy, Same
    <3>2. QED
      BY <1>1, <1>7, <3>1, StreamRoles
  <2>3. \A r, s \in Objects : content'[r] # Blank /\ content'[s] # Blank
                              /\ Same(content'[r], content'[s]) => r = s
    BY <1>0, <1>10 DEF OneCopy, Same
  <2>4. QED
    BY <2>1, <2>2, <2>3 DEF OneCopy
<1>12. SeenOnce'
  BY <1>0, <1>1, <1>10 DEF SeenOnce, Same
<1>13. NothingLost'
  <2>1. \A q, n : InObject(q, n) => InObject(q, n)'
    BY <1>10 DEF InObject, Same
  <2>2. QED
    BY <1>0, <1>1, <2>1 DEF NothingLost, Seen
<1>14. QED
  BY <1>1, <1>6, <1>8, <1>9, <1>11, <1>12, <1>13 DEF StreamIInv, Counted

LEMMA LiveKeeps ==
    ASSUME StreamIInv, LiveThread
    PROVE  StreamIInv'
<1>1. CASE LiveEndOfScope
  <2>1. Live \in Acqs \ Producers
    BY StreamRoles
  <2>2. Destroy(Live) /\ UNCHANGED streamVars
    BY <1>1 DEF LiveEndOfScope
  <2>3. data[Live] = NULL \/ GoesOn(Live)
    BY <1>1, StreamRoles, WorkerAssumption
       DEF LiveEndOfScope, StreamIInv, InPlace, LiveInPlace, GoesOn, Stores
  <2>4. QED
    BY <2>1, <2>2, <2>3, EndOfScopeKeeps
<1>2. QED
  BY <1>1, LiveTakes, LiveMarkKeeps DEF LiveThread


------------------------------------------------------------------------------
(* The writer thread and the network.                                      *)
LEMMA WriterTakes ==
    ASSUME StreamIInv, WriterTake \/ (Constructing(Writer) /\ UNCHANGED streamVars)
    PROVE  StreamIInv' /\ BlockingCall(Writer, WriteCall)
<1>0. IInv /\ WriterInPlace /\ QueuesHold(Kinds)
  BY DEF StreamIInv, InPlace
<1>1. UNCHANGED streamVars /\ BlockingCall(Writer, WriteCall)
  <2>1. CASE WriterTake
    BY <2>1 DEF WriterTake, Construct, BlockingCall, WriteCall
  <2>2. pc[Writer] # "idle" => InCall(Writer, WriteCall) \/ pc[Writer] = "live"
    BY <1>0 DEF WriterInPlace
  <2>3. QED
    BY <2>1, <2>2, InConstructor
<1>2. Kinds[WriteQueue] = Marked
  BY StreamRoles DEF Kinds
<1>3. /\ OwnStep(Writer)
      /\ UNCHANGED content
      /\ enq'[Writer] => enq[Writer]
      /\ InCall(Writer, WriteCall)' \/ pc'[Writer] = "live"
      /\ data'[Writer] = NULL \/ content[data'[Writer]] \in Marked
  BY <1>0, <1>1, <1>2, QueuedCallEffect, StreamCalls, StreamRoles
<1>4. InPlace'
  <2>1. WriterInPlace'
    BY <1>0, <1>3 DEF WriterInPlace
  <2>2. UNCHANGED queued
    BY <1>1 DEF streamVars
  <2>3. QED
    BY <1>3, <2>1, <2>2, OthersStay, StreamRoles DEF InPlace
<1>5. QED
  BY <1>1, <1>4, StreamCalls, StreamRoles, CallKeeps

\* The writer's message goes from its buffer to what it has seen.
LEMMA WriterSees ==
    ASSUME StreamIInv, WriterEndOfScope, data[Writer] # NULL
    PROVE  /\ StreamIInv'
           /\ OwnStep(Writer)
           /\ data'[Writer] = NULL
           /\ \A q \in Queues : items'[q] = items[q]
<1> DEFINE o == data[Writer]
           v == content[o]
<1>0. /\ IInv /\ WriterInPlace /\ Writer \in Acqs
      /\ OneCopy /\ SeenOnce /\ NothingLost /\ Counted /\ QueuesHold(Kinds) /\ BoundFor(Kinds)
  BY StreamRoles DEF StreamIInv, InPlace
<1>1. /\ Destroy(Writer)
      /\ written' = Append(written, v)
      /\ UNCHANGED queued
  BY DEF WriterEndOfScope
<1>2. ~GoesOn(Writer) /\ v \in Marked /\ v \in Frames /\ v # Blank
  BY <1>0, FrameFacts DEF WriterInPlace, GoesOn
<1>3. /\ o \in Objects
      /\ content \in [Objects -> Values \cup {Blank}]
  BY <1>0 DEF IInv, TypeOK
<1>4. /\ pc'[Writer] = "idle" /\ data'[Writer] = NULL /\ enq'[Writer] = FALSE
      /\ content' = [content EXCEPT ![o] = Blank]
      /\ \A q \in Queues : items'[q] = items[q]
  BY <1>0, <1>1, <1>2, DestroyEffect
<1>5. OwnStep(Writer)
  BY <1>1 DEF OwnStep
<1>6. IInv'
  BY <1>0, <1>5, OwnStepKeepsIInv
<1>7. \A b \in Acqs \ {Writer} : Untouched(b) /\ data[b] # o
  <2>1. \A b \in Acqs \ {Writer} : Untouched(b)
    BY <1>0, <1>5, OwnStepAlone
  <2>2. \A b \in Acqs \ {Writer} : data[b] # o
    BY <1>0 DEF IInv, OneOwner, HeldOnce
  <2>3. QED
    BY <2>1, <2>2
<1>8. InPlace'
  <2>1. WriterInPlace'
    BY <1>4 DEF WriterInPlace
  <2>2. QED
    BY <1>0, <1>1, <1>5, <2>1, OthersStay, StreamRoles DEF InPlace
<1>9. QueuesHold(Kinds)' /\ BoundFor(Kinds)'
  <2>1. (data[Writer] # NULL /\ GoesOn(Writer) => content[data[Writer]] \in Kinds[next[Writer]])'
    BY <1>4
  <2>2. QED
    BY <1>0, <1>5, <2>1, OwnStepKeepsKinds
<1> HIDE DEF o, v
<1>10. /\ content'[o] = Blank
       /\ \A r \in Objects \ {o} : content'[r] = content[r]
  BY <1>3, <1>4
<1>11. OneCopy'
  <2>1. ASSUME NEW r \in Objects, content'[r] # Blank
        PROVE  \/ content'[r].seq <= queued'[content'[r].from]
               \/ enq'[content'[r].from] /\ data'[content'[r].from] = r
    <3>1. r # o /\ content'[r] = content[r]
      BY <1>10, <2>1
    <3>2. /\ content[r].from \in Producers
          /\ \/ content[r].seq <= queued[content[r].from]
             \/ enq[content[r].from] /\ data[content[r].from] = r
      BY <1>0, <2>1, <3>1, FrameFacts DEF OneCopy
    <3>3. Undisturbed(content[r].from)
      BY <1>7, <3>2, StreamRoles DEF Untouched
    <3>4. QED
      BY <1>1, <3>1, <3>2, <3>3 DEF Undisturbed
  <2>2. \A r \in Objects : content'[r] \in Frames \cup {Blank}
    BY <1>0, <1>10 DEF OneCopy
  <2>3. \A r, s \in Objects : content'[r] # Blank /\ content'[s] # Blank
                              /\ Same(content'[r], content'[s]) => r = s
    BY <1>0, <1>10 DEF OneCopy
  <2>4. QED
    BY <2>1, <2>2, <2>3 DEF OneCopy
<1>12. /\ written' \in Seq(Marked)
       /\ Len(written) \in Nat
       /\ DOMAIN written = 1 .. Len(written)
       /\ DOMAIN written' = 1 .. Len(written) + 1
       /\ \A i \in DOMAIN written : written'[i] = written[i]
       /\ written'[Len(written) + 1] = v
  BY <1>0, <1>1, <1>2, AppendAt DEF Counted
<1>13. \A i \in DOMAIN written' : \/ i \in DOMAIN written
                                  \/ i = Len(written) + 1 /\ written'[i] = v
  BY <1>12
<1>14. \A i \in DOMAIN written : ~Same(v, written[i])
  BY <1>0, <1>2, <1>3 DEF SeenOnce, v
<1>15. \A r \in Objects : r # o /\ content[r] # Blank => ~Same(content[r], v)
  BY <1>0, <1>2, <1>3 DEF OneCopy, v
<1>16. v.seq <= queued[v.from]
  <2>1. v.from \in Producers
    BY <1>2, FrameFacts
  <2>2. data[v.from] # o
    BY <1>7, <2>1, StreamRoles
  <2>3. QED
    BY <1>0, <1>2, <1>3, <2>2 DEF OneCopy, v
<1>17. SeenOnce'
  <2>1. \A i \in DOMAIN written' : written'[i].seq <= queued'[written'[i].from]
    BY <1>0, <1>1, <1>12, <1>13, <1>16 DEF SeenOnce
  <2>2. ASSUME NEW i \in DOMAIN written', NEW j \in DOMAIN written', Same(written'[i], written'[j])
        PROVE  i = j
    <3>1. CASE i \in DOMAIN written /\ j \in DOMAIN written
      BY <1>0, <1>12, <2>2, <3>1 DEF SeenOnce
    <3>2. QED
      BY <1>12, <1>13, <1>14, <2>2, <3>1 DEF Same
  <2>3. ASSUME NEW i \in DOMAIN written', NEW r \in Objects, content'[r] # Blank
        PROVE  ~Same(content'[r], written'[i])
    <3>1. r # o /\ content'[r] = content[r]
      BY <1>10, <2>3
    <3>2. QED
      BY <1>0, <1>12, <1>13, <1>15, <2>3, <3>1 DEF SeenOnce
  <2>4. QED
    BY <2>1, <2>2, <2>3 DEF SeenOnce
<1>18. NothingLost'
  <2>1. ASSUME NEW q, NEW n, InObject(q, n) \/ Seen(q, n)
        PROVE  InObject(q, n)' \/ Seen(q, n)'
    <3>1. CASE Seen(q, n)
      BY <1>12, <3>1 DEF Seen
    <3>2. CASE InObject(q, n)
      <4>1. PICK r \in Objects : content[r] # Blank /\ content[r].from = q /\ content[r].seq = n
        BY <3>2 DEF InObject
      <4>2. CASE r = o
        BY <1>12, <4>1, <4>2 DEF Seen, v
      <4>3. CASE r # o
        BY <1>10, <4>1, <4>3 DEF InObject
      <4>4. QED
        BY <4>2, <4>3
    <3>3. QED
      BY <2>1, <3>1, <3>2
  <2>2. QED
    BY <1>0, <1>1, <2>1 DEF NothingLost
<1>19. Counted'
  BY <1>0, <1>1, <1>12 DEF Counted
<1>20. QED
  BY <1>4, <1>5, <1>6, <1>8, <1>9, <1>11, <1>17, <1>18, <1>19 DEF StreamIInv

LEMMA WriterKeeps ==
    ASSUME StreamIInv, WriterThread
    PROVE  StreamIInv'
<1>1. CASE WriterEndOfScope /\ data[Writer] = NULL
  <2>1. Writer \in Acqs \ Producers
    BY StreamRoles
  <2>2. Destroy(Writer) /\ UNCHANGED streamVars
    BY <1>1 DEF WriterEndOfScope, streamVars
  <2>3. QED
    BY <1>1, <2>1, <2>2, EndOfScopeKeeps
<1>2. QED
  BY <1>1, WriterTakes, WriterSees DEF WriterThread

\* The network's buffers are clean before and after.
LEMMA NetworkKeeps ==
    ASSUME StreamIInv, NetworkThread
    PROVE  StreamIInv'
<1>0. IInv /\ NetworkInPlace /\ Network \in Acqs \ Producers
  BY StreamRoles DEF StreamIInv, InPlace
<1>1. CASE Destroy(Network)
  <2>1. data[Network] = NULL \/ content[data[Network]] = Blank
    BY <1>0 DEF NetworkInPlace
  <2>2. UNCHANGED streamVars
    BY DEF NetworkThread
  <2>3. QED
    BY <1>0, <1>1, <2>1, <2>2, EndOfScopeKeeps
<1>2. CASE Construct(Network, Blocking(LiveQueue, "UNUSED")) \/ Constructing(Network)
  <2>1. BlockingCall(Network, PutCall)
    <3>1. CASE Construct(Network, Blocking(LiveQueue, "UNUSED"))
      BY <3>1 DEF Construct, BlockingCall, PutCall
    <3>2. pc[Network] # "idle" => InCall(Network, PutCall) \/ pc[Network] = "live"
      BY <1>0 DEF NetworkInPlace
    <3>3. QED
      BY <1>2, <3>1, <3>2, InConstructor
  <2>2. /\ OwnStep(Network)
        /\ enq'[Network] => enq[Network]
        /\ InCall(Network, PutCall)' \/ pc'[Network] = "live"
        /\ data'[Network] # NULL => content'[data'[Network]] = Blank
    BY <1>0, <2>1, PutCallEffect
  <2>3. NetworkInPlace'
    BY <1>0, <2>2 DEF NetworkInPlace
  <2>4. UNCHANGED streamVars
    BY DEF NetworkThread
  <2>5. InPlace'
    <3>1. UNCHANGED queued
      BY <2>4 DEF streamVars
    <3>2. QED
      BY <1>0, <2>2, <2>3, <3>1, OthersStay, StreamRoles DEF InPlace
  <2>6. QED
    BY <1>0, <2>1, <2>4, <2>5, StreamCalls, CallKeeps
<1>3. CASE Catch(Network)
  <2>1. /\ OwnStep(Network) /\ UNCHANGED <<content, data>>
        /\ pc'[Network] = "idle" /\ enq'[Network] = FALSE
    BY <1>0, <1>3 DEF OwnStep, Catch, IInv, TypeOK
  <2>2. data[Network] = NULL
    BY <1>0, <1>3 DEF Catch, IInv, HoldsWhenLive
  <2>3. IInv'
    BY <1>0, <2>1, OwnStepKeepsIInv
  <2>4. UNCHANGED <<queued, written>>
    BY DEF NetworkThread, streamVars
  <2>5. InPlace'
    <3>1. NetworkInPlace'
      BY <1>0, <2>1 DEF NetworkInPlace
    <3>2. QED
      BY <1>0, <2>1, <2>4, <3>1, OthersStay, StreamRoles DEF InPlace
  <2>6. QueuesHold(Kinds)' /\ BoundFor(Kinds)'
    <3>1. (data[Network] # NULL /\ GoesOn(Network) => content[data[Network]] \in Kinds[next[Network]])'
      BY <2>1, <2>2
    <3>2. QueuesHold(Kinds) /\ BoundFor(Kinds)
      BY DEF StreamIInv
    <3>3. QED
      BY <1>0, <2>1, <3>1, <3>2, OwnStepKeepsKinds
  <2>7. OneCopy' /\ SeenOnce' /\ NothingLost'
    <3>1. OneCopy /\ SeenOnce /\ NothingLost
      BY DEF StreamIInv
    <3>2. \A b \in Acqs \ {Network} : Untouched(b)
      BY <1>0, <2>1, OwnStepAlone
    <3>3. \A p \in Producers : enq[p] => enq'[p] /\ data'[p] = data[p]
      BY <3>2, StreamRoles DEF Untouched, Undisturbed
    <3>4. QED
      BY <2>1, <2>4, <3>1, <3>3, CopiesStay
  <2>8. QED
    BY <2>3, <2>4, <2>5, <2>6, <2>7 DEF StreamIInv, Counted
<1>4. QED
  BY <1>1, <1>2, <1>3 DEF NetworkThread


------------------------------------------------------------------------------
(* The invariant is inductive.                                             *)
LEMMA UntouchedKeep ==
    ASSUME StreamIInv, IInv', UNCHANGED <<content, queued, written>>,
           \A b \in Acqs : Untouched(b), \A q \in Queues : QueueStill(q)
    PROVE  StreamIInv'
<1>1. InPlace'
  BY StreamRoles, ProducerStays, LiveStays, WriterStays, NetworkStays DEF StreamIInv, InPlace
<1>2. QueuesHold(Kinds)' /\ BoundFor(Kinds)'
  BY UntouchedKeepsKinds DEF StreamIInv
<1>3. OneCopy' /\ SeenOnce' /\ NothingLost'
  <2>1. \A p \in Producers : enq[p] => enq'[p] /\ data'[p] = data[p]
    BY StreamRoles DEF Untouched, Undisturbed
  <2>2. QED
    BY <2>1, CopiesStay DEF StreamIInv
<1>4. QED
  BY <1>1, <1>2, <1>3 DEF StreamIInv, Counted

LEMMA StreamInitEstablishes == StreamInit => StreamIInv
<1> SUFFICES ASSUME StreamInit
             PROVE  StreamIInv
  OBVIOUS
<1>1. IInv
  BY InitEstablishesIInv DEF StreamInit
<1>2. /\ \A q \in Queues : items[q] = <<>>
      /\ \A a \in Acqs : pc[a] = "idle" /\ data[a] = NULL /\ enq[a] = FALSE
      /\ \A o \in Objects : content[o] = Blank
      /\ queued = [p \in Producers |-> 0] /\ written = <<>>
  BY StockAssumption DEF StreamInit, Init, InitialItems, Stores
<1>3. InPlace
  BY <1>2, StreamRoles DEF InPlace, ProducerInPlace, LiveInPlace, WriterInPlace, NetworkInPlace
<1>4. QueuesHold(Kinds) /\ BoundFor(Kinds)
  BY <1>2 DEF QueuesHold, BoundFor
<1>5. Counted
  BY <1>2, StreamRoles DEF Counted
<1>6. OneCopy /\ SeenOnce /\ NothingLost
  BY <1>2 DEF OneCopy, SeenOnce, NothingLost
<1>7. QED
  BY <1>1, <1>3, <1>4, <1>5, <1>6 DEF StreamIInv

\* The invariant of the path of a message is inductive: each thread keeps it,
\* whatever the others are in the middle of.
THEOREM StreamIInvIsInductive == StreamIInv /\ [StreamNext]_allVars => StreamIInv'
<1> SUFFICES ASSUME StreamIInv, [StreamNext]_allVars
             PROVE  StreamIInv'
  OBVIOUS
<1>0. IInv
  BY DEF StreamIInv
<1>1. ASSUME UNCHANGED vars, UNCHANGED <<queued, written>>
      PROVE  StreamIInv'
  <2>1. IInv' /\ (\A b \in Acqs : Untouched(b)) /\ (\A q \in Queues : QueueStill(q))
    BY <1>0, <1>1, StillIInv, StillAlone
  <2>2. UNCHANGED content
    BY <1>1 DEF vars
  <2>3. QED
    BY <1>1, <2>1, <2>2, UntouchedKeep
<1>2. ASSUME NEW p \in Producers, Producer(p)
      PROVE  StreamIInv'
  <2>1. CASE Throws(p)
    BY <1>1, <2>1 DEF Throws
  <2>2. QED
    BY <1>2, <2>1, QueueFrameKeeps, FillFrameKeeps, FrameQueuedKeeps DEF Producer
<1>3. ASSUME NEW a \in Acqs, WakeSpuriously(a), UNCHANGED streamVars
      PROVE  StreamIInv'
  <2>1. OwnStep(a)
    BY <1>3 DEF OwnStep
  <2>2. IInv'
    BY <1>0, <2>1, OwnStepKeepsIInv
  <2>3. (\A b \in Acqs : Untouched(b)) /\ (\A q \in Queues : QueueStill(q))
    BY <1>0, <1>3 DEF WakeSpuriously, Untouched, Undisturbed, QueueStill, IInv, TypeOK
  <2>4. UNCHANGED <<content, queued, written>>
    BY <1>3 DEF WakeSpuriously, streamVars
  <2>5. QED
    BY <2>2, <2>3, <2>4, UntouchedKeep
<1>4. CASE UNCHANGED allVars
  BY <1>1, <1>4 DEF allVars, streamVars
<1>5. QED
  BY <1>2, <1>3, <1>4, LiveKeeps, WriterKeeps, NetworkKeeps DEF StreamNext

\* The invariant holds in every behaviour of the path of a message.
THEOREM StreamInvariantHolds == StreamSpec => []StreamIInv
<1>1. StreamInit => StreamIInv
  BY StreamInitEstablishes
<1>2. StreamIInv /\ [StreamNext]_allVars => StreamIInv'
  BY StreamIInvIsInductive
<1>3. QED
  BY <1>1, <1>2, PTL DEF StreamSpec

\* A message whose length an operation of RGBDDevice returned is in exactly one
\* buffer until the writer thread has it, and is seen by it once; from the live
\* thread on it is marked for all endpoints.
THEOREM FramesAlwaysConserved == StreamSpec => []FramesConserved
<1>1. ASSUME StreamIInv
      PROVE  FramesConserved
  <2>0. /\ OneCopy /\ SeenOnce /\ NothingLost /\ Counted /\ QueuesHold(Kinds)
    BY <1>1 DEF StreamIInv
  <2>1. ASSUME NEW p \in Producers, NEW n \in 1 .. queued[p]
        PROVE  LET isIt(v) == v # Blank /\ v.from = p /\ v.seq = n
                   carriers == {o \in Objects : isIt(content[o])}
                   seen == {i \in DOMAIN written : isIt(written[i])}
               IN  Cardinality(carriers) + Cardinality(seen) = 1
    <3> DEFINE isIt(v) == v # Blank /\ v.from = p /\ v.seq = n
               carriers == {o \in Objects : isIt(content[o])}
               seen == {i \in DOMAIN written : isIt(written[i])}
    <3>1. \A i \in DOMAIN written : written[i] # Blank
      BY <2>0, FrameFacts DEF Counted
    <3>2. CASE Seen(p, n)
      <4>1. PICK i \in DOMAIN written : written[i].from = p /\ written[i].seq = n
        BY <3>2 DEF Seen
      <4>2. seen = {i}
        BY <2>0, <3>1, <4>1 DEF SeenOnce, Same
      <4>3. carriers = {}
        BY <2>0, <4>1 DEF SeenOnce, Same
      <4>4. Cardinality(carriers) = 0 /\ Cardinality(seen) = 1
        BY <4>2, <4>3, FS_EmptySet, FS_Singleton
      <4>5. QED
        BY <4>4
    <3>3. CASE InObject(p, n)
      <4>1. PICK o \in Objects : content[o] # Blank /\ content[o].from = p /\ content[o].seq = n
        BY <3>3 DEF InObject
      <4>2. carriers = {o}
        BY <2>0, <4>1 DEF OneCopy, Same
      <4>3. seen = {}
        BY <2>0, <4>1 DEF SeenOnce, Same
      <4>4. Cardinality(carriers) = 1 /\ Cardinality(seen) = 0
        BY <4>2, <4>3, FS_EmptySet, FS_Singleton
      <4>5. QED
        BY <4>4
    <3>4. QED
      BY <2>0, <3>2, <3>3 DEF NothingLost
  <2>2. \A i \in DOMAIN written : written[i].all
    BY <2>0, FrameFacts DEF Counted
  <2>3. \A i \in DOMAIN items[WriteQueue] : content[items[WriteQueue][i]].all
    BY <2>0, StreamRoles, FrameFacts DEF QueuesHold, Kinds
  <2>4. QED
    BY <2>1, <2>2, <2>3 DEF FramesConserved
<1>2. QED
  BY <1>1, StreamInvariantHolds, PTL


------------------------------------------------------------------------------
(* Lines of messages.                                                      *)
LEMMA HeadThenTail ==
    ASSUME NEW S, NEW s \in Seq(S), s # <<>>
    PROVE  /\ Head(s) \in S /\ <<Head(s)>> \in Seq(S) /\ Tail(s) \in Seq(S)
           /\ <<Head(s)>> \o Tail(s) = s
<1>1. Head(s) \in S /\ <<Head(s)>> \in Seq(S) /\ Tail(s) \in Seq(S)
  BY TailAt
<1>2. /\ <<Head(s)>> \o Tail(s) \in Seq(S)
      /\ Len(<<Head(s)>> \o Tail(s)) = Len(s)
      /\ \A i \in 1 .. Len(s) : (<<Head(s)>> \o Tail(s))[i] = s[i]
  <2>1. Len(<<Head(s)>>) = 1 /\ <<Head(s)>>[1] = s[1]
    BY TailAt
  <2>2. Len(Tail(s)) = Len(s) - 1 /\ Len(s) \in Nat \ {0}
    BY TailAt, HeadTailProperties
  <2>3. \A i \in 1 .. Len(s) - 1 : Tail(s)[i] = s[i + 1]
    BY TailAt
  <2>4. /\ <<Head(s)>> \o Tail(s) \in Seq(S)
        /\ Len(<<Head(s)>> \o Tail(s)) = 1 + (Len(s) - 1)
        /\ \A i \in 1 .. 1 + (Len(s) - 1) : (<<Head(s)>> \o Tail(s))[i] =
               IF i <= 1 THEN <<Head(s)>>[i] ELSE Tail(s)[i - 1]
    BY <1>1, <2>1, <2>2, ConcatProperties
  <2>5. ASSUME NEW i \in 1 .. Len(s)
        PROVE  (<<Head(s)>> \o Tail(s))[i] = s[i]
    <3>1. CASE i = 1
      BY <2>1, <2>2, <2>4, <3>1
    <3>2. CASE i # 1
      <4>1. i - 1 \in 1 .. Len(s) - 1 /\ (i - 1) + 1 = i /\ i \in 1 .. 1 + (Len(s) - 1)
        BY <2>2, <3>2
      <4>2. Tail(s)[i - 1] = s[(i - 1) + 1]
        BY <2>3, <4>1
      <4>3. (<<Head(s)>> \o Tail(s))[i] = Tail(s)[i - 1]
        BY <2>4, <3>2, <4>1
      <4>4. QED
        BY <4>1, <4>2, <4>3
    <3>3. QED
      BY <3>1, <3>2
  <2>6. QED
    BY <2>2, <2>4, <2>5
<1>3. QED
  BY <1>1, <1>2, SeqEqual

LEMMA JoinedType ==
    ASSUME NEW S, NEW W \in Seq(S), NEW Q \in Seq(S), NEW C \in Seq(S), NEW L \in Seq(S)
    PROVE  /\ W \o Q \in Seq(S) /\ W \o Q \o C \in Seq(S) /\ W \o Q \o C \o L \in Seq(S)
           /\ W \o Q \o C \o L = W \o (Q \o C \o L)
           /\ Q \o C \o L \in Seq(S)
<1>1. W \o Q \in Seq(S) /\ Q \o C \in Seq(S) /\ C \o L \in Seq(S)
  BY ConcatProperties
<1>2. (W \o Q) \o C \in Seq(S) /\ (Q \o C) \o L \in Seq(S)
  BY <1>1, ConcatProperties
<1>3. ((W \o Q) \o C) \o L \in Seq(S)
  BY <1>2, ConcatProperties
<1>4. (W \o Q) \o C = W \o (Q \o C)
  OBVIOUS
<1>5. \A T \in Seq(S) : (W \o T) \o L = W \o (T \o L)
  OBVIOUS
<1>6. ((W \o Q) \o C) \o L = W \o ((Q \o C) \o L)
  BY <1>1, <1>4, <1>5, Zenon
<1>7. (Q \o C) \o L \in Seq(S)
  BY <1>1, ConcatProperties
<1>8. QED
  BY <1>1, <1>2, <1>3, <1>6, <1>7

\* The four parts of the line as one sequence.
Joined(W, Q, C, L) == W \o Q \o C \o L

\* The live thread takes a message, and hands it on.
LEMMA LiveMovesMessage ==
    \A W, Q, L \in Seq(Frames) :
        L # <<>> => Joined(W, Q, <<Head(L)>>, Tail(L)) = Joined(W, Q, <<>>, L)
<1>1. SUFFICES ASSUME NEW W \in Seq(Frames), NEW Q \in Seq(Frames), NEW L \in Seq(Frames),
                      L # <<>>
               PROVE  W \o Q \o <<Head(L)>> \o Tail(L) = W \o Q \o <<>> \o L
  BY DEF Joined
<1>2. <<Head(L)>> \in Seq(Frames) /\ Tail(L) \in Seq(Frames) /\ <<Head(L)>> \o Tail(L) = L
  BY <1>1, HeadThenTail
<1>3. W \o Q \in Seq(Frames)
  BY ConcatProperties
<1>4. (W \o Q \o <<Head(L)>>) \o Tail(L) = (W \o Q) \o (<<Head(L)>> \o Tail(L))
  BY <1>2, <1>3, ConcatAssociative
<1>5. W \o Q \o <<>> = W \o Q
  BY <1>3, ConcatEmptySeq
<1>6. QED
  BY <1>2, <1>4, <1>5

LEMMA LiveHandsOn ==
    \A W, Q, L \in Seq(Frames) : \A x \in Frames :
        Joined(W, Append(Q, x), <<>>, L) = Joined(W, Q, <<x>>, L)
<1>1. SUFFICES ASSUME NEW W \in Seq(Frames), NEW Q \in Seq(Frames), NEW L \in Seq(Frames),
                      NEW x \in Frames
               PROVE  W \o Append(Q, x) \o <<>> \o L = W \o Q \o <<x>> \o L
  BY DEF Joined
<1>2. Append(Q, x) = Q \o <<x>> /\ Append(Q, x) \in Seq(Frames) /\ <<x>> \in Seq(Frames)
  BY AppendIsConcat, AppendProperties
<1>3. W \o (Q \o <<x>>) = (W \o Q) \o <<x>>
  BY <1>2, ConcatAssociative
<1>4. W \o Append(Q, x) \in Seq(Frames)
  BY <1>2, ConcatProperties
<1>5. W \o Append(Q, x) \o <<>> = W \o Append(Q, x)
  BY <1>4, ConcatEmptySeq
<1>6. QED
  BY <1>2, <1>3, <1>5

\* The writer takes a message, and drops it.
LEMMA WriterMovesMessage ==
    \A Q, C, L \in Seq(Frames) :
        Q # <<>> => Joined(<<Head(Q)>>, Tail(Q), C, L) = Joined(<<>>, Q, C, L)
<1>1. SUFFICES ASSUME NEW Q \in Seq(Frames), NEW C \in Seq(Frames), NEW L \in Seq(Frames),
                      Q # <<>>
               PROVE  <<Head(Q)>> \o Tail(Q) \o C \o L = <<>> \o Q \o C \o L
  BY DEF Joined
<1>2. <<Head(Q)>> \o Tail(Q) = Q
  BY <1>1, HeadThenTail
<1>3. <<>> \o Q = Q
  BY ConcatEmptySeq
<1>4. QED
  BY <1>2, <1>3

\* The first part can be dropped, and the last one grows.  These, and Lines, keep
\* sequences out of sight where the two lemmas below are used.
Lines == Seq(Frames)
Splits(W, Q, C, L) == Joined(W, Q, C, L) = W \o Joined(<<>>, Q, C, L)
Grows(W, Q, C, L, x) == Joined(W, Q, C, Append(L, x)) = Append(Joined(W, Q, C, L), x)

LEMMA HeadOfLine == \A W, Q, C, L \in Lines : Splits(W, Q, C, L)
<1> USE DEF Lines, Splits
<1>1. TAKE W, Q, C, L \in Lines
<1>2. <<>> \o Q = Q
  BY ConcatEmptySeq
<1>3. Q \o C \in Seq(Frames)
  BY ConcatProperties
<1>4. (W \o Q) \o C = W \o (Q \o C)
  OBVIOUS
<1>5. \A T \in Seq(Frames) : (W \o T) \o L = W \o (T \o L)
  OBVIOUS
<1>6. (W \o (Q \o C)) \o L = W \o ((Q \o C) \o L)
  BY <1>3, <1>5, Zenon
<1>7. QED
  BY <1>2, <1>4, <1>6, Zenon DEF Joined

LEMMA LineGrows == \A W, Q, C, L \in Lines : \A x \in Frames : Grows(W, Q, C, L, x)
<1> USE DEF Lines, Grows
<1>1. SUFFICES ASSUME NEW W \in Seq(Frames), NEW Q \in Seq(Frames), NEW C \in Seq(Frames),
                      NEW L \in Seq(Frames), NEW x \in Frames
               PROVE  W \o Q \o C \o Append(L, x) = Append(W \o Q \o C \o L, x)
  BY DEF Joined
<1>2. <<x>> \in Seq(Frames) /\ Append(L, x) = L \o <<x>>
  BY AppendIsConcat
<1>3. W \o Q \o C \in Seq(Frames) /\ W \o Q \o C \o L \in Seq(Frames)
  BY JoinedType
<1>4. \A T \in Seq(Frames) : T \o (L \o <<x>>) = (T \o L) \o <<x>>
  BY <1>2
<1>5. (W \o Q \o C) \o (L \o <<x>>) = ((W \o Q \o C) \o L) \o <<x>>
  BY <1>3, <1>4, Zenon
<1>6. Append(W \o Q \o C \o L, x) = (W \o Q \o C \o L) \o <<x>>
  BY <1>3, AppendIsConcat
<1>7. QED
  BY <1>2, <1>5, <1>6, Zenon


\* Hiding the mark.
Name(v) == [from |-> v.from, seq |-> v.seq]
Names == [from : Producers, seq : 1 .. MaxFrames]

LEMMA UnmarkedType ==
    ASSUME NEW s \in Seq(Frames)
    PROVE  /\ Unmarked(s) \in Seq(Names)
           /\ Len(Unmarked(s)) = Len(s)
           /\ \A i \in 1 .. Len(s) : Unmarked(s)[i] = Name(s[i])
<1>1. DOMAIN s = 1 .. Len(s) /\ Len(s) \in Nat
  OBVIOUS
<1>2. \A i \in 1 .. Len(s) : s[i] \in Frames
  OBVIOUS
<1>3. \A v \in Frames : Name(v) \in Names
  BY FrameFacts DEF Name, Names
<1>4. Unmarked(s) = [i \in 1 .. Len(s) |-> Name(s[i])]
  BY <1>1 DEF Unmarked, Name
<1>5. \A i \in 1 .. Len(s) : Name(s[i]) \in Names
  BY <1>2, <1>3
<1>6. Unmarked(s) \in Seq(Names) /\ Len(Unmarked(s)) = Len(s)
  BY <1>1, <1>4, <1>5
<1>7. QED
  BY <1>4, <1>6

LEMMA UnmarkedConcat ==
    ASSUME NEW s \in Seq(Frames), NEW t \in Seq(Frames)
    PROVE  Unmarked(s \o t) = Unmarked(s) \o Unmarked(t)
<1>1. /\ s \o t \in Seq(Frames)
      /\ Len(s \o t) = Len(s) + Len(t)
      /\ \A i \in 1 .. Len(s) + Len(t) : (s \o t)[i] = IF i <= Len(s) THEN s[i] ELSE t[i - Len(s)]
  BY ConcatProperties
<1>2. /\ Unmarked(s \o t) \in Seq(Names)
      /\ Len(Unmarked(s \o t)) = Len(s) + Len(t)
      /\ \A i \in 1 .. Len(s) + Len(t) : Unmarked(s \o t)[i] = Name((s \o t)[i])
  BY <1>1, UnmarkedType
<1>3. /\ Unmarked(s) \in Seq(Names) /\ Len(Unmarked(s)) = Len(s) /\ Len(s) \in Nat
      /\ Unmarked(t) \in Seq(Names) /\ Len(Unmarked(t)) = Len(t) /\ Len(t) \in Nat
      /\ \A i \in 1 .. Len(s) : Unmarked(s)[i] = Name(s[i])
      /\ \A i \in 1 .. Len(t) : Unmarked(t)[i] = Name(t[i])
  BY UnmarkedType
<1>4. /\ Unmarked(s) \o Unmarked(t) \in Seq(Names)
      /\ Len(Unmarked(s) \o Unmarked(t)) = Len(s) + Len(t)
      /\ \A i \in 1 .. Len(s) + Len(t) : (Unmarked(s) \o Unmarked(t))[i] =
             IF i <= Len(s) THEN Unmarked(s)[i] ELSE Unmarked(t)[i - Len(s)]
  <2>1. \A a, b \in Seq(Names) :
            /\ a \o b \in Seq(Names) /\ Len(a \o b) = Len(a) + Len(b)
            /\ \A i \in 1 .. Len(a) + Len(b) :
                   (a \o b)[i] = IF i <= Len(a) THEN a[i] ELSE b[i - Len(a)]
    BY ConcatProperties
  <2>2. /\ Unmarked(s) \o Unmarked(t) \in Seq(Names)
        /\ Len(Unmarked(s) \o Unmarked(t)) = Len(Unmarked(s)) + Len(Unmarked(t))
        /\ \A i \in 1 .. Len(Unmarked(s)) + Len(Unmarked(t)) :
               (Unmarked(s) \o Unmarked(t))[i] = IF i <= Len(Unmarked(s)) THEN Unmarked(s)[i]
                                                 ELSE Unmarked(t)[i - Len(Unmarked(s))]
    BY <1>3, <2>1
  <2>3. QED
    BY <1>3, <2>2
<1>5. ASSUME NEW i \in 1 .. Len(s) + Len(t)
      PROVE  Unmarked(s \o t)[i] = (Unmarked(s) \o Unmarked(t))[i]
  <2>1. CASE i <= Len(s)
    <3>1. i \in 1 .. Len(s)
      BY <1>3, <2>1
    <3>2. QED
      BY <1>1, <1>2, <1>3, <1>4, <2>1, <3>1
  <2>2. CASE ~(i <= Len(s))
    <3>1. i - Len(s) \in 1 .. Len(t)
      BY <1>3, <2>2
    <3>2. (s \o t)[i] = t[i - Len(s)]
      BY <1>1, <2>2
    <3>3. (Unmarked(s) \o Unmarked(t))[i] = Unmarked(t)[i - Len(s)]
      BY <1>4, <2>2
    <3>4. QED
      BY <1>2, <1>3, <3>1, <3>2, <3>3
  <2>3. QED
    BY <2>1, <2>2
<1>6. QED
  BY <1>2, <1>4, <1>5, SeqEqual

LEMMA UnmarkedOne ==
    ASSUME NEW v \in Frames
    PROVE  <<v>> \in Seq(Frames) /\ Name(v) \in Names /\ Unmarked(<<v>>) = <<Name(v)>>
  BY FrameFacts DEF Unmarked, Name, Names

LEMMA UnmarkedAppend ==
    ASSUME NEW s \in Seq(Frames), NEW v \in Frames
    PROVE  Unmarked(Append(s, v)) = Append(Unmarked(s), Name(v))
<1>1. /\ <<v>> \in Seq(Frames) /\ Name(v) \in Names /\ Unmarked(<<v>>) = <<Name(v)>>
      /\ Unmarked(s) \in Seq(Names)
  BY UnmarkedOne, UnmarkedType
<1>2. Append(s, v) = s \o <<v>> /\ Append(Unmarked(s), Name(v)) = Unmarked(s) \o <<Name(v)>>
  BY <1>1, AppendIsConcat
<1>3. Unmarked(s \o <<v>>) = Unmarked(s) \o Unmarked(<<v>>)
  BY <1>1, UnmarkedConcat
<1>4. QED
  BY <1>1, <1>2, <1>3

\* The writer's message is the first of the line.
LEMMA UnmarkedHeadAndTail ==
    ASSUME NEW v \in Frames, NEW s \in Seq(Frames)
    PROVE  /\ Unmarked(<<v>> \o s) # <<>>
           /\ Head(Unmarked(<<v>> \o s)) = Name(v)
           /\ Tail(Unmarked(<<v>> \o s)) = Unmarked(s)
<1>1. /\ <<v>> \in Seq(Frames) /\ Name(v) \in Names /\ Unmarked(<<v>>) = <<Name(v)>>
      /\ Unmarked(s) \in Seq(Names)
  BY UnmarkedOne, UnmarkedType
<1>2. Unmarked(<<v>> \o s) = <<Name(v)>> \o Unmarked(s)
  BY <1>1, UnmarkedConcat
<1>3. ASSUME NEW e \in Names, NEW u \in Seq(Names)
      PROVE  <<e>> \o u # <<>> /\ Head(<<e>> \o u) = e /\ Tail(<<e>> \o u) = u
  <2>1. /\ <<e>> \o u \in Seq(Names) /\ <<e>> \in Seq(Names)
        /\ Len(<<e>> \o u) = 1 + Len(u) /\ Len(u) \in Nat
        /\ \A i \in 1 .. 1 + Len(u) : (<<e>> \o u)[i] = IF i <= 1 THEN <<e>>[i] ELSE u[i - 1]
    <3>1. <<e>> \in Seq(Names) /\ Len(<<e>>) = 1 /\ Len(u) \in Nat
      OBVIOUS
    <3>2. QED
      BY <3>1, ConcatProperties
  <2>2. <<e>> \o u # <<>>
    BY <2>1
  <2>3. (<<e>> \o u)[1] = e
    BY <2>1
  <2>4. Head(<<e>> \o u) = e
    BY <2>1, <2>2, <2>3, TailAt
  <2>5. /\ Tail(<<e>> \o u) \in Seq(Names) /\ Len(Tail(<<e>> \o u)) = Len(u)
        /\ \A i \in 1 .. Len(Tail(<<e>> \o u)) : Tail(<<e>> \o u)[i] = (<<e>> \o u)[i + 1]
    BY <2>1, <2>2, HeadTailProperties
  <2>6. \A i \in 1 .. Len(u) : Tail(<<e>> \o u)[i] = u[i]
    <3>1. ASSUME NEW i \in 1 .. Len(u)
          PROVE  Tail(<<e>> \o u)[i] = u[i]
      <4>1. i + 1 \in 1 .. 1 + Len(u) /\ ~(i + 1 <= 1) /\ (i + 1) - 1 = i
        BY <2>1
      <4>2. (<<e>> \o u)[i + 1] = u[(i + 1) - 1]
        BY <2>1, <4>1
      <4>3. QED
        BY <2>5, <4>1, <4>2
    <3>2. QED
      BY <3>1
  <2>7. Tail(<<e>> \o u) = u
    BY <2>5, <2>6, SeqEqual
  <2>8. QED
    BY <2>2, <2>4, <2>7
<1>4. QED
  BY <1>1, <1>2, <1>3

\* Two lines that differ in marks only.
LEMMA UnmarkedSame ==
    ASSUME NEW W \in Seq(Frames), NEW Q \in Seq(Frames), NEW L \in Seq(Frames),
           NEW v \in Frames, NEW w \in Frames, Same(v, w)
    PROVE  Unmarked(W \o Q \o <<v>> \o L) = Unmarked(W \o Q \o <<w>> \o L)
<1>1. <<v>> \in Seq(Frames) /\ <<w>> \in Seq(Frames) /\ Unmarked(<<v>>) = Unmarked(<<w>>)
  <2>1. Name(v) = Name(w)
    BY DEF Name, Same
  <2>2. QED
    BY <2>1, UnmarkedOne
<1>2. W \o Q \in Seq(Frames) /\ W \o Q \o <<v>> \in Seq(Frames) /\ W \o Q \o <<w>> \in Seq(Frames)
  BY <1>1, JoinedType
<1>3. /\ Unmarked((W \o Q) \o <<v>>) = Unmarked(W \o Q) \o Unmarked(<<v>>)
      /\ Unmarked((W \o Q) \o <<w>>) = Unmarked(W \o Q) \o Unmarked(<<w>>)
  BY <1>1, <1>2, UnmarkedConcat
<1>4. /\ Unmarked((W \o Q \o <<v>>) \o L) = Unmarked(W \o Q \o <<v>>) \o Unmarked(L)
      /\ Unmarked((W \o Q \o <<w>>) \o L) = Unmarked(W \o Q \o <<w>>) \o Unmarked(L)
  BY <1>2, UnmarkedConcat
<1>5. QED
  BY <1>1, <1>3, <1>4


------------------------------------------------------------------------------
(* RGBDStreamIO implements FrameFlow.  First what a step does to the parts *)
(* of the line.                                                            *)
LEMMA StoredStill ==
    ASSUME NEW q, QueueStill(q)
    PROVE  Stored(q)' = Stored(q)
  BY DEF QueueStill, Stored

LEMMA CarriedStill ==
    ASSUME NEW a, Untouched(a)
    PROVE  Carried(a)' = Carried(a)
  BY DEF Untouched, Undisturbed, Carried

LEMMA StoredType ==
    ASSUME StreamIInv, NEW q \in Queues
    PROVE  /\ items[q] \in Seq(Objects)
           /\ Len(items[q]) \in Nat /\ DOMAIN items[q] = 1 .. Len(items[q])
           /\ Stored(q) \in Seq(Frames)
           /\ Len(Stored(q)) = Len(items[q])
           /\ \A i \in 1 .. Len(items[q]) : Stored(q)[i] = content[items[q][i]]
<1>1. /\ items[q] \in Seq(Objects)
      /\ Len(items[q]) \in Nat /\ DOMAIN items[q] = 1 .. Len(items[q])
  BY DEF StreamIInv, IInv, TypeOK, Stores
<1>2. \A i \in 1 .. Len(items[q]) : content[items[q][i]] \in Frames
  BY <1>1, FrameFacts DEF StreamIInv, QueuesHold, Kinds
<1>3. Stored(q) = [i \in 1 .. Len(items[q]) |-> content[items[q][i]]]
  BY <1>1 DEF Stored
<1>4. Stored(q) \in Seq(Frames) /\ Len(Stored(q)) = Len(items[q])
  BY <1>1, <1>2, <1>3
<1>5. QED
  BY <1>1, <1>3, <1>4

LEMMA LineType ==
    ASSUME StreamIInv
    PROVE  /\ Carried(Writer) \in Seq(Frames) /\ Stored(WriteQueue) \in Seq(Frames)
           /\ Carried(Live) \in Seq(Frames) /\ Stored(LiveQueue) \in Seq(Frames)
           /\ Line \in Seq(Frames)
           /\ written \in Seq(Frames)
<1>1. Stored(WriteQueue) \in Seq(Frames) /\ Stored(LiveQueue) \in Seq(Frames)
  BY StoredType, StreamRoles
<1>2. Carried(Writer) \in Seq(Frames) /\ Carried(Live) \in Seq(Frames)
  BY FrameFacts DEF StreamIInv, InPlace, WriterInPlace, LiveInPlace, Carried
<1>3. written \in Seq(Frames)
  BY FrameFacts DEF StreamIInv, Counted
<1>4. QED
  BY <1>1, <1>2, <1>3, JoinedType DEF Line

LEMMA StoredTaken ==
    ASSUME StreamIInv, NEW q \in Queues, UNCHANGED content,
           items[q] # <<>>, items'[q] = Tail(items[q])
    PROVE  /\ Stored(q) # <<>>
           /\ content[Head(items[q])] = Head(Stored(q))
           /\ Stored(q)' = Tail(Stored(q))
<1>1. /\ items[q] \in Seq(Objects)
      /\ Len(items[q]) \in Nat /\ DOMAIN items[q] = 1 .. Len(items[q])
      /\ Stored(q) \in Seq(Frames)
      /\ Len(Stored(q)) = Len(items[q])
      /\ \A i \in 1 .. Len(items[q]) : Stored(q)[i] = content[items[q][i]]
  BY StoredType
<1>2. /\ Len(items[q]) \in Nat \ {0}
      /\ Head(items[q]) = items[q][1]
      /\ DOMAIN Tail(items[q]) = 1 .. Len(items[q]) - 1
      /\ \A i \in 1 .. Len(items[q]) - 1 : Tail(items[q])[i] = items[q][i + 1]
  BY <1>1, TailAt
<1>3. Stored(q) # <<>>
  BY <1>1, <1>2
<1>4. /\ Head(Stored(q)) = Stored(q)[1]
      /\ Tail(Stored(q)) \in Seq(Frames)
      /\ DOMAIN Tail(Stored(q)) = 1 .. Len(items[q]) - 1
      /\ \A i \in 1 .. Len(items[q]) - 1 : Tail(Stored(q))[i] = Stored(q)[i + 1]
  BY <1>1, <1>3, TailAt
<1>5. Stored(q)' = [i \in 1 .. Len(items[q]) - 1 |-> content[Tail(items[q])[i]]]
  BY <1>2 DEF Stored
<1>6. \A i \in 1 .. Len(items[q]) - 1 : content[Tail(items[q])[i]] = Tail(Stored(q))[i]
  <2>1. ASSUME NEW i \in 1 .. Len(items[q]) - 1
        PROVE  content[Tail(items[q])[i]] = Tail(Stored(q))[i]
    <3>1. i + 1 \in 1 .. Len(items[q])
      BY <1>2
    <3>2. Stored(q)[i + 1] = content[items[q][i + 1]]
      BY <1>1, <3>1
    <3>3. QED
      BY <1>2, <1>4, <3>2
  <2>2. QED
    BY <2>1
<1>7. Tail(Stored(q)) = [i \in 1 .. Len(items[q]) - 1 |-> Tail(Stored(q))[i]]
  <2>1. \A s \in Seq(Frames) : s = [i \in DOMAIN s |-> s[i]]
    OBVIOUS
  <2>2. QED
    BY <1>4, <2>1, Zenon
<1>8. Stored(q)' = Tail(Stored(q))
  BY <1>5, <1>6, <1>7
<1>9. QED
  BY <1>1, <1>2, <1>3, <1>4, <1>8

LEMMA StoredPut ==
    ASSUME StreamIInv, NEW q \in Queues, UNCHANGED content,
           NEW o \in Objects, content[o] \in Frames, items'[q] = Append(items[q], o)
    PROVE  Stored(q)' = Append(Stored(q), content[o])
<1>1. /\ items[q] \in Seq(Objects)
      /\ Len(items[q]) \in Nat /\ DOMAIN items[q] = 1 .. Len(items[q])
      /\ Stored(q) \in Seq(Frames)
      /\ Len(Stored(q)) = Len(items[q])
      /\ \A i \in 1 .. Len(items[q]) : Stored(q)[i] = content[items[q][i]]
  BY StoredType
<1>2. /\ DOMAIN Append(items[q], o) = 1 .. Len(items[q]) + 1
      /\ \A i \in 1 .. Len(items[q]) : Append(items[q], o)[i] = items[q][i]
      /\ Append(items[q], o)[Len(items[q]) + 1] = o
  BY <1>1, AppendAt
<1>3. /\ Append(Stored(q), content[o]) \in Seq(Frames)
      /\ DOMAIN Append(Stored(q), content[o]) = 1 .. Len(items[q]) + 1
      /\ \A i \in 1 .. Len(items[q]) : Append(Stored(q), content[o])[i] = Stored(q)[i]
      /\ Append(Stored(q), content[o])[Len(items[q]) + 1] = content[o]
  BY <1>1, AppendAt
<1>4. Stored(q)' = [i \in 1 .. Len(items[q]) + 1 |-> content[Append(items[q], o)[i]]]
  BY <1>2 DEF Stored
<1>5. \A i \in 1 .. Len(items[q]) + 1 :
          content[Append(items[q], o)[i]] = Append(Stored(q), content[o])[i]
  <2>1. ASSUME NEW i \in 1 .. Len(items[q]) + 1
        PROVE  content[Append(items[q], o)[i]] = Append(Stored(q), content[o])[i]
    <3>1. CASE i \in 1 .. Len(items[q])
      BY <1>1, <1>2, <1>3, <3>1
    <3>2. CASE i = Len(items[q]) + 1
      BY <1>2, <1>3, <3>2
    <3>3. QED
      BY <1>1, <3>1, <3>2
  <2>2. QED
    BY <2>1
<1>6. Append(Stored(q), content[o]) =
          [i \in 1 .. Len(items[q]) + 1 |-> Append(Stored(q), content[o])[i]]
  BY <1>3
<1>7. QED
  BY <1>4, <1>5, <1>6


\* A step that leaves the line and its ends alone.
LEMMA LineStill ==
    ASSUME QueueStill(WriteQueue), QueueStill(LiveQueue), Untouched(Writer), Untouched(Live)
    PROVE  Line' = Line
<1>1. /\ Stored(WriteQueue)' = Stored(WriteQueue) /\ Stored(LiveQueue)' = Stored(LiveQueue)
      /\ Carried(Writer)' = Carried(Writer) /\ Carried(Live)' = Carried(Live)
  BY StoredStill, CarriedStill
<1>2. QED
  BY <1>1 DEF Line

\* Asking for an unused buffer.
LEMMA PutCallLeavesLine ==
    ASSUME StreamIInv, NEW a \in Acqs, a # Live, a # Writer, BlockingCall(a, PutCall)
    PROVE  Line' = Line
<1>0. IInv
  BY DEF StreamIInv
<1>1. OwnStep(a) /\ \A q \in Queues : QueueStill(q) \/ StoreOf(PutCall) = q
  BY <1>0, StreamCalls, BlockingCallEffect
<1>2. QueueStill(WriteQueue) /\ QueueStill(LiveQueue)
  BY <1>1, StreamCalls, StreamRoles
<1>3. Untouched(Writer) /\ Untouched(Live)
  BY <1>0, <1>1, OwnStepAlone, StreamRoles
<1>4. QED
  BY <1>2, <1>3, LineStill

\* Writing into a buffer that is not on the line, or giving it back.
LEMMA OwnBufferLeavesLine ==
    ASSUME StreamIInv, NEW a \in Acqs, a # Live, a # Writer, OwnStep(a),
           pc[a] \in {"live", "thrown"}, ~Destroy(a) \/ ~GoesOn(a)
    PROVE  Line' = Line
<1>0. IInv
  BY DEF StreamIInv
<1>1. QueueStill(WriteQueue) /\ QueueStill(LiveQueue)
  BY <1>0, OwnStepOnQueue, StreamRoles
<1>2. Untouched(Writer) /\ Untouched(Live)
  BY <1>0, OwnStepAlone, StreamRoles
<1>3. QED
  BY <1>1, <1>2, LineStill

LEMMA ProducerImplements ==
    ASSUME StreamIInv, NEW p \in Producers, Producer(p)
    PROVE  Flow!Put(p) \/ (Line' = Line /\ UNCHANGED <<queued, written>>)
<1>0. IInv /\ ProducerInPlace(p) /\ p \in Acqs /\ p # Live /\ p # Writer /\ Counted
  BY StreamRoles DEF StreamIInv, InPlace
<1>1. CASE QueueFrame(p) \/ (Constructing(p) /\ UNCHANGED streamVars)
  <2>1. BlockingCall(p, PutCall) /\ UNCHANGED streamVars
    <3>1. CASE QueueFrame(p)
      BY <3>1 DEF QueueFrame, Construct, BlockingCall, PutCall
    <3>2. pc[p] # "idle" => InCall(p, PutCall) \/ pc[p] = "live"
      BY <1>0 DEF ProducerInPlace
    <3>3. QED
      BY <1>1, <3>1, <3>2, InConstructor
  <2>2. QED
    BY <1>0, <2>1, PutCallLeavesLine DEF streamVars
<1>2. CASE FillFrame(p)
  <2>1. pc[p] = "live" /\ pc'[p] = pc[p] /\ UNCHANGED streamVars
    BY <1>2 DEF FillFrame
  <2>2. ~Destroy(p)
    BY <1>0, <2>1, DestroyEffect
  <2>3. OwnStep(p)
    BY <1>2, FillFrameIsOwnStep
  <2>4. QED
    BY <1>0, <2>1, <2>2, <2>3, OwnBufferLeavesLine DEF streamVars
<1>3. CASE FrameQueued(p) /\ data[p] = NULL
  <2>1. OwnStep(p) /\ pc[p] = "live" /\ ~GoesOn(p)
    <3>1. Destroy(p)
      BY <1>3 DEF FrameQueued
    <3>2. ~enq[p]
      BY <1>0, <1>3 DEF ProducerInPlace
    <3>3. QED
      BY <1>0, <3>1, <3>2, DestroyEffect DEF OwnStep, GoesOn
  <2>2. UNCHANGED <<queued, written>>
    BY <1>0, <1>3 DEF FrameQueued, Counted
  <2>3. QED
    BY <1>0, <2>1, <2>2, OwnBufferLeavesLine
<1>4. CASE FrameQueued(p) /\ data[p] # NULL
  <2> DEFINE v == content[data[p]]
  <2>1. /\ Destroy(p) /\ pc[p] = "live" /\ enq[p] /\ next[p] = LiveQueue
        /\ v = Frame(p, queued[p] + 1, FALSE)
        /\ queued' = [queued EXCEPT ![p] = @ + 1] /\ UNCHANGED written
    <3>1. Destroy(p) /\ enq[p] /\ queued' = [queued EXCEPT ![p] = @ + 1] /\ UNCHANGED written
      BY <1>4 DEF FrameQueued
    <3>2. pc[p] = "live"
      BY <1>0, <3>1, DestroyEffect
    <3>3. QED
      BY <1>0, <3>1, <3>2 DEF ProducerInPlace
  <2>2. queued[p] < MaxFrames /\ queued[p] + 1 \in 1 .. MaxFrames
    <3>1. queued[p] < MaxFrames
      BY <1>0, <2>1 DEF ProducerInPlace
    <3>2. queued[p] \in 0 .. MaxFrames
      BY <1>0 DEF Counted
    <3>3. QED
      BY <3>1, <3>2, StreamRoles
  <2>3. v \in Frames /\ Name(v) = [from |-> p, seq |-> queued[p] + 1]
    <3>1. v \in Frames
      BY <2>1, <2>2, FrameFacts
    <3>2. v.from = p /\ v.seq = queued[p] + 1
      BY <2>1 DEF Frame
    <3>3. QED
      BY <3>1, <3>2 DEF Name
  <2>4. GoesOn(p)
    BY <2>1, StreamRoles, WorkerAssumption DEF GoesOn, Stores
  <2>5. UNCHANGED content /\ items' = [items EXCEPT ![LiveQueue] = Append(@, data[p])]
    BY <1>0, <1>4, <2>1, <2>4, DestroyEffect
  <2>6. /\ items'[LiveQueue] = Append(items[LiveQueue], data[p])
        /\ items'[WriteQueue] = items[WriteQueue]
        /\ data[p] \in Objects
    <3>1. items \in [Stores -> Seq(Objects)] /\ data[p] \in Objects
      BY <1>0, <1>4 DEF IInv, TypeOK
    <3>2. QED
      BY <2>5, <3>1, StreamRoles DEF Stores
  <2>7. Stored(LiveQueue)' = Append(Stored(LiveQueue), v)
    BY <2>3, <2>5, <2>6, StoredPut, StreamRoles
  <2>8. /\ Stored(WriteQueue)' = Stored(WriteQueue)
        /\ Carried(Writer)' = Carried(Writer) /\ Carried(Live)' = Carried(Live)
    <3>1. QueueStill(WriteQueue)
      BY <2>5, <2>6 DEF QueueStill
    <3>2. Untouched(Writer) /\ Untouched(Live)
      BY <1>0, <2>1, OwnStepAlone, StreamRoles DEF OwnStep
    <3>3. QED
      BY <3>1, <3>2, StoredStill, CarriedStill
  <2> HIDE DEF v
  <2>9. Line' = Append(Line, v)
    <3>1. Line' = Joined(Carried(Writer), Stored(WriteQueue), Carried(Live),
                         Append(Stored(LiveQueue), v))
      BY <2>7, <2>8 DEF Line, Joined
    <3>2. Line = Joined(Carried(Writer), Stored(WriteQueue), Carried(Live), Stored(LiveQueue))
      BY DEF Line, Joined
    <3>3. /\ Carried(Writer) \in Lines /\ Stored(WriteQueue) \in Lines
          /\ Carried(Live) \in Lines /\ Stored(LiveQueue) \in Lines
      BY LineType DEF Lines
    <3>4. Grows(Carried(Writer), Stored(WriteQueue), Carried(Live), Stored(LiveQueue), v)
      BY <2>3, <3>3, LineGrows
    <3>5. QED
      BY <3>1, <3>2, <3>4, Zenon DEF Grows
  <2>10. Unmarked(Line)' = Append(Unmarked(Line), Name(v))
    <3>1. Unmarked(Append(Line, v)) = Append(Unmarked(Line), Name(v))
      BY <2>3, LineType, UnmarkedAppend
    <3>2. Unmarked(Line)' = Unmarked(Append(Line, v))
      BY <2>9 DEF Unmarked
    <3>3. QED
      BY <3>1, <3>2
  <2>11. Unmarked(written)' = Unmarked(written)
    BY <2>1 DEF Unmarked
  <2>12. QED
    BY <2>1, <2>2, <2>3, <2>10, <2>11 DEF Flow!Put
<1>5. CASE Throws(p)
  BY <1>5 DEF Throws, vars, acqVars, Line, Carried, Stored
<1>6. QED
  BY <1>1, <1>2, <1>3, <1>4, <1>5 DEF Producer


LEMMA LiveImplements ==
    ASSUME StreamIInv, LiveThread
    PROVE  Unmarked(Line') = Unmarked(Line) /\ UNCHANGED <<queued, written>>
<1>0. IInv /\ LiveInPlace /\ Live \in Acqs /\ Live # Writer /\ LiveQueue # WriteQueue
  BY StreamRoles DEF StreamIInv, InPlace
<1>1. PICK W \in Seq(Frames), Q \in Seq(Frames), C \in Seq(Frames), L \in Seq(Frames) :
          /\ W = Carried(Writer) /\ Q = Stored(WriteQueue)
          /\ C = Carried(Live) /\ L = Stored(LiveQueue)
  BY LineType
<1>2. Line = W \o Q \o C \o L
  BY <1>1 DEF Line
<1>3. UNCHANGED <<queued, written>>
  BY DEF LiveThread, LiveTake, LiveMark, LiveEndOfScope, streamVars
<1>4. CASE LiveTake \/ (Constructing(Live) /\ UNCHANGED streamVars)
  <2>1. BlockingCall(Live, LiveCall)
    BY <1>4, LiveTakes
  <2>2. /\ OwnStep(Live) /\ UNCHANGED content
        /\ \/ data'[Live] = NULL
           \/ /\ data'[Live] # NULL
              /\ items[LiveQueue] # <<>>
              /\ items'[LiveQueue] = Tail(items[LiveQueue])
              /\ data'[Live] = Head(items[LiveQueue])
        /\ \A q \in Queues : QueueStill(q) \/ (LiveQueue = q /\ data'[Live] # NULL)
    BY <1>0, <2>1, StreamCalls, BlockingCallEffect
  <2>3. QueueStill(WriteQueue) /\ Untouched(Writer)
    BY <1>0, <2>2, OwnStepAlone, StreamRoles
  <2>4. Stored(WriteQueue)' = Q /\ Carried(Writer)' = W
    BY <1>1, <2>3, StoredStill, CarriedStill
  <2>5. C = <<>>
    <3>1. pc[Live] # "live"
      BY <2>1 DEF BlockingCall, Acquire, AcquireUnlock, InCall
    <3>2. QED
      BY <1>0, <1>1, <3>1 DEF IInv, HoldsWhenLive, Carried
  <2>6. CASE data'[Live] = NULL
    <3>1. QueueStill(LiveQueue)
      BY <2>2, <2>6, StreamRoles
    <3>2. Stored(LiveQueue)' = L /\ Carried(Live)' = C
      BY <1>1, <2>5, <2>6, <3>1, StoredStill DEF Carried
    <3>3. Line' = W \o Q \o C \o L
      BY <2>4, <3>2 DEF Line
    <3>4. QED
      BY <1>2, <1>3, <3>3
  <2>7. CASE data'[Live] # NULL
    <3>1. L # <<>> /\ content[Head(items[LiveQueue])] = Head(L) /\ Stored(LiveQueue)' = Tail(L)
      BY <1>1, <2>2, <2>7, StoredTaken, StreamRoles
    <3>2. Carried(Live)' = <<Head(L)>>
      BY <2>2, <2>7, <3>1 DEF Carried
    <3>3. Line' = Joined(W, Q, <<Head(L)>>, Tail(L))
      BY <2>4, <3>1, <3>2 DEF Line, Joined
    <3>4. Joined(W, Q, <<Head(L)>>, Tail(L)) = Joined(W, Q, <<>>, L)
      BY <1>1, <3>1, LiveMovesMessage
    <3>5. Line = Joined(W, Q, <<>>, L)
      BY <1>2, <2>5 DEF Joined
    <3>6. QED
      BY <1>3, <3>3, <3>4, <3>5
  <2>8. QED
    BY <2>6, <2>7
<1>5. CASE LiveMark
  <2> DEFINE w == content[data[Live]]
             v == [w EXCEPT !.all = TRUE]
  <2>1. /\ pc[Live] = "live" /\ data[Live] # NULL /\ pc' = pc /\ data' = data
        /\ content' = [content EXCEPT ![data[Live]] = v]
    BY <1>5 DEF LiveMark
  <2>2. w \in Frames /\ v \in Frames /\ Same(v, w)
    BY <1>0, <2>1, FrameFacts DEF LiveInPlace
  <2>3. C = <<w>>
    BY <1>1, <2>1 DEF Carried
  <2>4. content'[data[Live]] = v
    BY <1>0, <2>1 DEF IInv, TypeOK
  <2>5. Carried(Live)' = <<v>>
    BY <2>1, <2>4 DEF Carried
  <2>6. OwnStep(Live) /\ ~Destroy(Live)
    BY <1>0, <1>5, <2>1, LiveMarkIsOwnStep, DestroyEffect
  <2>7. QueueStill(WriteQueue) /\ QueueStill(LiveQueue) /\ Untouched(Writer)
    BY <1>0, <2>1, <2>6, OwnStepOnQueue, OwnStepAlone, StreamRoles
  <2>8. Stored(WriteQueue)' = Q /\ Stored(LiveQueue)' = L /\ Carried(Writer)' = W
    BY <1>1, <2>7, StoredStill, CarriedStill
  <2> HIDE DEF v, w
  <2>9. Line' = W \o Q \o <<v>> \o L
    BY <2>5, <2>8 DEF Line
  <2>10. Unmarked(W \o Q \o <<v>> \o L) = Unmarked(W \o Q \o <<w>> \o L)
    BY <2>2, UnmarkedSame
  <2>11. QED
    BY <1>2, <1>3, <2>3, <2>9, <2>10
<1>6. CASE LiveEndOfScope /\ data[Live] = NULL
  <2>1. Destroy(Live)
    BY <1>6 DEF LiveEndOfScope
  <2>2. data'[Live] = NULL /\ UNCHANGED <<items, content>>
    BY <1>0, <1>6, <2>1, DestroyEffect
  <2>3. Untouched(Writer)
    BY <1>0, <2>1, OwnStepAlone, StreamRoles DEF OwnStep
  <2>4. Carried(Writer)' = W /\ Carried(Live)' = C
    BY <1>1, <1>6, <2>2, <2>3, CarriedStill DEF Carried
  <2>5. Stored(WriteQueue)' = Q /\ Stored(LiveQueue)' = L
    BY <1>1, <2>2 DEF Stored
  <2>6. Line' = W \o Q \o C \o L
    BY <2>4, <2>5 DEF Line
  <2>7. QED
    BY <1>2, <1>3, <2>6
<1>7. CASE LiveEndOfScope /\ data[Live] # NULL
  <2> DEFINE v == content[data[Live]]
  <2>1. /\ Destroy(Live) /\ next[Live] = WriteQueue /\ GoesOn(Live)
        /\ v \in Frames /\ data[Live] \in Objects
    BY <1>0, <1>7, StreamRoles, WorkerAssumption
       DEF LiveEndOfScope, LiveInPlace, GoesOn, Stores, IInv, TypeOK
  <2>2. /\ UNCHANGED content /\ data'[Live] = NULL
        /\ items' = [items EXCEPT ![WriteQueue] = Append(@, data[Live])]
    BY <1>0, <1>7, <2>1, DestroyEffect
  <2>3. /\ items'[WriteQueue] = Append(items[WriteQueue], data[Live])
        /\ items'[LiveQueue] = items[LiveQueue]
    <3>1. items \in [Stores -> Seq(Objects)] /\ WriteQueue \in Stores
      BY <1>0, StreamRoles DEF IInv, TypeOK, Stores
    <3>2. QED
      BY <1>0, <2>2, <3>1
  <2>4. Stored(WriteQueue)' = Append(Q, v)
    BY <1>1, <2>1, <2>2, <2>3, StoredPut, StreamRoles
  <2>5. QueueStill(LiveQueue) /\ Untouched(Writer)
    BY <1>0, <2>1, <2>2, <2>3, OwnStepAlone, StreamRoles DEF QueueStill, OwnStep
  <2>6. Stored(LiveQueue)' = L /\ Carried(Writer)' = W
    BY <1>1, <2>5, StoredStill, CarriedStill
  <2>7. C = <<v>> /\ Carried(Live)' = <<>>
    BY <1>1, <1>7, <2>2 DEF Carried
  <2> HIDE DEF v
  <2>8. Line' = Joined(W, Append(Q, v), <<>>, L)
    BY <2>4, <2>6, <2>7 DEF Line, Joined
  <2>9. Line = Joined(W, Q, <<v>>, L)
    BY <1>2, <2>7 DEF Joined
  <2>10. Joined(W, Append(Q, v), <<>>, L) = Joined(W, Q, <<v>>, L)
    BY <1>1, <2>1, LiveHandsOn
  <2>11. QED
    BY <1>3, <2>8, <2>9, <2>10
<1>8. QED
  BY <1>4, <1>5, <1>6, <1>7 DEF LiveThread


LEMMA WriterImplements ==
    ASSUME StreamIInv, WriterThread
    PROVE  Flow!Write \/ (Line' = Line /\ UNCHANGED <<queued, written>>)
<1>0. IInv /\ WriterInPlace /\ Writer \in Acqs /\ Live # Writer /\ LiveQueue # WriteQueue
  BY StreamRoles DEF StreamIInv, InPlace
<1>1. PICK W \in Seq(Frames), Q \in Seq(Frames), C \in Seq(Frames), L \in Seq(Frames) :
          /\ W = Carried(Writer) /\ Q = Stored(WriteQueue)
          /\ C = Carried(Live) /\ L = Stored(LiveQueue)
  BY LineType
<1>2. Line = W \o Q \o C \o L
  BY <1>1 DEF Line
<1>3. CASE WriterTake \/ (Constructing(Writer) /\ UNCHANGED streamVars)
  <2>1. BlockingCall(Writer, WriteCall)
    BY <1>3, WriterTakes
  <2>2. /\ OwnStep(Writer) /\ UNCHANGED content
        /\ \/ data'[Writer] = NULL
           \/ /\ data'[Writer] # NULL
              /\ items[WriteQueue] # <<>>
              /\ items'[WriteQueue] = Tail(items[WriteQueue])
              /\ data'[Writer] = Head(items[WriteQueue])
        /\ \A q \in Queues : QueueStill(q) \/ (WriteQueue = q /\ data'[Writer] # NULL)
    BY <1>0, <2>1, StreamCalls, BlockingCallEffect
  <2>3. QueueStill(LiveQueue) /\ Untouched(Live)
    BY <1>0, <2>2, OwnStepAlone, StreamRoles
  <2>4. Stored(LiveQueue)' = L /\ Carried(Live)' = C
    BY <1>1, <2>3, StoredStill, CarriedStill
  <2>5. W = <<>>
    <3>1. pc[Writer] # "live"
      BY <2>1 DEF BlockingCall, Acquire, AcquireUnlock, InCall
    <3>2. QED
      BY <1>0, <1>1, <3>1 DEF IInv, HoldsWhenLive, Carried
  <2>6. UNCHANGED <<queued, written>>
    BY <1>3 DEF WriterTake, streamVars
  <2>7. CASE data'[Writer] = NULL
    <3>1. QueueStill(WriteQueue)
      BY <2>2, <2>7, StreamRoles
    <3>2. Stored(WriteQueue)' = Q /\ Carried(Writer)' = W
      BY <1>1, <2>5, <2>7, <3>1, StoredStill DEF Carried
    <3>3. Line' = W \o Q \o C \o L
      BY <2>4, <3>2 DEF Line
    <3>4. QED
      BY <1>2, <2>6, <3>3
  <2>8. CASE data'[Writer] # NULL
    <3>1. Q # <<>> /\ content[Head(items[WriteQueue])] = Head(Q) /\ Stored(WriteQueue)' = Tail(Q)
      BY <1>1, <2>2, <2>8, StoredTaken, StreamRoles
    <3>2. Carried(Writer)' = <<Head(Q)>>
      BY <2>2, <2>8, <3>1 DEF Carried
    <3>3. Line' = Joined(<<Head(Q)>>, Tail(Q), C, L)
      BY <2>4, <3>1, <3>2 DEF Line, Joined
    <3>4. Joined(<<Head(Q)>>, Tail(Q), C, L) = Joined(<<>>, Q, C, L)
      BY <1>1, <3>1, WriterMovesMessage
    <3>5. Line = Joined(<<>>, Q, C, L)
      BY <1>2, <2>5 DEF Joined
    <3>6. QED
      BY <2>6, <3>3, <3>4, <3>5
  <2>9. QED
    BY <2>7, <2>8
<1>4. CASE WriterEndOfScope /\ data[Writer] = NULL
  <2>1. Destroy(Writer) /\ UNCHANGED <<queued, written>>
    BY <1>4 DEF WriterEndOfScope
  <2>2. data'[Writer] = NULL /\ UNCHANGED <<items, content>>
    BY <1>0, <1>4, <2>1, DestroyEffect
  <2>3. Untouched(Live)
    BY <1>0, <2>1, OwnStepAlone, StreamRoles DEF OwnStep
  <2>4. Carried(Writer)' = W /\ Carried(Live)' = C
    BY <1>1, <1>4, <2>2, <2>3, CarriedStill DEF Carried
  <2>5. Stored(WriteQueue)' = Q /\ Stored(LiveQueue)' = L
    BY <1>1, <2>2 DEF Stored
  <2>6. Line' = W \o Q \o C \o L
    BY <2>4, <2>5 DEF Line
  <2>7. QED
    BY <1>2, <2>1, <2>6
<1>5. CASE WriterEndOfScope /\ data[Writer] # NULL
  <2> DEFINE v == content[data[Writer]]
  <2>1. /\ UNCHANGED queued /\ written' = Append(written, v)
        /\ data'[Writer] = NULL /\ OwnStep(Writer)
        /\ pc[Writer] = "live" /\ ~GoesOn(Writer)
    <3>1. Destroy(Writer) /\ UNCHANGED queued /\ written' = Append(written, v)
      BY <1>5 DEF WriterEndOfScope
    <3>2. ~GoesOn(Writer)
      BY <1>0 DEF WriterInPlace, GoesOn
    <3>3. QED
      BY <1>0, <1>5, <3>1, <3>2, WriterSees, DestroyEffect
  <2>2. v \in Frames
    BY <1>0, <1>5, FrameFacts DEF WriterInPlace
  <2>3. QueueStill(WriteQueue) /\ QueueStill(LiveQueue) /\ Untouched(Live)
    BY <1>0, <2>1, OwnStepOnQueue, OwnStepAlone, StreamRoles
  <2>4. Stored(WriteQueue)' = Q /\ Stored(LiveQueue)' = L /\ Carried(Live)' = C
    BY <1>1, <2>3, StoredStill, CarriedStill
  <2>5. W = <<v>> /\ Carried(Writer)' = <<>>
    BY <1>1, <1>5, <2>1 DEF Carried
  <2> HIDE DEF v
  <2>6. Line' = Joined(<<>>, Q, C, L)
    BY <2>4, <2>5 DEF Line, Joined
  <2>7. Line = Joined(<<v>>, Q, C, L)
    BY <1>2, <2>5 DEF Joined
  <2>8. Line = <<v>> \o Line'
    <3>1. <<v>> \in Lines /\ Q \in Lines /\ C \in Lines /\ L \in Lines
      BY <1>1, <2>2 DEF Lines
    <3>2. Splits(<<v>>, Q, C, L)
      BY <3>1, HeadOfLine
    <3>3. QED
      BY <2>6, <2>7, <3>2, Zenon DEF Splits
  <2>9. Line' \in Seq(Frames)
    <3>1. <<>> \in Seq(Frames)
      OBVIOUS
    <3>2. QED
      BY <1>1, <2>6, <3>1, JoinedType DEF Joined
  <2>10. /\ Unmarked(Line) # <<>>
         /\ Head(Unmarked(Line)) = Name(v)
         /\ Tail(Unmarked(Line)) = Unmarked(Line')
    <3>1. PICK T \in Seq(Frames) : T = Line'
      BY <2>9
    <3>2. /\ Unmarked(<<v>> \o T) # <<>>
          /\ Head(Unmarked(<<v>> \o T)) = Name(v)
          /\ Tail(Unmarked(<<v>> \o T)) = Unmarked(T)
      BY <2>2, <3>1, UnmarkedHeadAndTail
    <3>3. QED
      BY <2>8, <3>1, <3>2
  <2>11. Unmarked(written') = Append(Unmarked(written), Name(v))
    BY <2>1, <2>2, LineType, UnmarkedAppend
  <2>12. Unmarked(Line)' = Unmarked(Line') /\ Unmarked(written)' = Unmarked(written')
    BY DEF Unmarked
  <2>13. QED
    BY <2>1, <2>10, <2>11, <2>12 DEF Flow!Write
<1>6. QED
  BY <1>3, <1>4, <1>5 DEF WriterThread

LEMMA NetworkImplements ==
    ASSUME StreamIInv, NetworkThread
    PROVE  Line' = Line /\ UNCHANGED <<queued, written>>
<1>0. IInv /\ NetworkInPlace /\ Network \in Acqs /\ Network # Live /\ Network # Writer
  BY StreamRoles DEF StreamIInv, InPlace
<1>1. UNCHANGED <<queued, written>>
  BY DEF NetworkThread, streamVars
<1>2. CASE Construct(Network, Blocking(LiveQueue, "UNUSED")) \/ Constructing(Network)
  <2>1. CASE Construct(Network, Blocking(LiveQueue, "UNUSED"))
    BY <1>0, <1>1, <2>1, PutCallLeavesLine DEF Construct, BlockingCall, PutCall
  <2>2. pc[Network] # "idle" => InCall(Network, PutCall) \/ pc[Network] = "live"
    BY <1>0 DEF NetworkInPlace
  <2>3. CASE Constructing(Network)
    BY <1>0, <1>1, <2>2, <2>3, InConstructor, PutCallLeavesLine
  <2>4. QED
    BY <1>2, <2>1, <2>3
<1>3. CASE Destroy(Network) \/ Catch(Network)
  <2>1. OwnStep(Network) /\ pc[Network] \in {"live", "thrown"} /\ ~GoesOn(Network)
    BY <1>0, <1>3, DestroyEffect DEF OwnStep, Catch, GoesOn, NetworkInPlace
  <2>2. QED
    BY <1>0, <1>1, <2>1, OwnBufferLeavesLine
<1>4. QED
  BY <1>2, <1>3 DEF NetworkThread

LEMMA StepIsFlowStep ==
    ASSUME StreamIInv, [StreamNext]_allVars
    PROVE  [Flow!Next]_(Flow!vars)
<1>1. ASSUME Unmarked(Line') = Unmarked(Line), UNCHANGED <<queued, written>>
      PROVE  UNCHANGED Flow!vars
  <2>1. Unmarked(Line)' = Unmarked(Line) /\ Unmarked(written)' = Unmarked(written)
    BY <1>1 DEF Unmarked
  <2>2. QED
    BY <1>1, <2>1 DEF Flow!vars
<1>2. CASE \E p \in Producers : Producer(p)
  BY <1>1, <1>2, ProducerImplements DEF Flow!Next
<1>3. CASE LiveThread
  BY <1>1, <1>3, LiveImplements
<1>4. CASE WriterThread
  BY <1>1, <1>4, WriterImplements DEF Flow!Next
<1>5. CASE NetworkThread
  BY <1>1, <1>5, NetworkImplements
<1>6. CASE (\E a \in Acqs : WakeSpuriously(a) /\ UNCHANGED streamVars) \/ UNCHANGED allVars
  <2>1. UNCHANGED <<items, content, data, queued, written>>
    BY <1>6 DEF WakeSpuriously, allVars, streamVars, vars, acqVars
  <2>2. Line' = Line
    BY <2>1 DEF Line, Carried, Stored
  <2>3. QED
    BY <1>1, <2>1, <2>2
<1>7. QED
  BY <1>2, <1>3, <1>4, <1>5, <1>6 DEF StreamNext

\* Producers, live thread, writer thread, the two queues and the buffers they
\* share with the network are one line: what an operation of RGBDDevice was told
\* is queued comes to the writer in the order in which it was queued.
THEOREM StreamImplementsFrameFlow == StreamSpec => ImplementsFrameFlow
<1>1. StreamInit => Flow!Init
  <2> SUFFICES ASSUME StreamInit
               PROVE  Flow!Init
    OBVIOUS
  <2>1. /\ items[WriteQueue] = <<>> /\ items[LiveQueue] = <<>>
        /\ data[Writer] = NULL /\ data[Live] = NULL
        /\ written = <<>> /\ queued = [p \in Producers |-> 0]
    BY StreamRoles, StockAssumption DEF StreamInit, Init, InitialItems, Stores
  <2>2. /\ Stored(WriteQueue) = <<>> /\ Stored(LiveQueue) = <<>>
        /\ Carried(Writer) = <<>> /\ Carried(Live) = <<>>
    BY <2>1 DEF Stored, Carried
  <2>3. Line = <<>>
    BY <2>2 DEF Line
  <2>4. Unmarked(Line) = <<>> /\ Unmarked(written) = <<>>
    BY <2>1, <2>3 DEF Unmarked
  <2>5. QED
    BY <2>1, <2>4 DEF Flow!Init
<1>2. StreamIInv /\ [StreamNext]_allVars => [Flow!Next]_(Flow!vars)
  BY StepIsFlowStep
<1>3. QED
  BY <1>1, <1>2, StreamInvariantHolds, PTL DEF StreamSpec, ImplementsFrameFlow, Flow!Spec

==============================================================================
