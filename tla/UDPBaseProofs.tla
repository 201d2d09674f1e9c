---------------------------- MODULE UDPBaseProofs ----------------------------
(***************************************************************************)
(* Theorems about UDPBase, for any number of sending and polling threads,  *)
(* objects, pools, queues and families: the listener always has a buffer,  *)
(* messages do not cross between queues, and the messages of a thread are  *)
(* sent once and in order.                                                 *)
(***************************************************************************)
EXTENDS UDPBase, OIWorkerProofs

ListenCall == Blocking(ReceiveQueue, "UNUSED")
DrainCall == Blocking(SendQueue, "QUEUED")
UserCall == Blocking(SendQueue, "UNUSED")

Sends == {Outgoing(u, n) : u \in Users, n \in 1 .. MaxSends}

\* What may lie in each queue of an endpoint that is given messages of S to send.
KindsWith(S) ==
    [q \in Queues |->
        IF q = SendQueue THEN S
        ELSE IF q = ReceiveQueue THEN {Received(f) : f \in Families}
        ELSE {Received(f) : f \in {g \in DOMAIN QueueFor : QueueFor[g] = q}}]
Kinds == KindsWith(Sends)

\* The endpoint's own queues are never closed, nor about to be.
OwnQueuesRun ==
    /\ running[SendQueue] /\ running[ReceiveQueue]
    /\ \A c \in Closers : notifier[c] # NULL /\ notifier[c].at = "mark" =>
           notifier[c].q \notin {SendQueue, ReceiveQueue}

\* The place of the listener in its loop tells what its acquisition is in, and
\* the datagram it is about to route is the one in its buffer.
ListenerInPlace ==
    /\ got \in Families \cup {"error", "empty"}
    /\ registered \subseteq DOMAIN QueueFor
    /\ lpc \in {"none", "start", "loop", "acquire", "receive", "received", "drop", "quit", "end"}
    /\ lpc \in {"none", "start", "loop", "end"} => pc[Listener] = "idle"
    /\ lpc = "acquire" => InCall(Listener, ListenCall) \/ pc[Listener] = "live"
    /\ lpc \in {"receive", "received", "drop", "quit"} => pc[Listener] = "live"
    /\ pc[Listener] = "live" => data[Listener] # NULL
    /\ lpc \in {"receive", "received"} => ~enq[Listener]
    /\ enq[Listener] => next[Listener] # SendQueue
    /\ lpc = "received" /\ got \in Families => content[data[Listener]] = Received(got)

SenderInPlace ==
    /\ spc \in {"none", "start", "loop", "acquire", "drop", "end"}
    /\ spc \in {"none", "start", "loop", "end"} => pc[Sender] = "idle"
    /\ spc = "acquire" => InCall(Sender, DrainCall) \/ pc[Sender] = "live"
    /\ spc = "drop" => pc[Sender] = "live"
    /\ ~enq[Sender]

\* What the endpoint's own two threads rely on, whoever else uses its queues.
EndpointIInv == IInv /\ OwnQueuesRun /\ ListenerInPlace /\ SenderInPlace

\* A thread inside Send has counted its message, and what it is about to enqueue
\* is that message.
UserInPlace(u) ==
    /\ pc[u] # "idle" => calls[u] > 0 /\ (InCall(u, UserCall) \/ pc[u] = "live")
    /\ enq[u] => /\ data[u] # NULL
                 /\ next[u] = SendQueue
                 /\ content[data[u]] = Outgoing(u, calls[u])

UsersInPlace == calls \in [Users -> 0 .. MaxSends] /\ \A u \in Users : UserInPlace(u)

ReadersInPlace == \A k \in Readers : pc[k] \in {"idle", "live"} /\ ~enq[k]

\* The messages that were given to the socket, the one the sender is about to
\* give to it, and those that wait for the sender.
Before(m, n) == m.user = n.user => m.seq < n.seq
AllBefore(S, T) == \A m \in S, n \in T : Before(m, n)
SentMessages == {sent[i] : i \in DOMAIN sent}
HeldMessages == IF spc = "acquire" /\ data[Sender] # NULL THEN {content[data[Sender]]} ELSE {}
QueuedMessages == {content[items[SendQueue][i]] : i \in DOMAIN items[SendQueue]}
Handed(u, m) == m.user = u => m.seq <= calls[u] /\ (pc[u] # "idle" => m.seq < calls[u])

LineInOrder ==
    /\ sent \in Seq(Sends)
    /\ HeldMessages \cup QueuedMessages \subseteq Sends
    /\ SentOnceInOrder
    /\ \A i, j \in DOMAIN items[SendQueue] :
           i < j => Before(content[items[SendQueue][i]], content[items[SendQueue][j]])
    /\ AllBefore(SentMessages, HeldMessages)
    /\ AllBefore(SentMessages, QueuedMessages)
    /\ AllBefore(HeldMessages, QueuedMessages)
    /\ \A u \in Users : \A m \in SentMessages \cup HeldMessages \cup QueuedMessages : Handed(u, m)

NetIInv ==
    /\ EndpointIInv
    /\ UsersInPlace
    /\ ReadersInPlace
    /\ QueuesHold(Kinds)
    /\ BoundFor(Kinds)
    /\ LineInOrder
------------------------------------------------------------------------------
(* What the endpoint's own calls are.                                      *)
LEMMA CallsOfEndpoint ==
    /\ ListenCall \in Calls /\ ListenCall.f = "BLOCKING" /\ ListenCall.t = "UNUSED"
    /\ ListenCall.q = ReceiveQueue /\ StoreOf(ListenCall) \notin Queues
    /\ DrainCall \in Calls /\ DrainCall.f = "BLOCKING" /\ DrainCall.t = "QUEUED"
    /\ DrainCall.q = SendQueue /\ StoreOf(DrainCall) = SendQueue
    /\ UserCall \in Calls /\ UserCall.f = "BLOCKING" /\ UserCall.t = "UNUSED"
    /\ UserCall.q = SendQueue /\ StoreOf(UserCall) \notin Queues
<1>1. /\ ListenCall \in Calls /\ ListenCall.f = "BLOCKING" /\ ListenCall.t = "UNUSED"
      /\ ListenCall.q = ReceiveQueue
      /\ UserCall \in Calls /\ UserCall.f = "BLOCKING" /\ UserCall.t = "UNUSED"
      /\ UserCall.q = SendQueue
  BY UDPBaseAssumption DEF ListenCall, UserCall, Blocking, Calls
<1>2. /\ DrainCall \in Calls /\ DrainCall.f = "BLOCKING" /\ DrainCall.t = "QUEUED"
      /\ DrainCall.q = SendQueue /\ StoreOf(DrainCall) = SendQueue
  BY UDPBaseAssumption DEF DrainCall, Blocking, Calls, StoreOf
<1>3. QED
  BY <1>1, <1>2, UnusedComesFromPool

\* The roles are played by different acquisitions.
LEMMA Roles ==
    /\ Listener \in Acqs /\ Sender \in Acqs /\ Users \subseteq Acqs /\ Readers \subseteq Acqs
    /\ Listener # Sender
    /\ \A u \in Users : u # Listener /\ u # Sender
    /\ \A k \in Readers : k # Listener /\ k # Sender
    /\ \A u \in Users, k \in Readers : u # k
    /\ SendQueue \in Queues /\ ReceiveQueue \in Queues /\ SendQueue # ReceiveQueue
  BY UDPBaseAssumption

------------------------------------------------------------------------------
(* Frames: a part of the invariant survives the steps of the others.       *)
LEMMA QueuesStayOpen ==
    ASSUME OwnQueuesRun, UNCHANGED <<running, notifier>>
    PROVE  OwnQueuesRun'
  BY DEF OwnQueuesRun

LEMMA ListenerStays ==
    ASSUME ListenerInPlace, Untouched(Listener), UNCHANGED <<lpc, got>>,
           IInv, registered' \subseteq DOMAIN QueueFor
    PROVE  ListenerInPlace'
<1>1. pc'[Listener] # pc[Listener] => pc[Listener] = "waiting" /\ pc'[Listener] = "notified"
  BY DEF Untouched, Undisturbed
<1>2. InCall(Listener, ListenCall) => InCall(Listener, ListenCall)'
  BY DEF Untouched, Undisturbed, InCall
<1>3. QED
  BY <1>1, <1>2 DEF ListenerInPlace, Untouched, Undisturbed

LEMMA SenderStays ==
    ASSUME SenderInPlace, Undisturbed(Sender), UNCHANGED spc
    PROVE  SenderInPlace'
  BY DEF SenderInPlace, Undisturbed, InCall

LEMMA UserStays ==
    ASSUME NEW u \in Users, UserInPlace(u), Untouched(u), calls'[u] = calls[u]
    PROVE  UserInPlace(u)'
<1>1. InCall(u, UserCall) => InCall(u, UserCall)'
  BY DEF Untouched, Undisturbed, InCall
<1>2. pc'[u] # pc[u] => pc[u] = "waiting" /\ pc'[u] = "notified"
  BY DEF Untouched, Undisturbed
<1>3. QED
  BY <1>1, <1>2 DEF UserInPlace, Untouched, Undisturbed

LEMMA UsersStay ==
    ASSUME UsersInPlace, \A u \in Users : Untouched(u), UNCHANGED calls
    PROVE  UsersInPlace'
  BY UserStays DEF UsersInPlace

LEMMA ReadersStay ==
    ASSUME ReadersInPlace, \A k \in Readers : Undisturbed(k)
    PROVE  ReadersInPlace'
  BY DEF ReadersInPlace, Undisturbed

LEMMA LineStays ==
    ASSUME LineInOrder, QueueStill(SendQueue), HeldMessages' \subseteq HeldMessages,
           UNCHANGED sent,
           \A u \in Users : \A m \in Sends : Handed(u, m) => Handed(u, m)'
    PROVE  LineInOrder'
<1>1. QueuedMessages' = QueuedMessages /\ SentMessages' = SentMessages
  BY DEF QueueStill, QueuedMessages, SentMessages
<1>2. SentMessages \subseteq Sends
  BY DEF LineInOrder, SentMessages
<1>3. /\ sent' \in Seq(Sends)
      /\ HeldMessages' \cup QueuedMessages' \subseteq Sends
      /\ SentOnceInOrder'
  BY <1>1 DEF LineInOrder, SentOnceInOrder
<1>4. \A i, j \in DOMAIN items'[SendQueue] :
          i < j => Before(content[items[SendQueue][i]], content[items[SendQueue][j]])'
  BY DEF LineInOrder, QueueStill, Before
<1>5. /\ AllBefore(SentMessages, HeldMessages)'
      /\ AllBefore(SentMessages, QueuedMessages)'
      /\ AllBefore(HeldMessages, QueuedMessages)'
  BY <1>1 DEF LineInOrder, AllBefore, Before
<1>6. \A u \in Users : \A m \in SentMessages' \cup HeldMessages' \cup QueuedMessages' : Handed(u, m)'
  BY <1>1, <1>2 DEF LineInOrder
<1>7. QED
  BY <1>3, <1>4, <1>5, <1>6 DEF LineInOrder

\* Messages stay handed over when no call of Send begins or ends.
LEMMA HandedStays ==
    ASSUME NEW u \in Users, Undisturbed(u), UNCHANGED calls, NEW m, Handed(u, m)
    PROVE  Handed(u, m)'
  BY DEF Handed, Undisturbed

LEMMA HeldStays ==
    ASSUME Untouched(Sender), UNCHANGED spc
    PROVE  HeldMessages' = HeldMessages
  BY DEF HeldMessages, Untouched, Undisturbed

------------------------------------------------------------------------------
(* The listener.                                                           *)
LEMMA ListenerCalls ==
    ASSUME EndpointIInv, lpc \in {"loop", "acquire"}, ListenLoop \/ ListenAcquire, ~UNCHANGED vars
    PROVE  BlockingCall(Listener, ListenCall) /\ lpc' = "acquire" /\ UNCHANGED got
<1>1. CASE ListenLoop
  BY <1>1 DEF ListenLoop, Construct, BlockingCall, ListenCall, Listen, listenRest
<1>2. CASE ListenAcquire
  <2>1. pc[Listener] # "live"
    BY <1>2 DEF ListenAcquire, Constructing, Wait, Resume, CheckRunning
  <2>2. InCall(Listener, ListenCall)
    BY <1>2, <2>1 DEF ListenAcquire, EndpointIInv, ListenerInPlace
  <2>3. QED
    BY <1>2, <2>2 DEF ListenAcquire, BlockingCall, netVars
<1>3. QED
  BY <1>1, <1>2

LEMMA ListenerOwnStep ==
    ASSUME EndpointIInv, DataListener
    PROVE  OwnStep(Listener) \/ UNCHANGED vars
<1>1. CASE ListenLoop \/ ListenAcquire
  <2>1. lpc \in {"loop", "acquire"}
    BY <1>1 DEF ListenLoop, ListenAcquire, Listen
  <2>2. QED
    BY <1>1, <2>1, ListenerCalls, Roles, CallsOfEndpoint, BlockingCallEffect DEF EndpointIInv
<1>2. CASE ListenReceive
  <2>1. \A f \in Families : Received(f) \in Values
    BY UDPBaseAssumption DEF Messages
  <2>2. QED
    BY <1>2, <2>1 DEF ListenReceive, OwnStep
<1>3. CASE ListenRoute
  <2>1. got \in registered => QueueFor[got] \in Queues
    BY UDPBaseAssumption DEF EndpointIInv, ListenerInPlace
  <2>2. QED
    BY <1>3, <2>1, Roles DEF ListenRoute, OwnStep
<1>4. QED
  BY <1>1, <1>2, <1>3
     DEF DataListener, ListenStart, ListenFails, ListenRelease, ListenEndOfScope, OwnStep

\* A blocking call that has not ended, or has ended with a buffer.
LEMMA ListenerCallsKeep ==
    ASSUME EndpointIInv, BlockingCall(Listener, ListenCall), lpc' = "acquire", UNCHANGED got,
           registered' \subseteq DOMAIN QueueFor
    PROVE  ListenerInPlace' /\ (data'[Listener] # NULL => ~enq'[Listener])
<1>1. IInv /\ running[ReceiveQueue]
  BY DEF EndpointIInv, OwnQueuesRun
<1>2. /\ enq'[Listener] => enq[Listener] /\ next'[Listener] = next[Listener]
      /\ \/ InCall(Listener, ListenCall)' /\ data'[Listener] = NULL
         \/ pc'[Listener] = "live" /\ data'[Listener] # NULL /\ ~enq'[Listener]
  BY <1>1, Roles, CallsOfEndpoint, BlockingCallEffect
<1>3. pc'[Listener] = "live" => ~InCall(Listener, ListenCall)'
  BY DEF InCall
<1>4. enq'[Listener] => next'[Listener] # SendQueue
  BY <1>2 DEF EndpointIInv, ListenerInPlace
<1>5. QED
  BY <1>2, <1>3, <1>4 DEF EndpointIInv, ListenerInPlace

\* The listener's part of the invariant, and that what it enqueues fits.
LEMMA ListenerKeepsItsPlace ==
    ASSUME EndpointIInv, NEW S, BoundFor(KindsWith(S)), DataListener
    PROVE  /\ ListenerInPlace'
           /\ (data[Listener] # NULL /\ GoesOn(Listener) =>
                  content[data[Listener]] \in KindsWith(S)[next[Listener]])'
<1> DEFINE Fits == (data[Listener] # NULL /\ GoesOn(Listener) =>
                        content[data[Listener]] \in KindsWith(S)[next[Listener]])
<1>0. IInv /\ ListenerInPlace /\ Fits /\ Listener \in Acqs
  BY Roles DEF EndpointIInv, BoundFor
<1>1. UNCHANGED registered
  BY DEF DataListener, ListenStart, ListenLoop, ListenAcquire, ListenFails, ListenRelease,
         ListenReceive, ListenRoute, ListenEndOfScope, listenRest, netVars
<1>2. ASSUME UNCHANGED vars
      PROVE  /\ Fits'
             /\ InCall(Listener, ListenCall)' = InCall(Listener, ListenCall)
  BY <1>0, <1>2 DEF vars, acqVars, GoesOn, InCall
<1>3. CASE ListenStart
  <2>1. UNCHANGED vars /\ lpc = "start" /\ lpc' = "loop" /\ UNCHANGED got
    BY <1>3 DEF ListenStart, Listen
  <2>2. QED
    BY <1>0, <1>1, <1>2, <2>1 DEF ListenerInPlace, vars, acqVars
<1>4. CASE (ListenLoop \/ ListenAcquire) /\ ~UNCHANGED vars
  <2>1. lpc \in {"loop", "acquire"}
    BY <1>4 DEF ListenLoop, ListenAcquire, Listen
  <2>2. BlockingCall(Listener, ListenCall) /\ lpc' = "acquire" /\ UNCHANGED got
    BY <1>4, <2>1, ListenerCalls
  <2>3. ListenerInPlace' /\ (data'[Listener] # NULL => ~enq'[Listener])
    BY <1>0, <1>1, <2>2, ListenerCallsKeep DEF ListenerInPlace
  <2>4. QED
    BY <2>3 DEF GoesOn
<1>5. CASE (ListenLoop \/ ListenAcquire) /\ UNCHANGED vars
  <2>1. /\ UNCHANGED got
        /\ \/ lpc = "loop" /\ lpc' = "end"
           \/ lpc = "loop" /\ lpc' = "acquire" /\ Construct(Listener, ListenCall)
           \/ lpc = "acquire" /\ lpc' = "acquire"
    BY <1>5 DEF ListenLoop, ListenAcquire, Listen, listenRest, netVars, ListenCall
  <2>2. Construct(Listener, ListenCall) => pc'[Listener] # pc[Listener]
    <3>1. pc \in [Acqs -> PCs]
      BY <1>0 DEF IInv, TypeOK
    <3>2. QED
      BY <1>0, <3>1 DEF Construct, Acquire, AcquireUnlock, Take, TakeObject, TakeNull
  <2>3. QED
    BY <1>0, <1>1, <1>2, <1>5, <2>1, <2>2 DEF ListenerInPlace, vars, acqVars
<1>6. CASE ListenFails
  <2>1. /\ lpc' = "end" /\ UNCHANGED <<got, data>>
        /\ pc'[Listener] = "idle" /\ enq'[Listener] = FALSE
    BY <1>0, <1>6 DEF ListenFails, Listen, Catch, IInv, TypeOK
  <2>2. QED
    BY <1>0, <1>1, <2>1 DEF ListenerInPlace, GoesOn
<1>7. CASE ListenRelease
  <2>1. /\ lpc' \in {"receive", "quit"} /\ UNCHANGED <<got, data, pc>>
        /\ pc[Listener] = "live" /\ enq'[Listener] = FALSE
    BY <1>0, <1>7 DEF ListenRelease, Listen, listenRest, Release, IInv, TypeOK
  <2>2. QED
    BY <1>0, <1>1, <2>1 DEF ListenerInPlace, GoesOn
<1>8. CASE ListenReceive
  <2>1. /\ lpc = "receive" /\ lpc' = "received" /\ UNCHANGED <<data, pc, enq, next>>
        /\ \/ got' \in Families /\ content'[data[Listener]] = Received(got')
           \/ got' \in {"empty", "error"}
    <3>1. ASSUME NEW f \in Families, Fill(Listener, Received(f))
          PROVE  content'[data[Listener]] = Received(f)
      <4>1. data[Listener] \in Objects
        BY <1>0, <3>1 DEF Fill, IInv, TypeOK
      <4>2. QED
        BY <1>0, <3>1, <4>1 DEF Fill, IInv, TypeOK
    <3>2. QED
      BY <1>8, <3>1 DEF ListenReceive, Listen, Fill, vars, acqVars
  <2>2. QED
    BY <1>0, <1>1, <2>1, UDPBaseAssumption DEF ListenerInPlace, GoesOn
<1>9. CASE ListenRoute
  <2>1. CASE UNCHANGED vars
    <3>1. lpc = "received" /\ lpc' \in {"drop", "quit"} /\ UNCHANGED got
      BY <1>9 DEF ListenRoute, Listen, listenRest
    <3>2. QED
      BY <1>0, <1>1, <1>2, <2>1, <3>1 DEF ListenerInPlace, vars, acqVars
  <2>2. CASE ~UNCHANGED vars
    <3> DEFINE q == IF got \in registered THEN QueueFor[got] ELSE ReceiveQueue
    <3>1. /\ lpc = "received" /\ lpc' = "drop" /\ UNCHANGED got /\ got \in Families
          /\ EnqueueTo(Listener, q)
      BY <1>9, <2>2 DEF ListenRoute, Listen, listenRest
    <3>2. /\ UNCHANGED <<data, content, pc>>
          /\ next'[Listener] = q
      BY <1>0, <3>1 DEF EnqueueTo, IInv, TypeOK
    <3>3. content[data[Listener]] = Received(got)
      BY <1>0, <3>1 DEF ListenerInPlace
    <3>4. /\ q \in Queues /\ q # SendQueue
          /\ Received(got) \in KindsWith(S)[q]
      <4>1. CASE got \in registered
        <5>1. got \in DOMAIN QueueFor
          BY <1>0, <4>1 DEF ListenerInPlace
        <5>2. q = QueueFor[got] /\ q \in Queues /\ q # SendQueue /\ q # ReceiveQueue
          BY <4>1, <5>1, UDPBaseAssumption
        <5>3. KindsWith(S)[q] = {Received(f) : f \in {g \in DOMAIN QueueFor : QueueFor[g] = q}}
          BY <5>2 DEF KindsWith
        <5>4. QED
          BY <5>1, <5>2, <5>3
      <4>2. CASE got \notin registered
        <5>1. q = ReceiveQueue /\ KindsWith(S)[q] = {Received(f) : f \in Families}
          BY <4>2, Roles DEF KindsWith
        <5>2. QED
          BY <3>1, <5>1, Roles
      <4>3. QED
        BY <4>1, <4>2
    <3> HIDE DEF q
    <3>5. QED
      BY <1>0, <1>1, <3>1, <3>2, <3>3, <3>4 DEF ListenerInPlace, GoesOn
  <2>3. QED
    BY <2>1, <2>2
<1>10. CASE ListenEndOfScope
  <2>1. /\ lpc' \in {"loop", "end"} /\ got' = "empty"
        /\ data'[Listener] = NULL /\ pc'[Listener] = "idle" /\ enq'[Listener] = FALSE
    BY <1>0, <1>10, DestroyEffect DEF ListenEndOfScope, Listen
  <2>2. QED
    BY <1>0, <1>1, <2>1 DEF ListenerInPlace, GoesOn
<1>11. QED
  BY <1>3, <1>4, <1>5, <1>6, <1>7, <1>8, <1>9, <1>10 DEF DataListener

LEMMA ListenerLeavesSendQueue ==
    ASSUME EndpointIInv, DataListener
    PROVE  QueueStill(SendQueue)
<1>1. CASE UNCHANGED vars
  BY <1>1, StillAlone, Roles
<1>2. CASE (ListenLoop \/ ListenAcquire) /\ ~UNCHANGED vars
  <2>1. lpc \in {"loop", "acquire"}
    BY <1>2 DEF ListenLoop, ListenAcquire, Listen
  <2>2. BlockingCall(Listener, ListenCall)
    BY <1>2, <2>1, ListenerCalls
  <2>3. \A q \in Queues : QueueStill(q) \/ StoreOf(ListenCall) = q
    BY <2>2, Roles, CallsOfEndpoint, BlockingCallEffect DEF EndpointIInv
  <2>4. QED
    BY <2>3, Roles, CallsOfEndpoint
<1>3. CASE /\ ListenFails \/ ListenRelease \/ ListenReceive \/ ListenRoute \/ ListenEndOfScope
           /\ ~UNCHANGED vars
  <2>1. pc[Listener] \notin {"idle", "notified"}
    BY <1>3 DEF ListenFails, ListenRelease, ListenReceive, ListenRoute, ListenEndOfScope, Catch,
                Release, Fill, EnqueueTo, Destroy, DestroyNull, DestroyEnqueue, DestroyReturn
  <2>2. GoesOn(Listener) => next[Listener] # SendQueue
    BY DEF GoesOn, EndpointIInv, ListenerInPlace
  <2>3. QED
    BY <1>3, <2>1, <2>2, ListenerOwnStep, OwnStepOnQueue, Roles DEF EndpointIInv
<1>4. QED
  BY <1>1, <1>2, <1>3 DEF DataListener, ListenStart

\* Whatever it is in the middle of, the listener keeps what both threads rely on
\* and leaves the send queue and the acquisitions of everybody else alone.
LEMMA ListenerKeepsEndpoint ==
    ASSUME EndpointIInv, DataListener,
           NEW S, QueuesHold(KindsWith(S)), BoundFor(KindsWith(S))
    PROVE  /\ EndpointIInv' /\ QueuesHold(KindsWith(S))' /\ BoundFor(KindsWith(S))'
           /\ \A b \in Acqs \ {Listener} : Untouched(b)
           /\ UNCHANGED <<registered, spc, calls, sent>>
<1>0. /\ IInv /\ Listener \in Acqs
      /\ OwnStep(Listener) \/ UNCHANGED vars
  BY Roles, ListenerOwnStep DEF EndpointIInv
<1>1. UNCHANGED <<registered, spc, calls, sent>>
  BY DEF DataListener, ListenStart, ListenLoop, ListenAcquire, ListenFails, ListenRelease,
         ListenReceive, ListenRoute, ListenEndOfScope, listenRest, netVars
<1>2. \A b \in Acqs \ {Listener} : Untouched(b)
  BY <1>0, OwnStepAlone, StillAlone
<1>3. IInv'
  BY <1>0, OwnStepKeepsIInv, StillIInv
<1>4. OwnQueuesRun'
  <2>1. UNCHANGED <<running, notifier>>
    BY <1>0, OwnStepLeavesClosers DEF vars
  <2>2. QED
    BY <2>1, QueuesStayOpen DEF EndpointIInv
<1>5. SenderInPlace'
  BY <1>1, <1>2, Roles, SenderStays DEF EndpointIInv, Untouched
<1>6. /\ ListenerInPlace'
      /\ (data[Listener] # NULL /\ GoesOn(Listener) =>
              content[data[Listener]] \in KindsWith(S)[next[Listener]])'
  BY ListenerKeepsItsPlace
<1>7. QueuesHold(KindsWith(S))' /\ BoundFor(KindsWith(S))'
  <2>1. CASE OwnStep(Listener)
    BY <1>0, <1>6, <2>1, OwnStepKeepsKinds
  <2>2. CASE UNCHANGED vars
    BY <2>2, StillAlone, UntouchedKeepsKinds
  <2>3. QED
    BY <1>0, <2>1, <2>2
<1>8. QED
  BY <1>1, <1>2, <1>3, <1>4, <1>5, <1>6, <1>7 DEF EndpointIInv

LEMMA ListenerKeeps ==
    ASSUME NetIInv, DataListener
    PROVE  NetIInv'
<1>1. /\ EndpointIInv' /\ QueuesHold(Kinds)' /\ BoundFor(Kinds)'
      /\ \A b \in Acqs \ {Listener} : Untouched(b)
      /\ UNCHANGED <<registered, spc, calls, sent>>
  BY ListenerKeepsEndpoint DEF NetIInv, Kinds
<1>2. /\ Untouched(Sender)
      /\ \A u \in Users : Untouched(u)
      /\ \A k \in Readers : Undisturbed(k)
  BY <1>1, Roles DEF Untouched
<1>3. UsersInPlace' /\ ReadersInPlace'
  BY <1>1, <1>2, UsersStay, ReadersStay DEF NetIInv
<1>4. LineInOrder'
  <2>1. HeldMessages' = HeldMessages
    BY <1>1, <1>2, HeldStays
  <2>2. \A u \in Users : \A m \in Sends : Handed(u, m) => Handed(u, m)'
    BY <1>1, <1>2, HandedStays DEF Untouched
  <2>3. QED
    BY <1>1, <2>1, <2>2, ListenerLeavesSendQueue, LineStays DEF NetIInv
<1>5. QED
  BY <1>1, <1>3, <1>4 DEF NetIInv

------------------------------------------------------------------------------
(* The sender.                                                             *)
LEMMA SenderCalls ==
    ASSUME EndpointIInv, SendLoop \/ SendAcquire, ~UNCHANGED vars
    PROVE  BlockingCall(Sender, DrainCall) /\ spc' = "acquire"
<1>1. CASE SendLoop
  BY <1>1 DEF SendLoop, Construct, BlockingCall, DrainCall, Sending
<1>2. CASE SendAcquire
  <2>1. pc[Sender] # "live" /\ spc = "acquire" /\ spc' = "acquire"
    BY <1>2 DEF SendAcquire, Constructing, Wait, Resume, CheckRunning, netVars
  <2>2. InCall(Sender, DrainCall)
    BY <2>1 DEF EndpointIInv, SenderInPlace
  <2>3. QED
    BY <1>2, <2>1, <2>2 DEF SendAcquire, BlockingCall
<1>3. QED
  BY <1>1, <1>2

\* An acquisition that is called does not stay idle.
LEMMA ConstructIsAStep ==
    ASSUME IInv, NEW a \in Acqs, NEW c, Construct(a, c)
    PROVE  pc'[a] # pc[a] /\ pc[a] = "idle"
<1>1. pc \in [Acqs -> PCs]
  BY DEF IInv, TypeOK
<1>2. QED
  BY <1>1 DEF Construct, Acquire, AcquireUnlock, Take, TakeObject, TakeNull

LEMMA SenderOwnStep ==
    ASSUME EndpointIInv, DataSender
    PROVE  OwnStep(Sender) \/ UNCHANGED vars
<1>1. CASE SendLoop \/ SendAcquire
  BY <1>1, SenderCalls, Roles, CallsOfEndpoint, BlockingCallEffect DEF EndpointIInv
<1>2. QED
  BY <1>1 DEF DataSender, SendStart, SendSkip, SendOut, SendEndOfScope, OwnStep

\* The sender takes the oldest message that waits, or none.
LEMMA SenderTakesOne ==
    ASSUME EndpointIInv, BlockingCall(Sender, DrainCall), spc' = "acquire"
    PROVE  /\ SenderInPlace'
           /\ UNCHANGED content
           /\ \/ data'[Sender] = NULL /\ QueueStill(SendQueue)
              \/ /\ data'[Sender] # NULL
                 /\ items[SendQueue] # <<>>
                 /\ items'[SendQueue] = Tail(items[SendQueue])
                 /\ data'[Sender] = Head(items[SendQueue])
<1>1. IInv /\ Sender \in Acqs /\ SendQueue \in Queues
  BY Roles DEF EndpointIInv
<1>2. /\ UNCHANGED content
      /\ enq'[Sender] => enq[Sender]
      /\ \/ InCall(Sender, DrainCall)' /\ data'[Sender] = NULL
         \/ pc'[Sender] = "live" /\ data'[Sender] = NULL
         \/ /\ pc'[Sender] = "live" /\ data'[Sender] # NULL
            /\ items[SendQueue] # <<>>
            /\ items'[SendQueue] = Tail(items[SendQueue])
            /\ data'[Sender] = Head(items[SendQueue])
      /\ QueueStill(SendQueue) \/ data'[Sender] # NULL
  BY <1>1, CallsOfEndpoint, BlockingCallEffect
<1>3. SenderInPlace'
  BY <1>2 DEF EndpointIInv, SenderInPlace
<1>4. QED
  BY <1>2, <1>3

\* What it takes is the next of the line.
LEMMA SenderTakes ==
    ASSUME NetIInv, BlockingCall(Sender, DrainCall), spc' = "acquire", UNCHANGED <<sent, calls>>
    PROVE  LineInOrder'
<1> DEFINE S == items[SendQueue]
<1>1. /\ IInv /\ LineInOrder /\ Sender \in Acqs /\ SendQueue \in Queues
      /\ S \in Seq(Objects)
      /\ \A u \in Users : Undisturbed(u)
  <2>1. IInv /\ OwnStep(Sender)
    BY Roles, CallsOfEndpoint, BlockingCallEffect DEF NetIInv, EndpointIInv
  <2>2. \A u \in Users : Untouched(u)
    BY <2>1, OwnStepAlone, Roles
  <2>3. QED
    BY <2>1, <2>2, Roles DEF NetIInv, EndpointIInv, IInv, TypeOK, Stores, Untouched
<1>2. /\ UNCHANGED content
      /\ \/ data'[Sender] = NULL /\ QueueStill(SendQueue)
         \/ /\ data'[Sender] # NULL
            /\ S # <<>> /\ items'[SendQueue] = Tail(S) /\ data'[Sender] = Head(S)
  BY SenderTakesOne DEF NetIInv
<1>4. \A u \in Users : \A m \in Sends : Handed(u, m) => Handed(u, m)'
  BY <1>1, HandedStays
<1>5. CASE data'[Sender] = NULL
  <2>1. HeldMessages' = {}
    BY <1>5 DEF HeldMessages
  <2>2. QED
    BY <1>1, <1>2, <1>4, <1>5, <2>1, LineStays
<1>6. CASE data'[Sender] # NULL
  <2>1. /\ S # <<>> /\ items'[SendQueue] = Tail(S) /\ data'[Sender] = S[1]
        /\ DOMAIN S = 1 .. Len(S) /\ Len(S) \in Nat \ {0} /\ 1 \in DOMAIN S
        /\ DOMAIN items'[SendQueue] = 1 .. Len(S) - 1
        /\ \A i \in DOMAIN items'[SendQueue] :
               items'[SendQueue][i] = S[i + 1] /\ i + 1 \in DOMAIN S /\ 1 < i + 1
    <3>1. /\ Head(S) = S[1] /\ Len(S) \in Nat \ {0} /\ DOMAIN S = 1 .. Len(S) /\ 1 \in DOMAIN S
          /\ DOMAIN Tail(S) = 1 .. Len(S) - 1
          /\ \A i \in 1 .. Len(S) - 1 : Tail(S)[i] = S[i + 1]
      BY <1>1, <1>2, <1>6, TailAt
    <3>2. \A i \in 1 .. Len(S) - 1 : i + 1 \in 1 .. Len(S) /\ 1 < i + 1
      BY <3>1
    <3>3. QED
      BY <1>2, <1>6, <3>1, <3>2
  <2>2. HeldMessages' = {content[S[1]]}
    BY <1>2, <1>6, <2>1 DEF HeldMessages
  <2>3. HeldMessages' \subseteq QueuedMessages /\ QueuedMessages' \subseteq QueuedMessages
    BY <1>2, <2>1, <2>2 DEF QueuedMessages
  <2>4. \A i, j \in DOMAIN S : i < j => Before(content[S[i]], content[S[j]])
    BY <1>1 DEF LineInOrder
  <2>5. /\ AllBefore(HeldMessages, QueuedMessages)'
        /\ \A i, j \in DOMAIN items'[SendQueue] :
               i < j => Before(content[items[SendQueue][i]], content[items[SendQueue][j]])'
    <3>1. \A j \in DOMAIN items'[SendQueue] :
              Before(content[S[1]], content'[items'[SendQueue][j]])
      BY <1>2, <2>1, <2>4
    <3>2. \A i, j \in DOMAIN items'[SendQueue] : i < j =>
              Before(content'[items'[SendQueue][i]], content'[items'[SendQueue][j]])
      <4>1. \A i, j \in DOMAIN items'[SendQueue] : i < j => i + 1 < j + 1
        BY <2>1
      <4>2. QED
        BY <1>2, <2>1, <2>4, <4>1
    <3>3. AllBefore(HeldMessages', QueuedMessages')
      BY <2>2, <3>1 DEF AllBefore, QueuedMessages
    <3>4. QED
      BY <3>2, <3>3 DEF AllBefore, Before
  <2>6. SentMessages' = SentMessages /\ SentMessages \subseteq Sends
    BY DEF SentMessages, NetIInv, EndpointIInv, LineInOrder
  <2>7. AllBefore(SentMessages, HeldMessages)' /\ AllBefore(SentMessages, QueuedMessages)'
    BY <1>1, <2>3, <2>6 DEF AllBefore, Before, LineInOrder
  <2>8. \A u \in Users : \A m \in SentMessages' \cup HeldMessages' \cup QueuedMessages' : Handed(u, m)'
    BY <1>1, <1>4, <2>3, <2>6 DEF LineInOrder
  <2>9. QED
    BY <1>1, <2>3, <2>5, <2>7, <2>8 DEF LineInOrder, SentOnceInOrder
<1>7. QED
  BY <1>5, <1>6

\* A destructor without enqueue() leaves all queues as they are.
LEMMA DropLeavesQueues ==
    ASSUME IInv, NEW a \in Acqs, Destroy(a), ~enq[a], NEW q \in Queues
    PROVE  QueueStill(q)
<1>1. OwnStep(a)
  BY DEF OwnStep
<1>2. pc[a] = "live"
  BY DestroyEffect
<1>3. QED
  BY <1>1, <1>2, OwnStepOnQueue DEF GoesOn

\* The sender drops its object, or gives the message to the socket first.
LEMMA SenderLetsGoOne ==
    ASSUME EndpointIInv, SendStart \/ SendSkip \/ SendOut \/ SendEndOfScope
                         \/ (SendLoop /\ UNCHANGED vars)
    PROVE  SenderInPlace' /\ spc' # "acquire" /\ QueueStill(SendQueue)
<1>1. IInv /\ SenderInPlace /\ Sender \in Acqs /\ SendQueue \in Queues
  BY Roles DEF EndpointIInv
<1>2. /\ spc' # "acquire"
      /\ SenderInPlace'
  <2>1. CASE SendStart \/ SendOut
    BY <1>1, <2>1 DEF SendStart, SendOut, Sending, SenderInPlace, vars, acqVars
  <2>2. CASE SendSkip \/ SendEndOfScope
    <3>1. spc' = "loop" /\ pc'[Sender] = "idle" /\ ~enq'[Sender]
      BY <1>1, <2>2, DestroyEffect DEF SendSkip, SendEndOfScope, Sending
    <3>2. QED
      BY <3>1 DEF SenderInPlace
  <2>3. CASE SendLoop /\ UNCHANGED vars
    <3>1. ~Construct(Sender, DrainCall)
      BY <1>1, <2>3, ConstructIsAStep DEF vars, acqVars
    <3>2. spc = "loop" /\ spc' = "end"
      BY <2>3, <3>1 DEF SendLoop, Sending, DrainCall
    <3>3. QED
      BY <1>1, <2>3, <3>2 DEF SenderInPlace, vars, acqVars
  <2>4. QED
    BY <2>1, <2>2, <2>3
<1>3. QueueStill(SendQueue)
  <2>1. CASE SendSkip \/ SendEndOfScope
    BY <1>1, <2>1, DropLeavesQueues DEF SendSkip, SendEndOfScope, SenderInPlace
  <2>2. CASE UNCHANGED vars
    BY <1>1, <2>2, StillAlone
  <2>3. QED
    BY <2>1, <2>2 DEF SendStart, SendOut
<1>4. QED
  BY <1>2, <1>3

\* The line behind it stays in order.
LEMMA SenderLetsGo ==
    ASSUME NetIInv, SendStart \/ SendSkip \/ SendOut \/ SendEndOfScope
                    \/ (SendLoop /\ UNCHANGED vars)
    PROVE  LineInOrder'
<1>1. /\ IInv /\ LineInOrder /\ SenderInPlace /\ Sender \in Acqs /\ SendQueue \in Queues
      /\ UNCHANGED calls
      /\ \A u \in Users : Undisturbed(u)
  <2>1. OwnStep(Sender) \/ UNCHANGED vars
    BY SenderOwnStep DEF NetIInv, DataSender
  <2>2. \A u \in Users : Untouched(u)
    BY <2>1, OwnStepAlone, StillAlone, Roles DEF NetIInv, EndpointIInv
  <2>3. QED
    BY <2>2, Roles DEF NetIInv, EndpointIInv, Untouched, SendStart, SendSkip, SendOut,
                       SendEndOfScope, SendLoop, sendRest
<1>2. \A u \in Users : \A m \in Sends : Handed(u, m) => Handed(u, m)'
  BY <1>1, HandedStays
<1>3. spc' # "acquire"
  BY SenderLetsGoOne DEF NetIInv
<1>4. HeldMessages' = {}
  BY <1>3 DEF HeldMessages
<1>5. CASE UNCHANGED sent
  <2>1. QueueStill(SendQueue)
    BY SenderLetsGoOne DEF NetIInv
  <2>2. QED
    BY <1>1, <1>2, <1>3, <1>4, <1>5, <2>1, LineStays
<1>6. CASE SendOut /\ sent' = Append(sent, content[data[Sender]])
  <2> DEFINE m == content[data[Sender]]
  <2>1. UNCHANGED vars /\ HeldMessages = {m}
    BY <1>6 DEF SendOut, Sending, HeldMessages
  <2>2. /\ sent \in Seq(Sends) /\ m \in Sends
        /\ sent' = Append(sent, m)
    BY <1>1, <1>6, <2>1 DEF LineInOrder
  <2> HIDE DEF m
  <2>3. /\ sent' \in Seq(Sends)
        /\ DOMAIN sent' = 1 .. Len(sent) + 1
        /\ DOMAIN sent = 1 .. Len(sent)
        /\ Len(sent) \in Nat
        /\ \A i \in 1 .. Len(sent) : sent'[i] = sent[i]
        /\ sent'[Len(sent) + 1] = m
    BY <2>2, AppendAt
  <2>4. SentMessages' = SentMessages \cup {m}
    BY <2>3 DEF SentMessages
  <2>5. QueuedMessages' = QueuedMessages
    BY <2>1 DEF QueuedMessages, vars
  <2>6. \A i \in DOMAIN sent : Before(sent[i], m)
    BY <1>1, <2>1 DEF LineInOrder, AllBefore, SentMessages
  <2>7. SentOnceInOrder'
    <3>1. ASSUME NEW i \in DOMAIN sent', NEW j \in DOMAIN sent', i < j
          PROVE  Before(sent'[i], sent'[j])
      <4>1. i \in DOMAIN sent /\ sent'[i] = sent[i]
        BY <2>3, <3>1
      <4>2. CASE j = Len(sent) + 1
        BY <2>3, <2>6, <4>1, <4>2
      <4>3. CASE j \in DOMAIN sent
        <5>1. sent'[j] = sent[j]
          BY <2>3, <4>3
        <5>2. QED
          BY <1>1, <3>1, <4>1, <4>3, <5>1 DEF LineInOrder, SentOnceInOrder, Before
      <4>4. QED
        BY <2>3, <4>2, <4>3
    <3>2. QED
      BY <3>1 DEF SentOnceInOrder, Before
  <2>8. /\ AllBefore(SentMessages, HeldMessages)'
        /\ AllBefore(SentMessages, QueuedMessages)'
        /\ AllBefore(HeldMessages, QueuedMessages)'
    BY <1>1, <1>4, <2>1, <2>4, <2>5 DEF LineInOrder, AllBefore, Before
  <2>9. \A i, j \in DOMAIN items'[SendQueue] :
            i < j => Before(content[items[SendQueue][i]], content[items[SendQueue][j]])'
    BY <1>1, <2>1 DEF LineInOrder, vars, Before
  <2>10. SentMessages \subseteq Sends
    BY <2>2 DEF SentMessages
  <2>11. \A u \in Users : \A n \in SentMessages' \cup HeldMessages' \cup QueuedMessages' : Handed(u, n)'
    BY <1>1, <1>2, <1>4, <2>1, <2>2, <2>4, <2>5, <2>10 DEF LineInOrder
  <2>12. HeldMessages' \cup QueuedMessages' \subseteq Sends
    BY <1>1, <1>4, <2>5 DEF LineInOrder
  <2>13. QED
    BY <1>3, <2>3, <2>7, <2>8, <2>9, <2>11, <2>12 DEF LineInOrder
<1>7. QED
  BY <1>5, <1>6 DEF SendStart, SendSkip, SendOut, SendEndOfScope, SendLoop, sendRest

\* So does the sender, which takes from the send queue and puts nothing into any.
LEMMA SenderKeepsEndpoint ==
    ASSUME EndpointIInv, DataSender,
           NEW S, QueuesHold(KindsWith(S)), BoundFor(KindsWith(S))
    PROVE  /\ EndpointIInv' /\ QueuesHold(KindsWith(S))' /\ BoundFor(KindsWith(S))'
           /\ \A b \in Acqs \ {Sender} : Untouched(b)
           /\ UNCHANGED <<registered, lpc, got, calls>>
<1>0. /\ IInv /\ Sender \in Acqs
      /\ OwnStep(Sender) \/ UNCHANGED vars
  BY Roles, SenderOwnStep DEF EndpointIInv
<1>1. UNCHANGED <<registered, lpc, got, calls>>
  BY DEF DataSender, SendStart, SendLoop, SendAcquire, SendSkip, SendOut, SendEndOfScope, sendRest,
         netVars
<1>2. \A b \in Acqs \ {Sender} : Untouched(b)
  BY <1>0, OwnStepAlone, StillAlone
<1>3. IInv'
  BY <1>0, OwnStepKeepsIInv, StillIInv
<1>4. OwnQueuesRun'
  <2>1. UNCHANGED <<running, notifier>>
    BY <1>0, OwnStepLeavesClosers DEF vars
  <2>2. QED
    BY <2>1, QueuesStayOpen DEF EndpointIInv
<1>5. ListenerInPlace'
  <2>1. registered' \subseteq DOMAIN QueueFor
    BY <1>1 DEF EndpointIInv, ListenerInPlace
  <2>2. QED
    BY <1>1, <1>2, <2>1, Roles, ListenerStays DEF EndpointIInv
<1>6. SenderInPlace'
  <2>1. CASE (SendLoop \/ SendAcquire) /\ ~UNCHANGED vars
    BY <2>1, SenderCalls, SenderTakesOne
  <2>2. CASE SendAcquire /\ UNCHANGED vars
    BY <2>2, StillAlone, SenderStays, Roles DEF EndpointIInv, Untouched, SendAcquire, netVars
  <2>3. CASE SendStart \/ SendSkip \/ SendOut \/ SendEndOfScope \/ (SendLoop /\ UNCHANGED vars)
    BY <2>3, SenderLetsGoOne
  <2>4. QED
    BY <2>1, <2>2, <2>3 DEF DataSender
<1>7. QueuesHold(KindsWith(S))' /\ BoundFor(KindsWith(S))'
  <2>1. CASE OwnStep(Sender)
    <3>1. (data[Sender] # NULL /\ GoesOn(Sender) =>
              content[data[Sender]] \in KindsWith(S)[next[Sender]])'
      BY <1>6 DEF SenderInPlace, GoesOn
    <3>2. QED
      BY <1>0, <2>1, <3>1, OwnStepKeepsKinds
  <2>2. CASE UNCHANGED vars
    BY <2>2, StillAlone, UntouchedKeepsKinds
  <2>3. QED
    BY <1>0, <2>1, <2>2
<1>8. QED
  BY <1>1, <1>2, <1>3, <1>4, <1>5, <1>6, <1>7 DEF EndpointIInv

LEMMA SenderKeeps ==
    ASSUME NetIInv, DataSender
    PROVE  NetIInv'
<1>1. /\ EndpointIInv' /\ QueuesHold(Kinds)' /\ BoundFor(Kinds)'
      /\ \A b \in Acqs \ {Sender} : Untouched(b)
      /\ UNCHANGED <<registered, lpc, got, calls>>
  BY SenderKeepsEndpoint DEF NetIInv, Kinds
<1>2. /\ \A u \in Users : Untouched(u)
      /\ \A k \in Readers : Undisturbed(k)
  BY <1>1, Roles DEF Untouched
<1>3. UsersInPlace' /\ ReadersInPlace'
  BY <1>1, <1>2, UsersStay, ReadersStay DEF NetIInv
<1>4. LineInOrder'
  <2>1. CASE (SendLoop \/ SendAcquire) /\ ~UNCHANGED vars
    <3>1. UNCHANGED sent
      BY <2>1 DEF SendLoop, SendAcquire, sendRest, netVars
    <3>2. BlockingCall(Sender, DrainCall) /\ spc' = "acquire"
      BY <2>1, SenderCalls DEF NetIInv
    <3>3. QED
      BY <1>1, <3>1, <3>2, SenderTakes
  <2>2. CASE SendAcquire /\ UNCHANGED vars
    <3>1. UNCHANGED <<spc, sent>>
      BY <2>2 DEF SendAcquire, netVars
    <3>2. Untouched(Sender) /\ QueueStill(SendQueue)
      BY <2>2, StillAlone, Roles
    <3>3. HeldMessages' = HeldMessages
      BY <3>1, <3>2, HeldStays
    <3>4. \A u \in Users : \A m \in Sends : Handed(u, m) => Handed(u, m)'
      BY <1>1, <1>2, HandedStays DEF Untouched
    <3>5. QED
      BY <3>1, <3>2, <3>3, <3>4, LineStays DEF NetIInv
  <2>3. CASE SendStart \/ SendSkip \/ SendOut \/ SendEndOfScope \/ (SendLoop /\ UNCHANGED vars)
    BY <2>3, SenderLetsGo
  <2>4. QED
    BY <2>1, <2>2, <2>3 DEF DataSender
<1>5. QED
  BY <1>1, <1>3, <1>4 DEF NetIInv

------------------------------------------------------------------------------
(* The threads of the application.                                         *)

\* What such a thread does to its acquisition leaves both loops in their place.
LEMMA ApplicationLeavesLoops ==
    ASSUME NetIInv, NEW a \in Users \cup Readers, OwnStep(a),
           UNCHANGED <<registered, lpc, spc, got, sent>>
    PROVE  /\ IInv' /\ OwnQueuesRun' /\ ListenerInPlace' /\ SenderInPlace'
           /\ HeldMessages' = HeldMessages
           /\ \A b \in Acqs \ {a} : Untouched(b)
<1>1. IInv /\ a \in Acqs /\ a # Listener /\ a # Sender /\ Listener \in Acqs /\ Sender \in Acqs
  BY Roles DEF NetIInv, EndpointIInv
<1>2. \A b \in Acqs \ {a} : Untouched(b)
  BY <1>1, OwnStepAlone
<1>3. Untouched(Listener) /\ Untouched(Sender)
  BY <1>1, <1>2
<1>4. IInv'
  BY <1>1, OwnStepKeepsIInv
<1>5. UNCHANGED <<running, notifier>>
  BY <1>1, OwnStepLeavesClosers
<1>6. registered' \subseteq DOMAIN QueueFor
  BY DEF NetIInv, EndpointIInv, ListenerInPlace
<1>7. QED
  BY <1>1, <1>2, <1>3, <1>4, <1>5, <1>6, QueuesStayOpen, ListenerStays, SenderStays, HeldStays
     DEF NetIInv, EndpointIInv, Untouched

LEMMA UserOwnStep ==
    ASSUME NetIInv, NEW u \in Users, SendCall(u) \/ InSend(u)
    PROVE  /\ OwnStep(u)
           /\ (SendCall(u) \/ Constructing(u)) => BlockingCall(u, UserCall)
<1>1. SendCall(u) => BlockingCall(u, UserCall)
  BY DEF SendCall, Construct, BlockingCall, UserCall
<1>2. Constructing(u) => BlockingCall(u, UserCall)
  <2>1. Constructing(u) => pc[u] \notin {"idle", "live"}
    BY DEF Constructing, Wait, Resume, CheckRunning
  <2>2. pc[u] \notin {"idle", "live"} => InCall(u, UserCall)
    BY DEF NetIInv, EndpointIInv, UsersInPlace, UserInPlace
  <2>3. QED
    BY <2>1, <2>2 DEF BlockingCall
<1>3. SendCopy(u) => HandOver(u, Outgoing(u, calls[u]), SendQueue) /\ Outgoing(u, calls[u]) \in Values
  <2>1. SendCopy(u) => calls[u] \in 1 .. MaxSends
    BY UDPBaseAssumption DEF SendCopy, NetIInv, EndpointIInv, UsersInPlace, UserInPlace
  <2>2. \A n \in 1 .. MaxSends : Outgoing(u, n) \in Values
    BY UDPBaseAssumption DEF Messages
  <2>3. SendCopy(u) => Outgoing(u, calls[u]) \in Values
    BY <2>1, <2>2
  <2>4. QED
    BY <2>3 DEF SendCopy, HandOver
<1>4. QED
  BY <1>1, <1>2, <1>3, Roles, CallsOfEndpoint, BlockingCallEffect
     DEF NetIInv, EndpointIInv, InSend, SendReturn, OwnStep

\* The place of the thread in Send, and the line of messages, after a step of
\* Send that puts nothing into the send queue.
LEMMA UserKeepsPlace ==
    ASSUME NetIInv, NEW u \in Users, SendCall(u) \/ InSend(u)
    PROVE  UserInPlace(u)' /\ calls' \in [Users -> 0 .. MaxSends]
<1>1. /\ IInv /\ u \in Acqs /\ UserInPlace(u)
      /\ calls \in [Users -> 0 .. MaxSends] /\ calls[u] \in Nat
  BY Roles, UDPBaseAssumption DEF NetIInv, EndpointIInv, UsersInPlace
<1>2. CASE SendCall(u) \/ (Constructing(u) /\ UNCHANGED netVars)
  <2>1. /\ enq'[u] => enq[u] /\ next'[u] = next[u]
        /\ \/ InCall(u, UserCall)' /\ data'[u] = NULL
           \/ pc'[u] = "live" /\ data'[u] = NULL
           \/ pc'[u] = "live" /\ data'[u] # NULL /\ ~enq'[u]
        /\ pc[u] # "live"
    <3>1. BlockingCall(u, UserCall)
      BY <1>2, UserOwnStep DEF InSend
    <3>2. pc[u] # "live"
      BY <3>1 DEF BlockingCall, Acquire, AcquireUnlock, InCall
    <3>3. QED
      BY <1>1, <3>1, <3>2, CallsOfEndpoint, BlockingCallEffect
  <2>2. ~enq'[u]
    BY <1>1, <2>1 DEF UserInPlace, IInv, HoldsWhenLive
  <2>3. calls' \in [Users -> 0 .. MaxSends] /\ calls'[u] > 0
    <3>1. CASE SendCall(u)
      BY <1>1, <3>1, UDPBaseAssumption DEF SendCall
    <3>2. CASE Constructing(u) /\ UNCHANGED netVars
      <4>1. pc[u] # "idle" /\ UNCHANGED calls
        BY <3>2 DEF Constructing, Wait, Resume, CheckRunning, netVars
      <4>2. QED
        BY <1>1, <4>1 DEF UserInPlace
    <3>3. QED
      BY <1>2, <3>1, <3>2
  <2>4. QED
    BY <2>1, <2>2, <2>3 DEF UserInPlace
<1>3. CASE SendCopy(u)
  <2>1. /\ pc'[u] = "live" /\ calls' = calls /\ calls[u] > 0
        /\ data'[u] = data[u] /\ data[u] # NULL /\ data[u] \in Objects
        /\ next'[u] = SendQueue
        /\ content'[data[u]] = Outgoing(u, calls[u])
    BY <1>1, <1>3 DEF SendCopy, UserInPlace, IInv, TypeOK, netVars
  <2>2. QED
    BY <1>1, <2>1 DEF UserInPlace
<1>4. CASE SendReturn(u)
  <2>1. pc'[u] = "idle" /\ ~enq'[u] /\ UNCHANGED calls
    <3>1. CASE Catch(u)
      BY <1>1, <1>4, <3>1 DEF SendReturn, Catch, IInv, TypeOK, netVars
    <3>2. CASE Destroy(u)
      BY <1>1, <1>4, <3>2, DestroyEffect DEF SendReturn, netVars
    <3>3. QED
      BY <1>4, <3>1, <3>2 DEF SendReturn
  <2>2. QED
    BY <1>1, <2>1 DEF UserInPlace
<1>5. QED
  BY <1>2, <1>3, <1>4 DEF InSend

LEMMA UserHanded ==
    ASSUME NetIInv, NEW u \in Users, SendCall(u) \/ InSend(u)
    PROVE  \A v \in Users : \A m \in Sends : Handed(v, m) => Handed(v, m)'
<1>1. /\ IInv /\ u \in Acqs /\ OwnStep(u)
      /\ calls \in [Users -> 0 .. MaxSends] /\ calls[u] \in Nat
      /\ \A m \in Sends : m.seq \in Nat
  BY Roles, UserOwnStep, UDPBaseAssumption DEF NetIInv, EndpointIInv, UsersInPlace, Sends, Outgoing
<1>2. ASSUME NEW v \in Users \ {u}, NEW m \in Sends, Handed(v, m)
      PROVE  Handed(v, m)'
  <2>1. calls'[v] = calls[v]
    BY <1>1 DEF SendCall, InSend, SendCopy, SendReturn, netVars
  <2>2. Undisturbed(v)
    BY <1>1, OwnStepAlone, Roles DEF Untouched
  <2>3. QED
    BY <1>2, <2>1, <2>2 DEF Handed, Undisturbed
<1>3. ASSUME NEW m \in Sends, Handed(u, m)
      PROVE  Handed(u, m)'
  <2>1. CASE SendCall(u)
    <3>1. pc[u] = "idle" /\ calls'[u] = calls[u] + 1
      BY <1>1, <2>1, ConstructIsAStep DEF SendCall
    <3>2. QED
      BY <1>1, <1>3, <3>1 DEF Handed
  <2>2. CASE InSend(u)
    <3>1. calls'[u] = calls[u] /\ pc[u] # "idle"
      BY <2>2, <1>1, DestroyEffect
         DEF InSend, SendCopy, SendReturn, netVars, Constructing, Wait, Resume, CheckRunning, Catch
    <3>2. QED
      BY <1>1, <1>3, <3>1 DEF Handed
  <2>3. QED
    BY <2>1, <2>2
<1>4. QED
  BY <1>2, <1>3

\* A message that goes to the tail of the send queue comes after those of the
\* same thread that are there, held by the sender or sent.
LEMMA UserPushes ==
    ASSUME NetIInv, NEW u \in Users, pc[u] = "live", enq[u], UNCHANGED <<content, sent>>,
           items'[SendQueue] = Append(items[SendQueue], data[u]),
           HeldMessages' = HeldMessages,
           \A v \in Users : \A m \in Sends : Handed(v, m) => Handed(v, m)',
           pc'[u] = "idle", calls'[u] = calls[u]
    PROVE  LineInOrder'
<1> DEFINE S == items[SendQueue]
           m == content[data[u]]
<1>1. /\ LineInOrder
      /\ m = Outgoing(u, calls[u]) /\ calls[u] \in 1 .. MaxSends
      /\ data[u] \in Objects
      /\ S \in Seq(Objects)
  <2>1. IInv /\ UserInPlace(u) /\ calls[u] \in 0 .. MaxSends
    BY DEF NetIInv, EndpointIInv, UsersInPlace
  <2>2. QED
    BY <2>1, Roles, UDPBaseAssumption DEF NetIInv, EndpointIInv, UserInPlace, IInv, TypeOK, Stores
<1>2. m \in Sends /\ m.user = u /\ m.seq = calls[u]
  BY <1>1 DEF Sends, Outgoing
<1>3. \A n \in SentMessages \cup HeldMessages \cup QueuedMessages : Before(n, m)
  <2>1. \A n \in SentMessages \cup HeldMessages \cup QueuedMessages : Handed(u, n)
    BY <1>1 DEF LineInOrder
  <2>2. QED
    BY <1>2, <2>1 DEF Handed, Before
<1>4. /\ DOMAIN items'[SendQueue] = 1 .. Len(S) + 1
      /\ DOMAIN S = 1 .. Len(S)
      /\ Len(S) \in Nat
      /\ \A i \in 1 .. Len(S) : items'[SendQueue][i] = S[i]
      /\ items'[SendQueue][Len(S) + 1] = data[u]
  <2>1. /\ DOMAIN Append(S, data[u]) = 1 .. Len(S) + 1
        /\ DOMAIN S = 1 .. Len(S)
        /\ Len(S) \in Nat
        /\ \A i \in 1 .. Len(S) : Append(S, data[u])[i] = S[i]
        /\ Append(S, data[u])[Len(S) + 1] = data[u]
    BY <1>1, AppendAt
  <2>2. QED
    BY <2>1
<1>5. content'[data[u]] = m
  OBVIOUS
<1> HIDE DEF m
<1>6. QueuedMessages' = QueuedMessages \cup {m}
  <2>1. \A i \in 1 .. Len(S) + 1 : i \in 1 .. Len(S) \/ i = Len(S) + 1
    BY <1>4
  <2>2. QueuedMessages' \subseteq QueuedMessages \cup {m}
    BY <1>4, <1>5, <2>1 DEF QueuedMessages
  <2>3. QueuedMessages \subseteq QueuedMessages'
    BY <1>4 DEF QueuedMessages
  <2>4. m \in QueuedMessages'
    BY <1>4, <1>5 DEF QueuedMessages
  <2>5. QED
    BY <2>2, <2>3, <2>4
<1>7. SentMessages' = SentMessages
  BY DEF SentMessages
<1>8. ASSUME NEW i \in DOMAIN items'[SendQueue], NEW j \in DOMAIN items'[SendQueue], i < j
      PROVE  Before(content'[items'[SendQueue][i]], content'[items'[SendQueue][j]])
  <2>1. i \in DOMAIN S /\ items'[SendQueue][i] = S[i]
    BY <1>4, <1>8
  <2>2. CASE j = Len(S) + 1
    <3>1. content[S[i]] \in QueuedMessages
      BY <2>1 DEF QueuedMessages
    <3>2. QED
      BY <1>3, <1>4, <1>5, <2>1, <2>2, <3>1
  <2>3. CASE j \in DOMAIN S
    <3>1. items'[SendQueue][j] = S[j]
      BY <1>4, <2>3
    <3>2. QED
      BY <1>1, <1>8, <2>1, <2>3, <3>1 DEF LineInOrder
  <2>4. QED
    BY <1>4, <2>2, <2>3
<1>9. \A v \in Users : \A n \in SentMessages' \cup HeldMessages' \cup QueuedMessages' : Handed(v, n)'
  <2>1. \A v \in Users, n \in Sends : n = m => Handed(v, n)'
    BY <1>1, <1>2 DEF Handed
  <2>2. \A v \in Users : \A n \in SentMessages \cup HeldMessages \cup QueuedMessages :
            n \in Sends /\ Handed(v, n)
    BY <1>1 DEF LineInOrder, SentMessages
  <2>3. QED
    BY <1>2, <1>6, <1>7, <2>1, <2>2
<1>10. /\ AllBefore(SentMessages', HeldMessages')
       /\ AllBefore(SentMessages', QueuedMessages')
       /\ AllBefore(HeldMessages', QueuedMessages')
  BY <1>1, <1>3, <1>6, <1>7 DEF LineInOrder, AllBefore
<1>11. /\ sent' \in Seq(Sends) /\ SentOnceInOrder'
       /\ HeldMessages' \cup QueuedMessages' \subseteq Sends
  BY <1>1, <1>2, <1>6 DEF LineInOrder, SentOnceInOrder
<1>12. QED
  BY <1>8, <1>9, <1>10, <1>11 DEF LineInOrder, AllBefore, Before

LEMMA UserKeeps ==
    ASSUME NetIInv, NEW u \in Users, SendCall(u) \/ InSend(u)
    PROVE  NetIInv'
<1>0. /\ IInv /\ OwnStep(u) /\ u \in Acqs
      /\ UNCHANGED <<registered, lpc, spc, got, sent>>
      /\ SendQueue \in Queues
  BY UserOwnStep, Roles DEF NetIInv, EndpointIInv, SendCall, InSend, SendCopy, SendReturn, netVars
<1>1. /\ IInv' /\ OwnQueuesRun' /\ ListenerInPlace' /\ SenderInPlace'
      /\ HeldMessages' = HeldMessages
      /\ \A b \in Acqs \ {u} : Untouched(b)
  BY <1>0, ApplicationLeavesLoops
<1>2. UserInPlace(u)' /\ calls' \in [Users -> 0 .. MaxSends]
  BY UserKeepsPlace
<1>3. UsersInPlace'
  <2>1. ASSUME NEW v \in Users \ {u}
        PROVE  UserInPlace(v)'
    <3>1. calls'[v] = calls[v]
      BY DEF SendCall, InSend, SendCopy, SendReturn, netVars, NetIInv, EndpointIInv, UsersInPlace
    <3>2. UserInPlace(v) /\ Untouched(v)
      BY <1>1, Roles DEF NetIInv, EndpointIInv, UsersInPlace
    <3>3. QED
      BY <3>1, <3>2, UserStays
  <2>2. QED
    BY <1>2, <2>1 DEF UsersInPlace
<1>4. ReadersInPlace'
  BY <1>1, ReadersStay, Roles DEF NetIInv, EndpointIInv, Untouched
<1>5. \A v \in Users : \A m \in Sends : Handed(v, m) => Handed(v, m)'
  BY UserHanded
<1>6. LineInOrder'
  <2>1. CASE QueueStill(SendQueue)
    BY <1>0, <1>1, <1>5, <2>1, LineStays DEF NetIInv, EndpointIInv
  <2>2. CASE /\ UNCHANGED content
             /\ pc[u] \in {"idle", "notified"}
             /\ ~QueueStill(SendQueue)
    <3>1. BlockingCall(u, UserCall)
      <4>1. SendCall(u) \/ Constructing(u)
        BY <2>2, DestroyEffect, <1>0 DEF InSend, SendCopy, SendReturn, Catch
      <4>2. QED
        BY <4>1, UserOwnStep
    <3>2. QueueStill(SendQueue)
      BY <1>0, <3>1, CallsOfEndpoint, BlockingCallEffect
    <3>3. QED
      BY <2>2, <3>2
  <2>3. CASE /\ UNCHANGED content
             /\ Destroy(u) /\ GoesOn(u) /\ data[u] # NULL
             /\ items'[SendQueue] = Append(items[SendQueue], data[u])
    <3>1. pc[u] = "live" /\ pc'[u] = "idle"
      BY <1>0, <2>3, DestroyEffect
    <3>2. calls'[u] = calls[u]
      BY <1>0, <3>1, ConstructIsAStep DEF SendCall, InSend, SendCopy, SendReturn, netVars
    <3>3. QED
      BY <1>0, <1>1, <1>5, <2>3, <3>1, <3>2, UserPushes DEF GoesOn
  <2>4. QED
    BY <1>0, <2>1, <2>2, <2>3, OwnStepOnQueue
<1>7. QueuesHold(Kinds)' /\ BoundFor(Kinds)'
  <2>1. Kinds[SendQueue] = Sends
    BY Roles DEF Kinds, KindsWith
  <2>2. enq'[u] => next'[u] = SendQueue /\ content'[data'[u]] = Outgoing(u, calls'[u])
                   /\ calls'[u] > 0
    <3>1. pc'[u] # "idle" => calls'[u] > 0
      BY <1>2 DEF UserInPlace
    <3>2. data'[u] # NULL => pc'[u] = "live"
      BY <1>0, <1>1 DEF IInv, HoldsWhenLive
    <3>3. QED
      BY <1>2, <3>1, <3>2 DEF UserInPlace
  <2>3. enq'[u] => content'[data'[u]] \in Kinds[next'[u]]
    <3>1. calls'[u] > 0 => calls'[u] \in 1 .. MaxSends
      BY <1>2, UDPBaseAssumption
    <3>2. QED
      BY <2>1, <2>2, <3>1 DEF Sends
  <2>4. QED
    BY <1>0, <2>3, OwnStepKeepsKinds DEF NetIInv, EndpointIInv, GoesOn
<1>8. QED
  BY <1>1, <1>3, <1>4, <1>6, <1>7 DEF NetIInv, EndpointIInv

\* A polling thread takes nothing from the send queue and puts nothing anywhere.
LEMMA ReaderOwnStep ==
    ASSUME IInv, ReadersInPlace, NEW k \in Readers, ReadPoll(k) \/ ReadDone(k)
    PROVE  /\ OwnStep(k) /\ QueueStill(SendQueue)
           /\ pc'[k] \in {"idle", "live"} /\ ~enq'[k]
<1>0. k \in Acqs /\ SendQueue \in Queues /\ SendQueue \in Stores /\ ~enq[k]
  BY Roles DEF ReadersInPlace, Stores
<1>1. ASSUME NEW f \in DOMAIN QueueFor,
             Acquire(k, [q |-> QueueFor[f], t |-> "QUEUED", f |-> "NONBLOCKING"])
      PROVE  OwnStep(k) /\ QueueStill(SendQueue) /\ pc'[k] = "live" /\ ~enq'[k]
  <2> DEFINE c == [q |-> QueueFor[f], t |-> "QUEUED", f |-> "NONBLOCKING"]
  <2>1. c \in Calls /\ StoreOf(c) # SendQueue /\ c.f = "NONBLOCKING"
    BY UDPBaseAssumption DEF Calls, StoreOf
  <2>2. Acquire(k, c)
    BY <1>1
  <2> HIDE DEF c
  <2>3. QED
    BY <1>0, <2>1, <2>2, NonblockingCallEffect
<1>2. ReadDone(k) => Destroy(k)
  BY DEF ReadDone
<1>3. CASE Destroy(k)
  BY <1>0, <1>3, DestroyEffect, DropLeavesQueues DEF OwnStep
<1>4. QED
  BY <1>1, <1>2, <1>3 DEF ReadPoll

LEMMA ReaderKeeps ==
    ASSUME NetIInv, NEW k \in Readers, ReadPoll(k) \/ ReadDone(k)
    PROVE  NetIInv'
<1>0. /\ IInv /\ k \in Acqs /\ SendQueue \in Queues
      /\ UNCHANGED <<registered, lpc, spc, got, calls, sent>>
  BY Roles DEF NetIInv, EndpointIInv, ReadPoll, ReadDone, netVars
<1>1. OwnStep(k) /\ QueueStill(SendQueue) /\ pc'[k] \in {"idle", "live"} /\ ~enq'[k]
  BY <1>0, ReaderOwnStep DEF NetIInv
<1>2. /\ IInv' /\ OwnQueuesRun' /\ ListenerInPlace' /\ SenderInPlace'
      /\ HeldMessages' = HeldMessages
      /\ \A b \in Acqs \ {k} : Untouched(b)
  BY <1>0, <1>1, ApplicationLeavesLoops
<1>3. UsersInPlace'
  BY <1>0, <1>2, UsersStay, Roles DEF NetIInv, EndpointIInv
<1>4. ReadersInPlace'
  <2>1. ASSUME NEW j \in Readers \ {k}
        PROVE  pc'[j] \in {"idle", "live"} /\ ~enq'[j]
    BY <1>2, Roles DEF NetIInv, EndpointIInv, ReadersInPlace, Untouched, Undisturbed
  <2>2. QED
    BY <1>1, <2>1 DEF ReadersInPlace
<1>5. LineInOrder'
  <2>1. \A u \in Users : Undisturbed(u)
    BY <1>2, Roles DEF Untouched
  <2>2. QED
    BY <1>0, <1>1, <1>2, <2>1, HandedStays, LineStays DEF NetIInv, EndpointIInv
<1>6. QueuesHold(Kinds)' /\ BoundFor(Kinds)'
  BY <1>0, <1>1, OwnStepKeepsKinds DEF NetIInv, EndpointIInv, GoesOn
<1>7. QED
  BY <1>2, <1>3, <1>4, <1>5, <1>6 DEF NetIInv, EndpointIInv

------------------------------------------------------------------------------
(* Close, and the steps that touch no acquisition and no queue.            *)
LEMMA StillKeepsEndpoint ==
    ASSUME EndpointIInv, UNCHANGED <<vars, got>>, registered' \subseteq DOMAIN QueueFor,
           UNCHANGED lpc \/ (lpc = "none" /\ lpc' = "start"),
           UNCHANGED spc \/ (spc = "none" /\ spc' = "start")
    PROVE  EndpointIInv'
<1>1. IInv' /\ OwnQueuesRun'
  BY StillIInv, QueuesStayOpen DEF vars, EndpointIInv
<1>2. ListenerInPlace'
  BY DEF EndpointIInv, ListenerInPlace, vars, acqVars, InCall
<1>3. SenderInPlace'
  BY DEF EndpointIInv, SenderInPlace, vars, acqVars, InCall
<1>4. QED
  BY <1>1, <1>2, <1>3 DEF EndpointIInv

LEMMA UntouchedKeepsEndpoint ==
    ASSUME EndpointIInv, IInv', OwnQueuesRun', UNCHANGED <<lpc, spc, got>>,
           registered' \subseteq DOMAIN QueueFor, Untouched(Listener), Untouched(Sender)
    PROVE  EndpointIInv'
<1>1. IInv
  BY DEF EndpointIInv
<1>2. QED
  BY <1>1, ListenerStays, SenderStays DEF EndpointIInv, Untouched

LEMMA UntouchedKeep ==
    ASSUME NetIInv, IInv', OwnQueuesRun', UNCHANGED <<lpc, spc, got, calls, sent>>,
           registered' \subseteq DOMAIN QueueFor,
           \A b \in Acqs : Untouched(b), \A q \in Queues : QueueStill(q)
    PROVE  NetIInv'
<1>1. /\ Untouched(Listener) /\ Untouched(Sender)
      /\ \A u \in Users : Untouched(u)
      /\ \A k \in Readers : Undisturbed(k)
      /\ QueueStill(SendQueue)
  BY Roles DEF Untouched
<1>2. EndpointIInv'
  BY <1>1, UntouchedKeepsEndpoint DEF NetIInv
<1>3. UsersInPlace' /\ ReadersInPlace'
  BY <1>1, UsersStay, ReadersStay DEF NetIInv
<1>4. LineInOrder'
  <2>1. \A u \in Users : \A m \in Sends : Handed(u, m) => Handed(u, m)'
    BY <1>1, HandedStays DEF Untouched
  <2>2. HeldMessages' = HeldMessages
    BY <1>1, HeldStays
  <2>3. QED
    BY <1>1, <2>1, <2>2, LineStays DEF NetIInv
<1>5. QueuesHold(Kinds)' /\ BoundFor(Kinds)'
  BY UntouchedKeepsKinds DEF NetIInv
<1>6. QED
  BY <1>2, <1>3, <1>4, <1>5 DEF NetIInv

\* Nobody closes a queue of the endpoint, so they stay open.
LEMMA ClosersLeaveQueuesOpen ==
    ASSUME IInv, OwnQueuesRun, NEW c \in Closers,
           \/ (\E q \in Queues : NotifyAll(c, q)) \/ Notifying(c)
           \/ \E q \in Queues \ {SendQueue, ReceiveQueue} : Close(c, q)
    PROVE  OwnQueuesRun'
<1>1. /\ notifier \in [Closers -> [q : Queues, at : Phases] \cup {NULL}]
      /\ running \in [Queues -> BOOLEAN]
  BY DEF IInv, TypeOK
<1>2. CASE MarkClosed(c)
  <2>1. notifier[c] \in [q : Queues, at : Phases] /\ notifier[c].at = "mark"
    BY <1>1, <1>2 DEF MarkClosed
  <2>2. notifier[c].q \notin {SendQueue, ReceiveQueue}
    BY <1>2 DEF MarkClosed, OwnQueuesRun
  <2>3. /\ running' = [running EXCEPT ![notifier[c].q] = FALSE]
        /\ notifier'[c].at = "unused"
        /\ \A d \in Closers \ {c} : notifier'[d] = notifier[d]
    BY <1>1, <1>2, <2>1 DEF MarkClosed
  <2>4. QED
    BY <1>1, <2>2, <2>3 DEF OwnQueuesRun
<1>3. CASE (\E q \in Queues : NotifyAll(c, q)) \/ NotifyUnused(c) \/ NotifyQueued(c)
  <2>1. /\ UNCHANGED running
        /\ notifier'[c] = NULL \/ notifier'[c].at \in {"unused", "queued"}
        /\ \A d \in Closers \ {c} : notifier'[d] = notifier[d]
    BY <1>1, <1>3 DEF NotifyAll, NotifyUnused, NotifyQueued
  <2>2. QED
    BY <2>1 DEF OwnQueuesRun
<1>4. CASE \E q \in Queues \ {SendQueue, ReceiveQueue} : Close(c, q)
  <2>1. /\ UNCHANGED running
        /\ notifier'[c].q \notin {SendQueue, ReceiveQueue}
        /\ \A d \in Closers \ {c} : notifier'[d] = notifier[d]
    BY <1>1, <1>4 DEF Close
  <2>2. QED
    BY <2>1 DEF OwnQueuesRun
<1>5. QED
  BY <1>2, <1>3, <1>4 DEF Notifying

LEMMA CloseKeeps ==
    ASSUME NetIInv, CloseSocket \/ CloseNotify \/ CloseJoinSender
    PROVE  NetIInv'
<1>0. IInv /\ Closer \in Closers /\ SendQueue \in Queues /\ ReceiveQueue \in Queues
  BY Roles, UDPBaseAssumption DEF NetIInv, EndpointIInv
<1>1. ClosingStep(Closer)
  BY <1>0 DEF CloseSocket, CloseNotify, CloseJoinSender, ClosingStep
<1>2. IInv' /\ (\A b \in Acqs : Untouched(b)) /\ (\A q \in Queues : QueueStill(q))
  BY <1>0, <1>1, ClosingStepKeepsIInv, ClosingStepAlone
<1>3. OwnQueuesRun'
  <2>1. OwnQueuesRun
    BY DEF NetIInv, EndpointIInv
  <2>2. QED
    BY <1>0, <2>1, ClosersLeaveQueuesOpen DEF CloseSocket, CloseNotify, CloseJoinSender
<1>4. UNCHANGED <<lpc, spc, got, calls, sent>> /\ registered' \subseteq DOMAIN QueueFor
  BY DEF CloseSocket, CloseNotify, CloseJoinSender, closeRest, netVars, NetIInv, EndpointIInv,
         ListenerInPlace
<1>5. QED
  BY <1>2, <1>3, <1>4, UntouchedKeep

------------------------------------------------------------------------------
LEMMA NetInitEstablishes == NetInit => NetIInv
<1> SUFFICES ASSUME NetInit
             PROVE  NetIInv
  OBVIOUS
<1>1. IInv
  BY InitEstablishesIInv DEF NetInit
<1>2. /\ \A q \in Queues : running[q] /\ items[q] = <<>>
      /\ \A c \in Closers : notifier[c] = NULL
      /\ \A a \in Acqs : pc[a] = "idle" /\ data[a] = NULL /\ enq[a] = FALSE
      /\ calls = [u \in Users |-> 0] /\ sent = <<>>
      /\ lpc = "none" /\ spc = "none" /\ got = "empty" /\ registered = {}
  BY StockAssumption DEF NetInit, Init, InitialItems, Stores
<1>3. OwnQueuesRun
  BY <1>2, Roles DEF OwnQueuesRun
<1>4. ListenerInPlace /\ SenderInPlace /\ ReadersInPlace
  BY <1>2, Roles DEF ListenerInPlace, SenderInPlace, ReadersInPlace
<1>5. UsersInPlace
  BY <1>2, Roles, UDPBaseAssumption DEF UsersInPlace, UserInPlace
<1>6. QueuesHold(Kinds) /\ BoundFor(Kinds)
  BY <1>2 DEF QueuesHold, BoundFor
<1>7. LineInOrder
  <2>1. sent \in Seq(Sends) /\ DOMAIN sent = {} /\ DOMAIN items[SendQueue] = {}
    BY <1>2, Roles
  <2>2. SentMessages = {} /\ QueuedMessages = {} /\ HeldMessages = {}
    BY <1>2, <2>1, Roles DEF SentMessages, QueuedMessages, HeldMessages
  <2>3. QED
    BY <2>1, <2>2 DEF LineInOrder, SentOnceInOrder, AllBefore
<1>8. QED
  BY <1>1, <1>3, <1>4, <1>5, <1>6, <1>7 DEF NetIInv, EndpointIInv

\* The invariant of the endpoint is inductive: each thread keeps it, whatever the
\* others are in the middle of.
THEOREM NetIInvIsInductive == NetIInv /\ [NetNext]_allVars => NetIInv'
<1> SUFFICES ASSUME NetIInv, [NetNext]_allVars
             PROVE  NetIInv'
  OBVIOUS
<1>0. IInv /\ OwnQueuesRun /\ registered \subseteq DOMAIN QueueFor
  BY DEF NetIInv, EndpointIInv, ListenerInPlace
<1>1. ASSUME UNCHANGED vars, UNCHANGED <<got, calls, sent>>,
             registered' \subseteq DOMAIN QueueFor,
             UNCHANGED lpc \/ (lpc = "none" /\ lpc' = "start"),
             UNCHANGED spc \/ (spc = "none" /\ spc' = "start")
      PROVE  NetIInv'
  <2>1. EndpointIInv'
    BY <1>1, StillKeepsEndpoint DEF NetIInv
  <2>2. (\A b \in Acqs : Untouched(b)) /\ (\A q \in Queues : QueueStill(q))
    BY <1>1, StillAlone
  <2>3. HeldMessages' = HeldMessages
    BY <1>1 DEF HeldMessages, vars, acqVars
  <2>4. /\ \A u \in Users : Untouched(u)
        /\ \A k \in Readers : Undisturbed(k)
    BY <2>2, Roles DEF Untouched
  <2>5. \A u \in Users : \A m \in Sends : Handed(u, m) => Handed(u, m)'
    BY <1>1, <2>4, HandedStays DEF Untouched
  <2>6. UsersInPlace' /\ ReadersInPlace' /\ LineInOrder'
    BY <1>1, <2>2, <2>3, <2>4, <2>5, UsersStay, ReadersStay, LineStays, Roles DEF NetIInv
  <2>7. QueuesHold(Kinds)' /\ BoundFor(Kinds)'
    BY <2>2, UntouchedKeepsKinds DEF NetIInv
  <2>8. QED
    BY <2>1, <2>6, <2>7 DEF NetIInv
<1>2. CASE InitSender \/ InitReceiver \/ CloseBegin \/ CloseJoinListener
  BY <1>0, <1>1, <1>2 DEF InitSender, InitReceiver, CloseBegin, CloseJoinListener, Closing, closeRest
<1>3. CASE \E f \in Families : RegisterQueue(f)
  BY <1>0, <1>1, <1>3 DEF RegisterQueue
<1>4. CASE UNCHANGED allVars
  BY <1>0, <1>1, <1>4 DEF allVars, netVars
<1>5. ASSUME NEW a \in Acqs, WakeSpuriously(a), UNCHANGED netVars
      PROVE  NetIInv'
  <2>1. OwnStep(a)
    BY <1>5 DEF OwnStep
  <2>2. IInv' /\ OwnQueuesRun'
    BY <1>0, <2>1, OwnStepKeepsIInv, OwnStepLeavesClosers, QueuesStayOpen
  <2>3. (\A b \in Acqs : Untouched(b)) /\ (\A q \in Queues : QueueStill(q))
    BY <1>0, <1>5 DEF WakeSpuriously, Untouched, Undisturbed, QueueStill, IInv, TypeOK
  <2>4. UNCHANGED <<lpc, spc, got, calls, sent>> /\ registered' \subseteq DOMAIN QueueFor
    BY <1>0, <1>5 DEF netVars
  <2>5. QED
    BY <2>2, <2>3, <2>4, UntouchedKeep
<1>6. CASE DataListener \/ DataSender
  BY <1>6, ListenerKeeps, SenderKeeps
<1>7. CASE \E u \in Users : SendCall(u) \/ InSend(u)
  BY <1>7, UserKeeps
<1>8. CASE \E k \in Readers : ReadPoll(k) \/ ReadDone(k)
  BY <1>8, ReaderKeeps
<1>9. CASE CloseSocket \/ CloseNotify \/ CloseJoinSender
  BY <1>9, CloseKeeps
<1>10. QED
  BY <1>2, <1>3, <1>4, <1>5, <1>6, <1>7, <1>8, <1>9 DEF NetNext, CloseGoesOn

\* The invariant of the endpoint holds in every behaviour of UDPBase.cpp.
THEOREM NetInvariantHolds == NetSpec => []NetIInv
<1>1. NetInit => NetIInv
  BY NetInitEstablishes
<1>2. NetIInv /\ [NetNext]_allVars => NetIInv'
  BY NetIInvIsInductive
<1>3. QED
  BY <1>1, <1>2, PTL DEF NetSpec

\* DataListener writes each datagram into the object its constructor returned
\* without a check for null.  There always is one: the receive queue is never
\* closed, so a constructor that finds no object throws, however it was woken.
THEOREM ListenerAlwaysHasBuffer == NetSpec => []ListenerHasBuffer
<1>1. NetIInv => ListenerHasBuffer
  BY DEF NetIInv, EndpointIInv, ListenerInPlace, ListenerHasBuffer
<1>2. QED
  BY <1>1, NetInvariantHolds, PTL

\* Objects are shared by both directions and all queues and keep their old
\* contents, yet what lies in the send queue was written by Send, in the queue
\* of a family by DataListener for that family, and in the receive queue by
\* DataListener: each is written and bound for its queue in the same scope.
THEOREM QueuesNeverCross == NetSpec => []QueuesDoNotCross
<1>1. ASSUME NetIInv
      PROVE  QueuesDoNotCross
  <2>1. /\ \A q \in Queues : \A i \in DOMAIN items[q] : content[items[q][i]] \in Kinds[q]
        /\ SendQueue \in Queues /\ ReceiveQueue \in Queues /\ SendQueue # ReceiveQueue
        /\ \A f \in DOMAIN QueueFor : QueueFor[f] \in Queues \ {SendQueue, ReceiveQueue}
    BY <1>1, UDPBaseAssumption DEF NetIInv, EndpointIInv, QueuesHold
  <2>2. /\ Kinds[SendQueue] = Sends
        /\ Kinds[ReceiveQueue] = {Received(f) : f \in Families}
        /\ \A f \in DOMAIN QueueFor : Kinds[QueueFor[f]] =
               {Received(g) : g \in {h \in DOMAIN QueueFor : QueueFor[h] = QueueFor[f]}}
    BY <2>1 DEF Kinds, KindsWith
  <2>3. (\A m \in Sends : m.dir = "out") /\ (\A f \in Families : Received(f).dir = "in")
    BY DEF Sends, Outgoing, Received
  <2>4. QED
    BY <2>1, <2>2, <2>3 DEF QueuesDoNotCross
<1>2. QED
  BY <1>1, NetInvariantHolds, PTL

\* Messages go from a thread's object through the send queue and the sender's
\* object to the socket without overtaking each other, and none is given to the
\* socket twice, although an object is used again as soon as it is back.
THEOREM SentAlwaysOnceInOrder == NetSpec => []SentOnceInOrder
<1>1. NetIInv => SentOnceInOrder
  BY DEF NetIInv, EndpointIInv, LineInOrder
<1>2. QED
  BY <1>1, NetInvariantHolds, PTL

------------------------------------------------------------------------------
(* Sequences, and the contents of a sequence of objects.                   *)
Cons(x, w) == <<x>> \o w
Snoc(w, x) == Append(w, x)

\* The contents of a sequence of objects.
Image(f, s) == [i \in DOMAIN s |-> f[s[i]]]

LEMMA ImageType ==
    ASSUME NEW O, NEW C, NEW f \in [O -> C], NEW s \in Seq(O)
    PROVE  /\ Image(f, s) \in Seq(C)
           /\ DOMAIN Image(f, s) = 1 .. Len(s) /\ Len(Image(f, s)) = Len(s)
           /\ \A i \in 1 .. Len(s) : Image(f, s)[i] = f[s[i]]
<1>1. DOMAIN s = 1 .. Len(s) /\ Len(s) \in Nat /\ \A i \in 1 .. Len(s) : s[i] \in O
  OBVIOUS
<1>2. QED
  BY <1>1 DEF Image

\* What a sequence with a new head has at each position.
LEMMA ConsAt ==
    ASSUME NEW S, NEW x \in S, NEW g \in Seq(S)
    PROVE  /\ <<x>> \o g \in Seq(S) /\ Len(<<x>> \o g) = Len(g) + 1
           /\ (<<x>> \o g)[1] = x
           /\ \A i \in 1 .. Len(g) : (<<x>> \o g)[i + 1] = g[i]
  OBVIOUS

LEMMA ConsParts ==
    ASSUME NEW S, NEW x \in S, NEW w \in Seq(S)
    PROVE  /\ Cons(x, w) \in Seq(S) /\ Cons(x, w) # <<>>
           /\ Head(Cons(x, w)) = x /\ Tail(Cons(x, w)) = w
<1> DEFINE c == <<x>> \o w
<1>1. /\ c \in Seq(S) /\ Len(c) = Len(w) + 1 /\ Len(w) \in Nat
      /\ c[1] = x
      /\ \A i \in 1 .. Len(w) : c[i + 1] = w[i]
  BY ConsAt
<1> HIDE DEF c
<1>2. c # <<>>
  BY <1>1
<1>3. /\ Head(c) = x
      /\ Tail(c) \in Seq(S) /\ Len(Tail(c)) = Len(w)
      /\ \A i \in 1 .. Len(w) : Tail(c)[i] = w[i]
  BY <1>1, <1>2, TailAt
<1>4. Tail(c) = w
  BY <1>3
<1>5. QED
  BY <1>1, <1>2, <1>3, <1>4 DEF c, Cons

LEMMA ImageOfTail ==
    ASSUME NEW O, NEW C, NEW f \in [O -> C], NEW s \in Seq(O), s # <<>>
    PROVE  Image(f, s) = Cons(f[Head(s)], Image(f, Tail(s)))
<1> DEFINE t == Tail(s)
           x == f[Head(s)]
           g == Image(f, t)
           lhs == Image(f, s)
           rhs == <<x>> \o g
           n == Len(s)
<1>1. /\ n \in Nat \ {0} /\ t \in Seq(O) /\ Len(t) = n - 1
      /\ Head(s) = s[1] /\ s[1] \in O
      /\ \A i \in 1 .. n - 1 : t[i] = s[i + 1]
  BY TailAt
<1>2. x \in C /\ x = f[s[1]]
  BY <1>1
<1> HIDE DEF t, x
<1>3. g \in Seq(C) /\ Len(g) = n - 1 /\ \A i \in 1 .. n - 1 : g[i] = f[s[i + 1]]
  <2>1. g \in Seq(C) /\ Len(g) = Len(t) /\ \A i \in 1 .. Len(t) : g[i] = f[t[i]]
    BY <1>1, ImageType
  <2> HIDE DEF g, n
  <2>2. QED
    BY <1>1, <2>1
<1>4. lhs \in Seq(C) /\ Len(lhs) = n /\ \A i \in 1 .. n : lhs[i] = f[s[i]]
  <2>1. DOMAIN s = 1 .. n /\ \A i \in 1 .. n : s[i] \in O
    OBVIOUS
  <2>2. QED
    BY <1>1, <2>1 DEF Image
<1> HIDE DEF g, lhs
<1>5. /\ rhs \in Seq(C) /\ Len(rhs) = Len(g) + 1
      /\ rhs[1] = x
      /\ \A i \in 1 .. Len(g) : rhs[i + 1] = g[i]
  BY <1>2, <1>3, ConsAt
<1> HIDE DEF rhs, n
<1>6. /\ Len(rhs) = n
      /\ \A i \in 1 .. n - 1 : rhs[i + 1] = g[i]
  BY <1>1, <1>3, <1>5
<1>7. ASSUME NEW i \in 1 .. n
      PROVE  rhs[i] = lhs[i]
  <2>1. CASE i = 1
    BY <1>1, <1>2, <1>4, <1>5, <2>1
  <2>2. CASE i # 1
    <3>1. i - 1 \in 1 .. n - 1 /\ (i - 1) + 1 = i
      BY <1>1, <2>2
    <3>2. QED
      BY <1>3, <1>4, <1>6, <3>1
  <2>3. QED
    BY <2>1, <2>2
<1>8. lhs = rhs
  BY <1>4, <1>5, <1>6, <1>7
<1>9. QED
  BY <1>8 DEF lhs, rhs, x, g, t, Cons

LEMMA ImageOfAppend ==
    ASSUME NEW O, NEW f, NEW s \in Seq(O), NEW o \in O
    PROVE  Image(f, Snoc(s, o)) = Snoc(Image(f, s), f[o])
<1> DEFINE t == Append(s, o)
           C == {f[y] : y \in O}
<1>0. f[o] \in C /\ \A y \in O : f[y] \in C
  OBVIOUS
<1>1. /\ Len(s) \in Nat /\ t \in Seq(O) /\ Len(t) = Len(s) + 1
      /\ \A i \in 1 .. Len(s) : t[i] = s[i]
      /\ t[Len(s) + 1] = o
  OBVIOUS
<1> HIDE DEF t, C
<1>2. /\ Image(f, t) \in Seq(C) /\ Len(Image(f, t)) = Len(s) + 1
      /\ \A i \in 1 .. Len(s) + 1 : Image(f, t)[i] = f[t[i]]
  <2>1. DOMAIN t = 1 .. Len(t) /\ \A i \in 1 .. Len(t) : t[i] \in O
    BY <1>1
  <2>2. QED
    BY <1>0, <1>1, <2>1 DEF Image
<1>3. /\ Image(f, s) \in Seq(C) /\ Len(Image(f, s)) = Len(s)
      /\ \A i \in 1 .. Len(s) : Image(f, s)[i] = f[s[i]]
  <2>1. DOMAIN s = 1 .. Len(s) /\ \A i \in 1 .. Len(s) : s[i] \in O
    OBVIOUS
  <2>2. QED
    BY <1>0, <2>1 DEF Image
<1>4. /\ Append(Image(f, s), f[o]) \in Seq(C)
      /\ Len(Append(Image(f, s), f[o])) = Len(s) + 1
      /\ \A i \in 1 .. Len(s) + 1 : Append(Image(f, s), f[o])[i] = f[t[i]]
  BY <1>0, <1>1, <1>3
<1>5. Image(f, t) = Append(Image(f, s), f[o])
  <2> DEFINE lhs == Image(f, t)
             rhs == Append(Image(f, s), f[o])
             n == Len(s) + 1
  <2>1. /\ lhs \in Seq(C) /\ rhs \in Seq(C) /\ Len(lhs) = n /\ Len(rhs) = n
        /\ \A i \in 1 .. n : lhs[i] = rhs[i]
    BY <1>2, <1>4
  <2> HIDE DEF lhs, rhs, n
  <2>2. lhs = rhs
    BY <2>1
  <2>3. QED
    BY <2>2 DEF lhs, rhs
<1>6. QED
  BY <1>5 DEF t, Snoc

------------------------------------------------------------------------------
(* The outbox: what the sender holds and what waits for it.                *)
Contents == Values \cup {Blank}
Leaving == IF spc = "acquire" THEN HeldForSending(Sender) ELSE <<>>
Waiting == Image(content, items[SendQueue])

LEMMA OutboxParts == Outbox = Leaving \o Waiting /\ Outbox' = Leaving' \o Waiting'
  BY DEF Outbox, Leaving, Waiting, Image

LEMMA OutboxTyped ==
    ASSUME IInv
    PROVE  /\ content \in [Objects -> Contents] /\ items[SendQueue] \in Seq(Objects)
           /\ Leaving \in Seq(Contents) /\ Waiting \in Seq(Contents) /\ Outbox \in Seq(Contents)
<1>1. /\ content \in [Objects -> Contents] /\ items[SendQueue] \in Seq(Objects)
      /\ \A a \in Acqs : data[a] \in Objects \cup {NULL}
  BY Roles DEF IInv, TypeOK, Contents, Stores
<1>2. Waiting \in Seq(Contents)
  BY <1>1, ImageType DEF Waiting
<1>3. Leaving \in Seq(Contents)
  BY <1>1, Roles DEF Leaving, HeldForSending
<1>4. QED
  BY <1>1, <1>2, <1>3, OutboxParts

LEMMA WaitingStays ==
    ASSUME QueueStill(SendQueue)
    PROVE  Waiting' = Waiting
  BY DEF Waiting, Image, QueueStill

LEMMA LeavingStays ==
    ASSUME Untouched(Sender), UNCHANGED spc
    PROVE  Leaving' = Leaving
  BY DEF Leaving, HeldForSending, Untouched, Undisturbed

LEMMA OutboxStays ==
    ASSUME QueueStill(SendQueue), Untouched(Sender), UNCHANGED spc
    PROVE  Outbox' = Outbox
  BY OutboxParts, WaitingStays, LeavingStays

\* An object that is put into the send queue puts its message at the end.
LEMMA OutboxGrows ==
    ASSUME IInv, NEW o \in Objects, UNCHANGED content, Leaving' = Leaving,
           items'[SendQueue] = Append(items[SendQueue], o)
    PROVE  Outbox' = Append(Outbox, content[o])
<1>1. /\ content \in [Objects -> Contents] /\ items[SendQueue] \in Seq(Objects)
      /\ Leaving \in Seq(Contents) /\ Waiting \in Seq(Contents) /\ content[o] \in Contents
  BY OutboxTyped
<1>2. Waiting' = Snoc(Waiting, content[o])
  <2> DEFINE w == items[SendQueue]
  <2>1. w \in Seq(Objects)
    BY <1>1
  <2> HIDE DEF w
  <2>2. Image(content, Snoc(w, o)) = Snoc(Image(content, w), content[o])
    BY <2>1, ImageOfAppend
  <2>3. QED
    BY <2>2 DEF w, Snoc, Waiting
<1>3. Leaving \o Snoc(Waiting, content[o]) = Snoc(Leaving \o Waiting, content[o])
  <2> DEFINE x == content[o]
             C == Contents
             l == Leaving
             w == Waiting
  <2>1. l \in Seq(C) /\ w \in Seq(C) /\ x \in C
    BY <1>1
  <2> HIDE DEF x, C, l, w
  <2>2. l \o Snoc(w, x) = Snoc(l \o w, x)
    BY <2>1 DEF Snoc
  <2>3. QED
    BY <2>2 DEF x, l, w
<1>4. Outbox' = Snoc(Outbox, content[o])
  BY <1>2, <1>3, OutboxParts
<1>5. QED
  BY <1>4 DEF Snoc

\* The sender takes the first message of the outbox out of it, gives it to the
\* socket or, once the endpoint stands still, drops it; it does nothing else to it.
LEMMA SenderServesOutbox ==
    ASSUME EndpointIInv, DataSender
    PROVE  \/ UNCHANGED <<Outbox, sent>>
           \/ /\ spc = "acquire" /\ UNCHANGED <<up, open>>
              /\ Outbox' \in Seq(Contents)
              /\ \E x \in Contents :
                     /\ Outbox = Cons(x, Outbox')
                     /\ \/ up /\ open /\ sent' = Append(sent, x)
                        \/ (~up \/ ~open) /\ UNCHANGED sent
<1>1. /\ IInv /\ Sender \in Acqs
      /\ content \in [Objects -> Contents] /\ items[SendQueue] \in Seq(Objects)
      /\ Waiting \in Seq(Contents)
      /\ <<>> \o Waiting = Waiting
  BY OutboxTyped, Roles DEF EndpointIInv
<1>2. CASE (SendLoop \/ SendAcquire) /\ ~UNCHANGED vars
  <2>1. /\ BlockingCall(Sender, DrainCall) /\ spc' = "acquire" /\ UNCHANGED sent
    BY <1>2, SenderCalls DEF SendLoop, SendAcquire, sendRest, netVars
  <2>2. Leaving = <<>>
    <3>1. pc[Sender] # "live"
      BY <2>1 DEF BlockingCall, Acquire, AcquireUnlock, InCall
    <3>2. QED
      BY <1>1, <3>1 DEF IInv, HoldsWhenLive, Leaving, HeldForSending
  <2>3. /\ UNCHANGED content
        /\ \/ data'[Sender] = NULL /\ QueueStill(SendQueue)
           \/ /\ data'[Sender] # NULL
              /\ items[SendQueue] # <<>>
              /\ items'[SendQueue] = Tail(items[SendQueue])
              /\ data'[Sender] = Head(items[SendQueue])
    BY <2>1, SenderTakesOne
  <2>4. CASE data'[Sender] = NULL
    <3>1. Leaving' = <<>> /\ Waiting' = Waiting
      BY <2>3, <2>4, WaitingStays DEF Leaving, HeldForSending
    <3>2. QED
      BY <2>1, <2>2, <3>1, OutboxParts
  <2>5. CASE data'[Sender] # NULL
    <3>1. Leaving' = <<content[Head(items[SendQueue])]>>
      BY <2>1, <2>3, <2>5 DEF Leaving, HeldForSending
    <3>2. Waiting = Cons(content[Head(items[SendQueue])], Waiting')
      <4>1. Image(content, items[SendQueue]) =
                Cons(content[Head(items[SendQueue])], Image(content, Tail(items[SendQueue])))
        BY <1>1, <2>3, <2>5, ImageOfTail
      <4>2. QED
        BY <2>3, <2>5, <4>1 DEF Waiting
    <3>3. Outbox' = Waiting /\ Outbox = Waiting
      BY <1>1, <2>2, <3>1, <3>2, OutboxParts DEF Cons
    <3>4. QED
      BY <2>1, <3>3
  <2>6. QED
    BY <2>4, <2>5
<1>3. CASE SendAcquire /\ UNCHANGED vars
  <2>1. UNCHANGED <<spc, sent>>
    BY <1>3 DEF SendAcquire, netVars
  <2>2. QED
    BY <1>3, <2>1, StillAlone, Roles, OutboxStays
<1>4. CASE SendStart \/ SendSkip \/ SendOut \/ SendEndOfScope \/ (SendLoop /\ UNCHANGED vars)
  <2>1. Leaving' = <<>> /\ Waiting' = Waiting
    <3>1. spc' # "acquire" /\ QueueStill(SendQueue)
      BY <1>4, SenderLetsGoOne
    <3>2. QED
      BY <3>1, WaitingStays DEF Leaving
  <2>2. Outbox' = Waiting /\ Outbox' \in Seq(Contents)
    BY <1>1, <2>1, OutboxParts
  <2>3. CASE (SendSkip \/ SendOut) /\ data[Sender] # NULL
    <3> DEFINE x == content[data[Sender]]
    <3>1. /\ spc = "acquire" /\ UNCHANGED <<up, open>>
          /\ \/ up /\ open /\ sent' = Append(sent, x)
             \/ (~up \/ ~open) /\ UNCHANGED sent
      BY <2>3 DEF SendSkip, SendOut, Sending, sendRest
    <3>2. x \in Contents /\ Leaving = <<x>>
      BY <1>1, <2>3, <3>1 DEF IInv, TypeOK, Leaving, HeldForSending
    <3> HIDE DEF x
    <3>3. Outbox = Cons(x, Outbox')
      BY <2>2, <3>2, OutboxParts DEF Cons
    <3>4. QED
      BY <2>2, <3>1, <3>2, <3>3
  <2>4. CASE ~((SendSkip \/ SendOut) /\ data[Sender] # NULL)
    <3>1. Leaving = <<>> /\ UNCHANGED sent
      BY <1>4, <2>4
         DEF SendStart, SendSkip, SendOut, SendEndOfScope, SendLoop, Sending, sendRest, Leaving,
             HeldForSending
    <3>2. QED
      BY <1>1, <2>2, <3>1, OutboxParts
  <2>5. QED
    BY <2>3, <2>4
<1>5. QED
  BY <1>2, <1>3, <1>4 DEF DataSender

\* What is in the outbox is held by the sender or waits in the send queue.
LEMMA OutboxHolds ==
    ASSUME IInv
    PROVE  \A i \in DOMAIN Outbox : Outbox[i] \in HeldMessages \cup QueuedMessages
<1>1. /\ content \in [Objects -> Contents] /\ items[SendQueue] \in Seq(Objects)
      /\ Waiting \in Seq(Contents) /\ Outbox \in Seq(Contents)
      /\ <<>> \o Waiting = Waiting
  BY OutboxTyped
<1>2. \A i \in DOMAIN Waiting : Waiting[i] \in QueuedMessages
  BY DEF Waiting, Image, QueuedMessages
<1>3. CASE Leaving = <<>>
  BY <1>1, <1>2, <1>3, OutboxParts
<1>4. CASE spc = "acquire" /\ data[Sender] # NULL
  <2> DEFINE x == content[data[Sender]]
  <2>1. Leaving = <<x>> /\ HeldMessages = {x}
    BY <1>4 DEF Leaving, HeldForSending, HeldMessages
  <2>2. x \in Contents
    <3>1. data[Sender] \in Objects
      BY <1>4, Roles DEF IInv, TypeOK
    <3>2. QED
      BY <1>1, <3>1
  <2> HIDE DEF x
  <2>3. /\ Len(Outbox) = Len(Waiting) + 1 /\ Len(Waiting) \in Nat
        /\ Outbox[1] = x
        /\ \A i \in 1 .. Len(Waiting) : Outbox[i + 1] = Waiting[i]
    BY <1>1, <2>1, <2>2, ConsAt, OutboxParts
  <2>4. ASSUME NEW i \in DOMAIN Outbox, i # 1
        PROVE  Outbox[i] \in QueuedMessages
    <3>1. i \in 1 .. Len(Waiting) + 1
      BY <1>1, <2>3
    <3>2. i - 1 \in 1 .. Len(Waiting) /\ (i - 1) + 1 = i
      BY <2>3, <2>4, <3>1
    <3>3. i - 1 \in DOMAIN Waiting /\ Outbox[i] = Waiting[i - 1]
      BY <1>1, <2>3, <3>2
    <3>4. QED
      BY <1>2, <3>3
  <2>5. QED
    BY <2>1, <2>3, <2>4
<1>5. QED
  BY <1>3, <1>4 DEF Leaving, HeldForSending

\* A thread in Send puts its message at the end of the outbox, or nothing.
LEMMA UserServesOutbox ==
    ASSUME NetIInv, NEW u \in Users, SendCall(u) \/ InSend(u)
    PROVE  /\ UNCHANGED <<up, open, sent>>
           /\ \/ UNCHANGED Outbox
              \/ \E m \in Sends : Promise!IsNew(m) /\ Outbox' = Append(Outbox, m)
<1>0. /\ IInv /\ OwnStep(u) /\ u \in Acqs /\ SendQueue \in Queues
      /\ UNCHANGED <<registered, lpc, spc, got, sent, up, open>>
  BY UserOwnStep, Roles DEF NetIInv, EndpointIInv, SendCall, InSend, SendCopy, SendReturn, netVars
<1>1. Untouched(Sender)
  BY <1>0, OwnStepAlone, Roles
<1>2. CASE QueueStill(SendQueue)
  BY <1>0, <1>1, <1>2, OutboxStays
<1>3. CASE ~QueueStill(SendQueue) /\ pc[u] \in {"idle", "notified"}
  <2>1. BlockingCall(u, UserCall)
    <3>1. SendCall(u) \/ Constructing(u)
      BY <1>0, <1>3, DestroyEffect DEF InSend, SendCopy, SendReturn, Catch
    <3>2. QED
      BY <3>1, UserOwnStep
  <2>2. QueueStill(SendQueue)
    BY <1>0, <2>1, CallsOfEndpoint, BlockingCallEffect
  <2>3. QED
    BY <1>3, <2>2
<1>4. CASE /\ UNCHANGED content
           /\ Destroy(u) /\ GoesOn(u) /\ data[u] # NULL
           /\ items'[SendQueue] = Append(items[SendQueue], data[u])
  <2> DEFINE m == content[data[u]]
  <2>1. /\ pc[u] = "live" /\ enq[u] /\ data[u] \in Objects
        /\ calls[u] \in 1 .. MaxSends
        /\ m = Outgoing(u, calls[u])
    <3>1. pc[u] = "live" /\ enq[u] /\ data[u] \in Objects
      BY <1>0, <1>4, DestroyEffect DEF GoesOn, IInv, TypeOK
    <3>2. UserInPlace(u) /\ calls[u] \in 0 .. MaxSends
      BY DEF NetIInv, UsersInPlace
    <3>3. QED
      BY <3>1, <3>2, UDPBaseAssumption DEF UserInPlace
  <2>2. m \in Sends /\ m.user = u /\ m.seq = calls[u]
    BY <2>1 DEF Sends, Outgoing
  <2>3. Outbox' = Append(Outbox, m)
    BY <1>0, <1>1, <1>4, <2>1, OutboxGrows, LeavingStays
  <2> HIDE DEF m
  <2>4. Promise!IsNew(m)
    <3>1. \A n \in SentMessages \cup HeldMessages \cup QueuedMessages :
              n.user = u => n.seq < calls[u]
      BY <2>1 DEF NetIInv, LineInOrder, Handed
    <3>2. \A i \in DOMAIN sent : sent[i] \in SentMessages
      BY DEF SentMessages
    <3>3. \A i \in DOMAIN Outbox : Outbox[i] \in HeldMessages \cup QueuedMessages
      BY <1>0, OutboxHolds
    <3>4. /\ \A i \in DOMAIN sent : sent[i].user = m.user => sent[i].seq < m.seq
          /\ \A i \in DOMAIN Outbox : Outbox[i].user = m.user => Outbox[i].seq < m.seq
      BY <2>2, <3>1, <3>2, <3>3
    <3>5. QED
      BY <3>4 DEF Promise!IsNew
  <2>5. QED
    BY <1>0, <2>2, <2>3, <2>4
<1>5. QED
  BY <1>0, <1>2, <1>3, <1>4, OwnStepOnQueue

\* All others leave the outbox alone; they may start or stop the endpoint.
LEMMA OutboxLeft ==
    ASSUME UNCHANGED <<Outbox, sent>>
    PROVE  [Promise!Next]_(Promise!vars)
<1> DEFINE s == ~up \/ ~open
<1>1. s \in BOOLEAN /\ s' \in BOOLEAN
  OBVIOUS
<1> HIDE DEF s
<1>2. s' = s \/ s' = ~s
  BY <1>1
<1>3. CASE s' = s
  BY <1>3 DEF Promise!vars, s
<1>4. CASE s' = ~s
  <2>1. Promise!StartOrStop
    BY <1>4 DEF Promise!StartOrStop, s
  <2>2. QED
    BY <2>1 DEF Promise!Next
<1>5. QED
  BY <1>2, <1>3, <1>4

\* Each step of the endpoint is a step of the line, or none.
LEMMA StepServesLine ==
    ASSUME NetIInv, [NetNext]_allVars
    PROVE  [Promise!Next]_(Promise!vars)
<1>0. /\ EndpointIInv /\ IInv
      /\ Sender \in Acqs /\ SendQueue \in Queues
  BY Roles DEF NetIInv, EndpointIInv
<1>1. CASE DataSender
  <2>1. CASE UNCHANGED <<Outbox, sent>>
    BY <2>1, OutboxLeft
  <2>2. ASSUME UNCHANGED <<up, open>>, Outbox' \in Seq(Contents),
               NEW x \in Contents, Outbox = Cons(x, Outbox'),
               \/ up /\ open /\ sent' = Append(sent, x)
               \/ (~up \/ ~open) /\ UNCHANGED sent
        PROVE  Promise!Next
    <3>1. Outbox # <<>> /\ Head(Outbox) = x /\ Outbox' = Tail(Outbox)
      BY <2>2, ConsParts
    <3>2. CASE up /\ open /\ sent' = Append(sent, x)
      BY <2>2, <3>1, <3>2 DEF Promise!Next, Promise!Transmit
    <3>3. CASE (~up \/ ~open) /\ UNCHANGED sent
      BY <2>2, <3>1, <3>3 DEF Promise!Next, Promise!Drop
    <3>4. QED
      BY <2>2, <3>2, <3>3
  <2>3. QED
    BY <1>0, <1>1, <2>1, <2>2, SenderServesOutbox
<1>2. CASE \E u \in Users : SendCall(u) \/ InSend(u)
  <2>1. PICK u \in Users : SendCall(u) \/ InSend(u)
    BY <1>2
  <2>2. UNCHANGED <<up, open, sent>>
    BY <2>1, UserServesOutbox
  <2>3. CASE UNCHANGED Outbox
    BY <2>2, <2>3, OutboxLeft
  <2>4. ASSUME NEW m \in Sends, Promise!IsNew(m), Outbox' = Append(Outbox, m)
        PROVE  Promise!Next
    BY <2>2, <2>4 DEF Promise!Next, Promise!HandOver, Sends
  <2>5. QED
    BY <2>1, <2>3, <2>4, UserServesOutbox
<1>3. ASSUME QueueStill(SendQueue), Untouched(Sender), UNCHANGED <<spc, sent>>
      PROVE  [Promise!Next]_(Promise!vars)
  BY <1>3, OutboxStays, OutboxLeft
<1>4. CASE DataListener
  <2>1. Untouched(Sender) /\ UNCHANGED <<spc, sent>>
    BY <1>4, ListenerKeepsEndpoint, Roles DEF NetIInv, Kinds
  <2>2. QED
    BY <1>0, <1>3, <1>4, <2>1, ListenerLeavesSendQueue
<1>5. ASSUME NEW k \in Readers, ReadPoll(k) \/ ReadDone(k)
      PROVE  [Promise!Next]_(Promise!vars)
  <2>1. OwnStep(k) /\ QueueStill(SendQueue)
    BY <1>0, <1>5, ReaderOwnStep DEF NetIInv
  <2>2. Untouched(Sender)
    BY <1>0, <2>1, OwnStepAlone, Roles
  <2>3. UNCHANGED <<spc, sent>>
    BY <1>5 DEF ReadPoll, ReadDone, netVars
  <2>4. QED
    BY <1>3, <2>1, <2>2, <2>3
<1>6. CASE InitSender
  <2>1. Leaving' = Leaving
    BY <1>6 DEF InitSender, Leaving
  <2>2. Outbox' = Outbox
    BY <1>0, <1>6, <2>1, OutboxParts, WaitingStays, StillAlone DEF InitSender, vars
  <2>3. QED
    BY <1>6, <2>2, OutboxLeft DEF InitSender
<1>7. CASE \/ InitReceiver \/ CloseBegin \/ CloseJoinListener \/ UNCHANGED allVars
           \/ \E f \in Families : RegisterQueue(f)
  <2>1. UNCHANGED <<vars, spc, sent>>
    BY <1>7 DEF InitReceiver, CloseBegin, CloseJoinListener, RegisterQueue, closeRest, allVars, netVars
  <2>2. QED
    BY <1>0, <1>3, <2>1, StillAlone DEF vars
<1>8. CASE CloseSocket \/ CloseNotify \/ CloseJoinSender
  <2>1. ClosingStep(Closer)
    BY <1>0, <1>8, Roles DEF CloseSocket, CloseNotify, CloseJoinSender, ClosingStep
  <2>2. UNCHANGED <<spc, sent>>
    BY <1>8 DEF CloseSocket, CloseNotify, CloseJoinSender, closeRest, netVars
  <2>3. QED
    BY <1>0, <1>3, <2>1, <2>2, ClosingStepAlone, UDPBaseAssumption
<1>9. CASE \E a \in Acqs : WakeSpuriously(a) /\ UNCHANGED netVars
  <2>1. Untouched(Sender) /\ QueueStill(SendQueue) /\ UNCHANGED <<spc, sent>>
    BY <1>0, <1>9 DEF WakeSpuriously, Untouched, Undisturbed, QueueStill, IInv, TypeOK, netVars
  <2>2. QED
    BY <1>3, <2>1
<1>10. QED
  BY <1>1, <1>2, <1>4, <1>5, <1>6, <1>7, <1>8, <1>9 DEF NetNext, CloseGoesOn

\* Send, the send queue and the sender are one line for all threads: the messages
\* are given to the socket in the order in which they entered the queue, each once,
\* and none is dropped as long as _running is true and the socket open.  So Send
\* loses no message of an endpoint at work, although buffers run out, the queue is
\* shared and the sender is woken for nothing.
THEOREM EndpointImplementsSendLine == NetSpec => ImplementsSendLine
<1>1. NetInit => Promise!Init
  <2> SUFFICES ASSUME NetInit
               PROVE  Promise!Init
    OBVIOUS
  <2>1. spc = "none" /\ ~up /\ sent = <<>> /\ items[SendQueue] = <<>>
    BY StockAssumption, Roles DEF NetInit, Init, InitialItems, Stores
  <2>2. Outbox = <<>>
    BY <2>1, OutboxParts DEF Leaving, Waiting, Image
  <2>3. QED
    BY <2>1, <2>2 DEF Promise!Init
<1>2. NetIInv /\ [NetNext]_allVars => [Promise!Next]_(Promise!vars)
  BY StepServesLine
<1>3. QED
  BY <1>1, <1>2, NetInvariantHolds, PTL DEF NetSpec, ImplementsSendLine, Promise!Spec

==============================================================================
