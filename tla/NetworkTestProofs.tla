-------------------------- MODULE NetworkTestProofs --------------------------
(***************************************************************************)
(* Theorems about the network test, for any number of runs and buffers and *)
(* whatever else the network sends: the asserts of the test hold, nothing  *)
(* uses the pool when it is destroyed, and every packet that the client    *)
(* has counted is on its way, once and in order.                           *)
(***************************************************************************)
EXTENDS NetworkTest, UDPBaseProofs

Kind == KindsWith(Packets)

InScope == {"countA", "countB", "copyA", "copyB", "handA", "handB"}
BetweenScopes ==
    {"registerA", "registerB", "sender", "receiver", "loop", "pollA", "pollB", "takeA", "takeB"}
AfterClose == {"closeA", "closingA", "closeB", "closingB", "gone"}

\* The client holds a buffer in its scopes only, and what it is about to enqueue
\* is a packet for the send queue.
ClientInPlace ==
    /\ tpc \in InScope \cup BetweenScopes \cup {"close"} \cup AfterClose
    /\ pc[Doa] = IF tpc \in InScope THEN "live" ELSE "idle"
    /\ enq[Doa] => /\ tpc \in {"handA", "handB"}
                   /\ data[Doa] # NULL
                   /\ next[Doa] = SendQueue
                   /\ content[data[Doa]] \in Packets
    /\ AssertsHold

OthersIdle == \A a \in Acqs \ {Listener, Sender, Doa} : pc[a] = "idle"

\* Close waits for both threads and the client for Close; while the endpoint is
\* open its threads stop only after the listener has failed.
StagesInOrder ==
    /\ cpc \in {"open", "socket", "sender", "listener", "closed"}
    /\ tpc \in InScope \cup BetweenScopes => cpc = "open"
    /\ tpc \in AfterClose => cpc = "closed"
    /\ cpc \in {"listener", "closed"} => spc = "end"
    /\ cpc = "closed" => lpc = "end"
    /\ cpc = "open" => open
    /\ cpc = "open" /\ ~up /\ spc \notin {"none", "start"} => lpc = "end"

CountsInPlace ==
    /\ made \in [Types -> 0 .. Runs]
    /\ tpc = "copyA" => made[TypeA] < Runs
    /\ tpc = "copyB" => made[TypeB] < Runs
    /\ sent \in Seq(Contents)

\* The line holds the packets that are counted as m says, each once, in order.
Whole(line, m) ==
    /\ {line[i] : i \in DOMAIN line} = {p \in Packets : p.data < m[p.type]}
    /\ \A i, j \in DOMAIN line :
           i < j /\ line[i].type = line[j].type => line[i].data < line[j].data

\* No packet is dropped unless the endpoint is closed or its listener has failed;
\* before both threads have run nothing is sent, but nothing is dropped either.
Draining == cpc = "open" /\ (up \/ lpc # "end" \/ spc \in {"none", "start"})
WayWhole == Draining => Whole(OnTheWay, made)

TestIInv ==
    /\ EndpointIInv
    /\ QueuesHold(Kind)
    /\ BoundFor(Kind)
    /\ ClientInPlace
    /\ OthersIdle
    /\ StagesInOrder
    /\ CountsInPlace
    /\ WayWhole

------------------------------------------------------------------------------
(* The line of packets: sent, in the outbox, held by the client.           *)
Line(a, w, d) == a \o w \o d

LEMMA MovedToFront ==
    ASSUME NEW S, NEW a \in Seq(S), NEW w \in Seq(S), NEW d \in Seq(S), NEW x \in S
    PROVE  Line(a, Cons(x, w), d) = Line(Append(a, x), w, d)
<1>1. a \o (<<x>> \o w) = a \o <<x>> \o w
  OBVIOUS
<1>2. a \o <<x>> = Append(a, x)
  OBVIOUS
<1>3. QED
  BY <1>1, <1>2 DEF Line, Cons

LEMMA MovedToBack ==
    ASSUME NEW S, NEW a \in Seq(S), NEW w \in Seq(S), NEW x \in S
    PROVE  Line(a, w, <<x>>) = Line(a, Append(w, x), <<>>)
<1>1. a \o w \o <<x>> = a \o Append(w, x)
  <2>1. a \o w \o <<x>> = a \o (w \o <<x>>)
    OBVIOUS
  <2>2. w \o <<x>> = Append(w, x)
    OBVIOUS
  <2>3. QED
    BY <2>1, <2>2
<1>2. a \o Append(w, x) \in Seq(S)
  OBVIOUS
<1>3. a \o Append(w, x) \o <<>> = a \o Append(w, x)
  BY <1>2
<1>4. QED
  BY <1>1, <1>3 DEF Line

LEMMA AddedAtBack ==
    ASSUME NEW S, NEW a \in Seq(S), NEW w \in Seq(S), NEW x \in S
    PROVE  Line(a, w, <<x>>) = Append(Line(a, w, <<>>), x)
  BY DEF Line

LEMMA LineType ==
    ASSUME NEW S, NEW a \in Seq(S), NEW w \in Seq(S), NEW d \in Seq(S)
    PROVE  Line(a, w, d) \in Seq(S)
  BY DEF Line

\* Every packet is made of a type and a number.
LEMMA PacketParts ==
    /\ \A p \in Packets : p.type \in Types /\ p.data \in 0 .. Runs - 1 /\ p = Packet(p.type, p.data)
    /\ \A t \in Types, n \in 0 .. Runs - 1 :
           Packet(t, n) \in Packets /\ Packet(t, n).type = t /\ Packet(t, n).data = n
  BY DEF Packets, Packet

\* A packet that is counted when it joins the line leaves it whole.
LEMMA WholeGrows ==
    ASSUME NEW line \in Seq(Contents), NEW m \in [Types -> 0 .. Runs], NEW t \in Types,
           m[t] < Runs, Whole(line, m), NEW x, x = Packet(t, m[t])
    PROVE  Whole(Append(line, x), [m EXCEPT ![t] = @ + 1])
<1> DEFINE n == [m EXCEPT ![t] = @ + 1]
           longer == Append(line, x)
<1>1. /\ m[t] \in 0 .. Runs - 1 /\ Runs \in Nat
      /\ x \in Packets /\ x.type = t /\ x.data = m[t]
      /\ x \in Contents
  BY PacketParts, TestAssumption DEF Contents
<1>2. n[t] = m[t] + 1 /\ \A s \in Types \ {t} : n[s] = m[s]
  OBVIOUS
<1>3. /\ DOMAIN longer = 1 .. Len(line) + 1 /\ DOMAIN line = 1 .. Len(line) /\ Len(line) \in Nat
      /\ \A i \in 1 .. Len(line) : longer[i] = line[i]
      /\ longer[Len(line) + 1] = x
  BY <1>1, AppendAt
<1> HIDE DEF n, longer
<1>4. {longer[i] : i \in DOMAIN longer} = {line[i] : i \in DOMAIN line} \cup {x}
  <2>1. \A i \in 1 .. Len(line) + 1 : i \in 1 .. Len(line) \/ i = Len(line) + 1
    BY <1>3
  <2>2. 1 .. Len(line) \subseteq 1 .. Len(line) + 1 /\ Len(line) + 1 \in 1 .. Len(line) + 1
    BY <1>3
  <2>3. QED
    BY <1>3, <2>1, <2>2
<1>5. {p \in Packets : p.data < n[p.type]} = {p \in Packets : p.data < m[p.type]} \cup {x}
  <2>1. ASSUME NEW p \in Packets
        PROVE  p.data < n[p.type] <=> p.data < m[p.type] \/ p = x
    <3>1. p.type \in Types /\ p.data \in 0 .. Runs - 1 /\ p = Packet(p.type, p.data)
      BY PacketParts
    <3>2. CASE p.type # t
      BY <1>1, <1>2, <3>1, <3>2
    <3>3. CASE p.type = t
      <4>1. p = x <=> p.data = m[t]
        BY <1>1, <3>1, <3>3
      <4>2. QED
        BY <1>1, <1>2, <3>1, <3>3, <4>1
    <3>4. QED
      BY <3>2, <3>3
  <2>2. QED
    BY <1>1, <2>1
<1>6. ASSUME NEW i \in DOMAIN longer, NEW j \in DOMAIN longer, i < j,
             longer[i].type = longer[j].type
      PROVE  longer[i].data < longer[j].data
  <2>1. i \in DOMAIN line /\ longer[i] = line[i]
    BY <1>3, <1>6
  <2>2. CASE j \in DOMAIN line
    <3>1. longer[j] = line[j]
      BY <1>3, <2>2
    <3>2. QED
      BY <1>6, <2>1, <2>2, <3>1 DEF Whole
  <2>3. CASE j = Len(line) + 1
    <3>1. line[i] \in Packets /\ line[i].data < m[line[i].type]
      BY <2>1 DEF Whole
    <3>2. QED
      BY <1>1, <1>3, <1>6, <2>1, <2>3, <3>1
  <2>4. QED
    BY <1>3, <2>2, <2>3
<1>7. QED
  BY <1>4, <1>5, <1>6 DEF Whole, n, longer

------------------------------------------------------------------------------
(* What the line is made of, and how it moves.                             *)
Coming == IF enq[Doa] THEN HeldForSending(Doa) ELSE <<>>

LEMMA WayIsLine ==
    OnTheWay = Line(sent, Outbox, Coming) /\ OnTheWay' = Line(sent', Outbox', Coming')
  BY DEF OnTheWay, Line, Coming

LEMMA LineTyped ==
    ASSUME IInv, sent \in Seq(Contents)
    PROVE  /\ Outbox \in Seq(Contents) /\ Coming \in Seq(Contents)
           /\ OnTheWay \in Seq(Contents)
<1>1. Outbox \in Seq(Contents) /\ content \in [Objects -> Contents]
  BY OutboxTyped
<1>2. \A a \in Acqs : data[a] # NULL => content[data[a]] \in Contents
  BY <1>1 DEF IInv, TypeOK
<1>3. Coming \in Seq(Contents)
  BY <1>2, TestAssumption DEF Coming, HeldForSending
<1>4. OnTheWay \in Seq(Contents)
  BY <1>1, <1>3, WayIsLine, LineType
<1>5. QED
  BY <1>1, <1>3, <1>4

LEMMA ComingStays ==
    ASSUME Untouched(Doa)
    PROVE  Coming' = Coming
  BY DEF Coming, HeldForSending, Untouched, Undisturbed

\* Nobody moves the line but the sender and the client.
LEMMA WayStays ==
    ASSUME QueueStill(SendQueue), Untouched(Doa), Untouched(Sender), UNCHANGED <<spc, sent>>
    PROVE  OnTheWay' = OnTheWay
  BY WayIsLine, OutboxStays, ComingStays

\* The sender gives the first packet of the outbox to the socket; it drops none as
\* long as the line drains.
LEMMA SenderMovesLine ==
    ASSUME EndpointIInv, DataSender, StagesInOrder, sent \in Seq(Contents), Untouched(Doa)
    PROVE  /\ sent' \in Seq(Contents)
           /\ Draining' => OnTheWay' = OnTheWay
<1>1. IInv /\ Coming \in Seq(Contents) /\ Coming' = Coming
  BY LineTyped, ComingStays DEF EndpointIInv
<1>2. CASE UNCHANGED <<Outbox, sent>>
  BY <1>1, <1>2, WayIsLine
<1>3. ASSUME spc = "acquire", UNCHANGED <<up, open>>, Outbox' \in Seq(Contents),
             NEW x \in Contents, Outbox = Cons(x, Outbox'),
             \/ up /\ open /\ sent' = Append(sent, x)
             \/ (~up \/ ~open) /\ UNCHANGED sent
      PROVE  sent' \in Seq(Contents) /\ (Draining' => OnTheWay' = OnTheWay)
  <2>1. CASE sent' = Append(sent, x)
    <3>1. Line(sent, Cons(x, Outbox'), Coming) = Line(Append(sent, x), Outbox', Coming)
      BY <1>1, <1>3, MovedToFront
    <3>2. OnTheWay' = OnTheWay
      BY <1>1, <1>3, <2>1, <3>1, WayIsLine
    <3>3. sent' \in Seq(Contents)
      BY <2>1, AppendAt
    <3>4. QED
      BY <3>2, <3>3
  <2>2. CASE (~up \/ ~open) /\ UNCHANGED sent
    <3>1. UNCHANGED <<lpc, cpc>> /\ spc' \in {"acquire", "loop", "drop"}
      BY <1>3
         DEF DataSender, SendStart, SendLoop, SendAcquire, SendSkip, SendOut, SendEndOfScope, Sending,
             sendRest, netVars
    <3>2. ~Draining'
      BY <1>3, <2>2, <3>1 DEF Draining, StagesInOrder
    <3>3. QED
      BY <2>2, <3>2
  <2>3. QED
    BY <1>3, <2>1, <2>2
<1>4. QED
  BY <1>2, <1>3, SenderServesOutbox

------------------------------------------------------------------------------
(* What each part of the invariant survives.                               *)
LEMMA TestRoles ==
    /\ Doa \in Acqs /\ Doa # Listener /\ Doa # Sender
    /\ Kind[SendQueue] = Packets
    /\ \A t \in Types : /\ QueueFor[t] \in Queues /\ QueueFor[t] # SendQueue
                        /\ Kind[QueueFor[t]] = {Received(t)}
<1>1. ASSUME NEW t \in Types
      PROVE  /\ QueueFor[t] \in Queues /\ QueueFor[t] # SendQueue
             /\ Kind[QueueFor[t]] = {Received(t)}
  <2>1. t \in DOMAIN QueueFor /\ QueueFor[t] \in Queues \ {SendQueue, ReceiveQueue}
    BY TestAssumption, UDPBaseAssumption
  <2>2. {f \in DOMAIN QueueFor : QueueFor[f] = QueueFor[t]} = {t}
    BY <2>1, TestAssumption
  <2>3. QED
    BY <2>1, <2>2 DEF Kind, KindsWith
<1>2. QED
  BY <1>1, Roles, TestAssumption DEF Kind, KindsWith

LEMMA ClientStays ==
    ASSUME ClientInPlace, Untouched(Doa), UNCHANGED tpc
    PROVE  ClientInPlace'
<1>1. pc'[Doa] = pc[Doa]
  BY DEF ClientInPlace, Untouched, Undisturbed
<1>2. QED
  BY <1>1 DEF ClientInPlace, AssertsHold, Untouched, Undisturbed

LEMMA OthersStay ==
    ASSUME OthersIdle, \A a \in Acqs \ {Listener, Sender, Doa} : Untouched(a)
    PROVE  OthersIdle'
  BY DEF OthersIdle, Untouched, Undisturbed

\* The endpoint and everybody else, after a step of the client's acquisition.
LEMMA ClientLeavesRest ==
    ASSUME TestIInv, OwnStep(Doa), UNCHANGED netVars,
           enq'[Doa] => next'[Doa] = SendQueue /\ content'[data'[Doa]] \in Packets
    PROVE  /\ EndpointIInv' /\ QueuesHold(Kind)' /\ BoundFor(Kind)' /\ OthersIdle'
           /\ Leaving' = Leaving /\ Draining' = Draining
<1>1. IInv /\ Doa \in Acqs /\ \A a \in Acqs \ {Doa} : Untouched(a)
  BY TestRoles, OwnStepAlone DEF TestIInv, EndpointIInv
<1>2. Untouched(Listener) /\ Untouched(Sender)
  BY <1>1, Roles, TestRoles
<1>3. EndpointIInv'
  <2>1. IInv' /\ UNCHANGED <<running, notifier>>
    BY <1>1, OwnStepKeepsIInv, OwnStepLeavesClosers
  <2>2. OwnQueuesRun'
    BY <2>1, QueuesStayOpen DEF TestIInv, EndpointIInv
  <2>3. registered' \subseteq DOMAIN QueueFor /\ UNCHANGED <<lpc, spc, got>>
    BY DEF TestIInv, EndpointIInv, ListenerInPlace, netVars
  <2>4. QED
    BY <1>2, <2>1, <2>2, <2>3, UntouchedKeepsEndpoint DEF TestIInv
<1>4. QueuesHold(Kind)' /\ BoundFor(Kind)'
  <2>1. (data[Doa] # NULL /\ GoesOn(Doa) => content[data[Doa]] \in Kind[next[Doa]])'
    BY TestRoles DEF GoesOn
  <2>2. QED
    BY <1>1, <2>1, OwnStepKeepsKinds DEF TestIInv
<1>5. OthersIdle'
  BY <1>1, OthersStay DEF TestIInv
<1>6. Leaving' = Leaving
  BY <1>2, LeavingStays DEF netVars
<1>7. Draining' = Draining
  BY DEF Draining, netVars
<1>8. QED
  BY <1>3, <1>4, <1>5, <1>6, <1>7

\* A step of the client's acquisition that neither lengthens nor shortens the line.
LEMMA ClientKeepsLine ==
    ASSUME TestIInv, OwnStep(Doa), UNCHANGED <<netVars, made>>,
           ~enq[Doa], ~enq'[Doa], QueueStill(SendQueue)
    PROVE  EndpointIInv' /\ QueuesHold(Kind)' /\ BoundFor(Kind)' /\ OthersIdle' /\ WayWhole'
<1>1. /\ EndpointIInv' /\ QueuesHold(Kind)' /\ BoundFor(Kind)' /\ OthersIdle'
      /\ Leaving' = Leaving /\ Draining' = Draining
  BY ClientLeavesRest
<1>2. Coming = <<>> /\ Coming' = <<>>
  BY DEF Coming
<1>3. OnTheWay' = OnTheWay
  BY <1>1, <1>2, WayIsLine, WaitingStays, OutboxParts DEF netVars
<1>4. QED
  BY <1>1, <1>3 DEF TestIInv, WayWhole, Whole

LEMMA StagesStay ==
    ASSUME StagesInOrder, UNCHANGED netVars, tpc \in InScope \cup BetweenScopes,
           tpc' \in InScope \cup BetweenScopes \cup {"close"}
    PROVE  StagesInOrder'
  BY DEF StagesInOrder, netVars, InScope, BetweenScopes, AfterClose

\* Whoever moves, unless the packets on their way change or one is counted.
LEMMA StillKeeps ==
    ASSUME TestIInv, UNCHANGED <<vars, got, sent, made>>, registered' \subseteq DOMAIN QueueFor,
           UNCHANGED lpc \/ (lpc = "none" /\ lpc' = "start"),
           UNCHANGED spc \/ (spc = "none" /\ spc' = "start"),
           ClientInPlace', StagesInOrder', CountsInPlace', Draining' => Draining
    PROVE  TestIInv'
<1>1. EndpointIInv'
  BY StillKeepsEndpoint DEF TestIInv
<1>2. (\A b \in Acqs : Untouched(b)) /\ QueueStill(SendQueue)
  BY StillAlone, Roles
<1>3. QueuesHold(Kind)' /\ BoundFor(Kind)' /\ OthersIdle'
  BY <1>2, StillAlone, UntouchedKeepsKinds, OthersStay DEF TestIInv
<1>4. WayWhole'
  <2>1. Leaving' = Leaving
    BY DEF Leaving, HeldForSending, vars, acqVars
  <2>2. OnTheWay' = OnTheWay
    BY <1>2, <2>1, TestRoles, WayIsLine, WaitingStays, ComingStays, OutboxParts
  <2>3. QED
    BY <2>2 DEF TestIInv, WayWhole, Whole
<1>5. QED
  BY <1>1, <1>3, <1>4 DEF TestIInv

------------------------------------------------------------------------------
(* One round of the client.                                                *)

\* What the client finds in the queue of a type is a packet of that type.
LEMMA PollKeeps ==
    ASSUME TestIInv, NEW t \in Types, NEW from \in BetweenScopes, NEW to \in {"countA", "countB"},
           to = "countA" <=> t = TypeA, Poll(t, from, to)
    PROVE  TestIInv'
<1> DEFINE c == [q |-> QueueFor[t], t |-> "QUEUED", f |-> "NONBLOCKING"]
<1>1. /\ IInv /\ tpc = from /\ tpc' = to /\ Acquire(Doa, c)
      /\ UNCHANGED <<netVars, counts>>
  BY DEF TestIInv, EndpointIInv, Poll, At
<1>2. c \in Calls /\ c.f = "NONBLOCKING" /\ StoreOf(c) = QueueFor[t]
  BY TestRoles DEF Calls, StoreOf
<1> HIDE DEF c
<1>3. /\ OwnStep(Doa) /\ UNCHANGED content /\ pc'[Doa] = "live" /\ ~enq'[Doa]
      /\ \/ data'[Doa] = NULL
         \/ items[QueueFor[t]] # <<>> /\ data'[Doa] = Head(items[QueueFor[t]])
      /\ QueueStill(SendQueue)
  BY <1>1, <1>2, TestRoles, Roles, NonblockingCallEffect
<1>4. ~enq[Doa]
  BY <1>1 DEF TestIInv, ClientInPlace, BetweenScopes
<1>5. EndpointIInv' /\ QueuesHold(Kind)' /\ BoundFor(Kind)' /\ OthersIdle' /\ WayWhole'
  BY <1>1, <1>3, <1>4, ClientKeepsLine DEF counts
<1>6. StagesInOrder' /\ CountsInPlace'
  BY <1>1, StagesStay DEF TestIInv, CountsInPlace, counts, netVars, InScope
<1>7. data'[Doa] # NULL => content'[data'[Doa]] = Received(t)
  <2>1. CASE items[QueueFor[t]] # <<>> /\ data'[Doa] = Head(items[QueueFor[t]])
    <3>1. items[QueueFor[t]] \in Seq(Objects)
      BY <1>1, TestRoles DEF IInv, TypeOK, Stores
    <3>2. 1 \in DOMAIN items[QueueFor[t]] /\ data'[Doa] = items[QueueFor[t]][1]
      BY <2>1, <3>1, TailAt
    <3>3. QED
      BY <1>3, <3>2, TestRoles DEF TestIInv, QueuesHold
  <2>2. QED
    BY <1>3, <2>1
<1>8. ClientInPlace'
  <2>1. (to = "countA" => t = TypeA) /\ (to = "countB" => t = TypeB)
    BY TestAssumption DEF Types
  <2>2. QED
    BY <1>1, <1>3, <1>7, <2>1 DEF ClientInPlace, AssertsHold, InScope
<1>9. QED
  BY <1>5, <1>6, <1>8 DEF TestIInv

\* A buffer that is not to be sent goes back to the pool.
LEMMA CountKeeps ==
    ASSUME TestIInv, NEW t \in Types, NEW from \in {"countA", "countB"}, NEW to \in {"pollB", "takeA"},
           Count(t, from, to)
    PROVE  TestIInv'
<1>1. /\ IInv /\ tpc = from /\ tpc' = to /\ Destroy(Doa)
      /\ UNCHANGED <<netVars, made>>
  BY DEF TestIInv, EndpointIInv, Count, At
<1>2. OwnStep(Doa) /\ ~enq[Doa] /\ pc'[Doa] = "idle" /\ ~enq'[Doa]
  BY <1>1, TestRoles, DestroyEffect DEF OwnStep, TestIInv, ClientInPlace
<1>3. QueueStill(SendQueue)
  BY <1>1, <1>2, TestRoles, Roles, DropLeavesQueues
<1>4. EndpointIInv' /\ QueuesHold(Kind)' /\ BoundFor(Kind)' /\ OthersIdle' /\ WayWhole'
  BY <1>1, <1>2, <1>3, ClientKeepsLine
<1>5. StagesInOrder' /\ CountsInPlace'
  BY <1>1, StagesStay DEF TestIInv, CountsInPlace, netVars, InScope, BetweenScopes
<1>6. ClientInPlace'
  BY <1>1, <1>2 DEF ClientInPlace, AssertsHold, InScope, BetweenScopes
<1>7. QED
  BY <1>4, <1>5, <1>6 DEF TestIInv

\* The client takes a buffer, or none: it does not wait for one.
LEMMA TakeBufferKeeps ==
    ASSUME TestIInv,
           \/ TakeBuffer(TypeA, "takeA", "copyA", "takeB")
           \/ TakeBuffer(TypeB, "takeB", "copyB", "loop")
    PROVE  TestIInv'
<1> DEFINE c == [q |-> SendQueue, t |-> "UNUSED", f |-> "NONBLOCKING"]
<1>1. IInv /\ UNCHANGED <<netVars, counts>> /\ tpc \in {"takeA", "takeB"}
  BY DEF TestIInv, EndpointIInv, TakeBuffer
<1>2. CASE tpc' \in {"copyA", "copyB"}
  <2>1. /\ Acquire(Doa, c)
        /\ tpc' = "copyA" => made[TypeA] < Runs
        /\ tpc' = "copyB" => made[TypeB] < Runs
    BY <1>2 DEF TakeBuffer
  <2>2. c \in Calls /\ c.f = "NONBLOCKING" /\ c.t = "UNUSED"
    BY Roles DEF Calls
  <2> HIDE DEF c
  <2>3. StoreOf(c) # SendQueue
    BY <2>2, UnusedComesFromPool, Roles
  <2>4. OwnStep(Doa) /\ pc'[Doa] = "live" /\ ~enq'[Doa] /\ QueueStill(SendQueue)
    BY <1>1, <2>1, <2>2, <2>3, TestRoles, Roles, NonblockingCallEffect
  <2>5. ~enq[Doa]
    BY <1>1 DEF TestIInv, ClientInPlace
  <2>6. EndpointIInv' /\ QueuesHold(Kind)' /\ BoundFor(Kind)' /\ OthersIdle' /\ WayWhole'
    BY <1>1, <2>4, <2>5, ClientKeepsLine DEF counts
  <2>7. StagesInOrder' /\ CountsInPlace'
    BY <1>1, <1>2, <2>1, StagesStay
       DEF TestIInv, CountsInPlace, counts, netVars, InScope, BetweenScopes
  <2>8. ClientInPlace'
    BY <1>2, <2>4 DEF ClientInPlace, AssertsHold, InScope
  <2>9. QED
    BY <2>6, <2>7, <2>8 DEF TestIInv
<1>3. CASE tpc' \notin {"copyA", "copyB"}
  <2>1. UNCHANGED vars /\ tpc' \in {"takeB", "loop"}
    BY <1>3 DEF TakeBuffer
  <2>2. ClientInPlace'
    BY <1>1, <2>1
       DEF TestIInv, ClientInPlace, AssertsHold, vars, acqVars, InScope, BetweenScopes
  <2>3. StagesInOrder' /\ CountsInPlace'
    BY <1>1, <2>1, StagesStay
       DEF TestIInv, CountsInPlace, counts, netVars, InScope, BetweenScopes
  <2>4. Draining' = Draining /\ registered' \subseteq DOMAIN QueueFor
    BY <1>1 DEF Draining, netVars, TestIInv, EndpointIInv, ListenerInPlace
  <2>5. QED
    BY <1>1, <2>1, <2>2, <2>3, <2>4, StillKeeps DEF netVars, counts
<1>4. QED
  BY <1>2, <1>3

\* The packet that the client counts is the next of its type, and joins the line
\* at its end.
LEMMA CopyKeeps ==
    ASSUME TestIInv, NEW t \in Types, NEW from \in {"copyA", "copyB"}, NEW to \in {"handA", "handB"},
           from = "copyA" <=> t = TypeA, Copy(t, from, to)
    PROVE  TestIInv'
<1>1. /\ IInv /\ tpc = from /\ tpc' = to
      /\ UNCHANGED <<netVars, testing, received>>
      /\ pc[Doa] = "live" /\ ~enq[Doa]
  BY DEF TestIInv, EndpointIInv, Copy, At, ClientInPlace, InScope
<1>2. made \in [Types -> 0 .. Runs] /\ made[t] < Runs /\ Runs \in Nat
  <2>1. (from = "copyA" => t = TypeA) /\ (from = "copyB" => t = TypeB)
    BY TestAssumption DEF Types
  <2>2. QED
    BY <1>1, <2>1, TestAssumption DEF TestIInv, CountsInPlace
<1>3. StagesInOrder'
  BY <1>1, StagesStay DEF TestIInv, InScope
<1>4. CASE data[Doa] = NULL
  <2>1. UNCHANGED <<vars, made>>
    BY <1>4 DEF Copy
  <2>2. ClientInPlace'
    BY <1>1, <2>1 DEF ClientInPlace, AssertsHold, vars, acqVars, InScope
  <2>3. CountsInPlace'
    BY <1>1, <2>1 DEF TestIInv, CountsInPlace, netVars
  <2>4. Draining' = Draining /\ registered' \subseteq DOMAIN QueueFor
    BY <1>1 DEF Draining, netVars, TestIInv, EndpointIInv, ListenerInPlace
  <2>5. QED
    BY <1>1, <1>3, <2>1, <2>2, <2>3, <2>4, StillKeeps DEF netVars
<1>5. CASE data[Doa] # NULL
  <2> DEFINE x == Packet(t, made[t])
  <2>1. x \in Packets /\ x \in Values /\ x \in Contents
    BY <1>2, TestAssumption DEF Packets, Contents
  <2>2. HandOver(Doa, x, SendQueue) /\ made' = [made EXCEPT ![t] = @ + 1]
    BY <1>1, <1>5 DEF Copy, HandOver
  <2> HIDE DEF x
  <2>3. OwnStep(Doa)
    BY <2>1, <2>2, Roles DEF OwnStep
  <2>4. /\ data[Doa] \in Objects /\ data'[Doa] = data[Doa] /\ content'[data[Doa]] = x
        /\ enq'[Doa] /\ next'[Doa] = SendQueue /\ pc'[Doa] = "live"
    BY <1>1, <1>5, <2>2, TestRoles DEF HandOver, IInv, TypeOK
  <2>5. /\ EndpointIInv' /\ QueuesHold(Kind)' /\ BoundFor(Kind)' /\ OthersIdle'
        /\ Leaving' = Leaving /\ Draining' = Draining
    BY <1>1, <2>1, <2>3, <2>4, ClientLeavesRest
  <2>6. ClientInPlace'
    BY <1>1, <1>5, <2>1, <2>4 DEF ClientInPlace, AssertsHold, InScope
  <2>7. CountsInPlace'
    BY <1>1, <1>2, <2>2 DEF TestIInv, CountsInPlace, netVars
  <2>8. WayWhole'
    <3>1. QueueStill(SendQueue)
      BY <1>1, <2>2, <2>3, TestRoles, Roles, OwnStepOnQueue DEF HandOver
    <3>2. Coming = <<>> /\ Coming' = <<x>>
      BY <1>1, <1>5, <2>4 DEF Coming, HeldForSending
    <3>3. sent \in Seq(Contents) /\ Outbox \in Seq(Contents) /\ OnTheWay \in Seq(Contents)
      BY <1>1, LineTyped DEF TestIInv, CountsInPlace
    <3>4. OnTheWay' = Append(OnTheWay, x)
      <4>1. Line(sent, Outbox, <<x>>) = Append(Line(sent, Outbox, <<>>), x)
        BY <2>1, <3>3, AddedAtBack
      <4>2. Outbox' = Outbox
        BY <2>5, <3>1, WaitingStays, OutboxParts
      <4>3. QED
        BY <1>1, <3>2, <4>1, <4>2, WayIsLine DEF netVars
    <3>5. Whole(OnTheWay, made) => Whole(Append(OnTheWay, x), made')
      BY <1>2, <2>2, <3>3, WholeGrows DEF x
    <3>6. Whole(OnTheWay, made)' = Whole(OnTheWay', made')
      BY DEF Whole
    <3>7. QED
      BY <2>5, <3>4, <3>5, <3>6 DEF TestIInv, WayWhole
  <2>9. QED
    BY <1>3, <2>5, <2>6, <2>7, <2>8 DEF TestIInv
<1>6. QED
  BY <1>4, <1>5

\* At the end of the scope the packet moves from the client's hand to the tail of
\* the send queue; without one the line stays as it is.
LEMMA EndOfScopeKeeps ==
    ASSUME TestIInv, NEW from \in {"handA", "handB"}, NEW to \in {"takeB", "loop"},
           EndOfScope(from, to)
    PROVE  TestIInv'
<1>1. /\ IInv /\ tpc = from /\ tpc' = to /\ Destroy(Doa)
      /\ UNCHANGED <<netVars, counts>>
  BY DEF TestIInv, EndpointIInv, EndOfScope, At
<1>2. OwnStep(Doa) /\ pc'[Doa] = "idle" /\ ~enq'[Doa]
  BY <1>1, TestRoles, DestroyEffect DEF OwnStep
<1>3. StagesInOrder' /\ CountsInPlace'
  BY <1>1, StagesStay DEF TestIInv, CountsInPlace, counts, netVars, InScope, BetweenScopes
<1>4. ClientInPlace'
  BY <1>1, <1>2 DEF ClientInPlace, AssertsHold, InScope, BetweenScopes
<1>5. CASE ~enq[Doa]
  <2>1. QueueStill(SendQueue)
    BY <1>1, <1>5, TestRoles, Roles, DropLeavesQueues
  <2>2. EndpointIInv' /\ QueuesHold(Kind)' /\ BoundFor(Kind)' /\ OthersIdle' /\ WayWhole'
    BY <1>1, <1>2, <1>5, <2>1, ClientKeepsLine DEF counts
  <2>3. QED
    BY <1>3, <1>4, <2>2 DEF TestIInv
<1>6. CASE enq[Doa]
  <2>1. /\ data[Doa] # NULL /\ next[Doa] = SendQueue /\ GoesOn(Doa)
        /\ data[Doa] \in Objects
    <3>1. data[Doa] # NULL /\ next[Doa] = SendQueue
      BY <1>6 DEF TestIInv, ClientInPlace
    <3>2. next[Doa] # NULL
      BY <3>1, Roles, WorkerAssumption DEF Stores
    <3>3. QED
      BY <1>1, <1>6, <3>1, <3>2, TestRoles DEF GoesOn, IInv, TypeOK
  <2>2. /\ UNCHANGED content
        /\ items' = [items EXCEPT ![SendQueue] = Append(@, data[Doa])]
    BY <1>1, <2>1, TestRoles, DestroyEffect
  <2>3. /\ EndpointIInv' /\ QueuesHold(Kind)' /\ BoundFor(Kind)' /\ OthersIdle'
        /\ Leaving' = Leaving /\ Draining' = Draining
    BY <1>1, <1>2, ClientLeavesRest
  <2>4. OnTheWay' = OnTheWay
    <3> DEFINE x == content[data[Doa]]
    <3>1. Coming = <<x>> /\ Coming' = <<>>
      BY <1>2, <1>6, <2>1 DEF Coming, HeldForSending
    <3>2. sent \in Seq(Contents) /\ Outbox \in Seq(Contents) /\ x \in Contents
      BY <1>1, <2>1, LineTyped, OutboxTyped DEF TestIInv, CountsInPlace
    <3>3. Outbox' = Append(Outbox, x)
      <4>1. items'[SendQueue] = Append(items[SendQueue], data[Doa])
        BY <1>1, <2>2, Roles DEF IInv, TypeOK, Stores
      <4>2. QED
        BY <1>1, <2>1, <2>2, <2>3, <4>1, OutboxGrows
    <3> HIDE DEF x
    <3>4. Line(sent, Outbox, <<x>>) = Line(sent, Append(Outbox, x), <<>>)
      BY <3>2, MovedToBack
    <3>5. QED
      BY <1>1, <3>1, <3>3, <3>4, WayIsLine DEF netVars
  <2>5. WayWhole'
    BY <1>1, <2>3, <2>4 DEF TestIInv, WayWhole, Whole, counts
  <2>6. QED
    BY <1>3, <1>4, <2>3, <2>5 DEF TestIInv
<1>7. QED
  BY <1>5, <1>6

LEMMA RoundKeeps ==
    ASSUME TestIInv, Round
    PROVE  TestIInv'
<1>1. CASE Loop
  <2>1. UNCHANGED <<vars, netVars, counts>> /\ tpc = "loop" /\ tpc' \in {"pollA", "close"}
    BY <1>1 DEF Loop, allVars
  <2>2. ClientInPlace'
    BY <2>1 DEF TestIInv, ClientInPlace, AssertsHold, vars, acqVars, InScope, BetweenScopes
  <2>3. StagesInOrder' /\ CountsInPlace'
    BY <2>1, StagesStay DEF TestIInv, CountsInPlace, counts, netVars, InScope, BetweenScopes
  <2>4. Draining' = Draining /\ registered' \subseteq DOMAIN QueueFor
    BY <2>1 DEF Draining, netVars, TestIInv, EndpointIInv, ListenerInPlace
  <2>5. QED
    BY <2>1, <2>2, <2>3, <2>4, StillKeeps DEF netVars, counts
<1>2. CASE Poll(TypeA, "pollA", "countA") \/ Poll(TypeB, "pollB", "countB")
  BY <1>2, PollKeeps, TestAssumption DEF Types, BetweenScopes
<1>3. CASE Count(TypeA, "countA", "pollB") \/ Count(TypeB, "countB", "takeA")
  BY <1>3, CountKeeps DEF Types
<1>4. CASE \/ TakeBuffer(TypeA, "takeA", "copyA", "takeB")
           \/ TakeBuffer(TypeB, "takeB", "copyB", "loop")
  BY <1>4, TakeBufferKeeps
<1>5. CASE Copy(TypeA, "copyA", "handA") \/ Copy(TypeB, "copyB", "handB")
  BY <1>5, CopyKeeps, TestAssumption DEF Types
<1>6. CASE EndOfScope("handA", "takeB") \/ EndOfScope("handB", "loop")
  BY <1>6, EndOfScopeKeeps
<1>7. QED
  BY <1>1, <1>2, <1>3, <1>4, <1>5, <1>6 DEF Round

------------------------------------------------------------------------------
(* The endpoint's threads, its start and its end.                          *)
LEMMA EndpointKeeps ==
    ASSUME TestIInv, Endpoint
    PROVE  TestIInv'
<1>1. /\ EndpointIInv /\ StagesInOrder /\ QueuesHold(Kind) /\ BoundFor(Kind)
      /\ UNCHANGED testVars
  BY DEF TestIInv, Endpoint
<1>2. CASE DataListener
  <2>1. /\ EndpointIInv' /\ QueuesHold(Kind)' /\ BoundFor(Kind)'
        /\ \A b \in Acqs \ {Listener} : Untouched(b)
        /\ UNCHANGED <<spc, sent>>
    BY <1>1, <1>2, ListenerKeepsEndpoint DEF Kind
  <2>2. Untouched(Doa) /\ Untouched(Sender)
    BY <2>1, TestRoles, Roles
  <2>3. ClientInPlace' /\ OthersIdle' /\ CountsInPlace'
    BY <1>1, <2>1, <2>2, ClientStays, OthersStay DEF TestIInv, CountsInPlace, testVars
  <2>4. StagesInOrder' /\ (Draining' => Draining)
    BY <1>1, <1>2, <2>1
       DEF StagesInOrder, Draining, testVars, DataListener, ListenStart, ListenLoop, ListenAcquire,
           ListenFails, ListenRelease, ListenReceive, ListenRoute, ListenEndOfScope, Listen,
           listenRest, netVars
  <2>5. OnTheWay' = OnTheWay
    BY <1>1, <1>2, <2>1, <2>2, ListenerLeavesSendQueue, WayStays
  <2>6. WayWhole'
    BY <1>1, <2>4, <2>5 DEF TestIInv, WayWhole, Whole, testVars
  <2>7. QED
    BY <2>1, <2>3, <2>4, <2>6 DEF TestIInv
<1>3. CASE DataSender
  <2>1. /\ EndpointIInv' /\ QueuesHold(Kind)' /\ BoundFor(Kind)'
        /\ \A b \in Acqs \ {Sender} : Untouched(b)
        /\ UNCHANGED lpc
    BY <1>1, <1>3, SenderKeepsEndpoint DEF Kind
  <2>2. Untouched(Doa)
    BY <2>1, TestRoles
  <2>3. sent' \in Seq(Contents) /\ (Draining' => OnTheWay' = OnTheWay)
    BY <1>1, <1>3, <2>2, SenderMovesLine DEF TestIInv, CountsInPlace
  <2>4. ClientInPlace' /\ OthersIdle' /\ CountsInPlace'
    BY <1>1, <2>1, <2>2, <2>3, ClientStays, OthersStay DEF TestIInv, CountsInPlace, testVars
  <2>5. StagesInOrder' /\ (Draining' => Draining)
    BY <1>1, <1>3, <2>1
       DEF StagesInOrder, Draining, testVars, DataSender, SendStart, SendLoop, SendAcquire, SendSkip,
           SendOut, SendEndOfScope, Sending, sendRest, netVars
  <2>6. WayWhole'
    BY <1>1, <2>3, <2>5 DEF TestIInv, WayWhole, Whole, testVars
  <2>7. QED
    BY <2>1, <2>4, <2>5, <2>6 DEF TestIInv
<1>4. QED
  BY <1>2, <1>3 DEF Endpoint

LEMMA StartKeeps ==
    ASSUME TestIInv, Start \/ StopTest
    PROVE  TestIInv'
<1>1. /\ UNCHANGED <<vars, up, open, got, sent, cpc, made>>
      /\ UNCHANGED tpc
            \/ (tpc \in BetweenScopes /\ tpc' \in BetweenScopes /\ tpc' \notin {"copyA", "copyB"})
      /\ UNCHANGED lpc \/ (lpc = "none" /\ lpc' = "start")
      /\ UNCHANGED spc \/ (spc = "none" /\ spc' = "start")
  BY DEF Start, StopTest, At, RegisterQueue, InitSender, InitReceiver, BetweenScopes, counts,
         allVars, netVars
<1>2. registered' \subseteq DOMAIN QueueFor
  BY DEF Start, StopTest, RegisterQueue, InitSender, InitReceiver, allVars, netVars,
         TestIInv, EndpointIInv, ListenerInPlace
<1>3. ClientInPlace'
  BY <1>1 DEF TestIInv, ClientInPlace, AssertsHold, vars, acqVars, InScope, BetweenScopes
<1>4. StagesInOrder' /\ (Draining' => Draining)
  BY <1>1 DEF TestIInv, StagesInOrder, Draining, InScope, BetweenScopes, AfterClose
<1>5. CountsInPlace'
  BY <1>1 DEF TestIInv, CountsInPlace
<1>6. QED
  BY <1>1, <1>2, <1>3, <1>4, <1>5, StillKeeps

\* A step of Close, or of a queue's close(), wakes threads and takes nothing.
LEMMA ClosingKeeps ==
    ASSUME TestIInv, ClosingStep(Closer), OwnQueuesRun',
           UNCHANGED <<registered, lpc, spc, got, sent, made>>,
           tpc' \in {"close"} \cup AfterClose, tpc \in {"close"} \cup AfterClose,
           StagesInOrder', Draining' => Draining
    PROVE  TestIInv'
<1>1. IInv /\ Closer \in Closers
  BY UDPBaseAssumption DEF TestIInv, EndpointIInv
<1>2. IInv' /\ (\A b \in Acqs : Untouched(b)) /\ (\A q \in Queues : QueueStill(q))
  BY <1>1, ClosingStepKeepsIInv, ClosingStepAlone
<1>3. Untouched(Doa) /\ Untouched(Listener) /\ Untouched(Sender) /\ QueueStill(SendQueue)
  BY <1>2, TestRoles, Roles
<1>4. EndpointIInv'
  BY <1>2, <1>3, UntouchedKeepsEndpoint DEF TestIInv, EndpointIInv, ListenerInPlace
<1>5. QueuesHold(Kind)' /\ BoundFor(Kind)' /\ OthersIdle'
  BY <1>2, UntouchedKeepsKinds, OthersStay DEF TestIInv
<1>6. ClientInPlace'
  BY <1>3 DEF TestIInv, ClientInPlace, AssertsHold, Untouched, Undisturbed, InScope, AfterClose
<1>7. CountsInPlace'
  BY DEF TestIInv, CountsInPlace, AfterClose
<1>8. WayWhole'
  BY <1>3, WayStays DEF TestIInv, WayWhole, Whole
<1>9. QED
  BY <1>4, <1>5, <1>6, <1>7, <1>8 DEF TestIInv

LEMMA CloseEndpointKeeps ==
    ASSUME TestIInv, CloseEndpoint
    PROVE  TestIInv'
<1>1. /\ IInv /\ OwnQueuesRun /\ Closer \in Closers /\ SendQueue \in Queues /\ ReceiveQueue \in Queues
      /\ UNCHANGED <<registered, lpc, spc, got, sent, made>>
      /\ tpc = "close" /\ tpc' = IF cpc' = "closed" THEN "closeA" ELSE "close"
  BY UDPBaseAssumption
     DEF TestIInv, EndpointIInv, CloseEndpoint, CloseBegin, CloseGoesOn, CloseSocket, CloseNotify,
         CloseJoinSender, CloseJoinListener, closeRest, netVars, counts
<1>2. StagesInOrder' /\ (Draining' => Draining)
  <2>1. CASE CloseNotify
    BY <1>1, <2>1
       DEF TestIInv, StagesInOrder, Draining, CloseNotify, netVars, InScope, BetweenScopes, AfterClose
  <2>2. CASE CloseBegin \/ CloseSocket \/ CloseJoinSender \/ CloseJoinListener
    <3>1. cpc' # "open"
      BY <2>2 DEF CloseBegin, CloseSocket, CloseJoinSender, CloseJoinListener, Closing
    <3>2. StagesInOrder'
      BY <1>1, <2>2
         DEF TestIInv, StagesInOrder, CloseBegin, CloseSocket, CloseJoinSender, CloseJoinListener,
             Closing, InScope, BetweenScopes, AfterClose
    <3>3. QED
      BY <3>1, <3>2 DEF Draining
  <2>3. QED
    BY <2>1, <2>2 DEF CloseEndpoint, CloseGoesOn
<1>3. CASE CloseBegin \/ CloseJoinListener
  <2>1. UNCHANGED vars
    BY <1>3 DEF CloseBegin, CloseJoinListener
  <2>2. ClientInPlace' /\ CountsInPlace'
    BY <1>1, <2>1
       DEF TestIInv, ClientInPlace, AssertsHold, CountsInPlace, vars, acqVars, InScope, AfterClose
  <2>3. registered' \subseteq DOMAIN QueueFor
    BY <1>1 DEF TestIInv, EndpointIInv, ListenerInPlace
  <2>4. QED
    BY <1>1, <1>2, <2>1, <2>2, <2>3, StillKeeps
<1>4. CASE CloseSocket \/ CloseNotify \/ CloseJoinSender
  <2>1. ClosingStep(Closer)
    BY <1>1, <1>4 DEF ClosingStep, CloseSocket, CloseNotify, CloseJoinSender
  <2>2. OwnQueuesRun'
    BY <1>1, <1>4, ClosersLeaveQueuesOpen DEF CloseSocket, CloseNotify, CloseJoinSender
  <2>3. tpc' \in {"close"} \cup AfterClose
    BY <1>1 DEF AfterClose
  <2>4. QED
    BY <1>1, <1>2, <2>1, <2>2, <2>3, ClosingKeeps
<1>5. QED
  BY <1>3, <1>4 DEF CloseEndpoint, CloseGoesOn

LEMMA CloseQueuesKeeps ==
    ASSUME TestIInv, CloseQueues
    PROVE  TestIInv'
<1>1. /\ IInv /\ OwnQueuesRun /\ Closer \in Closers
      /\ UNCHANGED <<netVars, made>>
      /\ tpc \in AfterClose /\ tpc' \in AfterClose
  BY UDPBaseAssumption
     DEF TestIInv, EndpointIInv, CloseQueues, At, counts, AfterClose
<1>2. StagesInOrder' /\ (Draining' => Draining)
  BY <1>1
     DEF TestIInv, StagesInOrder, Draining, netVars, InScope, BetweenScopes, AfterClose
<1>3. CASE UNCHANGED vars
  <2>1. ClientInPlace' /\ CountsInPlace'
    BY <1>1, <1>3
       DEF TestIInv, ClientInPlace, AssertsHold, CountsInPlace, netVars, vars, acqVars, InScope,
           AfterClose
  <2>2. registered' \subseteq DOMAIN QueueFor
    BY <1>1 DEF TestIInv, EndpointIInv, ListenerInPlace, netVars
  <2>3. QED
    BY <1>1, <1>2, <1>3, <2>1, <2>2, StillKeeps DEF netVars
<1>4. CASE Close(Closer, QueueFor[TypeA]) \/ Close(Closer, QueueFor[TypeB]) \/ Notifying(Closer)
  <2>1. \A t \in {TypeA, TypeB} : QueueFor[t] \in Queues \ {SendQueue, ReceiveQueue}
    BY TestAssumption, UDPBaseAssumption DEF Types
  <2>2. ClosingStep(Closer)
    BY <1>4, <2>1 DEF ClosingStep
  <2>3. OwnQueuesRun'
    BY <1>1, <1>4, <2>1, ClosersLeaveQueuesOpen
  <2>4. QED
    BY <1>1, <1>2, <2>2, <2>3, ClosingKeeps DEF netVars
<1>5. QED
  BY <1>3, <1>4 DEF CloseQueues

------------------------------------------------------------------------------
LEMMA TestInitEstablishes == TestInit => TestIInv
<1> SUFFICES ASSUME TestInit
             PROVE  TestIInv
  OBVIOUS
<1>1. /\ \A q \in Queues : running[q] /\ items[q] = <<>>
      /\ \A c \in Closers : notifier[c] = NULL
      /\ \A a \in Acqs : pc[a] = "idle" /\ data[a] = NULL /\ enq[a] = FALSE
      /\ sent = <<>> /\ open = TRUE /\ cpc = "open" /\ tpc = "registerA"
      /\ lpc = "none" /\ spc = "none" /\ got = "empty" /\ registered = {}
      /\ made = [t \in Types |-> 0]
  BY StockAssumption DEF TestInit, NetInit, Init, InitialItems, Stores
<1>2. EndpointIInv
  <2>1. IInv
    BY InitEstablishesIInv DEF TestInit, NetInit
  <2>2. OwnQueuesRun
    BY <1>1, Roles DEF OwnQueuesRun
  <2>3. ListenerInPlace /\ SenderInPlace
    BY <1>1, Roles DEF ListenerInPlace, SenderInPlace
  <2>4. QED
    BY <2>1, <2>2, <2>3 DEF EndpointIInv
<1>3. QueuesHold(Kind) /\ BoundFor(Kind)
  BY <1>1 DEF QueuesHold, BoundFor
<1>4. ClientInPlace /\ OthersIdle
  BY <1>1, TestRoles DEF ClientInPlace, AssertsHold, OthersIdle, InScope, BetweenScopes
<1>5. StagesInOrder
  BY <1>1 DEF StagesInOrder, InScope, BetweenScopes, AfterClose
<1>6. CountsInPlace
  BY <1>1, TestAssumption DEF CountsInPlace
<1>7. WayWhole
  <2>1. OnTheWay = <<>>
    BY <1>1, Roles, TestRoles DEF OnTheWay, Outbox
  <2>2. DOMAIN OnTheWay = {}
    BY <2>1
  <2>3. {p \in Packets : p.data < made[p.type]} = {}
    BY <1>1, PacketParts
  <2>4. QED
    BY <2>2, <2>3 DEF WayWhole, Whole
<1>8. QED
  BY <1>2, <1>3, <1>4, <1>5, <1>6, <1>7 DEF TestIInv

\* The invariant of the test is inductive: the client and both threads of its
\* endpoint keep it, whatever the network sends.
THEOREM TestIInvIsInductive == TestIInv /\ [TestNext]_everything => TestIInv'
<1> SUFFICES ASSUME TestIInv, [TestNext]_everything
             PROVE  TestIInv'
  OBVIOUS
<1>1. CASE Start \/ StopTest
  BY <1>1, StartKeeps
<1>2. CASE Round
  BY <1>2, RoundKeeps
<1>3. CASE CloseEndpoint
  BY <1>3, CloseEndpointKeeps
<1>4. CASE CloseQueues
  BY <1>4, CloseQueuesKeeps
<1>5. CASE Endpoint
  BY <1>5, EndpointKeeps
<1>6. CASE UNCHANGED everything
  <2>1. UNCHANGED <<vars, netVars, tpc, made>>
    BY <1>6 DEF everything, allVars, testVars
  <2>2. ClientInPlace' /\ StagesInOrder' /\ CountsInPlace' /\ Draining' = Draining
    BY <2>1
       DEF TestIInv, ClientInPlace, AssertsHold, StagesInOrder, CountsInPlace, Draining, netVars,
           vars, acqVars
  <2>3. registered' \subseteq DOMAIN QueueFor
    BY <2>1 DEF TestIInv, EndpointIInv, ListenerInPlace, netVars
  <2>4. QED
    BY <2>1, <2>2, <2>3, StillKeeps DEF netVars
<1>7. QED
  BY <1>1, <1>2, <1>3, <1>4, <1>5, <1>6 DEF TestNext, TestClient

\* The invariant of the test holds in every behaviour of oi.network.test.cpp.
THEOREM TestInvariantHolds == TestSpec => []TestIInv
<1>1. TestInit => TestIInv
  BY TestInitEstablishes
<1>2. TestIInv /\ [TestNext]_everything => TestIInv'
  BY TestIInvIsInductive
<1>3. QED
  BY <1>1, <1>2, PTL DEF TestSpec

\* The asserts of the test never fail: a buffer that the client finds in the queue
\* of a type holds a datagram of that type.  The client fills the packets it sends
\* into buffers of the same pool, but each is bound for the send queue in the scope
\* in which it is filled, and the other queues belong to the listener.
THEOREM AssertsAlwaysHold == TestSpec => []AssertsHold
<1>1. TestIInv => AssertsHold
  BY DEF TestIInv, ClientInPlace
<1>2. QED
  BY <1>1, TestInvariantHolds, PTL

\* When the pool is destroyed, at the end of the client's scope, nobody uses it:
\* Close has joined both threads, whose last scopes gave their buffers back, and
\* the client has left its own last scope.
THEOREM PoolOutlivesItsUsers == TestSpec => []NothingOutlivesThePool
<1>1. ASSUME TestIInv, tpc = "gone"
      PROVE  lpc = "end" /\ spc = "end" /\ (\A a \in Acqs : pc[a] = "idle") /\ Held = {}
  <2>1. lpc = "end" /\ spc = "end"
    BY <1>1 DEF TestIInv, StagesInOrder, AfterClose
  <2>2. pc[Listener] = "idle" /\ pc[Sender] = "idle"
    BY <1>1, <2>1 DEF TestIInv, EndpointIInv, ListenerInPlace, SenderInPlace
  <2>3. pc[Doa] = "idle"
    BY <1>1 DEF TestIInv, ClientInPlace, InScope
  <2>4. \A a \in Acqs : pc[a] = "idle"
    BY <1>1, <2>2, <2>3 DEF TestIInv, OthersIdle
  <2>5. \A a \in Acqs : data[a] = NULL
    BY <1>1, <2>4 DEF TestIInv, EndpointIInv, IInv, HoldsWhenLive
  <2>6. QED
    BY <2>1, <2>4, <2>5 DEF Held
<1>2. TestIInv => NothingOutlivesThePool
  BY <1>1 DEF NothingOutlivesThePool
<1>3. QED
  BY <1>2, TestInvariantHolds, PTL

\* Every packet that the client has counted as sent is in the client's hand, in
\* the send queue, in the sender's hand or given to the socket, in exactly one of
\* them, and those of a type stay in the order of their numbers, until the
\* endpoint stops: a round without a free buffer counts nothing.
THEOREM CountedAlwaysOnTheWay == TestSpec => []CountedIsOnTheWay
<1>1. TestIInv => CountedIsOnTheWay
  BY DEF TestIInv, WayWhole, Draining, Whole, CountedIsOnTheWay
<1>2. QED
  BY <1>1, TestInvariantHolds, PTL

==============================================================================
