----------------------------- MODULE NetworkTest -----------------------------
(***************************************************************************)
(* The network test (OINetworkTest in oi.network.test.cpp): one of its two *)
(* clients with the UDP endpoint it owns.  The client polls a queue for    *)
(* each of two packet types, sends packets of both types from the pool that*)
(* it shares with the endpoint, never blocking, and at the end closes the  *)
(* endpoint and leaves the scope that holds the pool.  The other client is *)
(* the network: it may send any packet at any time, or lose or repeat one. *)
(***************************************************************************)
EXTENDS UDPBase

CONSTANTS
    Doa,           \* the client's acquisitions, one scope after the other
    TypeA, TypeB,  \* PKG_TYPE_A, PKG_TYPE_B
    Runs           \* runs

Types == {TypeA, TypeB}
Packet(t, n) == [dir |-> "out", type |-> t, data |-> n]
Packets == {Packet(t, n) : t \in Types, n \in 0 .. Runs - 1}

\* A queue of its own is registered for each of the two types.
ASSUME TestAssumption ==
    /\ Doa \in Acqs \ ({Listener, Sender} \cup Users \cup Readers)
    /\ TypeA # TypeB
    /\ Types \subseteq DOMAIN QueueFor
    /\ \A t \in Types, f \in DOMAIN QueueFor : QueueFor[f] = QueueFor[t] => f = t
    /\ Runs \in Nat
    /\ Packets \subseteq Values

VARIABLES
    tpc,       \* where the client is
    testing,   \* OINetworkTest::running
    received,  \* received_a, received_b; counted up to Runs, with which they are compared
    made       \* sent_a, sent_b

testVars == <<tpc, testing, received, made>>
everything == <<allVars, testVars>>

TestInit ==
    /\ NetInit
    /\ tpc = "registerA"
    /\ testing = TRUE
    /\ received = [t \in Types |-> 0]
    /\ made = [t \in Types |-> 0]

At(from, to) == tpc = from /\ tpc' = to
counts == <<testing, received, made>>

------------------------------------------------------------------------------
(* Before the loop: both queues are registered when the endpoint starts.   *)
Start ==
    /\ \/ At("registerA", "registerB") /\ RegisterQueue(TypeA)
       \/ At("registerB", "sender") /\ RegisterQueue(TypeB)
       \/ At("sender", "receiver") /\ InitSender
       \/ At("receiver", "loop") /\ InitReceiver
    /\ UNCHANGED counts

\* The thread that owns the test ends it after five seconds.
StopTest ==
    /\ testing
    /\ testing' = FALSE
    /\ UNCHANGED <<allVars, tpc, received, made>>

Done == \A t \in Types : received[t] >= Runs /\ made[t] >= Runs

\* The head of the loop; a client that is done goes round without doing anything.
Loop ==
    /\ tpc = "loop"
    /\ ~testing \/ ~Done
    /\ tpc' = IF testing THEN "pollA" ELSE "close"
    /\ UNCHANGED <<allVars, counts>>

------------------------------------------------------------------------------
(* One round.                                                              *)
Poll(t, from, to) ==
    /\ At(from, to)
    /\ Acquire(Doa, [q |-> QueueFor[t], t |-> "QUEUED", f |-> "NONBLOCKING"])
    /\ UNCHANGED <<netVars, counts>>

\* The packet is looked at and counted, and its buffer goes back to the pool.
Count(t, from, to) ==
    /\ At(from, to)
    /\ received' = [received EXCEPT ![t] =
                      IF data[Doa] # NULL /\ @ < Runs THEN @ + 1 ELSE @]
    /\ Destroy(Doa)
    /\ UNCHANGED <<netVars, testing, made>>

TakeBuffer(t, from, copy, skip) ==
    /\ tpc = from
    /\ IF made[t] < Runs
       THEN /\ tpc' = copy
            /\ Acquire(Doa, [q |-> SendQueue, t |-> "UNUSED", f |-> "NONBLOCKING"])
       ELSE tpc' = skip /\ UNCHANGED vars
    /\ UNCHANGED <<netVars, counts>>

CountsWithoutBuffer(t, from, to) ==
    /\ At(from, to)
    /\ IF data[Doa] = NULL
       THEN UNCHANGED vars
       ELSE /\ content' = [content EXCEPT ![data[Doa]] = Packet(t, made[t])]
            /\ enq' = [enq EXCEPT ![Doa] = TRUE]
            /\ next' = [next EXCEPT ![Doa] = SendQueue]
            /\ UNCHANGED <<items, running, notifier, pc, call, data, returnTo>>
    /\ made' = [made EXCEPT ![t] = @ + 1]
    /\ UNCHANGED <<netVars, testing, received>>

\* Without a buffer the client tries again in its next round.
Copy(t, from, to) ==
    /\ At(from, to)
    /\ IF data[Doa] = NULL
       THEN UNCHANGED <<vars, made>>
       ELSE /\ content' = [content EXCEPT ![data[Doa]] = Packet(t, made[t])]
            /\ enq' = [enq EXCEPT ![Doa] = TRUE]
            /\ next' = [next EXCEPT ![Doa] = SendQueue]
            /\ made' = [made EXCEPT ![t] = @ + 1]
            /\ UNCHANGED <<items, running, notifier, pc, call, data, returnTo>>
    /\ UNCHANGED <<netVars, testing, received>>

EndOfScope(from, to) ==
    /\ At(from, to)
    /\ Destroy(Doa)
    /\ UNCHANGED <<netVars, counts>>

Round ==
    \/ Loop
    \/ Poll(TypeA, "pollA", "countA") \/ Count(TypeA, "countA", "pollB")
    \/ Poll(TypeB, "pollB", "countB") \/ Count(TypeB, "countB", "takeA")
    \/ TakeBuffer(TypeA, "takeA", "copyA", "takeB")
    \/ Copy(TypeA, "copyA", "handA") \/ EndOfScope("handA", "takeB")
    \/ TakeBuffer(TypeB, "takeB", "copyB", "loop")
    \/ Copy(TypeB, "copyB", "handB") \/ EndOfScope("handB", "loop")

------------------------------------------------------------------------------
(* After the loop: Close, then both queues are closed, then the pool goes. *)
CloseEndpoint ==
    /\ tpc = "close"
    /\ CloseBegin \/ CloseGoesOn
    /\ tpc' = IF cpc' = "closed" THEN "closeA" ELSE "close"
    /\ UNCHANGED counts

CloseQueues ==
    /\ \/ At("closeA", "closingA") /\ Close(Closer, QueueFor[TypeA])
       \/ At("closeB", "closingB") /\ Close(Closer, QueueFor[TypeB])
       \/ tpc \in {"closingA", "closingB"} /\ Notifying(Closer) /\ UNCHANGED tpc
       \/ At("closingA", "closeB") /\ notifier[Closer] = NULL /\ UNCHANGED vars
       \/ At("closingB", "gone") /\ notifier[Closer] = NULL /\ UNCHANGED vars
    /\ UNCHANGED <<netVars, counts>>

TestClient == Start \/ Round \/ CloseEndpoint \/ CloseQueues

\* Spurious wakeups are left to the runs of UDPBase.
Endpoint == (DataListener \/ DataSender) /\ UNCHANGED testVars

TestNext == TestClient \/ StopTest \/ Endpoint

TestSpec == TestInit /\ [][TestNext]_everything

------------------------------------------------------------------------------
\* The asserts of the test: what the client finds in the queue of a type is a
\* packet of that type that came from the network.  Neither the packets it sends
\* itself from the same pool nor a buffer that was reset get there.
AssertsHold ==
    /\ tpc = "countA" /\ data[Doa] # NULL => content[data[Doa]] = Received(TypeA)
    /\ tpc = "countB" /\ data[Doa] # NULL => content[data[Doa]] = Received(TypeB)

\* The packets on their way out, first the ones that were given to the socket.
OnTheWay == sent \o Outbox \o (IF enq[Doa] THEN HeldForSending(Doa) ELSE <<>>)

\* Every packet that the client has counted as sent is on its way exactly once, and
\* the packets of a type in the order of their numbers, until somebody stops the
\* endpoint: none is dropped though nobody ever waits for a buffer.
CountedIsOnTheWay ==
    up /\ cpc = "open" =>
        /\ {OnTheWay[i] : i \in DOMAIN OnTheWay} = {m \in Packets : m.data < made[m.type]}
        /\ \A i, j \in DOMAIN OnTheWay :
               i < j /\ OnTheWay[i].type = OnTheWay[j].type =>
                   OnTheWay[i].data < OnTheWay[j].data

\* When the client's scope ends, and with it the pool, nothing uses the pool or its
\* condition variable any more: both threads have ended, no acquisition is inside
\* its constructor, and none holds a buffer it would return to the pool.
NothingOutlivesThePool ==
    tpc = "gone" =>
        /\ lpc = "end" /\ spc = "end"
        /\ \A a \in Acqs : pc[a] = "idle"
        /\ Held = {}
==============================================================================
