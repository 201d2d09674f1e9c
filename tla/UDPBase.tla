------------------------------ MODULE UDPBase ------------------------------
(***************************************************************************)
(* The UDP endpoint of oi.network (UDPBase.cpp), a client of OIWorker: a   *)
(* listener thread that puts datagrams into the queue registered for their *)
(* family, a sender thread that drains the send queue, threads that call   *)
(* Send, threads that poll the registered queues, and Close.               *)
(*                                                                         *)
(* UDPBase is written against an acquisition that takes a pool or a queue  *)
(* and a flow; in OIWorker.hpp that is an acquisition of type UNUSED or    *)
(* QUEUED on a queue of the pool.  A datagram is its family, the first     *)
(* byte; a message handed to Send is its caller and a number.              *)
(***************************************************************************)
EXTENDS OIWorker

CONSTANTS
    Listener, Sender,   \* doa_r of DataListener, doa_s of DataSender
    Users,              \* doa_s of each thread that calls Send
    Readers,            \* an acquisition of each thread that polls a registered queue
    Closer,             \* the thread that calls Close
    SendQueue, ReceiveQueue,
    Families,           \* first bytes of datagrams
    QueueFor,           \* QueueFor[f]: the queue registered for family f, if one ever is
    MaxSends            \* bound: calls of Send per thread

Received(f) == [dir |-> "in", family |-> f]
Outgoing(u, n) == [dir |-> "out", user |-> u, seq |-> n]
Messages == {Received(f) : f \in Families} \cup {Outgoing(u, n) : u \in Users, n \in 1 .. MaxSends}

\* Every thread has its own acquisition, and the two queues are two objects.
ASSUME UDPBaseAssumption ==
    /\ {Listener, Sender} \cup Users \cup Readers \subseteq Acqs
    /\ Listener # Sender
    /\ {Listener, Sender} \cap (Users \cup Readers) = {}
    /\ Users \cap Readers = {}
    /\ Closer \in Closers
    /\ {SendQueue, ReceiveQueue} \subseteq Queues
    /\ SendQueue # ReceiveQueue
    /\ {"error", "empty"} \cap Families = {}   \* outcomes of receive_from beside a family
    /\ DOMAIN QueueFor \subseteq Families
    /\ \A f \in DOMAIN QueueFor : QueueFor[f] \in Queues \ {SendQueue, ReceiveQueue}
    /\ MaxSends \in Nat
    /\ Messages \subseteq Values

VARIABLES
    up,         \* UDPBase::_running
    open,       \* the socket is open
    registered, \* the families with a queue in _queue_map
    lpc, spc,   \* where the listener and the sender are
    got,        \* what receive_from returned: a family, "error" or "empty"
    calls,      \* calls[u]: how often u has handed a message to Send
    sent,       \* the messages given to the socket, in order
    cpc         \* where Close is

netVars == <<up, open, registered, lpc, spc, got, calls, sent, cpc>>
allVars == <<vars, netVars>>

NetInit ==
    /\ Init
    /\ up = FALSE      \* uninitialised until a thread sets it; nobody reads it before
    /\ open = TRUE
    /\ registered = {}
    /\ lpc = "none" /\ spc = "none"
    /\ got = "empty"
    /\ calls = [u \in Users |-> 0]
    /\ sent = <<>>
    /\ cpc = "open"

Blocking(q, t) == [q |-> q, t |-> t, f |-> "BLOCKING"]
Construct(a, c) == Acquire(a, c) \/ AcquireUnlock(a, c)

------------------------------------------------------------------------------
(* InitSender, InitReceiver and RegisterQueue.  A second call returns -1.  *)
InitSender ==
    /\ spc = "none"
    /\ spc' = "start"
    /\ UNCHANGED <<vars, up, open, registered, lpc, got, calls, sent, cpc>>

InitReceiver ==
    /\ lpc = "none"
    /\ lpc' = "start"
    /\ UNCHANGED <<vars, up, open, registered, spc, got, calls, sent, cpc>>

RegisterQueue(f) ==
    /\ f \in DOMAIN QueueFor \ registered
    /\ registered' = registered \cup {f}
    /\ UNCHANGED <<vars, up, open, lpc, spc, got, calls, sent, cpc>>

------------------------------------------------------------------------------
(* DataListener.                                                           *)
Listen(from, to) == lpc = from /\ lpc' = to
listenRest == <<up, open, registered, spc, got, calls, sent, cpc>>

ListenStart ==
    /\ Listen("start", "loop")
    /\ up' = TRUE
    /\ UNCHANGED <<vars, open, registered, spc, got, calls, sent, cpc>>

ListenLoop ==
    \/ /\ up
       /\ Listen("loop", "acquire")
       /\ Construct(Listener, Blocking(ReceiveQueue, "UNUSED"))
       /\ UNCHANGED listenRest
    \/ /\ ~up
       /\ Listen("loop", "end")
       /\ UNCHANGED <<vars, listenRest>>

ListenAcquire ==
    /\ lpc = "acquire"
    /\ Constructing(Listener)
    /\ UNCHANGED netVars

\* The OIError of an empty pool ends the thread, and with it the sender.
ListenFails ==
    /\ Listen("acquire", "end")
    /\ Catch(Listener)
    /\ up' = FALSE
    /\ UNCHANGED <<open, registered, spc, got, calls, sent, cpc>>

\* release(), then the check of _running before the thread waits for a datagram.
ListenRelease ==
    /\ Listen("acquire", IF up THEN "receive" ELSE "quit")
    /\ Release(Listener)
    /\ UNCHANGED listenRest

\* receive_from writes a datagram into the buffer; a closed socket is an error.
ListenReceive ==
    /\ Listen("receive", "received")
    /\ \/ \E f \in Families : open /\ got' = f /\ Fill(Listener, Received(f))
       \/ open /\ got' = "empty" /\ UNCHANGED vars
       \/ got' = "error" /\ UNCHANGED vars
    /\ UNCHANGED <<up, open, registered, spc, calls, sent, cpc>>

RoutesEverything ==
    \/ /\ ~up
       /\ Listen("received", "quit")
       /\ UNCHANGED <<vars, listenRest>>
    \/ /\ up
       /\ Listen("received", "drop")
       /\ IF got \in Families
          THEN \E f \in registered : EnqueueTo(Listener, QueueFor[f])
          ELSE UNCHANGED vars
       /\ UNCHANGED listenRest

ListenRoute ==
    \/ /\ ~up
       /\ Listen("received", "quit")
       /\ UNCHANGED <<vars, listenRest>>
    \/ /\ up
       /\ Listen("received", "drop")
       /\ IF got \in Families
          THEN EnqueueTo(Listener, IF got \in registered THEN QueueFor[got] ELSE ReceiveQueue)
          ELSE UNCHANGED vars
       /\ UNCHANGED listenRest

ListenEndOfScope ==
    /\ Listen("drop", "loop") \/ Listen("quit", "end")
    /\ Destroy(Listener)
    /\ got' = "empty"
    /\ UNCHANGED <<up, open, registered, spc, calls, sent, cpc>>

DataListener ==
    \/ ListenStart \/ ListenLoop \/ ListenAcquire \/ ListenFails
    \/ ListenRelease \/ ListenReceive \/ ListenRoute \/ ListenEndOfScope

------------------------------------------------------------------------------
(* DataSender.                                                             *)
Sending(from, to) == spc = from /\ spc' = to
sendRest == <<up, open, registered, lpc, got, calls, sent, cpc>>

SendStart ==
    /\ Sending("start", "loop")
    /\ up' = TRUE
    /\ UNCHANGED <<vars, open, registered, lpc, got, calls, sent, cpc>>

SendLoop ==
    \/ /\ up
       /\ Sending("loop", "acquire")
       /\ Construct(Sender, Blocking(SendQueue, "QUEUED"))
       /\ UNCHANGED sendRest
    \/ /\ ~up
       /\ Sending("loop", "end")
       /\ UNCHANGED <<vars, sendRest>>

SendAcquire ==
    /\ spc = "acquire"
    /\ Constructing(Sender)
    /\ UNCHANGED netVars

SkipsAnything ==
    /\ pc[Sender] = "live"
    /\ Sending("acquire", "loop")
    /\ Destroy(Sender)
    /\ UNCHANGED sendRest

\* No object, or closing: on to the next round, the object is dropped.
SendSkip ==
    /\ pc[Sender] = "live"
    /\ ~up \/ data[Sender] = NULL
    /\ Sending("acquire", "loop")
    /\ Destroy(Sender)
    /\ UNCHANGED sendRest

SendOut ==
    /\ pc[Sender] = "live"
    /\ up /\ data[Sender] # NULL
    /\ Sending("acquire", "drop")
    /\ sent' = IF open THEN Append(sent, content[data[Sender]]) ELSE sent
    /\ UNCHANGED <<vars, up, open, registered, lpc, got, calls, cpc>>

SendEndOfScope ==
    /\ Sending("drop", "loop")
    /\ Destroy(Sender)
    /\ UNCHANGED sendRest

DataSender ==
    \/ SendStart \/ SendLoop \/ SendAcquire \/ SendSkip \/ SendOut \/ SendEndOfScope

------------------------------------------------------------------------------
(* Send, called by any thread once the sender is initialised.              *)
SendCall(u) ==
    /\ spc # "none"
    /\ cpc # "closed"
    /\ calls[u] < MaxSends
    /\ Construct(u, Blocking(SendQueue, "UNUSED"))
    /\ calls' = [calls EXCEPT ![u] = @ + 1]
    /\ UNCHANGED <<up, open, registered, lpc, spc, got, sent, cpc>>

\* Copies the message and calls enqueue(_queue_send).
SendCopy(u) ==
    /\ pc[u] = "live"
    /\ data[u] # NULL
    /\ ~enq[u]
    /\ content' = [content EXCEPT ![data[u]] = Outgoing(u, calls[u])]
    /\ enq' = [enq EXCEPT ![u] = TRUE]
    /\ next' = [next EXCEPT ![u] = SendQueue]
    /\ UNCHANGED <<items, running, notifier, pc, call, data, returnTo, netVars>>

\* Returns the length, or -1 without an object, or lets the OIError through.
SendReturn(u) ==
    /\ Catch(u) \/ ((data[u] = NULL \/ enq[u]) /\ Destroy(u))
    /\ UNCHANGED netVars

InSend(u) == (Constructing(u) /\ UNCHANGED netVars) \/ SendCopy(u) \/ SendReturn(u)

\* A thread of the application takes a datagram from a registered queue.
ReadPoll(k) ==
    /\ \E f \in DOMAIN QueueFor :
           Acquire(k, [q |-> QueueFor[f], t |-> "QUEUED", f |-> "NONBLOCKING"])
    /\ UNCHANGED netVars

ReadDone(k) == Destroy(k) /\ UNCHANGED netVars

------------------------------------------------------------------------------
(* Close.                                                                  *)
Closing(from, to) == cpc = from /\ cpc' = to
closeRest == <<registered, lpc, spc, got, calls, sent>>

CloseBegin ==
    /\ lpc # "none" /\ spc # "none"
    /\ Closing("open", "socket")
    /\ up' = FALSE
    /\ UNCHANGED <<vars, open, closeRest>>

CloseSocket ==
    /\ Closing("socket", "sender")
    /\ open' = FALSE
    /\ NotifyAll(Closer, SendQueue)
    /\ UNCHANGED <<up, closeRest>>

CloseNotify == Notifying(Closer) /\ UNCHANGED netVars

CloseJoinSender ==
    /\ notifier[Closer] = NULL
    /\ spc = "end"
    /\ Closing("sender", "listener")
    /\ NotifyAll(Closer, ReceiveQueue)
    /\ UNCHANGED <<up, open, closeRest>>

\* Returns while the listener may still run.
CloseForgetsListener ==
    /\ notifier[Closer] = NULL
    /\ Closing("listener", "closed")
    /\ UNCHANGED <<vars, up, open, closeRest>>

CloseJoinListener ==
    /\ notifier[Closer] = NULL
    /\ lpc = "end"
    /\ Closing("listener", "closed")
    /\ UNCHANGED <<vars, up, open, closeRest>>

CloseGoesOn == CloseSocket \/ CloseNotify \/ CloseJoinSender \/ CloseJoinListener

------------------------------------------------------------------------------
NetNext ==
    \/ InitSender \/ InitReceiver
    \/ \E f \in Families : RegisterQueue(f)
    \/ DataListener
    \/ DataSender
    \/ \E u \in Users : SendCall(u) \/ InSend(u)
    \/ \E k \in Readers : ReadPoll(k) \/ ReadDone(k)
    \/ CloseBegin \/ CloseGoesOn
    \/ \E a \in Acqs : WakeSpuriously(a) /\ UNCHANGED netVars

\* Every started thread is scheduled.  The network owes no datagram, so the
\* listener is only bound to return from receive_from once the socket is closed.
ListenerMoves == DataListener /\ (lpc = "receive" => ~open)

NetFairness ==
    /\ WF_allVars(ListenerMoves)
    /\ WF_allVars(DataSender)
    /\ \A u \in Users : WF_allVars(InSend(u))
    /\ WF_allVars(CloseGoesOn)

NetSpec == NetInit /\ [][NetNext]_allVars
FairNetSpec == NetSpec /\ NetFairness

------------------------------------------------------------------------------
\* Buffers are shared by both directions and by all queues, yet messages do not
\* cross: what waits to be sent was handed to Send, and what waits in the queue
\* of a family is a datagram of that family.
QueuesDoNotCross ==
    /\ \A i \in DOMAIN items[SendQueue] : content[items[SendQueue][i]].dir = "out"
    /\ \A f \in DOMAIN QueueFor : \A i \in DOMAIN items[QueueFor[f]] :
           content[items[QueueFor[f]][i]] \in
               {Received(g) : g \in {h \in DOMAIN QueueFor : QueueFor[h] = QueueFor[f]}}
    /\ \A i \in DOMAIN items[ReceiveQueue] : content[items[ReceiveQueue][i]].dir = "in"

\* A message handed to Send is sent at most once, and those of one thread leave
\* in the order in which the thread sent them.
SentOnceInOrder ==
    \A i, j \in DOMAIN sent :
        i < j /\ sent[i].user = sent[j].user => sent[i].seq < sent[j].seq

\* The messages on their way to the socket: the one in the sender's hand, then
\* those that wait for it.
HeldForSending(a) == IF data[a] = NULL THEN <<>> ELSE <<content[data[a]]>>
Outbox ==
    (IF spc = "acquire" THEN HeldForSending(Sender) ELSE <<>>)
        \o [i \in DOMAIN items[SendQueue] |-> content[items[SendQueue][i]]]

\* Send and the sender implement the line of SendLine: messages of all threads
\* leave in the order in which they were put into the queue, and a message is
\* dropped only while _running is false or the socket is closed.
Promise == INSTANCE SendLine
           WITH Letters <- {Outgoing(u, n) : u \in Users, n \in 1 .. MaxSends},
                line <- Outbox, stopped <- ~up \/ ~open
ImplementsSendLine == Promise!Spec

\* The listener writes into doa_r.data without looking whether it is null: the
\* constructor must have thrown instead, even when Close wakes the wait.
ListenerHasBuffer == lpc \in {"receive", "received"} => data[Listener] # NULL

\* Close returns, with both threads ended.
CloseStops == (cpc # "open") ~> (cpc = "closed")
==============================================================================
