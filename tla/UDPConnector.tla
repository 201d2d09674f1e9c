---------------------------- MODULE UDPConnector ----------------------------
(***************************************************************************)
(* The connector of oi.network (UDPConnector.cpp): a UDPBase with one pool *)
(* that registers with a matchmaking server, learns its peers' addresses   *)
(* from it and keeps the way to them open with punches.  Four threads share*)
(* the pool and the table of endpoints: the listener, the sender, the      *)
(* update thread, and the program, which initialises the connector, adds   *)
(* endpoints and broadcasts.                                               *)
(*                                                                         *)
(* Objects have no identity here: OIWorker implements ObjectStore, so a    *)
(* pool is how many unused objects it has and a queue is the messages in   *)
(* it.  A blocking acquisition is OIWorker's: it waits once, misses a      *)
(* notification that comes before the wait, and throws when it wakes up to *)
(* an empty pool.                                                          *)
(*                                                                         *)
(* Times are compared by their distance to the clock: an age counts the    *)
(* ticks since a time stamp and stops counting when it is past its limit.  *)
(* What the connector notes of an endpoint when a punch of it comes, or    *)
(* none does (UDPEndpoint's connected and lastReceivedHB), is left out:    *)
(* nothing reads it but the lines that write it.                           *)
(***************************************************************************)
EXTENDS Integers, Sequences, FiniteSets

CONSTANTS
    Peers,          \* the addresses of other clients
    Defaults,       \* the peers the program adds itself, in that order
    PoolSize,       \* objects of _mm_buffer_pool
    UseMM,          \* _useMM
    RegisterInterval, HBInterval,
    Broadcasts,     \* whether the program enqueues messages with all_endpoints
    Spurious        \* the threads whose waits may end without a notification

\* The threads that take objects from the pool; the sender takes from its queue.
Takers == {"main", "listener", "update"}
Threads == Takers \cup {"sender"}

ASSUME ConnectorAssumption ==
    /\ Defaults \in Seq(Peers)
    /\ {PoolSize, RegisterInterval, HBInterval} \subseteq Nat
    /\ {UseMM, Broadcasts} \subseteq BOOLEAN
    /\ Spurious \subseteq Threads

VARIABLES
    unused,      \* how many objects the pool has
    sendQueue,   \* _queue_send
    mmQueue,     \* _mm_receive_queue
    strays,      \* how many objects are in _queue_receive, which nobody reads
    acq,         \* where each thread's blocking acquisition is
    up,          \* _running
    terminated,  \* an exception nobody catches has ended the program
    endpoints,   \* the keys of the endpoint table
    punchAge,    \* age of lastSentHB
    connected,   \* UDPBase::_connected
    registerAge, \* age of mm_lastRegister, as long as it is read
    lock,        \* who holds _m_endpoints
    mainPc, toAdd,             \* the program; the default endpoints to come
    updatePc, answered,        \* the update thread; the message it holds
    due, topAge,               \* the endpoints that are due by currentTime; its age
                               \* until it is stored in mm_lastRegister
    peer,                      \* whom "main" and "update" are punching
    listenPc,                  \* the listener
    senderPc, sending          \* the sender; the message it holds

poolVars == <<unused, sendQueue, mmQueue, strays, acq>>
runVars == <<up, terminated>>
tableVars == <<endpoints, punchAge>>
mmVars == <<connected, registerAge>>
mainVars == <<mainPc, toAdd>>
updateVars == <<updatePc, answered, due, topAge>>
ioVars == <<listenPc, senderPc, sending>>
vars == <<poolVars, runVars, tableVars, mmVars, lock, peer, mainVars, updateVars, ioVars>>

Acquisitions == {"idle",      \* not constructed, or nothing acquired yet
                 "unlocked",  \* the store was empty and is no longer locked
                 "waiting", "notified",
                 "holding"}   \* a taker has an object
Nobody == "nobody"
Register == [what |-> "register", to |-> "server"]
Punch(p) == [what |-> "punch", to |-> p]
Broadcast == [what |-> "data", to |-> "all"]
NoMessage == [what |-> "none", to |-> "none"]

Past(limit) == limit + 1

Init ==
    /\ unused = PoolSize
    /\ sendQueue = <<>> /\ mmQueue = <<>> /\ strays = 0
    /\ acq = [th \in Threads |-> "idle"]
    /\ up = FALSE /\ terminated = FALSE
    /\ endpoints = {}
    /\ punchAge = [p \in Peers |-> 0]
    /\ connected = TRUE
    /\ registerAge = 0
    /\ lock = Nobody
    /\ peer = [th \in {"main", "update"} |-> Nobody]
    /\ mainPc = "receiver" /\ toAdd = Defaults
    /\ updatePc = "none" /\ answered = NoMessage
    /\ due = {} /\ topAge = 0
    /\ listenPc = "none"
    /\ senderPc = "none" /\ sending = NoMessage

------------------------------------------------------------------------------
(* The clock.                                                              *)
Older(age, limit) == IF age \in 0 .. limit THEN age + 1 ELSE age

Tick ==
    /\ punchAge' = [p \in Peers |-> IF p \in endpoints THEN Older(punchAge[p], HBInterval)
                                                      ELSE punchAge[p]]
    /\ registerAge' = IF connected THEN registerAge ELSE Older(registerAge, RegisterInterval)
    /\ topAge' = IF updatePc = "register" THEN Older(topAge, RegisterInterval) ELSE topAge
    /\ UNCHANGED <<poolVars, runVars, endpoints, connected, lock, peer, mainVars, updatePc,
                   answered, due, ioVars>>

------------------------------------------------------------------------------
(* The blocking acquisitions.  Only one thread closes the connector, and it*)
(* is not modelled: nothing is null but what the sender finds after a wait.*)

\* The threads that are at an acquisition, or begin one when they like.
Acquiring ==
    {th \in Threads :
        \/ th = "main" /\ mainPc \in {"first", "second"}
        \/ th = "main" /\ mainPc = "add" /\ toAdd = <<>> /\ Broadcasts
        \/ th = "listener" /\ listenPc = "loop"
        \/ th = "update" /\ updatePc \in {"register", "first", "second", "punch"}
        \/ th = "sender" /\ senderPc = "acquire"}

Found(th) == IF th = "sender" THEN sendQueue # <<>> ELSE unused > 0

outsidePool == <<runVars, tableVars, mmVars, lock, peer, mainVars, updateVars, ioVars>>

AcquireUnlock(th) ==
    /\ th \in Acquiring /\ acq[th] = "idle"
    /\ ~Found(th)
    /\ acq' = [acq EXCEPT ![th] = "unlocked"]
    /\ UNCHANGED <<unused, sendQueue, mmQueue, strays, outsidePool>>

Wait(th) ==
    /\ acq[th] = "unlocked"
    /\ acq' = [acq EXCEPT ![th] = "waiting"]
    /\ UNCHANGED <<unused, sendQueue, mmQueue, strays, outsidePool>>

WakeSpuriously(th) ==
    /\ th \in Spurious
    /\ acq[th] = "waiting"
    /\ acq' = [acq EXCEPT ![th] = "notified"]
    /\ UNCHANGED <<unused, sendQueue, mmQueue, strays, outsidePool>>

\* An object of the pool, at once or after the wait.
Acquire(th) ==
    /\ th \in Acquiring \cap Takers
    /\ acq[th] \in {"idle", "notified"}
    /\ unused > 0
    /\ unused' = unused - 1
    /\ acq' = [acq EXCEPT ![th] = "holding"]
    /\ UNCHANGED <<sendQueue, mmQueue, strays, outsidePool>>

FindsNothing(th) == acq[th] = "notified" /\ unused = 0

\* The OIError of the listener: it is caught, and the listener ends.
ListenerThrows ==
    /\ FindsNothing("listener")
    /\ acq' = [acq EXCEPT !["listener"] = "idle"]
    /\ listenPc' = "ended"
    /\ up' = FALSE
    /\ UNCHANGED <<unused, sendQueue, mmQueue, strays, terminated, tableVars, mmVars, lock,
                   peer, mainVars, updateVars, senderPc, sending>>

\* That of any other thread is caught by nobody.
OIError(th) ==
    /\ FindsNothing(th)
    /\ terminated' = TRUE
    /\ UNCHANGED <<poolVars, up, tableVars, mmVars, lock, peer, mainVars, updateVars, ioVars>>

\* notify_one: f, with one of the threads that wait in it awake.
NotifyOne(f, threads) ==
    LET asleep == {th \in threads : f[th] = "waiting"} IN
        IF asleep = {} THEN {f} ELSE {[f EXCEPT ![th] = "notified"] : th \in asleep}

\* An object goes back to the pool, and what is done with it has become f.
GiveBack(f) ==
    /\ unused' = unused + 1
    /\ acq' \in NotifyOne(f, Takers)

------------------------------------------------------------------------------
(* MMSend, AddEndpoint and Punch, called by a thread th.                   *)

\* The object that was acquired is filled and put into the send queue.
MMSend(th, msg) ==
    /\ acq[th] = "holding"
    /\ sendQueue' = Append(sendQueue, msg)
    /\ acq' \in NotifyOne([acq EXCEPT ![th] = "idle"], {"sender"})
    /\ UNCHANGED <<unused, mmQueue, strays>>

\* The buffer is not given back.
DropNothing ==
    /\ updatePc = "drop"
    /\ updatePc' = "top"
    /\ answered' = NoMessage
    /\ UNCHANGED <<poolVars, runVars, tableVars, mmVars, lock, peer, mainVars, due, topAge,
                   ioVars>>

\* The heartbeat that an older clock called for is still due.
StampStaysDue(p) ==
    /\ punchAge' = [punchAge EXCEPT ![p] = 0]
    /\ UNCHANGED due

\* The time stamp of a punch.  What an older clock says of this endpoint is that
\* it is not due.
Stamp(p) ==
    /\ punchAge' = [punchAge EXCEPT ![p] = 0]
    /\ due' = due \ {p}

\* The table is locked, and the first punch begins with its time stamp.
AddEndpoint(th, p) ==
    /\ lock = Nobody
    /\ lock' = th
    /\ peer' = [peer EXCEPT ![th] = p]
    /\ endpoints' = endpoints \cup {p}
    /\ Stamp(p)
    /\ UNCHANGED <<poolVars, runVars, mmVars, answered, topAge, ioVars>>

\* Punches once; the next punch begins with its time stamp.
PunchFirst(th) ==
    /\ MMSend(th, Punch(peer[th]))
    /\ Stamp(peer[th])
    /\ UNCHANGED <<runVars, endpoints, mmVars, lock, peer, answered, topAge, ioVars>>

\* Punches again and unlocks the table.
PunchSecond(th) ==
    /\ MMSend(th, Punch(peer[th]))
    /\ lock' = Nobody
    /\ peer' = [peer EXCEPT ![th] = Nobody]
    /\ UNCHANGED <<runVars, tableVars, mmVars, answered, due, topAge, ioVars>>

------------------------------------------------------------------------------
(* The program, RGBDStreamIO or the test: InitConnector, the endpoints it  *)
(* adds itself, and then messages with all_endpoints set.                  *)
Main(from, to) == mainPc = from /\ mainPc' = to

\* The listener sets _running before any other thread reads it.
StartReceiver ==
    /\ Main("receiver", "sender")
    /\ listenPc' = "loop"
    /\ up' = TRUE
    /\ UNCHANGED <<poolVars, terminated, tableVars, mmVars, lock, peer, toAdd, updateVars, senderPc,
                   sending>>

StartSender ==
    /\ Main("sender", "queue")
    /\ senderPc' = "start"
    /\ UNCHANGED <<poolVars, runVars, tableVars, mmVars, lock, peer, toAdd, updateVars,
                   listenPc, sending>>

RegisterQueue ==
    /\ Main("queue", "update")
    /\ UNCHANGED <<poolVars, runVars, tableVars, mmVars, lock, peer, toAdd, updateVars, ioVars>>

StartUpdate ==
    /\ Main("update", "add")
    /\ endpoints' = {}
    /\ connected' = FALSE
    /\ registerAge' = Past(RegisterInterval)
    /\ updatePc' = "start"
    /\ UNCHANGED <<poolVars, runVars, punchAge, lock, peer, toAdd, answered, due, topAge,
                   ioVars>>

MainAdds ==
    \/ /\ toAdd # <<>>
       /\ Main("add", "first")
       /\ AddEndpoint("main", Head(toAdd))
       /\ toAdd' = Tail(toAdd)
       /\ UNCHANGED updatePc
    \/ Main("first", "second") /\ PunchFirst("main") /\ UNCHANGED <<toAdd, updatePc>>
    \/ Main("second", "add") /\ PunchSecond("main") /\ UNCHANGED <<toAdd, updatePc>>

BroadcastData ==
    /\ mainPc = "add"
    /\ MMSend("main", Broadcast)
    /\ UNCHANGED <<runVars, tableVars, mmVars, lock, peer, mainVars, updateVars, ioVars>>

MainProgram ==
    StartReceiver \/ StartSender \/ RegisterQueue \/ StartUpdate \/ MainAdds \/ BroadcastData

------------------------------------------------------------------------------
(* The listener, and what the network sends it.                            *)
\* What the listener does with its object.  _running is true as long as the listener
\* has not cleared it itself.
Listened ==
    /\ acq["listener"] = "holding"
    /\ UNCHANGED <<runVars, sendQueue, tableVars, mmVars, lock, peer, mainVars, updateVars,
                   ioVars>>

ListenerIdle == [acq EXCEPT !["listener"] = "idle"]

\* A matchmaking message: from the server, or a punch of a peer.
Receive(msg) ==
    /\ Listened
    /\ IF mainPc \in {"sender", "queue"}
       THEN strays' = strays + 1 /\ UNCHANGED mmQueue
       ELSE mmQueue' = Append(mmQueue, msg) /\ UNCHANGED strays
    /\ acq' = ListenerIdle
    /\ UNCHANGED unused

\* A message of a family nobody has registered.
ReceiveStray ==
    /\ Listened
    /\ strays' = strays + 1
    /\ acq' = ListenerIdle
    /\ UNCHANGED <<unused, mmQueue>>

\* An error, or an empty datagram.
ReceiveNothing ==
    /\ Listened
    /\ GiveBack(ListenerIdle)
    /\ UNCHANGED <<mmQueue, strays>>

Answer(p) == [what |-> "answer", to |-> p]
OtherMessage == [what |-> "other", to |-> "none"]

Network ==
    \/ \E p \in Peers : Receive(Answer(p)) \/ Receive(Punch(p))
    \/ Receive(OtherMessage)
    \/ ReceiveStray
    \/ ReceiveNothing

------------------------------------------------------------------------------
(* The update thread.                                                      *)
Update(from, to) == updatePc = from /\ updatePc' = to

UpdateStart ==
    /\ Update("start", "top")
    /\ up' = TRUE
    /\ UNCHANGED <<poolVars, terminated, tableVars, mmVars, lock, peer, mainVars, answered,
                   due, topAge, ioVars>>

UpdateEnds ==
    /\ Update("top", "ended")
    /\ ~up
    /\ UNCHANGED <<poolVars, runVars, tableVars, mmVars, lock, peer, mainVars, answered, due,
                   topAge, ioVars>>

\* currentTime is read once; what follows compares with it.
UpdateTop ==
    /\ up
    /\ Update("top", IF UseMM /\ ~connected /\ registerAge > RegisterInterval
                     THEN "register" ELSE "table")
    /\ due' = {p \in endpoints : punchAge[p] > HBInterval}
    /\ topAge' = 0
    /\ UNCHANGED <<poolVars, runVars, tableVars, mmVars, lock, peer, mainVars, answered,
                   ioVars>>

UpdateRegister ==
    /\ Update("register", "table")
    /\ MMSend("update", Register)
    /\ registerAge' = topAge
    /\ topAge' = 0
    /\ UNCHANGED <<runVars, tableVars, connected, lock, peer, mainVars, answered, due, ioVars>>

\* The table is locked.
UpdateLock ==
    /\ Update("table", "heartbeat")
    /\ lock = Nobody
    /\ lock' = "update"
    /\ UNCHANGED <<poolVars, runVars, tableVars, mmVars, peer, mainVars, answered, due, topAge,
                   ioVars>>

\* The loop over the table: a punch for the next endpoint whose time has come...
UpdateHeartbeat(p) ==
    /\ Update("heartbeat", "punch")
    /\ p \in due
    /\ due' = due \ {p}
    /\ punchAge' = [punchAge EXCEPT ![p] = 0]
    /\ peer' = [peer EXCEPT !["update"] = p]
    /\ UNCHANGED <<poolVars, runVars, endpoints, mmVars, lock, mainVars, answered, topAge,
                   ioVars>>

UpdatePunch ==
    /\ Update("punch", "heartbeat")
    /\ MMSend("update", Punch(peer["update"]))
    /\ peer' = [peer EXCEPT !["update"] = Nobody]
    /\ UNCHANGED <<runVars, tableVars, mmVars, lock, mainVars, answered, due, topAge, ioVars>>

\* ... and at the end of it the table is unlocked.
UpdateUnlock ==
    /\ Update("heartbeat", "messages")
    /\ due = {}
    /\ lock' = Nobody
    /\ UNCHANGED <<poolVars, runVars, tableVars, mmVars, peer, mainVars, answered, due, topAge,
                   ioVars>>

\* What is done with a message; other types of messages are ignored.
HandlerOf(msg) == CASE msg.what = "answer" -> "answer"
                    [] msg.what = "punch" -> "heard"
                    [] OTHER -> "drop"

\* A nonblocking look into the matchmaking queue.
UpdatePoll ==
    \/ /\ mmQueue = <<>>
       /\ Update("messages", "top")
       /\ UNCHANGED <<poolVars, runVars, tableVars, mmVars, lock, peer, mainVars, answered,
                      due, topAge, ioVars>>
    \/ /\ mmQueue # <<>>
       /\ Update("messages", HandlerOf(Head(mmQueue)))
       /\ answered' = Head(mmQueue)
       /\ mmQueue' = Tail(mmQueue)
       /\ UNCHANGED <<runVars, unused, sendQueue, strays, acq, tableVars, mmVars, lock, peer,
                      mainVars, due, topAge, ioVars>>

\* "answer": AddEndpoint, while the message is still held.
UpdateAnswer ==
    \/ Update("answer", "first") /\ AddEndpoint("update", answered.to) /\ UNCHANGED mainVars
    \/ Update("first", "second") /\ PunchFirst("update") /\ UNCHANGED mainVars
    \/ Update("second", "drop") /\ PunchSecond("update") /\ UNCHANGED mainVars

\* The connector is connected, whoever the punch is from.
UpdateHearsAnybody ==
    /\ Update("heard", "drop")
    /\ lock = Nobody
    /\ connected' = TRUE /\ registerAge' = 0
    /\ UNCHANGED <<poolVars, runVars, tableVars, lock, peer, mainVars, answered, due, topAge,
                   ioVars>>

\* A punch of a peer: if it is known, it is connected, and so is the connector.
UpdateHeard ==
    /\ Update("heard", "drop")
    /\ lock = Nobody
    /\ IF answered.to \in endpoints
       THEN connected' = TRUE /\ registerAge' = 0
       ELSE UNCHANGED <<connected, registerAge>>
    /\ UNCHANGED <<poolVars, runVars, endpoints, punchAge, lock, peer, mainVars, answered, due,
                   topAge, ioVars>>

\* The end of the scope gives the message's buffer back.
UpdateDrop ==
    /\ Update("drop", "top")
    /\ GiveBack(acq)
    /\ answered' = NoMessage
    /\ UNCHANGED <<runVars, sendQueue, mmQueue, strays, tableVars, mmVars, lock, peer,
                   mainVars, due, topAge, ioVars>>

UpdateThread ==
    \/ UpdateStart \/ UpdateEnds \/ UpdateTop \/ UpdateRegister \/ UpdateLock
    \/ \E p \in Peers : UpdateHeartbeat(p)
    \/ UpdatePunch \/ UpdateUnlock \/ UpdatePoll \/ UpdateAnswer \/ UpdateHeard \/ UpdateDrop

------------------------------------------------------------------------------
(* The sender, UDPConnector's own DataSender.                              *)
SenderStart ==
    /\ senderPc = "start"
    /\ senderPc' = "loop"
    /\ up' = TRUE
    /\ UNCHANGED <<poolVars, terminated, tableVars, mmVars, lock, peer, mainVars, updateVars,
                   listenPc, sending>>

SenderLoop ==
    /\ senderPc = "loop"
    /\ senderPc' = IF up THEN "acquire" ELSE "ended"
    /\ UNCHANGED <<poolVars, runVars, tableVars, mmVars, lock, peer, mainVars, updateVars,
                   listenPc, sending>>

\* A message, at once or after the wait; it is not sent when the connector ends.
SenderTake ==
    /\ senderPc = "acquire"
    /\ acq["sender"] \in {"idle", "notified"}
    /\ sendQueue # <<>>
    /\ acq' = [acq EXCEPT !["sender"] = "idle"]
    /\ sending' = Head(sendQueue)
    /\ sendQueue' = Tail(sendQueue)
    /\ senderPc' = IF ~up THEN "drop"
                   ELSE IF Head(sendQueue).to = "all" THEN "targets" ELSE "send"
    /\ UNCHANGED <<unused, mmQueue, strays, runVars, tableVars, mmVars, lock, peer, mainVars,
                   updateVars, listenPc>>

\* The wait is over and the queue is empty.
SenderFindsNothing ==
    /\ acq["sender"] = "notified"
    /\ sendQueue = <<>>
    /\ acq' = [acq EXCEPT !["sender"] = "idle"]
    /\ senderPc' = "loop"
    /\ UNCHANGED <<unused, sendQueue, mmQueue, strays, runVars, tableVars, mmVars, lock, peer,
                   mainVars, updateVars, listenPc, sending>>

\* The targets of a broadcast are read from the locked table.
SenderTargets ==
    /\ senderPc = "targets"
    /\ lock = Nobody
    /\ senderPc' = "send"
    /\ UNCHANGED <<poolVars, runVars, tableVars, mmVars, lock, peer, mainVars, updateVars,
                   listenPc, sending>>

\* The buffer of a message that was sent stays with the sender.
SenderKeepsBuffer ==
    /\ senderPc \in {"send", "drop"}
    /\ senderPc' = "loop"
    /\ sending' = NoMessage
    /\ UNCHANGED <<poolVars, runVars, tableVars, mmVars, lock, peer, mainVars, updateVars,
                   listenPc>>

\* The message goes to the socket, its buffer to the pool.
SenderSend ==
    /\ senderPc \in {"send", "drop"}
    /\ GiveBack(acq)
    /\ senderPc' = "loop"
    /\ sending' = NoMessage
    /\ UNCHANGED <<sendQueue, mmQueue, strays, runVars, tableVars, mmVars, lock, peer,
                   mainVars, updateVars, listenPc>>

DataSender ==
    SenderStart \/ SenderLoop \/ SenderTake \/ SenderFindsNothing \/ SenderTargets \/ SenderSend

------------------------------------------------------------------------------
Constructing(th) == AcquireUnlock(th) \/ Wait(th) \/ Acquire(th)

MainThread == MainProgram \/ Constructing("main") \/ OIError("main")
DataListener == Constructing("listener") \/ ListenerThrows
DataUpdate == UpdateThread \/ Constructing("update") \/ OIError("update")
SenderThread == DataSender \/ Constructing("sender")

Next ==
    /\ ~terminated
    /\ \/ Tick
       \/ MainThread
       \/ DataListener \/ Network
       \/ DataUpdate
       \/ SenderThread
       \/ \E th \in Threads : WakeSpuriously(th)

\* The clock goes on, and so do the threads that send, the program until it has added
\* its endpoints or enqueued what it has begun to.  Nobody owes a datagram, a broadcast
\* or a notification, and the listener owes nothing.
Fairness ==
    /\ WF_vars(~terminated /\ Tick)
    /\ WF_vars(/\ ~terminated
               /\ mainPc = "add" => toAdd # <<>> \/ acq["main"] # "idle"
               /\ MainThread)
    /\ WF_vars(~terminated /\ DataUpdate)
    /\ WF_vars(~terminated /\ SenderThread)

Spec == Init /\ [][Next]_vars
FairSpec == Spec /\ Fairness

\* The sender is never kept from the table for ever by threads that only take turns.
TurnsSpec == FairSpec /\ SF_vars(~terminated /\ SenderTargets)

------------------------------------------------------------------------------
\* Every object of the pool is in the pool, in a queue or with one thread: no
\* message path of the four threads loses or doubles a buffer.
Count(b) == IF b THEN 1 ELSE 0
TakerHolds(th) == Count(acq[th] = "holding")
TakersHold == TakerHolds("main") + TakerHolds("listener") + TakerHolds("update")
SenderHolds == Count(senderPc \in {"targets", "send", "drop"})
UpdateHolds == Count(answered # NoMessage)

BuffersConserved ==
    unused + Len(sendQueue) + Len(mmQueue) + strays + TakersHold + SenderHolds + UpdateHolds
        = PoolSize

\* The update thread punches an endpoint only when its last punch, by whatever
\* thread, is longer ago than the heartbeat interval, although it decides that
\* with a clock it has read before it locked the table.
NoEarlyHeartbeat ==
    [][updatePc = "heartbeat" /\ updatePc' = "punch" =>
           punchAge[peer'["update"]] > HBInterval]_vars

\* What can stop a connector.  The receiving side takes all the buffers: those of the
\* listener, of its two queues and of the message in the update thread's hands...
ReceiverTakesAll ==
    strays + Len(mmQueue) + TakerHolds("listener") + UpdateHolds = PoolSize

\* ... an acquisition throws, which ends the listener or the program...
Failed == terminated \/ listenPc = "ended"

\* ... or a thread sleeps although there is something for it: its notification has
\* come between its look and its wait.
Overslept(th) == acq[th] = "waiting" /\ Found(th)

NothingStopsIt ==
    [](~ReceiverTakesAll /\ ~Failed) /\ \A th \in Threads \ {"listener"} : []<>~Overslept(th)

\* Every endpoint is sent punches again and again, unless one of these happens or
\* somebody broadcasts: whatever the threads wait for, one of the others gives it.
SentPunch(p) == senderPc = "send" /\ sending = Punch(p)
Punched == \A p \in Peers : p \in endpoints ~> SentPunch(p)
NoBroadcast == sending # Broadcast /\ \A i \in DOMAIN sendQueue : sendQueue[i] # Broadcast

HeartbeatsGoOn == NothingStopsIt /\ []NoBroadcast => Punched

\* "This thread (re-)establishes connection, seends heartbeats, etc.": the same,
\* whether somebody broadcasts or not.
HeartbeatsDespiteBroadcasts == NothingStopsIt => Punched

\* Seen from outside, four threads with locks, clocks and buffers that block only
\* ever add an endpoint, or hear a punch of one that was added.
Table == INSTANCE PeerTable WITH
             Addresses <- Peers,
             table <- [endpoints |-> endpoints, connected |-> connected /\ updatePc # "none"]
ImplementsPeerTable == Table!Spec

------------------------------------------------------------------------------
(* The inductive invariant of the proofs.                                  *)
Messages == {Register, Broadcast, OtherMessage} \cup {Punch(p) : p \in Peers}
                \cup {Answer(p) : p \in Peers}
Starting == {"receiver", "sender", "queue", "update"}

TypeOK ==
    /\ unused \in Nat /\ strays \in Nat
    /\ sendQueue \in Seq(Messages) /\ mmQueue \in Seq(Messages)
    /\ answered \in Messages \cup {NoMessage}
    /\ endpoints \in SUBSET Peers
    /\ punchAge \in [Peers -> 0 .. Past(HBInterval)]
    /\ due \in SUBSET Peers
    /\ peer \in [{"main", "update"} -> Peers \cup {Nobody}]
    /\ connected \in BOOLEAN
    /\ acq \in [Threads -> Acquisitions]
    /\ toAdd \in Seq(Peers)
    /\ mainPc \in Starting \cup {"add", "first", "second"}
    /\ updatePc \in {"none", "start", "top", "ended", "register", "table", "heartbeat", "punch",
                     "messages", "answer", "first", "second", "heard", "drop"}
    /\ listenPc \in {"none", "loop", "ended"}
    /\ senderPc \in {"none", "start", "loop", "acquire", "targets", "send", "drop", "ended"}

\* What the update thread has in its hands is what its place says.
HandlesAnswered ==
    /\ (answered # NoMessage) = (updatePc \in {"answer", "first", "second", "heard", "drop"})
    /\ updatePc \in {"answer", "heard"} => answered.to \in Peers

\* The clock of this pass is old, but what it called due still is.
DueIsDue == \A p \in due : punchAge[p] > HBInterval

\* Who is being punched is known.
PunchesSomebody ==
    /\ mainPc \in {"first", "second"} => peer["main"] \in Peers
    /\ updatePc \in {"first", "second", "punch"} => peer["update"] \in Peers

\* InitConnector clears the table before any thread looks at it, and starts each
\* thread once.
StartsFresh ==
    /\ (mainPc \in Starting) = (updatePc = "none")
    /\ mainPc \in Starting => endpoints = {}
    /\ (mainPc \in {"receiver", "sender"}) = (senderPc = "none")

\* Only a sender that is at its acquisition waits for a message, and it keeps none there.
SenderAcquires ==
    /\ acq["sender"] # "holding"
    /\ acq["sender"] # "idle" => senderPc = "acquire"

IInv ==
    /\ TypeOK /\ HandlesAnswered /\ DueIsDue /\ PunchesSomebody /\ StartsFresh
    /\ SenderAcquires
    /\ BuffersConserved
==============================================================================
