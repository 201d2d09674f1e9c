# OpenIMPRESS native: a TLA+ model of the threads between camera and network

oi.native streams RGB-D camera frames over UDP. Everything between the camera
callback and the socket goes through one small library of object pools and
worker queues, shared by a dozen threads. That library, and the threads built on
it, are what this project models, checks with TLC and proves with TLAPS.

## 1. The system

| component | state it keeps | operations | interacts with |
|---|---|---|---|
| **Worker library** (`oi.core/include/OIWorker.hpp`, `src/OIWorker.cpp`) | `ObjectPool::_queue_unused`, `WorkerQueue::_queue_ready`, `_running`; per acquisition `data`, `_enqueue`, `_enqueue_next`, `_return_to` | construct an acquisition (blocking or not, unused or queued), `enqueue`, `enqueue(q)`, `release`, move, destroy, `close`, `notify_all` | every other component |
| **oi.core test** (`oi.core/test/oi.core.test.cpp`) | created and consumed counters | one producer, two consumers, join and close | worker library |
| **UDP endpoint** (`UDPBase`) | `_running`, `_queue_map`, socket, send and receive queue | `Init*`, `RegisterQueue`, `Send`, listener and sender threads, `Close` | worker library, socket |
| **UDP connector** (`UDPConnector`) | endpoints with heartbeat times, `_connected`, `_sequence_id` | matchmaking, heartbeats, `AddEndpoint`, broadcasting sender, `next_sequence_id` | UDP endpoint, matchmaking server, peers |
| **RGB-D stream IO** (`RGBDStreamIO`) | live, write and command queues, scheduled commands | `Commands`, `Live`, `Writer`, `ScheduleCommand`, `HandleScheduledCommands`, `Parse` | connector, device |
| **RGB-D device** (`RGBDDevice`) | stream configuration, previous frame time | `Queue*Frame`, `SendConfig` every 5 s | stream IO, camera driver |
| **oi.network test** (`oi.network/test/oi.network.test.cpp`) | packet counters, `running` | two clients that exchange numbered packets of two types, and their end | UDP endpoint |
| **camera client** (`oi.client.rgbd.libfreenect2`) | driver handles, frames lent by the driver, `freenect_paused`, `freenect_shutdown` | `OpenDevice`, `Cycle`, signal handlers | device, driver |
| headers (`OIHeaders.hpp`), protobufs (`oi.proto`), `lib/` | none | layout of bytes | |

What is hard here: threads block on condition variables without predicates;
objects are recycled, so a lost, duplicated or unreset object shows up later and
elsewhere; one pool serves all directions, so exhaustion in one blocks the others;
a mutex is held across blocking calls; time-outs, intervals and sequence numbers
are compared in narrow integers; shutdown races with threads about to wait;
datagrams are lost, repeated and reordered and programs are started anew at another
address; a signal handler runs in the middle of the main loop or on another thread.

### What makes each component correct

| component | properties |
|---|---|
| worker library | every object has one owner; what is in a pool is its own and reset; a null acquisition means a closed queue; seen from outside it is a set of FIFO stores |
| oi.core test | every id is read once and in order; the producer is not aborted; what is enqueued is read; the test ends |
| UDP endpoint | messages do not cross queues; sent once, in order per thread; the listener has a buffer; `Close` returns |
| UDP connector | no message path loses a buffer; heartbeats are not early, and go on unless a named condition stops them; the table of endpoints only grows |
| several connectors and the server | two that start from scratch, or a third that joins two, in the end know and hear each other |
| oi.network test | its asserts; a packet counted as sent is on its way; nothing uses the pool when its scope ends |
| stream IO | what a producer was told is queued reaches the writer once, in order, as if there were one line; scheduled commands are executed once, not early, and eventually; the wait for a message is no longer than until the next one |
| device | depth blocks are the rows of the image, fit a buffer, and the call returns; an exhausted pool is reported |
| camera client | frames go back to the driver; the client comes back to its loop unless it is left without a buffer |

### Reading the sources

`OIWorker.hpp` and the code that uses it do not agree at this commit. The
network and rgbd sources write `WorkerQueue()`, `DataObjectAcquisition(pool, flow)`,
`DataObjectAcquisition(queue, flow)` and a timed `DataObjectAcquisition(queue, ms)`;
`OIWorker.hpp` has `WorkerQueue(pool)` and `DataObjectAcquisition(queue, type, flow)`.
The models read an acquisition on a pool as type `UNUSED`, one on a queue as type
`QUEUED`, of a queue that has that pool, with the code of `OIWorker.hpp`; the
timed form is taken from its use (a negative time is no limit).

## 2. The plan

The worker library comes first: everything else is a client of it, and its
mistakes are everybody's. Then its clients from the inside out.

| order | module | what | state |
|---|---|---|---|
| 1 | `ObjectStock`, `ObjectStore` | the inventory; the abstract specification | done |
| 2 | `OIWorker`, `MCWorker`, `OIWorkerProofs` | the library, shown to implement `ObjectStore` | done, proved |
| 3 | `CoreTest`, `MCCoreTest`, `CoreTestProofs` | the repository's own test as a client (EXTENDS `OIWorker`) | done, proved |
| 4 | `SendLine`, `UDPBase`, `MCUDPBase`, `UDPBaseProofs` | the abstract line of messages to send; the endpoint as a client (EXTENDS `OIWorker`), shown to implement it | done, proved |
| 5 | `PeerTable`, `UDPConnector`, `MCUDPConnector`, `UDPConnectorProofs` | the abstract table of endpoints; the connector, on counts instead of objects (justified by `ObjectStore`), shown to implement it | done, proved |
| 6 | `Rendezvous`, `MCRendezvous` | several `PeerTable`s, the server and a faulty network | done |
| 7 | `NetworkTest`, `MCNetworkTest`, `NetworkTestProofs` | a client of the network test with its endpoint (EXTENDS `UDPBase`), its shutdown included | done, proved |
| 8 | `RGBDFrame` | the row loop | done, proved with 9 |
| 9 | `CameraClient`, `MCCameraClient`, `CameraClientProofs` | the client around the row loop (EXTENDS `RGBDFrame`) | done, proved |
| 10 | `ScheduledCommands`, `MCScheduledCommands`, `ScheduledCommandsProofs` | the command thread | done, proved |
| 11 | `FrameFlow`, `RGBDStreamIO`, `MCRGBDStreamIO`, `RGBDStreamIOProofs` | the abstract line of messages; producers, live and writer thread (EXTENDS `OIWorker`), shown to implement it | done, proved |

Two modules of an earlier plan were given up: `next_sequence_id`, because its numbers are
written into headers and nothing in the repository reads them (as numbers they
are neither unique nor increasing when two threads overlap, and start from an
uninitialised value); and an `OIWorker` with timed acquisitions, because there is no
code of them to translate.

## 3. Modules and code

**`ObjectStock`** names what never changes: which pool constructs which object.
**`ObjectStore`** says what the library promises: FIFO stores, objects taken, written
while held, put into a queue, or wiped and returned home.

**`OIWorker`** models `OIWorker.hpp`. `items[s]` is `_queue_ready` or
`_queue_unused`; an acquisition `a` has its C++ members `data`, `enq`, `next`,
`returnTo`, and `pc[a]` for a constructor that is not finished. The constructor is
several steps, because the code is: `MustWait` (the `if` of `_get_data`),
`AcquireUnlock` (the store is unlocked), `Wait` (the thread is registered with the
condition variable), `Resume` (lock, pop if there is something), `CheckRunning`
(the second look at `_running`, and the throw). The destructor is `DestroyNull`,
`DestroyEnqueue` or `DestroyReturn`; `close()` is `Close`, `MarkClosed`,
`NotifyUnused`, `NotifyQueued`. Everything under `_m_ready` or `_m_unused` is one
step. `_m_wait` protects no data: locking it commutes with the steps of other
threads, and waking up, locking the store again and taking an object are one step,
since what can come between (another thread emptying the store) can as well come
before it. The client is the most general one.

**`CoreTest`** is the oi.core test: `CreateObjects`, two `ConsumeObjects`, and main,
which joins them and closes. An `OIError` nobody catches ends everything.

**`UDPBase`** has a program counter per thread (`lpc`, `spc`) and steps named after the
lines of `DataListener`, `DataSender`, `Send` and `Close`. A datagram is its first byte.
`_running` is one flag shared by both threads and set by each as it starts.
`send_to` is called with an error code and does not throw; `receive_from` on a closed
socket returns with an error.

**`SendLine`** is what remains of an endpoint for those who call `Send`: one line of messages,
each new to its thread (`HandOver`), given to the socket from the front (`Transmit`), or
dropped from the front while the endpoint stands still (`Drop`). `ImplementsSendLine`
maps `line` to `Outbox` (the message in the sender's hand, then the contents of the send
queue) and `stopped` to `~up \/ ~open`. A message enters the line when the destructor of
its `Send` puts it into the queue and leaves it when the sender calls `send_to`. The
line may start and stop again and again: a thread that starts late sets `_running` anew.

**`PeerTable`** is what a connector promises of its endpoints: one is added (`Learned`), or a
punch of one that was added makes the connector connected (`Heard`). Nothing else
ever happens to the table.

**`UDPConnector`** has the update thread, the initialising program, the listener, the
sender that expands broadcasts, and the lock `_m_endpoints` (`lock`). Objects are
counted, not named; that a pool or queue behaves like a FIFO is the theorem
`WorkerImplementsStore`. A blocking acquisition is that of `OIWorker`, in the same steps
(`AcquireUnlock`, `Wait`, then `Acquire` or an exception): its notification is lost
when it comes between the first two, and its `OIError` ends the listener, which catches
it (`ListenerThrows`), or the program, since no other thread does (`OIError`). Time
stamps are ages that stop just past their limit; `due` is the outcome of the comparisons
with the `currentTime` of the last pass. `connected` and `lastReceivedHB` of an endpoint
are left out: only the lines that write them read them. The program of the connector
test is `BroadcastData`: it acquires a buffer, sets `all_endpoints` and enqueues it for the
sender.

`ImplementsPeerTable` hides the rest: `table <- [endpoints, connected /\ updatePc # "none"]`
(`_connected` starts as true and is cleared when the update thread starts).

**`Rendezvous`** composes one `PeerTable` per client with the matchmaking server (external:
it tells a client that registers of the others, and them of it) and a network that is
a set of messages: a message that stays in it arrives again, one that is removed is
lost. `SendRegister` is the registration of `Update` while `_connected` is false,
`SendHeartbeat` its loop over the endpoints, `HearAnswer` and `HearPunch` its two kinds
of messages. `Restart` is a program that is started anew, with an empty table, at its old
port or another. A `session` says who takes part: clients that come new, and clients that
have met before. `missed` remembers that one of more than two may have missed an answer.
That a connector's intervals lead to messages is what `UDPConnector` says, under the
conditions of `HeartbeatsGoOn`.

**`NetworkTest`** is `OINetworkTest::run` with the endpoint it owns, step by step: two queues
registered before the threads start, polls and sends that never block, `Close`, the two
`close()` of the registered queues, and the end of the scope that holds the pool
(`tpc = "gone"`). The other client is the network.

**`RGBDFrame`** is the loop of `QueueRGBDFrame` with its unsigned row counter
(`Modulus` for 2^16) and the casts of `linesPerMessage` and `deltaValue`. The color message
and each block need a buffer, and their acquisitions may sleep (`AwaitBuffer`), for ever,
give one at once or late (`QueueColor`, `QueueBlock`), throw (`AcquisitionThrows`) or give
null (`NoBuffer`).

**`CameraClient`** is `main`, `OpenDevice`, `Cycle` and the signal handlers of the libfreenect2
client around that loop. A handler interrupts the main thread, which then stands still
(`InMain`), or runs on another thread. `start()` and `stop()` of the driver may both fail,
which the handler does not look at (`StartOrStop`), so that nothing ties the pause
flag to the camera. `loop = "undefined"` is what follows a failed
`OpenDevice`, whose result `main` ignores.

**`ScheduledCommands`** is `Commands`, `ScheduleCommand`, `HandleScheduledCommands` and the
priority queue, a set of which any earliest member may be the top (that `top()` is the
earliest is the standard library's). Time passes between any two steps, also between
reading the clock and using it. The time-out keeps its width (`Narrow`).

**`RGBDStreamIO`** is the path of one message: a producer (`SendConfig`, `QueueAudioFrame`,
`QueueBodyFrame`, `QueueBodyIndexFrame`, a message of `QueueRGBDFrame`: all acquire, fill,
enqueue), `Live`, `Writer`, and a network thread that takes buffers from the same pool.
**`FrameFlow`** is what remains when threads, queues and buffers are hidden: a line of
messages with producers at one end and the writer at the other. The line is the
writer's message, the write queue, the live thread's message and the live queue,
in that order.

`PROJECT.json` maps each definition to its lines. The definitions that stand in
front of the one they resemble (`TakesNewest` before `TakeObject`) are wrong variants,
used to see that the properties notice.

## 4. Runs

| run | shows | instance |
|---|---|---|
| `worker_store` | `TypeOK`, `OneOwner`, `PoolsClean`, `NullMeansClosed`, and the refinement `ImplementsStore` | two queues with a pool each (so an object can go home from a foreign queue), two acquisitions, one closer, spurious wakeups; acquisitions are symmetric, which is sound for these safety properties |
| `core_test` | `EachIdOnceInOrder`, `EndsClean`, `NoAbort`, `EnqueuedIsRead` | four ids through two objects, so every object is reused; spurious wakeups, which `disturbed` records |
| `udpbase` | `QueuesDoNotCross`, `SentOnceInOrder`, `ListenerHasBuffer`, and the refinement `ImplementsSendLine` | five threads on two objects, a registered and an unregistered family, spurious wakeups, `Close` at any time |
| `udpbase_close` | **violated** `CloseStops`: a notification between unlock and wait is lost | listener, sender and `Close`, fair scheduling |
| `network_test` | `AssertsHold`, `CountedIsOnTheWay`, `NothingOutlivesThePool` | two packets of each type, a pool of two buffers, the end of the test at any moment; 3.8 million states. Without spurious wakeups, which `udpbase` has for the same two threads |
| `connector` | `BuffersConserved`, `NoEarlyHeartbeat`, `HeartbeatsGoOn`, and the refinement `ImplementsPeerTable` | two buffers, which are always exhausted; broadcasts; one peer the program adds itself and the server names too; spurious wakeups of the sender; 0.8 million states |
| `connector_broadcast` | **violated** `HeartbeatsDespiteBroadcasts`: the update thread waits for a buffer with the table locked, the sender for the table with the buffer | |
| `rendezvous` | `AllMeet` | two connectors from scratch, one of which is started anew once, at its old address or another; or a third that joins two that have met; one message lost or repeated |
| `camera_client` | `TypeOK`, `RowsInOrder`, `BlocksFit`, `WholeImage`, `FramesGivenBack`, `ClientComesBack` | 28 sizes with 4 bit row numbers: fitting, wrapping, unnameable and too wide images; acquisitions that sleep, throw and give null; two threads and two signals |
| `commands` | `OnceAndNotEarly`, `WaitIsBounded`, `DueIsExecuted` | three commands at the times 0, 2 and 5 or without one, and a time-out of three bits, for which 5 is too far ahead until the clock is at 2 |
| `stream` | `FramesConserved`, and the refinement `ImplementsFrameFlow` | two producers of two messages each, five threads on two buffers, spurious wakeups |
| `stream_empty` | **violated** `EmptyPoolIsReported`, without any spurious wakeup | |

Violated properties quote what a comment or a call site of the repository says; the
findings in `PROJECT.json` say which, and what the counterexample does.

*Statements that do not hold and have no run of their own.* The first six are stated in the
modules, the next two are stated there with the conditions named here; TLC refutes them
when they are put into the module's configuration without these:

| statement | why it fails |
|---|---|
| `RGBDStreamIO!LiveSends` ("Send data from our queue", `RGBDStreamIO.cpp:133`) | `enqueue` only notes the queue to go to, so that `enqueue(_udpc->send_queue())` is undone by the `enqueue(_queue_write)` that follows it: everything goes to the writer, nothing is sent |
| `ScheduledCommands!WaitsUntilDue` ("Don't wait longer than until when the next command is due", `RGBDStreamIO.cpp:80`) | the time-out is computed from the clock of `:113`, read before the due commands were executed |
| `ScheduledCommands!TimeoutIsPositive` ("so this should be a positive number", `RGBDStreamIO.cpp:120`) | the difference is narrowed to 32 bits: a command 25 days ahead gives a negative time-out |
| `ScheduledCommands!FarIsExecuted`: a due command is executed, however far ahead it was scheduled | that negative time-out is a wait without a limit, and no message need come; `DueIsExecuted` holds because it excludes such waits |
| `RGBDFrame!DeltaIsElapsed` ("Just to be sure that we don't overflow", `RGBDDevice.cpp:193`) | a negative difference passes the check and wraps around |
| `CameraClient!ShutsDown` ("Whether the running application should shut down", `LibFreenect2DeviceInterface.cpp:23`) | SIGINT sets a flag that nobody reads |
| `Rendezvous!AllMeet` without `~missed`: three clients all know each other in the end | a connector asks the server only until it has heard one peer. TLC finds it stay ignorant of another when one answer is lost, and without any loss when one of the three is started anew at its old address: it hears a peer that the other introduced, is connected and never registers again |
| `UDPConnector!HeartbeatsGoOn` without any one of its conditions | with the receiving side holding every buffer (strays, or a burst of matchmaking messages) the update thread waits for the buffer it would have to free itself; a thread woken to an empty pool throws, which ends the listener (and `_running`) or the program; a thread that oversleeps its notification sleeps beside an unused buffer; broadcasts are `connector_broadcast` |
| a connector that has lost its peers connects again ("(re-)establishes connection", `UDPConnector.cpp:114`) | nothing ever resets `_connected`, so it does not register again (`:121`): in `PeerTable` connected it stays, and the connector implements it |
| the pause flag says whether the camera is stopped (`LibFreenect2DeviceInterface.cpp:34-38`) | a `stop()` or `start()` that fails is not noticed, and two overlapping handlers both stop and flip the flag twice |
| an endpoint runs until it is closed | the listener ends on any exception and sets the shared `_running` to false (`UDPBase.cpp:287-289`), which ends the sender too |

The oi.core test need not end, and `Send` can sleep beside an unused buffer, for the
reason `udpbase_close` shows. Datagrams of an unregistered family leave the pool for
`_queue_receive`, which nobody reads (`UDPBase.cpp:258-285`; `strays` in
`UDPConnector`).

*Why these bounds.* The hazards are races between few parties: one waiter, one
thread that pushes, one that takes what was pushed, one that closes. Pools of one or
two objects are exhausted at once and objects are reused, which pools of 32 to 128 do
only under load. `Runs` and `MaxFrames` exceed the pool, so that reuse happens;
`MaxSends` is the pool's size. Nothing bounds the messages that wait for the update
thread of `connector` but its pool: of its two buffers the held answer takes one, so that
each of the two punches that follow has to wait for the sender to give the other back.
One peer is enough for that; the proofs cover any number. `MaxTime` ends the clock after
the last command is due, unless a wait would last longer; it lets commands be both within the time-out's range (`HalfRange`) and beyond it.
Three clients are checked only as one that joins two: three from scratch are out of
TLC's reach here. Row numbers of 4 bits wrap like those of 16; the proofs cover 16.

*Deadlock* is not checked where the system may really stop: the runs end
when their threads have ended or have lost a notification, which the
violations describe; a command thread or a camera client whose program has ended
has no step either.

## 5. Fairness

Only threads that exist are owed steps: weak fairness for both threads, `Send` and `Close` of a `UDPBase`, for the
connector's threads but its listener, for the test's threads, for the camera client's main thread
and its handlers and for the command thread and its clock: the operating system schedules started threads, and no
critical section is left without unlocking. Nothing is owed by the network, the peers,
the matchmaking server or a program that may hold an object for ever: the listener is
bound to leave `receive_from` only when the socket is closed. A command thread that
waits is not bound to be woken by a message (the notification can be lost), only by
its time-out; and it is bound to that only if the delay fits the time-out.

`HeartbeatsGoOn` owes steps to the clock, the update thread, the sender and the program
while it starts or is inside an acquisition; not to the listener, the network or a program
that might broadcast. A thread asleep is owed no notification: that none of the
threads it speaks of sleeps for ever beside what it waits for is a condition of the
property, as are that nobody throws, that the receiving side leaves a buffer, and that
nobody broadcasts. Section 4 says that each is needed.

`Rendezvous` owes each client its intervals (weak fairness of `SendRegister` and of each
`SendHeartbeat`, which are sent again and again) and each message its arrival once it
stays in the network: the network loses and repeats at most `MaxFaults` messages and
then delivers, as UDP between running hosts mostly does. That a connector keeps sending
rests on the conditions of `HeartbeatsGoOn`. A connector is never bound to
be started anew, and at most `MaxRestarts` times is. The camera client is owed no frame
and no signal, and while it sleeps in an acquisition no buffer and no notification:
`ClientComesBack` speaks of the time after a frame has come, of a client that does not
sleep for ever, and allows that an acquisition throws and ends it.

Mutexes are not owed strong fairness: in `UDPConnector` a thread that finds
`_m_endpoints` locked is bound to take it only if it is free from some point on; the
other threads take it finitely often between two passes. `connector_broadcast` grants the
sender even strong fairness (`TurnsSpec`), so that what it shows is not starvation.

## 6. Proofs

**`OIWorkerProofs`**, for every number of queues, pools, objects, acquisitions and
closers, with or without spurious wakeups, from `StockAssumption` (every object is built
once, by one pool) and `WorkerAssumption` (every queue has a pool):

- `TypeCorrect`, `OneOwnerAlways`, `PoolsAlwaysClean`, `NullAlwaysMeansClosed`;
- `WorkerImplementsStore`: `Spec => ImplementsStore`.

The inductive invariant is `IInv == TypeOK /\ OneOwner /\ PoolsClean /\ CallKnown /\
HoldsWhenLive /\ NullMeansClosed`. `OneOwner` alone is not inductive: `DestroyReturn`
pushes to `returnTo[a]`, which must be the object's home (`HoldsWhenLive`: an
acquisition holds an object only while it is constructed, and then knows the pool it came
from); `Resume` takes from the store of the pending call, which must be known
(`CallKnown`). `PoolsClean` needs that nobody writes to a stored object, which is
`OneOwner`. `NullMeansClosed` needs that `_running` never becomes true again. The step
lemmas follow the operations: `TakeKeepsOneOwner`, `PushKeepsOneOwner` and
`MoveKeepsOneOwner` carry the argument about sequences, the others show that a step
leaves the relevant variables alone. For the refinement every step is a `Take`, `Write`,
`Put` or `Return` of the abstract store or leaves `items`, `content` and the held
objects unchanged.

`OIWorkerProofs` ends with what its clients need. Most of their steps are steps of one
acquisition (`OwnStep`) or of a thread that closes (`ClosingStep`). Such a step keeps
`IInv` (`OwnStepKeepsIInv`), wakes other acquisitions at most and leaves their objects
alone (`OwnStepAlone`), touches only the queue its object is bound for
(`OwnStepOnQueue`), and keeps what the queues may hold, if the object it hands over is of
the kind of its queue (`OwnStepKeepsKinds`, over `QueuesHold(K)` and `BoundFor(K)` for any
kinds `K`). `BlockingCallEffect`, `DestroyEffect` and `MoveEffect` say what the
operations do to the acquisition itself, `NonblockingCallEffect` what a constructor does
that does not wait. These lemmas carry the
interleaving for all four clients; a move (only `CoreTest` has one) has its own.

**`CoreTestProofs`**, for any number of ids, objects, consumers and acquisitions, from
`TestAssumption` (every thread has acquisitions of its own): `EachIdAlwaysOnceInOrder`,
`NeverAborts`, `AlwaysEndsClean`. The invariant is `TestIInv`. `EachIdOnceInOrder` speaks of
what has been read; to be inductive it needs the whole line (`IdsInOrder`): ids read by a
consumer come before the one it holds, that before those in the queue, the
queue ascends, and the producer's next id comes after all of them. That ids sit in
objects which are reused is where `IInv` is needed. `NeverAborts` needs `WokenWithObject`:
until something is disturbed, a notified producer finds an object in the pool, because only
a destructor has woken it and nobody else takes from there. `AlwaysEndsClean` counts: the shared
counter is the number of ids read (`Counted`), so when it has reached `Runs` all of them
have been read, and then no object is anywhere but in its pool.

**`UDPBaseProofs`**, for any number of sending and polling threads, objects, pools, queues and
families, with spurious wakeups and with `Close` at any time, from `UDPBaseAssumption`:
`ListenerAlwaysHasBuffer`, `QueuesNeverCross`, `SentAlwaysOnceInOrder` and the refinement
`EndpointImplementsSendLine`. The invariant is
`NetIInv`. The listener's constructor gives null only if the queue it waits through is closed, and the
receive queue never is (`OwnQueuesRun`), so it has thrown instead; `ListenerInPlace`
carries this from the constructor to `receive_from`. `QueuesDoNotCross` needs, besides what
lies in the queues, what is bound for them: an object in the hands of a thread that has
called `enqueue` holds what its thread wrote in the same scope (`UserInPlace`, the
last conjunct of `ListenerInPlace`). What the endpoint's own two threads need of each other
does not depend on who calls `Send`: it is the part `EndpointIInv` of the invariant, and
`ListenerKeepsEndpoint` and `SenderKeepsEndpoint` show that both threads keep it with any
set of messages in the send queue (`KindsWith(S)`). `SentOnceInOrder` needs again the whole line
(`LineInOrder`): sent before held by the sender before queued, and none of a thread's
messages newer than its last call of `Send`. With it goes the refinement
`EndpointImplementsSendLine`, which says more: the order of all threads, not of each alone,
and that nothing is lost while `_running` is true and the socket open. `StepServesLine` takes
it step by step: the sender moves the head of the line (`SenderServesOutbox`), `Send` puts
a message at its end (`UserServesOutbox`; that it is new is `LineInOrder`), and all others leave
it alone (`OutboxLeft`). `ImageOfTail` and `ImageOfAppend` say what moving an object does to
the contents of the queue; `Cons`, `Snoc` and `Image` also shield the prover from the
definition of sequences.

**`NetworkTestProofs`**, for any number of runs and buffers and whatever else the network
sends, from `TestAssumption` (the test's two types differ, and each has a queue of
its own): `AssertsAlwaysHold`, `CountedAlwaysOnTheWay`, `PoolOutlivesItsUsers`. The
invariant `TestIInv` takes `EndpointIInv` and the lemmas about the two threads from
`UDPBaseProofs`, with the test's packets in the send queue. `AssertsHold` then follows
from what the queue of a type may hold (`QueuesHold(Kind)`), since the constructor
does not wait. `NothingOutlivesThePool` needs that each stage of the shutdown waits for the
one before (`StagesInOrder`: `closed` is reached only after both joins) and that an
ended thread has left its last scope. `CountedIsOnTheWay` is not inductive: it says
nothing once the endpoint stops, and `up` is false before the threads have run, too. So the
invariant says it for as long as nothing may be dropped (`WayWhole`, `Draining`): `_running`
becomes false only by `Close` or by a listener that ends, and then stays false, unless
the sender has yet to start, which sets it once more. `OnTheWay` is three sequences in a row (sent, the endpoint's
`Outbox`, in the client's hand); `MovedToFront`, `MovedToBack` and `AddedAtBack` say what
moving a packet over their borders does to the whole, and `WholeGrows` that the packet the
client counts is the next of its type. What the sender does to the outbox is
`SenderServesOutbox` again.

**`RGBDStreamIOProofs`**, for any number of producers, messages and buffers, from
`StreamAssumption`: `FramesAlwaysConserved` and the refinement `StreamImplementsFrameFlow`. The
invariant `StreamIInv` replaces the counting of `FramesConserved` by three facts that steps
keep: no two objects, and no object and the writer, have the same message (`OneCopy`,
`SeenOnce`), and a message that was queued is in an object or was seen
(`NothingLost`). They need that a clean buffer is `Blank` until it is filled
(`ProducerInPlace`, `NetworkInPlace`), so that filling it overwrites no message, and that what the live
thread holds and enqueues is marked for all endpoints (`LiveInPlace`, `WriterInPlace`). For the
refinement, `Line` is what the writer holds, the write queue, what the live thread holds and the
live queue, in that order. Every step appends to its end (`Put` of `FrameFlow`), drops its head
(`Write`), moves a message over one of the borders between the four parts, or leaves
them alone; `LiveMovesMessage`, `LiveHandsOn`, `WriterMovesMessage`, `HeadOfLine` and
`LineGrows` are the facts about sequences; `Splits`, `Grows` and `Lines` only shield the
prover from the definition of sequences where these lemmas are used.

The four assumptions on constants say which acquisitions and queues are distinct objects in
the program: every thread declares its own `doa`, and every queue is a member or a
variable of its own. `UDPBaseAssumption` adds that the two outcomes of
`receive_from` that are no datagram are not the name of a family.

**`CameraClientProofs`** has two parts. The row loop (`RGBDFrame`), for every modulus, payload
and set of sizes: `RowsAlwaysInOrder`, `BlocksAlwaysFit`, `ImageAlwaysWhole`. The
strengthening is `RowsSoFar`: what has been queued reaches exactly to the row the loop
looks at. The arithmetic (a sum of two counters wraps at most once; the quotient times
the divisor is at most the dividend) is in lemmas of its own. `TypeAlwaysCorrect` says
that `delta_t` keeps its 16 bits whatever the clock. Then the client, for any number of
threads and signals. `ClientIsACameraThread`: `ClientSpec => Spec`, the client implements
`RGBDFrame`, because the size it calls `QueueRGBDFrame` with never changes; so
`ClientFramesRight` follows from the theorems about the row loop.
`FramesAlwaysGivenBack` needs an invariant of the client's own, `ClientIInv`: what is lent
is what the place in the loop says (`LentWhileWorking`).

**`UDPConnectorProofs`**, for every pool, set of peers, list of default peers and interval,
from `ConnectorAssumption`: `BuffersAlwaysConserved`, `NeverPunchesEarly`, and the refinement
`ConnectorImplementsPeerTable`. `BuffersConserved` is not inductive: the update thread gives a
buffer back at the end of its scope, so it must hold one exactly in the places between
taking a message and that end (`HandlesAnswered`), and the sender must be at its
acquisition when it is said to wait there (`SenderAcquires`). The part of the invariant
that speaks of the pool is `PoolIsSound`; `NotifyOneFacts` says that waking a thread makes
nobody a holder, `OneTakerMore` and `OneTakerLess` how the count moves, and
`MMSendKeeps` and `GiveBackFacts` carry this through every path. `NeverPunchesEarly` rests on
`DueIsDue`: what the old clock called due still is, because whoever else punches an endpoint
takes it off the list, and ages only grow. The refinement needs that punches name known
peers (`PunchesSomebody`) and that `InitConnector` clears a table that is empty
(`StartsFresh`). There is one lemma per group of steps; `AddEndpointKeeps`,
`PunchFirstKeeps` and `PunchSecondKeeps` are shared by the two threads that add endpoints.

**`ScheduledCommandsProofs`**, for any commands, times, clock and width of the time-out:
`AlwaysOnceAndNotEarly`, from an invariant that puts every command in one place (not sent, in
the queue, in the heap, executed) and there once, and that the clock a pass works with
is never ahead; and `WaitAlwaysBounded`, from `TimeoutRight`: a delay that fits the time-out
is computed as it is (`NarrowFits`), and the next command is the earliest of all
(`LeastOf`), so that from the time-out on no wait is longer than any command allows, but
for what the clock moved since it was read.

*Model-checked only.* Every invariant, action property and refinement that a passing run
checks is also a theorem, except that `Rendezvous` has only a liveness property. The
liveness properties (`EnqueuedIsRead`, `HeartbeatsGoOn`, `AllMeet`,
`ClientComesBack`, `DueIsExecuted` and the violated ones) stay with TLC: fairness and
ENABLED are beyond the prover, as are induction over data and RECURSIVE operators, of
which no module has any.

## 7. Not modelled

- Contents of messages: JSON, pixel conversion, JPEG, header layouts. Malformed JSON
  throws out of the thread that parses it.
- Name resolution, socket options, the overloads of `Init*` that construct a pool (two of
  them swap its parameters, `UDPBase.cpp:66`) or register several queues (they join the
  results with `&&`, `:57`), destruction of pools and queues outside `NetworkTest`.
- The data races on `_running`, `_queue_map` and `_sequence_id` as undefined behaviour;
  `_running` is read and written in single steps.
- The numbers of `next_sequence_id` (section 2).
- The move assignment of acquisitions (it names a member that does not exist),
  `IOWorker`, `OISendString`, `UDPConnector::Close` (never called).
- The connector test that ends while its threads still run on a pool it has destroyed; the
  frame counter of the camera client, which two threads write; the body flag of
  the stream configuration, which is set from `supports_audio()` (`RGBDDevice.cpp:62`); the
  cast of `RGBDDevice.cpp:308`, which is that of `RGBDFrame` without its check.
- Camera drivers, recording (declarations only), protocol buffers (unused), vendored
  headers, command-line parsing.

About 17 900 of the repository's 20 800 lines are third-party or generated:
`lib/json.hpp`, `lib/stb_dxt.h` and `oi.proto/generated`. Nothing of them keeps state of this
system, so they are in the list of components and in no module. The modules stand
for about 1 400 lines of the rest, of which the repository has 3 300 with its tests,
headers and build files; what they leave out is declarations, the conversion of pixels,
the setup of sockets and drivers, printing and the layouts above.

`PROJECT.json` lists every hazard with its line, and those no property covers with the
reason.
