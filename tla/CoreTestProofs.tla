---------------------------- MODULE CoreTestProofs ----------------------------
(***************************************************************************)
(* Theorems about CoreTest, for any number of consumers, runs and objects: *)
(* every id is read once and in order, the test ends with every id read    *)
(* and every object back in its pool, and no OIError ends it unless a      *)
(* wakeup is spurious.                                                     *)
(***************************************************************************)
EXTENDS CoreTest, OIWorkerProofs, FiniteSetTheorems

Pool1 == PoolOf[Worker1]

\* The producer counts an object when it fills and enqueues it.
ProducerInPlace ==
    /\ created \in 0 .. Runs
    /\ pc[Producer] # "idle" => InCall(Producer, CreateCall) \/ pc[Producer] = "live"
    /\ pc[Producer] # "idle" /\ ~enq[Producer] => created < Runs
    /\ data[Producer] # NULL => next[Producer] = Worker1
    /\ enq[Producer] => data[Producer] # NULL /\ created > 0

\* Which of its two acquisitions holds the consumer's object.
ConsumerInPlace(k) ==
    /\ pc[k] = IF kpc[k] \in {"test", "get", "done"} THEN "idle" ELSE "live"
    /\ pc[XOf[k]] = IF kpc[k] \in {"moved", "read"} THEN "live" ELSE "idle"
    /\ kpc[k] \in {"moved", "read", "left"} => data[k] = NULL
    /\ kpc[k] \in {"moved", "read"} => data[XOf[k]] # NULL
    /\ ~enq[k] /\ ~enq[XOf[k]]
    /\ kpc[k] = "done" => consumed >= Runs

ConsumersInPlace ==
    /\ kpc \in [Consumers -> {"test", "get", "got", "moved", "read", "left", "done"}]
    /\ \A k \in Consumers : ConsumerInPlace(k)

\* Nobody but main closes anything, and main only when the others are done.
MainInPlace ==
    /\ \A c \in Closers \ {Main} : notifier[c] = NULL
    /\ main = "join" => running[Worker1] /\ notifier[Main] = NULL
    /\ main # "join" => CreateDone /\ \A k \in Consumers : kpc[k] = "done"

Roles == {Producer} \cup Consumers \cup {XOf[k] : k \in Consumers}

NothingElse ==
    /\ \A a \in Acqs \ Roles : pc[a] = "idle"
    /\ \A q \in Queues \ {Worker1} : items[q] = <<>>

\* Until something is disturbed, the producer is woken for an object only.
WokenWithObject ==
    ~disturbed =>
        /\ pc[Producer] \notin {"empty", "thrown"}
        /\ pc[Producer] = "notified" => items[Pool1] # <<>>

\* The ids that consumer k has read, the one it holds and has not read, and
\* those that wait in the queue.
ReadIds(k) == {got[k][i] : i \in DOMAIN got[k]}
HeldIds(k) ==
    {id[o] : o \in {data[a] : a \in IF kpc[k] = "got" THEN {k}
                                    ELSE IF kpc[k] = "moved" THEN {XOf[k]}
                                    ELSE {}} \ {NULL}}
QueuedIds == {id[items[Worker1][i]] : i \in DOMAIN items[Worker1]}
AllRead == UNION {ReadIds(k) : k \in Consumers}

\* The ids were given before the one the producer is about to enqueue.
Given(n) == n \in 0 .. created - 1 /\ (enq[Producer] => n # created - 1)

IdsInOrder ==
    /\ id \in [Objects -> Nat]
    /\ got \in [Consumers -> Seq(Nat)]
    /\ EachIdOnceInOrder
    /\ \A i, j \in DOMAIN items[Worker1] :
           i < j => id[items[Worker1][i]] < id[items[Worker1][j]]
    /\ \A k \in Consumers : \A n \in ReadIds(k) : \A m \in HeldIds(k) \cup QueuedIds : n < m
    /\ \A k \in Consumers : \A n \in HeldIds(k), m \in QueuedIds : n < m
    /\ \A k, l \in Consumers : k # l => HeldIds(k) \cap (HeldIds(l) \cup ReadIds(l)) = {}
    /\ \A k \in Consumers : \A n \in ReadIds(k) \cup HeldIds(k) \cup QueuedIds : Given(n)
    /\ enq[Producer] => id[data[Producer]] = created - 1

Counted == consumed \in Nat /\ IsFiniteSet(AllRead) /\ consumed = Cardinality(AllRead)

TestIInv ==
    /\ IInv
    /\ ProducerInPlace
    /\ ConsumersInPlace
    /\ MainInPlace
    /\ NothingElse
    /\ WokenWithObject
    /\ IdsInOrder
    /\ Counted

------------------------------------------------------------------------------
LEMMA TestRoles ==
    /\ Producer \in Acqs /\ Worker1 \in Queues /\ Main \in Closers
    /\ Pool1 \in Pools /\ Pool1 \notin Queues /\ Pool1 \in Stores /\ Worker1 \in Stores
    /\ \A k \in Consumers :
           /\ k \in Acqs /\ XOf[k] \in Acqs
           /\ k # Producer /\ XOf[k] # Producer /\ k # XOf[k]
    /\ \A k, l \in Consumers : k # XOf[l] /\ (k # l => XOf[k] # XOf[l])
    /\ Runs \in Nat
  BY TestAssumption, WorkerAssumption, StockAssumption DEF Pool1, Stores

LEMMA TestCalls ==
    /\ CreateCall \in Calls /\ CreateCall.f = "BLOCKING" /\ CreateCall.t = "UNUSED"
    /\ CreateCall.q = Worker1 /\ StoreOf(CreateCall) = Pool1
    /\ ConsumeCall \in Calls /\ ConsumeCall.f = "NONBLOCKING" /\ ConsumeCall.t = "QUEUED"
    /\ StoreOf(ConsumeCall) = Worker1
  BY TestRoles DEF CreateCall, ConsumeCall, Calls, StoreOf, Pool1

------------------------------------------------------------------------------
(* Frames: a part of the invariant survives the steps of the others.       *)
LEMMA ProducerStays ==
    ASSUME ProducerInPlace, Undisturbed(Producer), UNCHANGED created
    PROVE  ProducerInPlace'
  BY DEF ProducerInPlace, Undisturbed, InCall

LEMMA ConsumerStays ==
    ASSUME NEW k \in Consumers, ConsumerInPlace(k), Undisturbed(k), Undisturbed(XOf[k]),
           kpc'[k] = kpc[k], consumed \in Nat, consumed' \in Nat, consumed' >= consumed
    PROVE  ConsumerInPlace(k)'
<1>1. pc'[k] = pc[k] /\ pc'[XOf[k]] = pc[XOf[k]]
  BY DEF ConsumerInPlace, Undisturbed
<1>2. kpc'[k] = "done" => consumed' >= Runs
  BY TestRoles DEF ConsumerInPlace
<1>3. QED
  BY <1>1, <1>2 DEF ConsumerInPlace, Undisturbed

LEMMA OthersStay ==
    ASSUME NothingElse, \A a \in Acqs \ Roles : Undisturbed(a),
           \A q \in Queues \ {Worker1} : items'[q] = items[q]
    PROVE  NothingElse'
  BY DEF NothingElse, Undisturbed

LEMMA HeldIdsStay ==
    ASSUME NEW k \in Consumers, Undisturbed(k), Undisturbed(XOf[k]), kpc'[k] = kpc[k],
           UNCHANGED id
    PROVE  HeldIds(k)' = HeldIds(k)
  BY DEF HeldIds, Undisturbed

LEMMA IdsStay ==
    ASSUME IdsInOrder, items'[Worker1] = items[Worker1], UNCHANGED <<id, got, created>>,
           enq'[Producer] => enq[Producer] /\ data'[Producer] = data[Producer],
           \A k \in Consumers : HeldIds(k)' \subseteq HeldIds(k)
    PROVE  IdsInOrder'
<1>1. QueuedIds' = QueuedIds /\ \A k \in Consumers : ReadIds(k)' = ReadIds(k)
  BY DEF QueuedIds, ReadIds
<1>2. \A n : Given(n) => Given(n)'
  BY DEF Given
<1>3. /\ id' \in [Objects -> Nat]
      /\ got' \in [Consumers -> Seq(Nat)]
      /\ EachIdOnceInOrder'
      /\ \A i, j \in DOMAIN items'[Worker1] :
             i < j => id'[items'[Worker1][i]] < id'[items'[Worker1][j]]
      /\ enq'[Producer] => id'[data'[Producer]] = created' - 1
  BY DEF IdsInOrder, EachIdOnceInOrder
<1>4. /\ \A k \in Consumers : \A n \in ReadIds(k)' : \A m \in HeldIds(k)' \cup QueuedIds' : n < m
      /\ \A k \in Consumers : \A n \in HeldIds(k)', m \in QueuedIds' : n < m
      /\ \A k, l \in Consumers : k # l => HeldIds(k)' \cap (HeldIds(l)' \cup ReadIds(l)') = {}
  BY <1>1 DEF IdsInOrder
<1>5. \A k \in Consumers : \A n \in ReadIds(k)' \cup HeldIds(k)' \cup QueuedIds' : Given(n)'
  BY <1>1, <1>2 DEF IdsInOrder
<1>6. QED
  BY <1>3, <1>4, <1>5 DEF IdsInOrder

LEMMA CountStays ==
    ASSUME Counted, UNCHANGED <<got, consumed>>
    PROVE  Counted'
  BY DEF Counted, AllRead, ReadIds

\* When main has joined the others, they have nothing left to do.
LEMMA MainStillJoins ==
    ASSUME TestIInv, Create \/ (\E k \in Consumers : Consume(k)) \/ Disturb
    PROVE  main = "join" /\ running[Worker1] /\ notifier[Main] = NULL
<1>1. CASE main # "join"
  <2>1. created = Runs /\ pc[Producer] = "idle" /\ \A k \in Consumers : kpc[k] = "done"
    BY <1>1 DEF TestIInv, MainInPlace, CreateDone
  <2>2. ~Create /\ ~Disturb
    BY <2>1, TestRoles
       DEF Create, CreateAcquire, CreateInLibrary, CreateFill, CreateEndOfScope, Constructing, Wait,
           Resume, CheckRunning, Enqueue, Destroy, DestroyNull, DestroyEnqueue, DestroyReturn,
           Disturb, WakeSpuriously
  <2>3. \A k \in Consumers : ~Consume(k)
    BY <2>1 DEF Consume, ConsumeTest, ConsumeGet, ConsumeMove, ConsumeRead, ConsumeDropX,
                ConsumeDropDoa, Goto
  <2>4. QED
    BY <2>2, <2>3
<1>2. QED
  BY <1>1 DEF TestIInv, MainInPlace

------------------------------------------------------------------------------
(* CreateObjects.                                                          *)
LEMMA ProducerLeavesOthers ==
    ASSUME TestIInv, OwnStep(Producer), main = "join", UNCHANGED <<consumed, kpc, main>>
    PROVE  /\ IInv' /\ ConsumersInPlace' /\ MainInPlace'
           /\ \A k \in Consumers : Undisturbed(k) /\ Undisturbed(XOf[k])
           /\ \A a \in Acqs \ Roles : Undisturbed(a)
<1>1. IInv /\ consumed \in Nat
  BY DEF TestIInv, Counted
<1>2. IInv' /\ UNCHANGED <<running, notifier>> /\ \A b \in Acqs \ {Producer} : Undisturbed(b)
  BY <1>1, TestRoles, OwnStepKeepsIInv, OwnStepLeavesClosers, OwnStepAlone DEF Untouched
<1>3. /\ \A k \in Consumers : Undisturbed(k) /\ Undisturbed(XOf[k])
      /\ \A a \in Acqs \ Roles : Undisturbed(a)
  BY <1>2, TestRoles DEF Roles
<1>4. ConsumersInPlace'
  <2>1. ConsumersInPlace /\ consumed' \in Nat /\ consumed' >= consumed
    BY <1>1 DEF TestIInv
  <2>2. \A k \in Consumers : ConsumerInPlace(k)'
    BY <1>1, <1>3, <2>1, ConsumerStays DEF ConsumersInPlace
  <2>3. QED
    BY <2>1, <2>2 DEF ConsumersInPlace
<1>5. MainInPlace'
  BY <1>2 DEF TestIInv, MainInPlace
<1>6. QED
  BY <1>2, <1>3, <1>4, <1>5

\* A call for an unused object, as long as the queue runs.
LEMMA CreateCalls ==
    ASSUME TestIInv, CreateAcquire \/ CreateInLibrary
    PROVE  TestIInv'
<1>0. /\ IInv /\ ProducerInPlace /\ WokenWithObject /\ NothingElse
      /\ main = "join" /\ running[Worker1]
      /\ UNCHANGED testVars
      /\ Producer \in Acqs
  BY MainStillJoins, TestRoles DEF TestIInv, Create, CreateAcquire, CreateInLibrary
<1>1. BlockingCall(Producer, CreateCall)
  <2>1. CreateInLibrary => InCall(Producer, CreateCall)
    BY <1>0 DEF CreateInLibrary, Constructing, Wait, Resume, CheckRunning, ProducerInPlace
  <2>2. QED
    BY <2>1 DEF CreateAcquire, CreateInLibrary, BlockingCall
<1>2. /\ OwnStep(Producer)
      /\ enq'[Producer] => enq[Producer]
      /\ \/ InCall(Producer, CreateCall)' /\ data'[Producer] = NULL
         \/ pc'[Producer] = "live" /\ data'[Producer] # NULL /\ ~enq'[Producer]
      /\ \A q \in Queues : QueueStill(q)
  BY <1>0, <1>1, TestCalls, TestRoles, BlockingCallEffect
<1>3. /\ IInv' /\ ConsumersInPlace' /\ MainInPlace'
      /\ \A k \in Consumers : Undisturbed(k) /\ Undisturbed(XOf[k])
      /\ \A a \in Acqs \ Roles : Undisturbed(a)
  BY <1>0, <1>2, ProducerLeavesOthers DEF testVars
<1>4. ~enq[Producer] /\ created < Runs
  <2>1. pc[Producer] # "live"
    BY <1>1 DEF BlockingCall, Acquire, AcquireUnlock, InCall
  <2>2. ~enq[Producer]
    BY <1>0, <2>1 DEF ProducerInPlace, IInv, HoldsWhenLive
  <2>3. CreateInLibrary => created < Runs
    BY <1>0, <2>2 DEF CreateInLibrary, Constructing, Wait, Resume, CheckRunning, ProducerInPlace
  <2>4. QED
    BY <2>2, <2>3 DEF CreateAcquire
<1>5. data'[Producer] # NULL => next'[Producer] = Worker1
  <2>1. ASSUME data'[Producer] # NULL
        PROVE  next'[Producer] = Worker1
    <3>1. data[Producer] = NULL
      BY <1>0, <1>1 DEF BlockingCall, Acquire, AcquireUnlock, InCall, IInv, HoldsWhenLive
    <3>2. Take(Producer, CreateCall)
      BY <1>0, <1>1, <2>1, <3>1
         DEF BlockingCall, Acquire, AcquireUnlock, InCall, Constructing, Wait, Resume, CheckRunning
    <3>3. QED
      BY <1>0, <3>2, TestCalls DEF Take, TakeObject, TakeNull, IInv, TypeOK
  <2>2. QED
    BY <2>1
<1>6. ProducerInPlace'
  BY <1>0, <1>2, <1>4, <1>5 DEF ProducerInPlace, testVars
<1>7. NothingElse'
  BY <1>0, <1>2, <1>3, OthersStay DEF QueueStill
<1>8. WokenWithObject'
  <2>1. ASSUME ~disturbed
        PROVE  /\ pc'[Producer] \notin {"empty", "thrown"}
               /\ pc'[Producer] = "notified" => items'[Pool1] # <<>>
    <3>1. pc[Producer] \notin {"empty", "thrown"} /\ (pc[Producer] = "notified" => items[Pool1] # <<>>)
      BY <1>0, <2>1 DEF WokenWithObject
    <3>2. CASE Acquire(Producer, CreateCall) \/ (InCall(Producer, CreateCall) /\ Resume(Producer))
      <4>1. items[Pool1] # <<>> /\ Take(Producer, CreateCall)
        BY <1>0, <3>1, <3>2, TestCalls DEF Acquire, MustWait, InCall, Resume
      <4>2. pc'[Producer] = "live"
        BY <1>0, <4>1, TestCalls DEF Take, TakeObject, TakeNull, IInv, TypeOK
      <4>3. QED
        BY <4>2
    <3>3. CASE AcquireUnlock(Producer, CreateCall) \/ Wait(Producer)
      <4>1. pc'[Producer] \in {"unlocked", "waiting"}
        BY <1>0, <3>3 DEF AcquireUnlock, Wait, IInv, TypeOK
      <4>2. QED
        BY <4>1
    <3>4. QED
      BY <1>1, <3>1, <3>2, <3>3 DEF BlockingCall, Constructing, CheckRunning
  <2>2. QED
    BY <1>0, <2>1 DEF WokenWithObject, testVars
<1>9. IdsInOrder' /\ Counted'
  <2>1. \A k \in Consumers : HeldIds(k)' = HeldIds(k)
    BY <1>0, <1>3, HeldIdsStay DEF testVars
  <2>2. items'[Worker1] = items[Worker1] /\ ~enq'[Producer]
    BY <1>2, <1>4, TestRoles DEF QueueStill
  <2>3. QED
    BY <1>0, <2>1, <2>2, IdsStay, CountStays DEF TestIInv, testVars
<1>10. QED
  BY <1>3, <1>6, <1>7, <1>8, <1>9 DEF TestIInv

\* The producer writes the next id into its object and enqueues it.
LEMMA CreateFillKeeps ==
    ASSUME TestIInv, CreateFill
    PROVE  TestIInv'
<1>0. /\ IInv /\ ProducerInPlace /\ WokenWithObject /\ NothingElse /\ IdsInOrder
      /\ main = "join"
      /\ Producer \in Acqs
  BY MainStillJoins, TestRoles DEF TestIInv, Create
<1> DEFINE o == data[Producer]
<1>1. /\ o \in Objects /\ o # NULL /\ pc[Producer] = "live" /\ ~enq[Producer]
      /\ created \in Nat /\ created < Runs
      /\ enq'[Producer] = TRUE
      /\ UNCHANGED <<items, pc, call, data, next>>
      /\ id' = [id EXCEPT ![o] = created] /\ created' = created + 1
      /\ UNCHANGED <<consumed, kpc, got, main, disturbed>>
  BY <1>0, TestRoles DEF CreateFill, Enqueue, ProducerInPlace, IInv, TypeOK
<1>2. /\ IInv' /\ ConsumersInPlace' /\ MainInPlace'
      /\ \A k \in Consumers : Undisturbed(k) /\ Undisturbed(XOf[k])
      /\ \A a \in Acqs \ Roles : Undisturbed(a)
  BY <1>0, ProducerLeavesOthers DEF CreateFill, OwnStep
<1>3. ProducerInPlace'
  <2>1. created' \in 0 .. Runs /\ created' > 0
    BY <1>1, TestRoles
  <2>2. QED
    BY <1>0, <1>1, <2>1 DEF ProducerInPlace
<1>4. NothingElse' /\ WokenWithObject'
  BY <1>0, <1>1, <1>2, OthersStay DEF WokenWithObject
<1>5. Counted'
  BY <1>1, CountStays DEF TestIInv
<1>6. IdsInOrder'
  <2>1. /\ id' \in [Objects -> Nat] /\ id'[o] = created
        /\ \A u \in Objects : u # o => id'[u] = id[u]
    BY <1>0, <1>1 DEF IdsInOrder
  <2>2. \A i \in DOMAIN items[Worker1] : id'[items[Worker1][i]] = id[items[Worker1][i]]
    <3>1. \A i \in DOMAIN items[Worker1] : items[Worker1][i] \in Objects /\ items[Worker1][i] \notin Held
      BY <1>0, TestRoles DEF IInv, TypeOK, OneOwner, HeldNotStored
    <3>2. o \in Held
      BY <1>0, <1>1 DEF Held
    <3>3. QED
      BY <2>1, <3>1, <3>2
  <2>3. QueuedIds' = QueuedIds
    BY <1>1, <2>2 DEF QueuedIds
  <2>4. ASSUME NEW k \in Consumers
        PROVE  HeldIds(k)' = HeldIds(k)
    <3>1. \A a \in {k, XOf[k]} : data'[a] = data[a] /\ (data[a] # NULL => id'[data[a]] = id[data[a]])
      <4>1. \A a \in {k, XOf[k]} : a \in Acqs /\ a # Producer
        BY TestRoles
      <4>2. \A a \in {k, XOf[k]} : data[a] # NULL => data[a] \in Objects /\ data[a] # o
        BY <1>0, <1>1, <4>1 DEF IInv, TypeOK, OneOwner, HeldOnce
      <4>3. QED
        BY <1>1, <2>1, <4>2
    <3>2. CASE kpc[k] = "got"
      BY <1>1, <3>1, <3>2 DEF HeldIds
    <3>3. CASE kpc[k] = "moved"
      BY <1>1, <3>1, <3>3 DEF HeldIds
    <3>4. CASE kpc[k] \notin {"got", "moved"}
      BY <1>1, <3>4 DEF HeldIds
    <3>5. QED
      BY <3>2, <3>3, <3>4
  <2>5. \A k \in Consumers : ReadIds(k)' = ReadIds(k)
    BY <1>1 DEF ReadIds
  <2>6. \A k \in Consumers : \A n \in ReadIds(k)' \cup HeldIds(k)' \cup QueuedIds' : Given(n)'
    <3>1. \A n : Given(n) => Given(n)'
      BY <1>1 DEF Given
    <3>2. QED
      BY <1>0, <2>3, <2>4, <2>5, <3>1 DEF IdsInOrder
  <2>7. enq'[Producer] => id'[data'[Producer]] = created' - 1
    BY <1>1, <2>1
  <2>8. \A i, j \in DOMAIN items'[Worker1] :
            i < j => id'[items'[Worker1][i]] < id'[items'[Worker1][j]]
    BY <1>0, <1>1, <2>2 DEF IdsInOrder
  <2>9. got' \in [Consumers -> Seq(Nat)] /\ EachIdOnceInOrder'
    BY <1>0, <1>1 DEF IdsInOrder, EachIdOnceInOrder
  <2>10. /\ \A k \in Consumers : \A n \in ReadIds(k)' : \A m \in HeldIds(k)' \cup QueuedIds' : n < m
         /\ \A k \in Consumers : \A n \in HeldIds(k)', m \in QueuedIds' : n < m
         /\ \A k, l \in Consumers : k # l => HeldIds(k)' \cap (HeldIds(l)' \cup ReadIds(l)') = {}
    BY <1>0, <2>3, <2>4, <2>5 DEF IdsInOrder
  <2>11. QED
    BY <2>1, <2>6, <2>7, <2>8, <2>9, <2>10 DEF IdsInOrder
<1>7. QED
  BY <1>2, <1>3, <1>4, <1>5, <1>6 DEF TestIInv

\* The id that goes to the tail of the queue is larger than all that were given.
LEMMA ProducerPushes ==
    ASSUME IInv, IdsInOrder, enq[Producer], ~enq'[Producer], data[Producer] \in Objects,
           created \in Nat,
           items'[Worker1] = Append(items[Worker1], data[Producer]),
           UNCHANGED <<id, got, created>>,
           \A k \in Consumers : HeldIds(k)' = HeldIds(k)
    PROVE  IdsInOrder'
<1> DEFINE S == items[Worker1]
           n == id[data[Producer]]
<1>1. /\ n = created - 1
      /\ S \in Seq(Objects)
      /\ \A k \in Consumers : ReadIds(k)' = ReadIds(k)
  BY TestRoles DEF IdsInOrder, ReadIds, IInv, TypeOK
<1>2. /\ DOMAIN items'[Worker1] = 1 .. Len(S) + 1
      /\ DOMAIN S = 1 .. Len(S)
      /\ Len(S) \in Nat
      /\ \A i \in 1 .. Len(S) : items'[Worker1][i] = S[i]
      /\ items'[Worker1][Len(S) + 1] = data[Producer]
  <2>1. /\ DOMAIN Append(S, data[Producer]) = 1 .. Len(S) + 1
        /\ DOMAIN S = 1 .. Len(S)
        /\ Len(S) \in Nat
        /\ \A i \in 1 .. Len(S) : Append(S, data[Producer])[i] = S[i]
        /\ Append(S, data[Producer])[Len(S) + 1] = data[Producer]
    BY <1>1, AppendAt
  <2>2. QED
    BY <2>1
<1>3. id'[data[Producer]] = n
  OBVIOUS
<1> HIDE DEF n
<1>4. QueuedIds' = QueuedIds \cup {n}
  BY <1>2, <1>3 DEF QueuedIds
<1>5. \A k \in Consumers : \A m \in ReadIds(k) \cup HeldIds(k) \cup QueuedIds :
          m < n /\ m \in 0 .. created - 1
  <2>1. \A m : Given(m) => m < n /\ m \in 0 .. created - 1
    BY <1>1 DEF Given
  <2>2. QED
    BY <2>1 DEF IdsInOrder
<1>6. \A m \in QueuedIds : m < n
  BY <1>5, TestAssumption
<1>7. \A i, j \in DOMAIN items'[Worker1] :
          i < j => id'[items'[Worker1][i]] < id'[items'[Worker1][j]]
  <2>1. ASSUME NEW i \in DOMAIN items'[Worker1], NEW j \in DOMAIN items'[Worker1], i < j
        PROVE  id[items'[Worker1][i]] < id[items'[Worker1][j]]
    <3>1. i \in DOMAIN S /\ items'[Worker1][i] = S[i]
      BY <1>2, <2>1
    <3>2. CASE j = Len(S) + 1
      <4>1. id[S[i]] \in QueuedIds
        BY <3>1 DEF QueuedIds
      <4>2. QED
        BY <1>2, <1>3, <1>6, <3>1, <3>2, <4>1
    <3>3. CASE j \in DOMAIN S
      <4>1. items'[Worker1][j] = S[j]
        BY <1>2, <3>3
      <4>2. QED
        BY <2>1, <3>1, <3>3, <4>1 DEF IdsInOrder
    <3>4. QED
      BY <1>2, <3>2, <3>3
  <2>2. QED
    BY <2>1
<1>8. /\ id' \in [Objects -> Nat]
      /\ got' \in [Consumers -> Seq(Nat)]
      /\ EachIdOnceInOrder'
      /\ ~enq'[Producer]
  BY DEF IdsInOrder, EachIdOnceInOrder
<1>9. /\ \A k \in Consumers : \A l \in ReadIds(k)' : \A m \in HeldIds(k)' \cup QueuedIds' : l < m
      /\ \A k \in Consumers : \A l \in HeldIds(k)', m \in QueuedIds' : l < m
      /\ \A k, l \in Consumers : k # l => HeldIds(k)' \cap (HeldIds(l)' \cup ReadIds(l)') = {}
  BY <1>1, <1>4, <1>5 DEF IdsInOrder
<1>10. \A k \in Consumers : \A m \in ReadIds(k)' \cup HeldIds(k)' \cup QueuedIds' : Given(m)'
  <2>1. \A m : m \in 0 .. created - 1 => Given(m)'
    BY DEF Given
  <2>2. created - 1 \in 0 .. created - 1
    BY <1>1, <1>3 DEF IdsInOrder
  <2>3. QED
    BY <1>1, <1>4, <1>5, <2>1, <2>2
<1>11. QED
  BY <1>7, <1>8, <1>9, <1>10 DEF IdsInOrder

LEMMA CreateEndOfScopeKeeps ==
    ASSUME TestIInv, CreateEndOfScope
    PROVE  TestIInv'
<1>0. /\ IInv /\ ProducerInPlace /\ NothingElse /\ IdsInOrder
      /\ main = "join"
      /\ Producer \in Acqs
      /\ UNCHANGED testVars
      /\ Destroy(Producer)
  BY MainStillJoins, TestRoles DEF TestIInv, Create, CreateEndOfScope
<1>1. /\ pc'[Producer] = "idle" /\ data'[Producer] = NULL /\ ~enq'[Producer]
      /\ \/ /\ enq[Producer] /\ data[Producer] # NULL
            /\ items' = [items EXCEPT ![Worker1] = Append(@, data[Producer])]
         \/ UNCHANGED items
  <2>1. /\ pc'[Producer] = "idle" /\ data'[Producer] = NULL /\ ~enq'[Producer]
        /\ \/ data[Producer] # NULL /\ GoesOn(Producer)
              /\ items' = [items EXCEPT ![next[Producer]] = Append(@, data[Producer])]
           \/ data[Producer] # NULL /\ ~GoesOn(Producer)
           \/ UNCHANGED items
    BY <1>0, DestroyEffect
  <2>2. data[Producer] # NULL => enq[Producer] /\ next[Producer] = Worker1 /\ Worker1 # NULL
    BY <1>0, TestRoles, WorkerAssumption DEF CreateEndOfScope, ProducerInPlace, Stores
  <2>3. QED
    BY <2>1, <2>2 DEF GoesOn
<1>2. /\ IInv' /\ ConsumersInPlace' /\ MainInPlace'
      /\ \A k \in Consumers : Undisturbed(k) /\ Undisturbed(XOf[k])
      /\ \A a \in Acqs \ Roles : Undisturbed(a)
  BY <1>0, ProducerLeavesOthers DEF OwnStep, testVars
<1>3. ProducerInPlace' /\ WokenWithObject'
  BY <1>0, <1>1 DEF ProducerInPlace, WokenWithObject, testVars
<1>4. NothingElse'
  <2>1. \A q \in Queues \ {Worker1} : items'[q] = items[q]
    BY <1>0, <1>1 DEF IInv, TypeOK, Stores
  <2>2. QED
    BY <1>0, <1>2, <2>1, OthersStay
<1>5. \A k \in Consumers : HeldIds(k)' = HeldIds(k)
  BY <1>0, <1>2, HeldIdsStay DEF testVars
<1>6. IdsInOrder'
  <2>1. CASE UNCHANGED items
    BY <1>0, <1>1, <1>5, <2>1, IdsStay DEF testVars
  <2>2. CASE /\ enq[Producer] /\ data[Producer] # NULL
             /\ items' = [items EXCEPT ![Worker1] = Append(@, data[Producer])]
    <3>1. /\ data[Producer] \in Objects /\ created \in Nat
          /\ items'[Worker1] = Append(items[Worker1], data[Producer])
      BY <1>0, <2>2, TestRoles DEF IInv, TypeOK, ProducerInPlace
    <3>2. QED
      BY <1>0, <1>1, <1>5, <2>2, <3>1, ProducerPushes DEF testVars
  <2>3. QED
    BY <1>1, <2>1, <2>2
<1>7. Counted'
  BY <1>0, CountStays DEF TestIInv, testVars
<1>8. QED
  BY <1>2, <1>3, <1>4, <1>6, <1>7 DEF TestIInv

------------------------------------------------------------------------------
(* ConsumeObjects.                                                         *)
LEMMA ConsumerStillIInv ==
    ASSUME TestIInv, NEW k \in Consumers, Consume(k)
    PROVE  /\ IInv'
           /\ UNCHANGED <<running, notifier>>
           /\ \A b \in Acqs \ {k, XOf[k]} : Undisturbed(b)
           /\ \A s \in Stores \ {Worker1} : items[s] # <<>> => items'[s] # <<>>
           /\ pc'[Producer] # pc[Producer] =>
                  pc[Producer] = "waiting" /\ items'[StoreOf(call[Producer])] # <<>>
<1>0. /\ IInv
      /\ k \in Acqs /\ XOf[k] \in Acqs
      /\ Producer \in Acqs /\ Producer # k /\ Producer # XOf[k]
  BY TestRoles DEF TestIInv
<1>1. CASE ConsumeTest(k) \/ ConsumeRead(k)
  <2>1. UNCHANGED vars
    BY <1>1 DEF ConsumeTest, ConsumeRead
  <2>2. IInv' /\ \A b \in Acqs : Undisturbed(b)
    BY <1>0, <2>1, StillIInv, StillAlone DEF Untouched
  <2>3. QED
    BY <2>1, <2>2 DEF vars, acqVars
<1>2. CASE ConsumeGet(k)
  <2>1. Acquire(k, ConsumeCall) /\ OwnStep(k)
    BY <1>2, TestCalls DEF ConsumeGet, OwnStep
  <2>2. IInv' /\ UNCHANGED <<running, notifier>> /\ \A b \in Acqs \ {k} : Undisturbed(b)
    BY <1>0, <2>1, OwnStepKeepsIInv, OwnStepAlone DEF Acquire, Untouched
  <2>3. \A s \in Stores \ {Worker1} : items'[s] = items[s]
    BY <1>0, <2>1, TestCalls DEF Acquire, Take, TakeObject, TakeNull, IInv, TypeOK
  <2>4. pc'[Producer] = pc[Producer]
    BY <1>0, <2>1 DEF Acquire, Take, TakeObject, TakeNull, IInv, TypeOK
  <2>5. QED
    BY <2>2, <2>3, <2>4
<1>3. CASE ConsumeMove(k)
  <2>1. Move(k, XOf[k])
    BY <1>3 DEF ConsumeMove
  <2>2. IInv'
    BY <1>0, <2>1, MoveKeepsIInv
  <2>3. /\ UNCHANGED <<items, running, notifier>>
        /\ \A b \in Acqs \ {k, XOf[k]} : Undisturbed(b)
    BY <1>0, <2>1, MoveEffect DEF Untouched
  <2>4. pc'[Producer] = pc[Producer]
    BY <1>0, <2>1 DEF Move, IInv, TypeOK
  <2>5. QED
    BY <2>2, <2>3, <2>4
<1>4. ASSUME NEW a \in {k, XOf[k]}, Destroy(a)
      PROVE  /\ IInv'
             /\ UNCHANGED <<running, notifier>>
             /\ \A b \in Acqs \ {k, XOf[k]} : Undisturbed(b)
             /\ \A s \in Stores \ {Worker1} : items[s] # <<>> => items'[s] # <<>>
             /\ pc'[Producer] # pc[Producer] =>
                    pc[Producer] = "waiting" /\ items'[StoreOf(call[Producer])] # <<>>
  <2>1. OwnStep(a) /\ a \in Acqs /\ a # Producer
    BY <1>0, <1>4 DEF OwnStep
  <2>2. IInv' /\ UNCHANGED <<running, notifier>> /\ \A b \in Acqs \ {a} : Undisturbed(b)
    BY <1>0, <2>1, OwnStepKeepsIInv, OwnStepLeavesClosers, OwnStepAlone DEF Untouched
  <2>3. QED
    BY <1>0, <1>4, <2>1, <2>2, DestroyWakesForObject
<1>5. CASE ConsumeDropX(k) \/ ConsumeDropDoa(k)
  BY <1>4, <1>5 DEF ConsumeDropX, ConsumeDropDoa
<1>6. QED
  BY <1>1, <1>2, <1>3, <1>5 DEF Consume

\* The invariant of everyone else, when the consumer keeps its own part.
LEMMA ConsumerKeeps ==
    ASSUME TestIInv, NEW k \in Consumers, Consume(k),
           ConsumerInPlace(k)', IdsInOrder', Counted',
           \A q \in Queues \ {Worker1} : items'[q] = items[q],
           consumed' \in Nat, consumed' >= consumed
    PROVE  TestIInv'
<1>0. /\ ProducerInPlace /\ ConsumersInPlace /\ MainInPlace /\ NothingElse /\ WokenWithObject
      /\ consumed \in Nat
      /\ UNCHANGED <<created, main, disturbed>>
      /\ main = "join"
      /\ kpc' = [kpc EXCEPT ![k] = kpc'[k]]
      /\ kpc'[k] \in {"test", "get", "got", "moved", "read", "left", "done"}
  BY MainStillJoins
     DEF TestIInv, Consume, ConsumeTest, ConsumeGet, ConsumeMove, ConsumeRead, ConsumeDropX,
         ConsumeDropDoa, Goto, ConsumersInPlace, Counted
<1>1. /\ IInv' /\ UNCHANGED <<running, notifier>>
      /\ \A b \in Acqs \ {k, XOf[k]} : Undisturbed(b)
      /\ items[Pool1] # <<>> => items'[Pool1] # <<>>
      /\ pc'[Producer] # pc[Producer] =>
             pc[Producer] = "waiting" /\ items'[StoreOf(call[Producer])] # <<>>
      /\ Undisturbed(Producer)
  BY ConsumerStillIInv, TestRoles
<1>2. ProducerInPlace'
  BY <1>0, <1>1, ProducerStays
<1>3. ConsumersInPlace'
  <2>1. ASSUME NEW l \in Consumers \ {k}
        PROVE  ConsumerInPlace(l)'
    <3>1. Undisturbed(l) /\ Undisturbed(XOf[l]) /\ kpc'[l] = kpc[l] /\ ConsumerInPlace(l)
      BY <1>0, <1>1, TestRoles DEF ConsumersInPlace
    <3>2. QED
      BY <1>0, <3>1, ConsumerStays
  <2>2. QED
    BY <1>0, <2>1 DEF ConsumersInPlace
<1>4. MainInPlace'
  BY <1>0, <1>1 DEF MainInPlace
<1>5. NothingElse'
  <2>1. \A a \in Acqs \ Roles : Undisturbed(a)
    BY <1>1 DEF Roles
  <2>2. QED
    BY <1>0, <2>1, OthersStay
<1>6. WokenWithObject'
  <2>1. pc[Producer] = "waiting" => StoreOf(call[Producer]) = Pool1
    BY <1>0, TestCalls DEF ProducerInPlace, InCall
  <2>2. pc'[Producer] # pc[Producer] => pc'[Producer] = "notified" /\ items'[Pool1] # <<>>
    BY <1>1, <2>1 DEF Undisturbed
  <2>3. QED
    BY <1>0, <1>1, <2>2 DEF WokenWithObject
<1>7. QED
  BY <1>1, <1>2, <1>3, <1>4, <1>5, <1>6 DEF TestIInv

LEMMA OtherHeldIdsStay ==
    ASSUME TestIInv, NEW k \in Consumers, Consume(k)
    PROVE  \A l \in Consumers \ {k} : HeldIds(l)' = HeldIds(l)
<1>1. UNCHANGED id /\ \A l \in Consumers \ {k} : kpc'[l] = kpc[l]
  BY DEF Consume, ConsumeTest, ConsumeGet, ConsumeMove, ConsumeRead, ConsumeDropX, ConsumeDropDoa,
         Goto, TestIInv, ConsumersInPlace
<1>2. \A l \in Consumers \ {k} : Undisturbed(l) /\ Undisturbed(XOf[l])
  BY ConsumerStillIInv, TestRoles
<1>3. QED
  BY <1>1, <1>2, HeldIdsStay

\* Steps that take nothing from the queue and read no id.
LEMMA ConsumerIdles ==
    ASSUME TestIInv, NEW k \in Consumers, Consume(k),
           items'[Worker1] = items[Worker1], UNCHANGED got,
           HeldIds(k)' \subseteq HeldIds(k)
    PROVE  IdsInOrder'
<1>1. Undisturbed(Producer) /\ IdsInOrder
  BY ConsumerStillIInv, TestRoles DEF TestIInv
<1>2. UNCHANGED <<id, created>>
  BY DEF Consume, ConsumeTest, ConsumeGet, ConsumeMove, ConsumeRead, ConsumeDropX, ConsumeDropDoa
<1>3. \A l \in Consumers : HeldIds(l)' \subseteq HeldIds(l)
  BY OtherHeldIdsStay
<1>4. QED
  BY <1>1, <1>2, <1>3, IdsStay DEF Undisturbed

\* The oldest object leaves the queue: its id is the smallest there.
LEMMA ConsumerTakes ==
    ASSUME TestIInv, NEW k \in Consumers, ConsumeGet(k),
           items[Worker1] # <<>>, items'[Worker1] = Tail(items[Worker1]),
           data'[k] = Head(items[Worker1])
    PROVE  IdsInOrder'
<1> DEFINE S == items[Worker1]
           n == id[S[1]]
<1>1. /\ IdsInOrder
      /\ S \in Seq(Objects) /\ S # <<>>
      /\ UNCHANGED <<id, got, created>>
      /\ Undisturbed(Producer)
      /\ \A l \in Consumers \ {k} : HeldIds(l)' = HeldIds(l)
      /\ kpc[k] = "get" /\ kpc'[k] = "got"
  BY TestRoles, ConsumerStillIInv, OtherHeldIdsStay
     DEF TestIInv, IInv, TypeOK, Consume, ConsumeGet, Goto, ConsumersInPlace
<1>2. /\ data'[k] = S[1] /\ S[1] \in Objects
      /\ 1 \in DOMAIN S /\ Len(S) \in Nat \ {0} /\ DOMAIN S = 1 .. Len(S)
      /\ DOMAIN items'[Worker1] = 1 .. Len(S) - 1
      /\ \A i \in 1 .. Len(S) - 1 : items'[Worker1][i] = S[i + 1]
  <2>1. /\ Head(S) \in Objects /\ Head(S) = S[1]
        /\ 1 \in DOMAIN S /\ Len(S) \in Nat \ {0} /\ DOMAIN S = 1 .. Len(S)
        /\ DOMAIN Tail(S) = 1 .. Len(S) - 1
        /\ \A i \in 1 .. Len(S) - 1 : Tail(S)[i] = S[i + 1]
    BY <1>1, TailAt
  <2>2. QED
    BY <2>1
<1>3. \A i \in DOMAIN items'[Worker1] : i + 1 \in DOMAIN S /\ 1 < i + 1 /\ items'[Worker1][i] = S[i + 1]
  BY <1>2
<1>4. HeldIds(k) = {} /\ HeldIds(k)' = {n}
  BY <1>1, <1>2, WorkerAssumption DEF HeldIds
<1>5. n \in QueuedIds /\ QueuedIds' \subseteq QueuedIds
  BY <1>1, <1>2, <1>3 DEF QueuedIds
<1>6. \A m \in QueuedIds' : n < m
  <2>1. \A i \in DOMAIN S : 1 < i => n < id[S[i]]
    BY <1>1, <1>2 DEF IdsInOrder
  <2>2. \A i \in DOMAIN items'[Worker1] : n < id'[items'[Worker1][i]]
    BY <1>1, <1>3, <2>1
  <2>3. QED
    BY <2>2 DEF QueuedIds
<1>7. \A i, j \in DOMAIN items'[Worker1] :
          i < j => id'[items'[Worker1][i]] < id'[items'[Worker1][j]]
  <2>1. \A i, j \in DOMAIN items'[Worker1] : i < j => i + 1 < j + 1
    BY <1>2
  <2>2. QED
    BY <1>1, <1>3, <2>1 DEF IdsInOrder
<1>8. /\ id' \in [Objects -> Nat]
      /\ got' \in [Consumers -> Seq(Nat)]
      /\ EachIdOnceInOrder'
      /\ enq'[Producer] => id'[data'[Producer]] = created' - 1
  BY <1>1 DEF IdsInOrder, EachIdOnceInOrder, Undisturbed
<1>9. \A l \in Consumers : ReadIds(l)' = ReadIds(l)
  BY <1>1 DEF ReadIds
<1>10. \A m : Given(m) => Given(m)'
  BY <1>1 DEF Given, Undisturbed
<1> HIDE DEF n
<1>11. \A l \in Consumers : n \notin ReadIds(l) /\ n \notin HeldIds(l)
  <2>1. ASSUME NEW l \in Consumers, n \in ReadIds(l) \cup HeldIds(l)
        PROVE  FALSE
    <3>1. n < n
      BY <1>1, <1>5, <2>1 DEF IdsInOrder
    <3>2. n \in Nat
      BY <1>1, <1>5 DEF IdsInOrder, Given
    <3>3. QED
      BY <3>1, <3>2
  <2>2. QED
    BY <2>1
<1>12. ASSUME NEW l \in Consumers
       PROVE  /\ \A m \in ReadIds(l)' : \A p \in HeldIds(l)' \cup QueuedIds' : m < p
              /\ \A m \in HeldIds(l)', p \in QueuedIds' : m < p
              /\ \A j \in Consumers : l # j => HeldIds(l)' \cap (HeldIds(j)' \cup ReadIds(j)') = {}
              /\ \A m \in ReadIds(l)' \cup HeldIds(l)' \cup QueuedIds' : Given(m)'
  <2>1. /\ \A m \in ReadIds(l) : \A p \in HeldIds(l) \cup QueuedIds : m < p
        /\ \A m \in HeldIds(l), p \in QueuedIds : m < p
        /\ \A j \in Consumers : l # j => HeldIds(l) \cap (HeldIds(j) \cup ReadIds(j)) = {}
        /\ \A m \in ReadIds(l) \cup HeldIds(l) \cup QueuedIds : Given(m)
    BY <1>1 DEF IdsInOrder
  <2>2. CASE l = k
    <3>1. HeldIds(l)' = {n}
      BY <1>4, <2>2
    <3>2. \A j \in Consumers : l # j => HeldIds(j)' = HeldIds(j)
      BY <1>1, <2>2
    <3>3. QED
      BY <1>5, <1>6, <1>9, <1>10, <1>11, <2>1, <3>1, <3>2
  <2>3. CASE l # k
    <3>1. HeldIds(l)' = HeldIds(l)
      BY <1>1, <2>3
    <3>2. \A j \in Consumers : HeldIds(j)' = HeldIds(j) \/ HeldIds(j)' = {n}
      BY <1>1, <1>4
    <3>3. QED
      BY <1>5, <1>9, <1>10, <1>11, <2>1, <3>1, <3>2
  <2>4. QED
    BY <2>2, <2>3
<1>13. QED
  BY <1>7, <1>8, <1>12 DEF IdsInOrder

LEMMA ElementsOfAppend ==
    ASSUME NEW S, NEW q \in Seq(S), NEW e \in S
    PROVE  {Append(q, e)[i] : i \in DOMAIN Append(q, e)} = {q[i] : i \in DOMAIN q} \cup {e}
<1> DEFINE r == Append(q, e)
<1>1. /\ DOMAIN r = 1 .. Len(q) + 1 /\ DOMAIN q = 1 .. Len(q) /\ Len(q) \in Nat
      /\ \A i \in 1 .. Len(q) : r[i] = q[i]
      /\ r[Len(q) + 1] = e
  BY AppendAt
<1> HIDE DEF r
<1>2. \A i \in DOMAIN r : i \in DOMAIN q \/ i = Len(q) + 1
  BY <1>1
<1>3. {r[i] : i \in DOMAIN r} \subseteq {q[i] : i \in DOMAIN q} \cup {e}
  BY <1>1, <1>2
<1>4. {q[i] : i \in DOMAIN q} \cup {e} \subseteq {r[i] : i \in DOMAIN r}
  BY <1>1
<1>5. QED
  BY <1>3, <1>4 DEF r

\* The id that is read is new, and larger than those the consumer read before.
LEMMA ConsumerReads ==
    ASSUME TestIInv, NEW k \in Consumers, ConsumeRead(k)
    PROVE  IdsInOrder' /\ Counted' /\ consumed' \in Nat /\ consumed' >= consumed
<1> DEFINE n == id[data[XOf[k]]]
           g == got[k]
<1>1. /\ IdsInOrder /\ Counted
      /\ UNCHANGED vars /\ UNCHANGED <<id, created>>
      /\ kpc[k] = "moved" /\ kpc'[k] = "read"
      /\ data[XOf[k]] \in Objects /\ data[XOf[k]] # NULL
      /\ n \in Nat /\ g \in Seq(Nat)
      /\ got' = [got EXCEPT ![k] = Append(g, n)] /\ got \in [Consumers -> Seq(Nat)]
      /\ consumed' = consumed + 1
      /\ \A l \in Consumers \ {k} : HeldIds(l)' = HeldIds(l)
  <2>1. /\ IInv /\ IdsInOrder /\ Counted /\ ConsumerInPlace(k)
        /\ kpc \in [Consumers -> {"test", "get", "got", "moved", "read", "left", "done"}]
    BY DEF TestIInv, ConsumersInPlace
  <2>2. /\ UNCHANGED vars /\ UNCHANGED <<id, created>>
        /\ kpc[k] = "moved" /\ kpc'[k] = "read"
        /\ got' = [got EXCEPT ![k] = Append(g, n)]
        /\ consumed' = consumed + 1
    BY <2>1 DEF ConsumeRead, Goto
  <2>3. data[XOf[k]] \in Objects /\ data[XOf[k]] # NULL
    BY <2>1, <2>2, TestRoles DEF ConsumerInPlace, IInv, TypeOK
  <2>4. n \in Nat /\ g \in Seq(Nat) /\ got \in [Consumers -> Seq(Nat)]
    BY <2>1, <2>3 DEF IdsInOrder
  <2>5. \A l \in Consumers \ {k} : HeldIds(l)' = HeldIds(l)
    <3>1. Consume(k)
      BY DEF Consume
    <3>2. QED
      BY <3>1, OtherHeldIdsStay
  <2>6. QED
    BY <2>1, <2>2, <2>3, <2>4, <2>5
<1>2. HeldIds(k) = {n} /\ HeldIds(k)' = {}
  BY <1>1 DEF HeldIds
<1> HIDE DEF n
<1>3. /\ DOMAIN got'[k] = 1 .. Len(g) + 1
      /\ DOMAIN g = 1 .. Len(g) /\ Len(g) \in Nat
      /\ \A i \in 1 .. Len(g) : got'[k][i] = g[i]
      /\ got'[k][Len(g) + 1] = n
      /\ \A l \in Consumers \ {k} : got'[l] = got[l]
      /\ got' \in [Consumers -> Seq(Nat)]
  <2>1. /\ Append(g, n) \in Seq(Nat)
        /\ DOMAIN Append(g, n) = 1 .. Len(g) + 1
        /\ DOMAIN g = 1 .. Len(g) /\ Len(g) \in Nat
        /\ \A i \in 1 .. Len(g) : Append(g, n)[i] = g[i]
        /\ Append(g, n)[Len(g) + 1] = n
    BY <1>1, AppendAt
  <2>2. got'[k] = Append(g, n)
    BY <1>1
  <2>3. \A l \in Consumers \ {k} : got'[l] = got[l]
    BY <1>1
  <2>4. got' \in [Consumers -> Seq(Nat)]
    <3> HIDE DEF g
    <3>1. QED
      BY <1>1, <2>1
  <2>5. QED
    BY <2>1, <2>2, <2>3, <2>4
<1>4. ReadIds(k)' = ReadIds(k) \cup {n} /\ \A l \in Consumers \ {k} : ReadIds(l)' = ReadIds(l)
  <2>1. {got'[k][i] : i \in DOMAIN got'[k]} = {g[i] : i \in DOMAIN g} \cup {n}
    <3>1. got'[k] = Append(g, n) /\ g \in Seq(Nat) /\ n \in Nat
      BY <1>1
    <3> HIDE DEF g
    <3>2. {Append(g, n)[i] : i \in DOMAIN Append(g, n)} = {g[i] : i \in DOMAIN g} \cup {n}
      BY <3>1, ElementsOfAppend
    <3>3. QED
      BY <3>1, <3>2
  <2>2. \A l \in Consumers \ {k} : {got'[l][i] : i \in DOMAIN got'[l]} = {got[l][i] : i \in DOMAIN got[l]}
    BY <1>3
  <2>3. ReadIds(k)' = ReadIds(k) \cup {n}
    BY <2>1 DEF ReadIds
  <2>4. \A l \in Consumers \ {k} : ReadIds(l)' = ReadIds(l)
    BY <2>2 DEF ReadIds
  <2>5. QED
    BY <2>3, <2>4
<1>5. /\ \A l \in Consumers : n \notin ReadIds(l)
      /\ \A m \in ReadIds(k) : m < n
      /\ \A m \in QueuedIds : n < m
      /\ \A l \in Consumers \ {k} : n \notin HeldIds(l)
      /\ Given(n)
  <2>1. \A m \in ReadIds(k) : m < n
    BY <1>1, <1>2 DEF IdsInOrder
  <2>2. \A l \in Consumers \ {k} : n \notin HeldIds(l) /\ n \notin ReadIds(l)
    BY <1>1, <1>2 DEF IdsInOrder
  <2>3. n \notin ReadIds(k)
    BY <1>1, <2>1
  <2>4. (\A m \in QueuedIds : n < m) /\ Given(n)
    BY <1>1, <1>2 DEF IdsInOrder
  <2>5. QED
    BY <2>1, <2>2, <2>3, <2>4
<1>6. QueuedIds' = QueuedIds /\ \A m : Given(m)' = Given(m)
  BY <1>1 DEF QueuedIds, Given, vars, acqVars
<1>7. Counted' /\ consumed' \in Nat /\ consumed' >= consumed
  <2>1. AllRead' = AllRead \cup {n} /\ n \notin AllRead
    BY <1>4, <1>5 DEF AllRead
  <2>2. /\ IsFiniteSet(AllRead \cup {n})
        /\ Cardinality(AllRead \cup {n}) = Cardinality(AllRead) + 1
    BY <1>1, <2>1, FS_AddElement DEF Counted
  <2>3. consumed' \in Nat /\ consumed' >= consumed
    BY <1>1 DEF Counted
  <2>4. QED
    BY <1>1, <2>1, <2>2, <2>3 DEF Counted
<1>8. EachIdOnceInOrder'
  <2>1. ASSUME NEW l \in Consumers, NEW m \in Consumers,
               NEW i \in DOMAIN got'[l], NEW j \in DOMAIN got'[m]
        PROVE  /\ l = m /\ i < j => got'[l][i] < got'[m][j]
               /\ got'[l][i] = got'[m][j] => l = m /\ i = j
    <3>1. ASSUME NEW q \in Consumers, NEW h \in DOMAIN got'[q]
          PROVE  \/ h \in DOMAIN got[q] /\ got'[q][h] = got[q][h] /\ got[q][h] \in ReadIds(q)
                 \/ q = k /\ h = Len(g) + 1 /\ got'[q][h] = n
      <4>1. h \in DOMAIN got[q] => got[q][h] \in ReadIds(q)
        BY DEF ReadIds
      <4>2. CASE q = k
        <5>1. h \in 1 .. Len(g) + 1
          BY <1>3, <3>1, <4>2
        <5>2. h \in 1 .. Len(g) \/ h = Len(g) + 1
          <6>1. Len(g) \in Nat
            BY <1>3
          <6>2. QED
            BY <5>1, <6>1
        <5>3. h \in 1 .. Len(g) => h \in DOMAIN g /\ got'[k][h] = g[h]
          BY <1>3
        <5>4. h = Len(g) + 1 => got'[k][h] = n
          BY <1>3
        <5>5. QED
          BY <4>1, <4>2, <5>2, <5>3, <5>4
      <4>3. CASE q # k
        BY <1>3, <3>1, <4>1, <4>3
      <4>4. QED
        BY <4>2, <4>3
    <3>2. CASE i \in DOMAIN got[l] /\ got'[l][i] = got[l][i] /\ j \in DOMAIN got[m] /\ got'[m][j] = got[m][j]
      <4>1. /\ l = m /\ i < j => got[l][i] < got[m][j]
            /\ got[l][i] = got[m][j] => l = m /\ i = j
        <5>1. EachIdOnceInOrder
          BY <1>1 DEF IdsInOrder
        <5>2. QED
          BY <3>2, <5>1 DEF EachIdOnceInOrder
      <4>2. QED
        BY <3>2, <4>1
    <3>3. CASE /\ i \in DOMAIN got[l] /\ got'[l][i] = got[l][i] /\ got[l][i] \in ReadIds(l)
               /\ m = k /\ j = Len(g) + 1 /\ got'[m][j] = n
      BY <1>5, <3>3
    <3>4. CASE /\ l = k /\ i = Len(g) + 1 /\ got'[l][i] = n
               /\ j \in DOMAIN got[m] /\ got'[m][j] = got[m][j] /\ got[m][j] \in ReadIds(m)
      <4>1. l = m => ~(i < j)
        BY <1>3, <3>4
      <4>2. QED
        BY <1>5, <3>4, <4>1
    <3>5. CASE l = k /\ i = Len(g) + 1 /\ m = k /\ j = Len(g) + 1
      BY <1>3, <3>5
    <3>6. QED
      BY <3>1, <3>2, <3>3, <3>4, <3>5
  <2>2. QED
    BY <2>1 DEF EachIdOnceInOrder
<1>9. ASSUME NEW l \in Consumers
      PROVE  /\ \A m \in ReadIds(l)' : \A p \in HeldIds(l)' \cup QueuedIds' : m < p
             /\ \A m \in HeldIds(l)', p \in QueuedIds' : m < p
             /\ \A j \in Consumers : l # j => HeldIds(l)' \cap (HeldIds(j)' \cup ReadIds(j)') = {}
             /\ \A m \in ReadIds(l)' \cup HeldIds(l)' \cup QueuedIds' : Given(m)'
  <2>1. /\ \A m \in ReadIds(l) : \A p \in HeldIds(l) \cup QueuedIds : m < p
        /\ \A m \in HeldIds(l), p \in QueuedIds : m < p
        /\ \A j \in Consumers : l # j => HeldIds(l) \cap (HeldIds(j) \cup ReadIds(j)) = {}
        /\ \A m \in ReadIds(l) \cup HeldIds(l) \cup QueuedIds : Given(m)
    BY <1>1 DEF IdsInOrder
  <2>2. CASE l = k
    <3>1. HeldIds(l)' = {} /\ ReadIds(l)' = ReadIds(l) \cup {n}
      BY <1>2, <1>4, <2>2
    <3>2. \A m \in QueuedIds : n < m
      BY <1>5
    <3>3. QED
      BY <1>5, <1>6, <2>1, <3>1, <3>2
  <2>3. CASE l # k
    <3>1. HeldIds(l)' = HeldIds(l) /\ ReadIds(l)' = ReadIds(l) /\ n \notin HeldIds(l)
      BY <1>1, <1>4, <1>5, <2>3
    <3>2. \A j \in Consumers : /\ HeldIds(j)' = HeldIds(j) \/ HeldIds(j)' = {}
                               /\ ReadIds(j)' = ReadIds(j) \/ ReadIds(j)' = ReadIds(j) \cup {n}
      BY <1>1, <1>2, <1>4
    <3>3. QED
      BY <1>6, <2>1, <3>1, <3>2
  <2>4. QED
    BY <2>2, <2>3
<1>10. /\ id' \in [Objects -> Nat]
       /\ \A i, j \in DOMAIN items'[Worker1] :
              i < j => id'[items'[Worker1][i]] < id'[items'[Worker1][j]]
       /\ enq'[Producer] => id'[data'[Producer]] = created' - 1
  BY <1>1 DEF IdsInOrder, vars, acqVars
<1>11. QED
  BY <1>3, <1>7, <1>8, <1>9, <1>10 DEF IdsInOrder

LEMMA ConsumeKeeps ==
    ASSUME TestIInv, NEW k \in Consumers, Consume(k)
    PROVE  TestIInv'
<1> DEFINE x == XOf[k]
<1>0. /\ IInv /\ ConsumerInPlace(k) /\ Counted /\ consumed \in Nat /\ Runs \in Nat
      /\ kpc \in [Consumers -> {"test", "get", "got", "moved", "read", "left", "done"}]
      /\ k \in Acqs /\ x \in Acqs /\ k # x
      /\ \A q \in Queues : q \in Stores
      /\ Worker1 \in Queues
  BY TestRoles DEF TestIInv, ConsumersInPlace, Counted, Stores
<1>1. CASE ConsumeTest(k)
  <2>1. /\ UNCHANGED vars /\ UNCHANGED <<id, got, consumed>>
        /\ kpc[k] = "test" /\ kpc'[k] = IF consumed < Runs THEN "get" ELSE "done"
    BY <1>0, <1>1 DEF ConsumeTest, Goto
  <2>2. kpc'[k] \in {"get", "done"} /\ (kpc'[k] = "done" => consumed >= Runs)
    BY <1>0, <2>1
  <2>3. ConsumerInPlace(k)'
    BY <1>0, <2>1, <2>2 DEF ConsumerInPlace, vars, acqVars
  <2>4. HeldIds(k)' = {}
    BY <2>2 DEF HeldIds
  <2>5. UNCHANGED items
    BY <2>1 DEF vars
  <2>6. IdsInOrder' /\ Counted'
    BY <1>0, <2>1, <2>4, <2>5, ConsumerIdles, CountStays
  <2>7. QED
    BY <1>0, <2>1, <2>3, <2>5, <2>6, ConsumerKeeps
<1>2. CASE ConsumeGet(k)
  <2>1. /\ Take(k, ConsumeCall) /\ pc[k] = "idle"
        /\ UNCHANGED <<id, got, consumed>>
        /\ kpc[k] = "get" /\ kpc'[k] = "got"
    BY <1>0, <1>2 DEF ConsumeGet, Acquire, Goto
  <2>2. /\ ~enq'[k] /\ pc'[k] = "live"
        /\ Undisturbed(x)
        /\ \/ /\ items[Worker1] # <<>>
              /\ data'[k] = Head(items[Worker1])
              /\ items' = [items EXCEPT ![Worker1] = Tail(@)]
           \/ data'[k] = NULL /\ items' = items
    <3>1. ConsumeCall \in Calls /\ ConsumeCall.f = "NONBLOCKING" /\ StoreOf(ConsumeCall) = Worker1
      BY TestCalls
    <3>2. pc[k] # "live"
      BY <2>1
    <3>3. /\ enq'[k] = FALSE
          /\ \A b \in Acqs \ {k} : Undisturbed(b)
          /\ \/ /\ pc'[k] = "live"
                /\ items[StoreOf(ConsumeCall)] # <<>>
                /\ data'[k] = Head(items[StoreOf(ConsumeCall)])
                /\ items' = [items EXCEPT ![StoreOf(ConsumeCall)] = Tail(@)]
             \/ /\ data'[k] = NULL
                /\ pc'[k] = IF ConsumeCall.f = "BLOCKING" /\ ConsumeCall.t = "UNUSED"
                            THEN "empty" ELSE "live"
                /\ items' = items
      BY <1>0, <2>1, <3>1, <3>2, TakeEffect
    <3>4. QED
      BY <1>0, <3>1, <3>3
  <2>3. ConsumerInPlace(k)'
    BY <1>0, <2>1, <2>2 DEF ConsumerInPlace, Undisturbed
  <2>4. \A q \in Queues \ {Worker1} : items'[q] = items[q]
    BY <1>0, <2>2 DEF IInv, TypeOK
  <2>5. IdsInOrder'
    <3>1. CASE data'[k] = NULL /\ items' = items
      <4>1. HeldIds(k)' = {}
        BY <2>1, <3>1 DEF HeldIds
      <4>2. QED
        BY <2>1, <3>1, <4>1, ConsumerIdles
    <3>2. CASE /\ items[Worker1] # <<>>
               /\ data'[k] = Head(items[Worker1])
               /\ items' = [items EXCEPT ![Worker1] = Tail(@)]
      <4>1. items'[Worker1] = Tail(items[Worker1])
        BY <1>0, <3>2 DEF IInv, TypeOK
      <4>2. QED
        BY <1>2, <3>2, <4>1, ConsumerTakes
    <3>3. QED
      BY <2>2, <3>1, <3>2
  <2>6. Counted'
    BY <1>0, <2>1, CountStays
  <2>7. QED
    BY <1>0, <2>1, <2>3, <2>4, <2>5, <2>6, ConsumerKeeps
<1>3. CASE ConsumeMove(k)
  <2>1. /\ Move(k, x) /\ data[k] # NULL
        /\ UNCHANGED <<id, got, consumed>>
        /\ kpc[k] = "got" /\ kpc'[k] = "moved"
    BY <1>0, <1>3 DEF ConsumeMove, Goto
  <2>2. /\ pc'[k] = "live" /\ pc'[x] = "live" /\ data'[x] = data[k] /\ data'[k] = NULL
        /\ enq'[x] = enq[k] /\ ~enq'[k] /\ UNCHANGED items
    BY <1>0, <2>1, MoveEffect
  <2>3. ConsumerInPlace(k)'
    BY <1>0, <2>1, <2>2 DEF ConsumerInPlace
  <2>4. HeldIds(k)' = HeldIds(k)
    BY <2>1, <2>2 DEF HeldIds
  <2>5. IdsInOrder' /\ Counted'
    BY <1>0, <2>1, <2>2, <2>4, ConsumerIdles, CountStays
  <2>6. QED
    BY <1>0, <2>1, <2>2, <2>3, <2>5, ConsumerKeeps
<1>4. CASE ConsumeRead(k)
  <2>1. UNCHANGED vars /\ kpc[k] = "moved" /\ kpc'[k] = "read"
    BY <1>0, <1>4 DEF ConsumeRead, Goto
  <2>2. ConsumerInPlace(k)'
    BY <1>0, <2>1 DEF ConsumerInPlace, vars, acqVars
  <2>3. UNCHANGED items
    BY <2>1 DEF vars
  <2>4. QED
    BY <1>4, <2>2, <2>3, ConsumerReads, ConsumerKeeps
<1>5. CASE ConsumeDropX(k)
  <2>1. /\ Destroy(x)
        /\ UNCHANGED <<id, got, consumed>>
        /\ kpc[k] = "read" /\ kpc'[k] = "left"
    BY <1>0, <1>5 DEF ConsumeDropX, Goto
  <2>2. /\ pc'[x] = "idle" /\ ~enq'[x] /\ Undisturbed(k)
        /\ \A q \in Queues : items'[q] = items[q]
    BY <1>0, <2>1, DestroyEffect DEF GoesOn, ConsumerInPlace
  <2>3. ConsumerInPlace(k)'
    BY <1>0, <2>1, <2>2 DEF ConsumerInPlace, Undisturbed
  <2>4. HeldIds(k)' = {}
    BY <2>1 DEF HeldIds
  <2>5. IdsInOrder' /\ Counted'
    BY <1>0, <2>1, <2>2, <2>4, ConsumerIdles, CountStays
  <2>6. QED
    BY <1>0, <2>1, <2>2, <2>3, <2>5, ConsumerKeeps
<1>6. CASE ConsumeDropDoa(k)
  <2>1. /\ Destroy(k)
        /\ UNCHANGED <<id, got, consumed>>
        /\ kpc[k] \in {"left", "got"} /\ kpc'[k] = "test"
    BY <1>0, <1>6 DEF ConsumeDropDoa, Goto
  <2>2. /\ pc'[k] = "idle" /\ ~enq'[k] /\ Undisturbed(x)
        /\ \A q \in Queues : items'[q] = items[q]
    BY <1>0, <2>1, DestroyEffect DEF GoesOn, ConsumerInPlace
  <2>3. ConsumerInPlace(k)'
    BY <1>0, <2>1, <2>2 DEF ConsumerInPlace, Undisturbed
  <2>4. HeldIds(k)' = {}
    BY <2>1 DEF HeldIds
  <2>5. IdsInOrder' /\ Counted'
    BY <1>0, <2>1, <2>2, <2>4, ConsumerIdles, CountStays
  <2>6. QED
    BY <1>0, <2>1, <2>2, <2>3, <2>5, ConsumerKeeps
<1>7. QED
  BY <1>1, <1>2, <1>3, <1>4, <1>5, <1>6 DEF Consume

------------------------------------------------------------------------------
(* main, and spurious wakeups.                                             *)
LEMMA MainKeeps ==
    ASSUME TestIInv, MainJoined \/ MainClosing
    PROVE  TestIInv'
<1>0. /\ IInv /\ ProducerInPlace /\ ConsumersInPlace /\ MainInPlace /\ NothingElse /\ IdsInOrder
      /\ Counted /\ consumed \in Nat
      /\ Main \in Closers /\ Worker1 \in Queues
      /\ UNCHANGED <<created, consumed, id, kpc, got, disturbed>>
  BY TestRoles DEF TestIInv, Counted, MainJoined, MainClosing
<1>1. ClosingStep(Main)
  BY <1>0 DEF MainJoined, MainClosing, ClosingStep
<1>2. IInv' /\ \A b \in Acqs : Undisturbed(b)
  BY <1>0, <1>1, ClosingStepKeepsIInv, ClosingStepAlone DEF Untouched
<1>3. /\ UNCHANGED items
      /\ \A c \in Closers \ {Main} : notifier'[c] = notifier[c]
  BY <1>0, <1>1
     DEF ClosingStep, Close, NotifyAll, Notifying, MarkClosed, NotifyUnused, NotifyQueued, IInv, TypeOK
<1>4. CreateDone /\ (\A k \in Consumers : kpc[k] = "done") /\ main' # "join"
  <2>1. CASE MainJoined
    BY <2>1 DEF MainJoined
  <2>2. CASE MainClosing
    <3>1. notifier[Main] # NULL
      BY <2>2 DEF MainClosing, Notifying, MarkClosed, NotifyUnused, NotifyQueued
    <3>2. QED
      BY <1>0, <2>2, <3>1 DEF MainClosing, MainInPlace
  <2>3. QED
    BY <2>1, <2>2
<1>5. pc'[Producer] = "idle"
  BY <1>2, <1>4, TestRoles DEF CreateDone, Undisturbed
<1>6. MainInPlace'
  BY <1>0, <1>3, <1>4, <1>5 DEF MainInPlace, CreateDone
<1>7. ProducerInPlace' /\ NothingElse'
  BY <1>0, <1>2, <1>3, ProducerStays, OthersStay, TestRoles
<1>8. ConsumersInPlace'
  <2>1. ASSUME NEW k \in Consumers
        PROVE  ConsumerInPlace(k)'
    <3>1. Undisturbed(k) /\ Undisturbed(XOf[k]) /\ consumed' >= consumed /\ ConsumerInPlace(k)
      BY <1>0, <1>2, TestRoles DEF ConsumersInPlace
    <3>2. QED
      BY <1>0, <3>1, ConsumerStays
  <2>2. QED
    BY <1>0, <2>1 DEF ConsumersInPlace
<1>9. WokenWithObject'
  BY <1>5 DEF WokenWithObject
<1>10. IdsInOrder' /\ Counted'
  <2>1. \A k \in Consumers : HeldIds(k)' = HeldIds(k)
    BY <1>0, <1>2, HeldIdsStay, TestRoles
  <2>2. Undisturbed(Producer)
    BY <1>2, TestRoles
  <2>3. QED
    BY <1>0, <1>3, <2>1, <2>2, IdsStay, CountStays DEF Undisturbed
<1>11. QED
  BY <1>2, <1>6, <1>7, <1>8, <1>9, <1>10 DEF TestIInv

LEMMA DisturbKeeps ==
    ASSUME TestIInv, Disturb
    PROVE  TestIInv'
<1>0. /\ IInv /\ ProducerInPlace /\ NothingElse /\ IdsInOrder /\ Counted
      /\ main = "join" /\ Producer \in Acqs
      /\ UNCHANGED <<items, created, consumed, id, kpc, got, main>> /\ disturbed' = TRUE
  BY MainStillJoins, TestRoles DEF TestIInv, Disturb, WakeSpuriously
<1>1. OwnStep(Producer) /\ Undisturbed(Producer)
  BY <1>0 DEF Disturb, OwnStep, WakeSpuriously, Undisturbed, IInv, TypeOK
<1>2. /\ IInv' /\ ConsumersInPlace' /\ MainInPlace'
      /\ \A k \in Consumers : Undisturbed(k) /\ Undisturbed(XOf[k])
      /\ \A a \in Acqs \ Roles : Undisturbed(a)
  BY <1>0, <1>1, ProducerLeavesOthers
<1>3. ProducerInPlace' /\ NothingElse' /\ WokenWithObject'
  BY <1>0, <1>1, <1>2, ProducerStays, OthersStay DEF WokenWithObject
<1>4. IdsInOrder' /\ Counted'
  <2>1. \A k \in Consumers : HeldIds(k)' = HeldIds(k)
    BY <1>0, <1>2, HeldIdsStay
  <2>2. QED
    BY <1>0, <1>1, <2>1, IdsStay, CountStays DEF Undisturbed
<1>5. QED
  BY <1>2, <1>3, <1>4 DEF TestIInv

LEMMA TestInitEstablishes == TestInit => TestIInv
<1> SUFFICES ASSUME TestInit
             PROVE  TestIInv
  OBVIOUS
<1>1. IInv
  BY InitEstablishesIInv DEF TestInit
<1>2. /\ \A q \in Queues : running[q] /\ items[q] = <<>>
      /\ \A c \in Closers : notifier[c] = NULL
      /\ \A a \in Acqs : pc[a] = "idle" /\ data[a] = NULL /\ enq[a] = FALSE
      /\ created = 0 /\ consumed = 0 /\ main = "join"
      /\ kpc = [k \in Consumers |-> "test"] /\ got = [k \in Consumers |-> <<>>]
      /\ id = [o \in Objects |-> 0]
  BY StockAssumption DEF TestInit, Init, InitialItems, Stores
<1>3. ProducerInPlace /\ MainInPlace /\ NothingElse /\ WokenWithObject
  BY <1>2, TestRoles DEF ProducerInPlace, MainInPlace, NothingElse, WokenWithObject
<1>4. ConsumersInPlace
  BY <1>2, TestRoles DEF ConsumersInPlace, ConsumerInPlace
<1>5. /\ QueuedIds = {} /\ items[Worker1] = <<>>
      /\ \A k \in Consumers : ReadIds(k) = {} /\ HeldIds(k) = {}
  BY <1>2, TestRoles DEF QueuedIds, ReadIds, HeldIds
<1>6. IdsInOrder
  <2>1. id \in [Objects -> Nat] /\ got \in [Consumers -> Seq(Nat)] /\ EachIdOnceInOrder
    BY <1>2 DEF EachIdOnceInOrder
  <2>2. QED
    BY <1>2, <1>5, <2>1, TestRoles DEF IdsInOrder
<1>7. Counted
  <2>1. AllRead = {}
    BY <1>5 DEF AllRead
  <2>2. QED
    BY <1>2, <2>1, FS_EmptySet DEF Counted
<1>8. QED
  BY <1>1, <1>3, <1>4, <1>6, <1>7 DEF TestIInv

\* The invariant of the test is inductive.
THEOREM TestIInvIsInductive == TestIInv /\ [TestNext]_allVars => TestIInv'
<1> SUFFICES ASSUME TestIInv, [TestNext]_allVars
             PROVE  TestIInv'
  OBVIOUS
<1>1. CASE Create
  BY <1>1, CreateCalls, CreateFillKeeps, CreateEndOfScopeKeeps DEF Create
<1>2. CASE \E k \in Consumers : Consume(k)
  BY <1>2, ConsumeKeeps
<1>3. CASE MainJoined \/ MainClosing
  BY <1>3, MainKeeps
<1>4. CASE Disturb
  BY <1>4, DisturbKeeps
<1>5. CASE UNCHANGED allVars
  <2>1. /\ UNCHANGED vars
        /\ UNCHANGED <<created, consumed, id, kpc, got, main, disturbed>>
    BY <1>5 DEF allVars, testVars
  <2>2. /\ IInv /\ ProducerInPlace /\ ConsumersInPlace /\ MainInPlace /\ NothingElse
        /\ WokenWithObject /\ IdsInOrder /\ Counted /\ consumed \in Nat
    BY DEF TestIInv, Counted
  <2>3. IInv' /\ \A b \in Acqs : Undisturbed(b)
    BY <2>1, <2>2, StillIInv, StillAlone DEF Untouched
  <2>4. UNCHANGED <<items, running, notifier, pc, enq, data>>
    BY <2>1 DEF vars, acqVars
  <2>5. ProducerInPlace' /\ NothingElse' /\ MainInPlace' /\ WokenWithObject'
    BY <2>1, <2>2, <2>3, <2>4, ProducerStays, OthersStay, TestRoles
       DEF MainInPlace, CreateDone, WokenWithObject
  <2>6. ConsumersInPlace'
    BY <2>1, <2>2, <2>4 DEF ConsumersInPlace, ConsumerInPlace
  <2>7. \A k \in Consumers : HeldIds(k)' = HeldIds(k)
    BY <2>1, <2>3, HeldIdsStay, TestRoles
  <2>8. IdsInOrder' /\ Counted'
    BY <2>1, <2>2, <2>4, <2>7, IdsStay, CountStays
  <2>9. QED
    BY <2>3, <2>5, <2>6, <2>8 DEF TestIInv
<1>6. QED
  BY <1>1, <1>2, <1>3, <1>4, <1>5 DEF TestNext

\* The invariant of the test holds in every behaviour of oi.core.test.cpp.
THEOREM TestInvariantHolds == TestSpec => []TestIInv
<1>1. TestInit => TestIInv
  BY TestInitEstablishes
<1>2. TestIInv /\ [TestNext]_allVars => TestIInv'
  BY TestIInvIsInductive
<1>3. QED
  BY <1>1, <1>2, PTL DEF TestSpec

------------------------------------------------------------------------------
\* Two sequences without repetitions that hold the same elements are equally long.
NoRepeats(q) == \A i, j \in DOMAIN q : q[i] = q[j] => i = j
Covers(r, q) == \A i \in DOMAIN q : \E j \in DOMAIN r : r[j] = q[i]

LEMMA SameLength ==
    ASSUME NEW S, NEW q \in Seq(S), NEW r \in Seq(S),
           NoRepeats(q), NoRepeats(r), Covers(r, q), Covers(q, r)
    PROVE  Len(q) = Len(r)
<1> USE DEF NoRepeats, Covers
<1> DEFINE T == {q[i] : i \in 1 .. Len(q)}
<1>1. /\ Len(q) \in Nat /\ DOMAIN q = 1 .. Len(q)
      /\ Len(r) \in Nat /\ DOMAIN r = 1 .. Len(r)
  OBVIOUS
<1>2. q \in Bijection(1 .. Len(q), T)
  <2>1. q = [i \in 1 .. Len(q) |-> q[i]]
    BY <1>1
  <2>2. QED
    BY <1>1, <2>1 DEF Bijection, Injection, Surjection, IsInjective
<1>3. r \in Bijection(1 .. Len(r), T)
  <2>1. r = [i \in 1 .. Len(r) |-> r[i]] /\ \A i \in 1 .. Len(r) : r[i] \in T
    BY <1>1
  <2>2. QED
    BY <1>1, <2>1 DEF Bijection, Injection, Surjection, IsInjective
<1>4. ExistsBijection(1 .. Len(q), T) /\ ExistsBijection(1 .. Len(r), T)
  BY <1>2, <1>3 DEF ExistsBijection
<1>5. /\ IsFiniteSet(1 .. Len(q)) /\ Cardinality(1 .. Len(q)) = Len(q)
      /\ IsFiniteSet(1 .. Len(r)) /\ Cardinality(1 .. Len(r)) = Len(r)
  <2>1. \A n \in Nat : IsFiniteSet(1 .. n) /\ Cardinality(1 .. n) = n
    <3>1. ASSUME NEW n \in Nat
          PROVE  IsFiniteSet(1 .. n) /\ Cardinality(1 .. n) = IF 1 > n THEN 0 ELSE n - 1 + 1
      BY FS_Interval
    <3>2. QED
      BY <3>1
  <2>2. QED
    BY <1>1, <2>1
<1> HIDE DEF T
<1>6. Cardinality(T) = Len(q) /\ Cardinality(T) = Len(r)
  BY <1>4, <1>5, FS_Bijection
<1>7. QED
  BY <1>6

\* When nothing is held and no queue holds anything, the pools are full.
LEMMA PoolsFull ==
    ASSUME IInv, \A a \in Acqs : data[a] = NULL, \A q \in Queues : items[q] = <<>>
    PROVE  \A p \in Pools : Len(items[p]) = Len(Stock[p])
<1> SUFFICES ASSUME NEW p \in Pools
             PROVE  Len(items[p]) = Len(Stock[p])
  OBVIOUS
<1>1. items[p] \in Seq(Objects) /\ Stock[p] \in Seq(Objects)
  BY StockAssumption DEF IInv, TypeOK, Stores
<1>2. /\ \A i, j \in DOMAIN items[p] : items[p][i] = items[p][j] => i = j
      /\ \A i, j \in DOMAIN Stock[p] : Stock[p][i] = Stock[p][j] => i = j
  BY StockAssumption DEF IInv, OneOwner, StoredOnce, Stores
<1>3. ASSUME NEW i \in DOMAIN items[p]
      PROVE  \E j \in DOMAIN Stock[p] : Stock[p][j] = items[p][i]
  <2>1. items[p][i] \in Objects /\ Home[items[p][i]] = p
    BY <1>1, <1>3 DEF IInv, PoolsClean
  <2>2. PICK r \in Pools : \E j \in DOMAIN Stock[r] : Stock[r][j] = items[p][i]
    BY <2>1, StockAssumption
  <2>3. QED
    BY <2>1, <2>2, HomeIsBuilder
<1>4. ASSUME NEW j \in DOMAIN Stock[p]
      PROVE  \E i \in DOMAIN items[p] : items[p][i] = Stock[p][j]
  <2>1. Stock[p][j] \in Objects /\ Home[Stock[p][j]] = p
    BY HomeIsBuilder
  <2>2. Stock[p][j] \notin Held
    BY DEF Held
  <2>3. PICK s \in Stores : \E i \in DOMAIN items[s] : items[s][i] = Stock[p][j]
    BY <2>1, <2>2 DEF IInv, OneOwner, NoneLost
  <2>4. s \in Pools
    BY <2>3 DEF Stores
  <2>5. QED
    BY <2>1, <2>3, <2>4 DEF IInv, PoolsClean
<1>5. QED
  <2>1. NoRepeats(items[p]) /\ NoRepeats(Stock[p])
    BY <1>2 DEF NoRepeats
  <2>2. Covers(Stock[p], items[p])
    BY <1>3 DEF Covers
  <2>3. Covers(items[p], Stock[p])
    BY <1>4 DEF Covers
  <2>4. QED
    BY <1>1, <2>1, <2>2, <2>3, SameLength

\* Each id is read once, and each consumer reads in the order of creation.  The
\* ids travel inside objects that are reused, so it takes the whole line: what a
\* consumer has read comes before what it holds and what waits in the queue.
THEOREM EachIdAlwaysOnceInOrder == TestSpec => []EachIdOnceInOrder
<1>1. TestIInv => EachIdOnceInOrder
  BY DEF TestIInv, IdsInOrder
<1>2. QED
  BY <1>1, TestInvariantHolds, PTL

\* The OIError of an empty pool never ends the test while no wakeup is spurious:
\* only CreateObjects takes from the pool, a destructor that wakes it has put an
\* object there, and main closes the queue after CreateObjects has returned.
THEOREM NeverAborts == TestSpec => []NoAbort
<1>1. TestIInv => NoAbort
  BY DEF TestIInv, WokenWithObject, NoAbort, Running
<1>2. QED
  BY <1>1, TestInvariantHolds, PTL

\* When main has joined the three threads, every id has been read, though the
\* consumers stop on a counter they share and not on the ids, and every object
\* is back in the pool that built it.
THEOREM AlwaysEndsClean == TestSpec => []EndsClean
<1>1. ASSUME TestIInv, main # "join"
      PROVE  /\ {n \in 0 .. Runs - 1 : \E k \in Consumers : \E i \in DOMAIN got[k] :
                     got[k][i] = n} = 0 .. Runs - 1
             /\ \A p \in Pools : Len(items[p]) = Len(Stock[p])
  <2>1. /\ IInv /\ ConsumersInPlace /\ NothingElse /\ IdsInOrder /\ Counted
        /\ created = Runs /\ pc[Producer] = "idle" /\ Runs \in Nat
        /\ \A k \in Consumers : kpc[k] = "done"
    BY <1>1, TestRoles DEF TestIInv, MainInPlace, CreateDone
  <2>2. AllRead \subseteq 0 .. Runs - 1
    BY <2>1 DEF AllRead, IdsInOrder, Given
  <2>3. Cardinality(AllRead) \in Nat /\ Cardinality(AllRead) >= Runs
    <3>1. PICK k \in Consumers : TRUE
      BY TestAssumption
    <3>2. consumed >= Runs
      BY <2>1, <3>1 DEF ConsumersInPlace, ConsumerInPlace
    <3>3. QED
      BY <2>1, <3>2 DEF Counted
  <2>4. AllRead = 0 .. Runs - 1
    <3>1. IsFiniteSet(0 .. Runs - 1) /\ Cardinality(0 .. Runs - 1) = Runs
      BY <2>1, FS_Interval
    <3>2. Cardinality(AllRead) <= Cardinality(0 .. Runs - 1)
      BY <2>2, <3>1, FS_Subset
    <3>3. Cardinality(0 .. Runs - 1) = Cardinality(AllRead)
      BY <2>1, <2>3, <3>1, <3>2
    <3>4. QED
      BY <2>2, <3>1, <3>3, FS_Subset
  <2>5. {n \in 0 .. Runs - 1 : \E k \in Consumers : \E i \in DOMAIN got[k] : got[k][i] = n}
            = 0 .. Runs - 1
    BY <2>4 DEF AllRead, ReadIds
  <2>6. \A a \in Acqs : data[a] = NULL
    <3>1. \A a \in Acqs : pc[a] = "idle"
      BY <2>1 DEF NothingElse, Roles, ConsumersInPlace, ConsumerInPlace
    <3>2. QED
      BY <2>1, <3>1 DEF IInv, HoldsWhenLive
  <2>7. \A q \in Queues : items[q] = <<>>
    <3>1. DOMAIN items[Worker1] = {}
      <4>1. ASSUME NEW i \in DOMAIN items[Worker1]
            PROVE  FALSE
        <5> DEFINE m == id[items[Worker1][i]]
        <5>1. m \in QueuedIds
          BY DEF QueuedIds
        <5> HIDE DEF m
        <5>2. PICK k \in Consumers : TRUE
          BY TestAssumption
        <5>3. m \in 0 .. Runs - 1
          BY <2>1, <5>1, <5>2 DEF IdsInOrder, Given
        <5>4. PICK l \in Consumers : m \in ReadIds(l)
          BY <2>4, <5>3 DEF AllRead
        <5>5. m < m
          BY <2>1, <5>1, <5>4 DEF IdsInOrder
        <5>6. QED
          BY <5>3, <5>5
      <4>2. QED
        BY <4>1
    <3>2. items[Worker1] \in Seq(Objects)
      BY <2>1, TestRoles DEF IInv, TypeOK
    <3>3. \A q \in Seq(Objects) : DOMAIN q = {} => q = <<>>
      <4>1. ASSUME NEW q \in Seq(Objects), q # <<>>
            PROVE  1 \in DOMAIN q
        BY <4>1, TailAt
      <4>2. QED
        BY <4>1
    <3>4. items[Worker1] = <<>>
      BY <3>1, <3>2, <3>3
    <3>5. QED
      BY <2>1, <3>4 DEF NothingElse
  <2>8. QED
    BY <2>1, <2>5, <2>6, <2>7, PoolsFull
<1>2. TestIInv => EndsClean
  BY <1>1 DEF EndsClean
<1>3. QED
  BY <1>2, TestInvariantHolds, PTL

===============================================================================
