--------------------------- MODULE OIWorkerProofs ---------------------------
(***************************************************************************)
(* Theorems about OIWorker, for any number of acquisitions, closers,       *)
(* queues, pools and objects: the type invariant, one owner per object,    *)
(* clean pools, and that null means closed.                                *)
(***************************************************************************)
EXTENDS OIWorker, SequenceTheorems, TLAPS

\* A constructor that runs knows its arguments, and what is not constructed has
\* none; only a constructed acquisition holds an object, and it returns it to
\* the pool that built the object.
CallKnown ==
    \A a \in Acqs :
        /\ pc[a] \in {"unlocked", "waiting", "notified", "empty"} => call[a] \in Calls
        /\ pc[a] = "idle" => call[a] = NULL

HoldsWhenLive ==
    \A a \in Acqs : data[a] # NULL => pc[a] = "live" /\ returnTo[a] = Home[data[a]]

IInv == TypeOK /\ OneOwner /\ PoolsClean /\ CallKnown /\ HoldsWhenLive /\ NullMeansClosed

------------------------------------------------------------------------------
\* The pool an object remembers is the pool that constructed it.
LEMMA HomeIsBuilder ==
    /\ \A o \in Objects : Home[o] \in Pools
    /\ \A p \in Pools : \A i \in DOMAIN Stock[p] : Stock[p][i] \in Objects /\ Home[Stock[p][i]] = p
<1>1. ASSUME NEW o \in Objects
      PROVE  /\ Home[o] \in Pools
             /\ \E i \in DOMAIN Stock[Home[o]] : Stock[Home[o]][i] = o
  BY StockAssumption DEF Home
<1>2. ASSUME NEW p \in Pools, NEW i \in DOMAIN Stock[p]
      PROVE  Stock[p][i] \in Objects /\ Home[Stock[p][i]] = p
  <2>1. Stock[p][i] \in Objects
    <3>1. Stock[p] \in Seq(Objects)
      BY StockAssumption
    <3>2. QED
      BY <3>1
  <2>2. PICK j \in DOMAIN Stock[Home[Stock[p][i]]] :
            Stock[Home[Stock[p][i]]][j] = Stock[p][i]
    BY <1>1, <2>1
  <2>3. Home[Stock[p][i]] \in Pools
    BY <1>1, <2>1
  <2>4. QED
    BY <2>1, <2>2, <2>3, StockAssumption
<1>3. QED
  BY <1>1, <1>2

\* A call names a store.
LEMMA StoreOfType == \A c \in Calls : StoreOf(c) \in Stores
  BY WorkerAssumption DEF Calls, StoreOf, Stores

\* What an append and a tail leave at each position.
LEMMA AppendAt ==
    ASSUME NEW S, NEW q \in Seq(S), NEW e \in S
    PROVE  /\ Append(q, e) \in Seq(S)
           /\ DOMAIN Append(q, e) = 1 .. Len(q) + 1
           /\ DOMAIN q = 1 .. Len(q)
           /\ Len(q) \in Nat
           /\ \A i \in 1 .. Len(q) : Append(q, e)[i] = q[i]
           /\ Append(q, e)[Len(q) + 1] = e
  OBVIOUS

LEMMA TailAt ==
    ASSUME NEW S, NEW q \in Seq(S), q # <<>>
    PROVE  /\ Tail(q) \in Seq(S)
           /\ Head(q) \in S
           /\ Head(q) = q[1]
           /\ 1 \in DOMAIN q
           /\ Len(q) \in Nat \ {0}
           /\ DOMAIN q = 1 .. Len(q)
           /\ DOMAIN Tail(q) = 1 .. Len(q) - 1
           /\ \A i \in 1 .. Len(q) - 1 : Tail(q)[i] = q[i + 1]
  OBVIOUS

\* Notifying wakes at most one waiter and ends the acquisition that notifies.
LEMMA NotifyOneEffect ==
    ASSUME TypeOK, NEW a \in Acqs, pc[a] = "live", NEW s, NotifyOneAndEnd(a, s)
    PROVE  /\ pc' \in [Acqs -> PCs]
           /\ pc'[a] = "idle"
           /\ \A b \in Acqs \ {a} :
                  pc'[b] = pc[b] \/ (pc[b] = "waiting" /\ pc'[b] = "notified")
<1>1. CASE WaitersOn(s) = {}
  BY <1>1 DEF NotifyOneAndEnd, TypeOK, PCs
<1>2. CASE WaitersOn(s) # {}
  <2>1. PICK w \in WaitersOn(s) : pc' = [pc EXCEPT ![a] = "idle", ![w] = "notified"]
    BY <1>2 DEF NotifyOneAndEnd
  <2>2. w \in Acqs /\ w # a /\ pc[w] = "waiting"
    BY <2>1 DEF WaitersOn
  <2>3. QED
    BY <2>1, <2>2 DEF TypeOK, PCs
<1>3. QED
  BY <1>1, <1>2

LEMMA WakeAllEffect ==
    ASSUME TypeOK, NEW s, WakeAll(s)
    PROVE  /\ pc' \in [Acqs -> PCs]
           /\ \A b \in Acqs :
                  pc'[b] = pc[b] \/ (pc[b] = "waiting" /\ pc'[b] = "notified")
  BY DEF WakeAll, WaitersOn, TypeOK, PCs

------------------------------------------------------------------------------
(* One owner per object, for the three ways in which objects change hands. *)

\* An acquisition that holds nothing takes the oldest object of a store.
LEMMA TakeKeepsOneOwner ==
    ASSUME TypeOK, OneOwner, NEW a \in Acqs, NEW s \in Stores,
           data[a] = NULL, items[s] # <<>>,
           items' = [items EXCEPT ![s] = Tail(@)],
           data' = [data EXCEPT ![a] = Head(items[s])]
    PROVE  OneOwner'
<1> DEFINE o == Head(items[s])
<1>1. /\ items[s] \in Seq(Objects)
      /\ o \in Objects /\ o # NULL
  BY TailAt, WorkerAssumption DEF TypeOK
<1>2. /\ o = items[s][1] /\ 1 \in DOMAIN items[s]
      /\ Len(items[s]) \in Nat \ {0}
      /\ DOMAIN items[s] = 1 .. Len(items[s])
      /\ DOMAIN items'[s] = 1 .. Len(items[s]) - 1
      /\ \A i \in DOMAIN items'[s] : items'[s][i] = items[s][i + 1] /\ i + 1 \in DOMAIN items[s]
  <2>1. items'[s] = Tail(items[s])
    BY DEF TypeOK
  <2>2. /\ Head(items[s]) = items[s][1] /\ 1 \in DOMAIN items[s]
        /\ Len(items[s]) \in Nat \ {0}
        /\ DOMAIN items[s] = 1 .. Len(items[s])
        /\ DOMAIN Tail(items[s]) = 1 .. Len(items[s]) - 1
        /\ \A i \in 1 .. Len(items[s]) - 1 : Tail(items[s])[i] = items[s][i + 1]
    BY <1>1, TailAt
  <2>3. \A i \in 1 .. Len(items[s]) - 1 : i + 1 \in 1 .. Len(items[s])
    BY <2>2
  <2>4. QED
    BY <2>1, <2>2, <2>3, Zenon
<1>3. \A t \in Stores \ {s} : items'[t] = items[t]
  BY DEF TypeOK
<1>4. o \notin Held
  BY <1>2 DEF OneOwner, HeldNotStored
<1>5. data'[a] = o /\ \A b \in Acqs \ {a} : data'[b] = data[b]
  BY DEF TypeOK
<1>6. Held' = Held \cup {o}
  BY <1>1, <1>5 DEF Held
<1> HIDE DEF o
<1>7. StoredOnce'
  <2> SUFFICES ASSUME NEW t \in Stores, NEW u \in Stores,
                      NEW i \in DOMAIN items'[t], NEW j \in DOMAIN items'[u],
                      items'[t][i] = items'[u][j]
               PROVE  t = u /\ i = j
    BY DEF StoredOnce
  <2> DEFINE k == IF t = s THEN i + 1 ELSE i
             m == IF u = s THEN j + 1 ELSE j
  <2>1. k \in DOMAIN items[t] /\ items'[t][i] = items[t][k]
    BY <1>2, <1>3
  <2>2. m \in DOMAIN items[u] /\ items'[u][j] = items[u][m]
    BY <1>2, <1>3
  <2>3. t = u /\ k = m
    BY <2>1, <2>2 DEF OneOwner, StoredOnce
  <2>4. CASE t = s
    BY <1>2, <2>3, <2>4
  <2>5. CASE t # s
    BY <2>3, <2>5
  <2>6. QED
    BY <2>4, <2>5
<1>8. HeldOnce'
  BY <1>4, <1>5 DEF OneOwner, HeldOnce, Held
<1>9. HeldNotStored'
  <2> SUFFICES ASSUME NEW t \in Stores, NEW i \in DOMAIN items'[t]
               PROVE  items'[t][i] \notin Held'
    BY DEF HeldNotStored
  <2>1. CASE t = s
    <3>1. items'[t][i] = items[s][i + 1] /\ i + 1 \in DOMAIN items[s] /\ i \in Nat /\ i + 1 # 1
      BY <1>2, <2>1
    <3>2. items[s][i + 1] # o
      BY <1>2, <3>1 DEF OneOwner, StoredOnce
    <3>3. QED
      BY <1>6, <3>1, <3>2 DEF OneOwner, HeldNotStored
  <2>2. CASE t # s
    BY <1>2, <1>3, <1>6, <2>2 DEF OneOwner, StoredOnce, HeldNotStored
  <2>3. QED
    BY <2>1, <2>2
<1>10. NoneLost'
  <2> SUFFICES ASSUME NEW x \in Objects, x # o, x \notin Held
               PROVE  \E t \in Stores : \E i \in DOMAIN items'[t] : items'[t][i] = x
    BY <1>6 DEF NoneLost
  <2>1. PICK t \in Stores : \E i \in DOMAIN items[t] : items[t][i] = x
    BY DEF OneOwner, NoneLost
  <2>2. PICK i \in DOMAIN items[t] : items[t][i] = x
    BY <2>1
  <2>3. CASE t = s
    <3>1. i - 1 \in DOMAIN items'[s] /\ (i - 1) + 1 = i
      BY <1>2, <2>2, <2>3
    <3>2. QED
      BY <1>2, <2>2, <2>3, <3>1
  <2>4. CASE t # s
    BY <1>3, <2>2, <2>4
  <2>5. QED
    BY <2>3, <2>4
<1>11. QED
  BY <1>7, <1>8, <1>9, <1>10 DEF OneOwner

\* An acquisition gives its object to the tail of a store.
LEMMA PushKeepsOneOwner ==
    ASSUME TypeOK, OneOwner, NEW a \in Acqs, NEW s \in Stores,
           data[a] # NULL,
           items' = [items EXCEPT ![s] = Append(@, data[a])],
           data' = [data EXCEPT ![a] = NULL]
    PROVE  OneOwner'
<1> DEFINE o == data[a]
           n == Len(items[s]) + 1
<1>1. items[s] \in Seq(Objects) /\ o \in Objects /\ o \in Held
  BY DEF TypeOK, Held
<1>2. /\ DOMAIN items[s] = 1 .. n - 1
      /\ DOMAIN items'[s] = 1 .. n
      /\ n \in Nat \ {0}
      /\ items'[s][n] = o
      /\ \A i \in DOMAIN items[s] : items'[s][i] = items[s][i]
  <2>1. items'[s] = Append(items[s], o)
    BY DEF TypeOK
  <2> HIDE DEF o
  <2>2. QED
    BY <1>1, <2>1, AppendAt
<1>3. \A t \in Stores \ {s} : items'[t] = items[t]
  BY DEF TypeOK
<1>4. \A t \in Stores : \A i \in DOMAIN items[t] : items[t][i] # o
  BY <1>1 DEF OneOwner, HeldNotStored
<1>5. data'[a] = NULL /\ \A b \in Acqs \ {a} : data'[b] = data[b] /\ data[b] # o
  BY DEF TypeOK, OneOwner, HeldOnce
<1>6. Held' = Held \ {o}
  BY <1>1, <1>5 DEF Held
<1> HIDE DEF o, n
\* Where an object lies after the push: at the tail, or where it lay before.
<1>7. \A t \in Stores : \A i \in DOMAIN items'[t] :
          \/ t = s /\ i = n /\ items'[t][i] = o
          \/ i \in DOMAIN items[t] /\ items'[t][i] = items[t][i]
  <2> SUFFICES ASSUME NEW t \in Stores, NEW i \in DOMAIN items'[t]
               PROVE  \/ t = s /\ i = n /\ items'[t][i] = o
                      \/ i \in DOMAIN items[t] /\ items'[t][i] = items[t][i]
    OBVIOUS
  <2>1. CASE t = s
    BY <1>2, <2>1
  <2>2. CASE t # s
    BY <1>3, <2>2
  <2>3. QED
    BY <2>1, <2>2
<1>8. StoredOnce'
  BY <1>4, <1>7 DEF OneOwner, StoredOnce
<1>9. HeldOnce'
  BY <1>5 DEF OneOwner, HeldOnce
<1>10. HeldNotStored'
  BY <1>6, <1>7 DEF OneOwner, HeldNotStored
<1>11. NoneLost'
  <2> SUFFICES ASSUME NEW x \in Objects, x \notin Held'
               PROVE  \E t \in Stores : \E i \in DOMAIN items'[t] : items'[t][i] = x
    BY DEF NoneLost
  <2>1. CASE x = o
    BY <1>2, <2>1
  <2>2. CASE x # o
    <3>1. PICK t \in Stores : \E i \in DOMAIN items[t] : items[t][i] = x
      BY <1>6, <2>2 DEF OneOwner, NoneLost
    <3>2. PICK i \in DOMAIN items[t] : items[t][i] = x
      BY <3>1
    <3>3. i \in DOMAIN items'[t] /\ items'[t][i] = x
      BY <1>2, <1>3, <3>2
    <3>4. QED
      BY <3>3
  <2>3. QED
    BY <2>1, <2>2
<1>12. QED
  BY <1>8, <1>9, <1>10, <1>11 DEF OneOwner

\* One acquisition moves its object to another one, which holds nothing.
LEMMA MoveKeepsOneOwner ==
    ASSUME TypeOK, OneOwner, NEW a \in Acqs, NEW b \in Acqs, a # b,
           data[b] = NULL, UNCHANGED items,
           data' = [data EXCEPT ![b] = data[a], ![a] = NULL]
    PROVE  OneOwner' /\ Held' = Held
<1>1. /\ data'[a] = NULL /\ data'[b] = data[a]
      /\ \A c \in Acqs \ {a, b} : data'[c] = data[c]
  BY DEF TypeOK
<1>2. Held' = Held
  BY <1>1 DEF Held
<1>3. HeldOnce'
  <2>1. HeldOnce
    BY DEF OneOwner
  <2> SUFFICES ASSUME NEW c \in Acqs, NEW e \in Acqs, data'[c] = data'[e], data'[c] # NULL
               PROVE  c = e
    BY DEF HeldOnce
  <2>2. c # a /\ e # a
    BY <1>1
  <2>3. CASE c = b
    BY <1>1, <2>1, <2>2, <2>3 DEF HeldOnce
  <2>4. CASE c # b
    BY <1>1, <2>1, <2>2, <2>4 DEF HeldOnce
  <2>5. QED
    BY <2>3, <2>4
<1>4. StoredOnce' /\ HeldNotStored' /\ NoneLost'
  <2>1. StoredOnce'
    BY DEF OneOwner, StoredOnce
  <2>2. HeldNotStored'
    BY <1>2 DEF OneOwner, HeldNotStored
  <2>3. NoneLost'
    BY <1>2 DEF OneOwner, NoneLost
  <2>4. QED
    BY <2>1, <2>2, <2>3
<1>5. QED
  BY <1>2, <1>3, <1>4 DEF OneOwner

------------------------------------------------------------------------------
(* The inductive invariant.                                                *)

\* Steps that leave objects where they are and as they are.
LEMMA StillOneOwner ==
    ASSUME OneOwner, UNCHANGED <<items, data>>
    PROVE  OneOwner' /\ Held' = Held
  BY DEF OneOwner, StoredOnce, HeldOnce, HeldNotStored, NoneLost, Held

LEMMA StillPoolsClean ==
    ASSUME PoolsClean, UNCHANGED <<items, content>>
    PROVE  PoolsClean'
  BY DEF PoolsClean

LEMMA InitEstablishesIInv == Init => IInv
<1> SUFFICES ASSUME Init PROVE IInv
  OBVIOUS
<1>1. /\ \A s \in Stores : items[s] \in Seq(Objects)
      /\ \A p \in Pools : items[p] = Stock[p]
      /\ \A q \in Queues : items[q] = <<>>
      /\ \A s \in Stores : s \in Pools \/ (s \in Queues /\ DOMAIN items[s] = {})
  <2>1. \A s \in Stores : items[s] = IF s \in Pools THEN Stock[s] ELSE <<>>
    BY DEF Init, InitialItems
  <2>2. \A p \in Pools : items[p] = Stock[p] /\ items[p] \in Seq(Objects)
    BY <2>1, StockAssumption DEF Stores
  <2>3. \A q \in Queues : items[q] = <<>> /\ DOMAIN items[q] = {}
    BY <2>1, StockAssumption DEF Stores
  <2>4. \A q \in Queues : items[q] \in Seq(Objects)
    <3>1. <<>> \in Seq(Objects)
      OBVIOUS
    <3>2. QED
      BY <2>3, <3>1
  <2>5. QED
    BY <2>2, <2>3, <2>4 DEF Stores
<1>2. TypeOK
  <2>1. items \in [Stores -> Seq(Objects)]
    BY <1>1 DEF Init, InitialItems
  <2>2. QED
    BY <2>1 DEF Init, TypeOK, PCs
<1>3. Held = {}
  BY DEF Init, Held
<1>4. OneOwner
  <2>1. StoredOnce
    BY <1>1, StockAssumption DEF StoredOnce, Stores
  <2>2. NoneLost
    BY <1>1, StockAssumption DEF NoneLost, Stores
  <2>3. QED
    BY <1>3, <2>1, <2>2 DEF OneOwner, HeldOnce, HeldNotStored, Init
<1>5. PoolsClean
  BY <1>1, HomeIsBuilder DEF PoolsClean, Init
<1>6. QED
  BY <1>2, <1>4, <1>5 DEF IInv, Init, CallKnown, HoldsWhenLive, NullMeansClosed

\* _get_data returns, at once or after a wait.
LEMMA TakeKeepsIInv ==
    ASSUME IInv, NEW a \in Acqs, NEW c \in Calls, pc[a] # "live",
           Take(a, c), UNCHANGED <<content, running, notifier>>
    PROVE  IInv'
<1> DEFINE s == StoreOf(c)
<1> USE DEF IInv
<1>1. s \in Stores /\ c.q \in Queues /\ data[a] = NULL
  BY StoreOfType DEF Calls, HoldsWhenLive
<1>2. CASE TakeObject(a, c)
  <2> DEFINE o == Head(items[s])
  <2>1. /\ items[s] # <<>>
        /\ items' = [items EXCEPT ![s] = Tail(@)]
        /\ data' = [data EXCEPT ![a] = o]
    BY <1>2 DEF TakeObject
  <2>2. o \in Objects /\ o # NULL /\ Tail(items[s]) \in Seq(Objects)
    BY <1>1, <2>1, TailAt, WorkerAssumption DEF TypeOK
  <2>3. Home[o] \in Pools
    BY <2>2, HomeIsBuilder
  <2>4. TypeOK'
    BY <1>1, <1>2, <2>1, <2>2, <2>3 DEF TypeOK, TakeObject, PCs
  <2>5. OneOwner'
    BY <1>1, <2>1, TakeKeepsOneOwner
  <2>6. PoolsClean'
    <3> SUFFICES ASSUME NEW p \in Pools, NEW i \in DOMAIN items'[p]
                 PROVE  Home[items'[p][i]] = p /\ content[items'[p][i]] = Blank
      BY DEF PoolsClean
    <3>1. CASE p = s
      <4>1. /\ items'[p] = Tail(items[p])
            /\ DOMAIN Tail(items[p]) = 1 .. Len(items[p]) - 1
            /\ DOMAIN items[p] = 1 .. Len(items[p])
            /\ Len(items[p]) \in Nat
            /\ \A j \in 1 .. Len(items[p]) - 1 : Tail(items[p])[j] = items[p][j + 1]
        BY <1>1, <2>1, <3>1, TailAt DEF TypeOK
      <4>2. i + 1 \in DOMAIN items[p] /\ items'[p][i] = items[p][i + 1]
        BY <4>1
      <4>3. QED
        BY <4>2 DEF PoolsClean
    <3>2. CASE p # s
      BY <1>1, <2>1, <3>2 DEF PoolsClean, TypeOK, Stores
    <3>3. QED
      BY <3>1, <3>2
  <2>7. CallKnown'
    BY <1>2 DEF TakeObject, CallKnown, TypeOK
  <2>8. HoldsWhenLive'
    BY <1>2, <2>2 DEF TakeObject, HoldsWhenLive, TypeOK
  <2>9. NullMeansClosed'
    BY <1>2, <2>2 DEF TakeObject, NullMeansClosed, TypeOK
  <2>10. QED
    BY <2>4, <2>5, <2>6, <2>7, <2>8, <2>9
<1>3. CASE TakeNull(a, c)
  <2>1. TypeOK'
    BY <1>1, <1>3 DEF TypeOK, TakeNull, PCs
  <2>2. OneOwner' /\ PoolsClean'
    BY <1>3, StillOneOwner, StillPoolsClean DEF TakeNull
  <2>3. CallKnown'
    BY <1>3 DEF TakeNull, CallKnown, TypeOK
  <2>4. HoldsWhenLive'
    BY <1>1, <1>3 DEF TakeNull, HoldsWhenLive, TypeOK
  <2>5. NullMeansClosed'
    BY <1>3 DEF TakeNull, NullMeansClosed, TypeOK
  <2>6. QED
    BY <2>1, <2>2, <2>3, <2>4, <2>5
<1>4. QED
  BY <1>2, <1>3 DEF Take

\* Steps of the constructor and of the client that change one acquisition's
\* fields only.
LEMMA OwnFieldsKeepIInv ==
    ASSUME IInv, NEW a \in Acqs,
           \/ \E c \in Calls : AcquireUnlock(a, c)
           \/ Wait(a) \/ WakeSpuriously(a) \/ CheckRunning(a) \/ Catch(a)
           \/ Enqueue(a) \/ (\E q \in Queues : EnqueueTo(a, q)) \/ Release(a)
    PROVE  IInv'
<1> USE DEF IInv
<1>1. UNCHANGED <<items, content, running, notifier, data, returnTo>>
  BY DEF AcquireUnlock, Wait, WakeSpuriously, CheckRunning, Catch, Enqueue, EnqueueTo, Release
<1>2. OneOwner' /\ PoolsClean'
  BY <1>1, StillOneOwner, StillPoolsClean
<1>3. TypeOK'
  <2>1. pc' \in [Acqs -> PCs]
    BY DEF TypeOK, PCs,
           AcquireUnlock, Wait, WakeSpuriously, CheckRunning, Catch, Enqueue, EnqueueTo, Release
  <2>2. call' \in [Acqs -> Calls \cup {NULL}]
    BY DEF TypeOK,
           AcquireUnlock, Wait, WakeSpuriously, CheckRunning, Catch, Enqueue, EnqueueTo, Release
  <2>3. enq' \in [Acqs -> BOOLEAN]
    BY DEF TypeOK,
           AcquireUnlock, Wait, WakeSpuriously, CheckRunning, Catch, Enqueue, EnqueueTo, Release
  <2>4. next' \in [Acqs -> Queues \cup {NULL}]
    BY DEF TypeOK,
           AcquireUnlock, Wait, WakeSpuriously, CheckRunning, Catch, Enqueue, EnqueueTo, Release
  <2>5. QED
    BY <1>1, <2>1, <2>2, <2>3, <2>4 DEF TypeOK
<1>4. CallKnown'
  BY DEF TypeOK, CallKnown,
         AcquireUnlock, Wait, WakeSpuriously, CheckRunning, Catch, Enqueue, EnqueueTo, Release
<1>5. HoldsWhenLive'
  BY DEF TypeOK, HoldsWhenLive,
         AcquireUnlock, Wait, WakeSpuriously, CheckRunning, Catch, Enqueue, EnqueueTo, Release
<1>6. NullMeansClosed'
  BY DEF TypeOK, NullMeansClosed,
         AcquireUnlock, Wait, WakeSpuriously, CheckRunning, Catch, Enqueue, EnqueueTo, Release
<1>7. QED
  BY <1>2, <1>3, <1>4, <1>5, <1>6

LEMMA FillKeepsIInv ==
    ASSUME IInv, NEW a \in Acqs, NEW v \in Values, Fill(a, v)
    PROVE  IInv'
<1> USE DEF IInv
<1>1. data[a] \in Objects /\ data[a] \in Held
  BY DEF Fill, TypeOK, Held
<1>2. TypeOK'
  BY <1>1 DEF Fill, acqVars, TypeOK
<1>3. OneOwner'
  BY StillOneOwner DEF Fill, acqVars
<1>4. PoolsClean'
  <2>1. \A p \in Pools : \A i \in DOMAIN items[p] :
            items[p][i] # data[a] /\ items[p][i] \in Objects
    <3> SUFFICES ASSUME NEW p \in Pools, NEW i \in DOMAIN items[p]
                 PROVE  items[p][i] # data[a] /\ items[p][i] \in Objects
      OBVIOUS
    <3>1. p \in Stores /\ items[p] \in Seq(Objects)
      BY DEF TypeOK, Stores
    <3>2. QED
      BY <1>1, <3>1 DEF OneOwner, HeldNotStored
  <2>2. QED
    BY <2>1 DEF Fill, PoolsClean, TypeOK
<1>5. QED
  BY <1>2, <1>3, <1>4 DEF Fill, acqVars, CallKnown, HoldsWhenLive, NullMeansClosed

LEMMA MoveKeepsIInv ==
    ASSUME IInv, NEW a \in Acqs, NEW b \in Acqs, Move(a, b)
    PROVE  IInv'
<1> USE DEF IInv
<1>1. a # b /\ data[b] = NULL
  BY DEF Move, HoldsWhenLive
<1>2. OneOwner'
  BY <1>1, MoveKeepsOneOwner DEF Move
<1>3. TypeOK'
  BY <1>1 DEF Move, TypeOK, PCs
<1>4. PoolsClean'
  BY StillPoolsClean DEF Move
<1>5. CallKnown'
  BY <1>1 DEF Move, CallKnown, TypeOK
<1>6. HoldsWhenLive'
  BY <1>1 DEF Move, HoldsWhenLive, TypeOK
<1>7. NullMeansClosed'
  BY <1>1 DEF Move, NullMeansClosed, CallKnown, TypeOK
<1>8. QED
  BY <1>2, <1>3, <1>4, <1>5, <1>6, <1>7

\* The destructor pushes the object, into the queue it goes on to or into the
\* pool that built it, wiped.
LEMMA PushKeepsIInv ==
    ASSUME IInv, NEW a \in Acqs, NEW s \in Stores,
           pc[a] = "live", data[a] # NULL,
           PushAndEnd(a, s), Forget(a), UNCHANGED <<running, notifier>>,
           \/ s \in Queues /\ UNCHANGED content
           \/ s = Home[data[a]] /\ content' = [content EXCEPT ![data[a]] = Blank]
    PROVE  IInv'
<1> DEFINE o == data[a]
<1> USE DEF IInv
<1>1. /\ items' = [items EXCEPT ![s] = Append(@, o)]
      /\ data' = [data EXCEPT ![a] = NULL]
      /\ o \in Objects
      /\ items[s] \in Seq(Objects)
  BY DEF PushAndEnd, Forget, TypeOK
<1>2. /\ pc' \in [Acqs -> PCs]
      /\ pc'[a] = "idle"
      /\ \A b \in Acqs \ {a} :
             pc'[b] = pc[b] \/ (pc[b] = "waiting" /\ pc'[b] = "notified")
  BY NotifyOneEffect DEF PushAndEnd
<1>3. TypeOK'
  <2>1. items' \in [Stores -> Seq(Objects)]
    BY <1>1, AppendAt DEF TypeOK
  <2>2. content' \in [Objects -> Values \cup {Blank}]
    BY <1>1 DEF TypeOK
  <2>3. enq' \in [Acqs -> BOOLEAN]
    BY DEF TypeOK, Forget
  <2>4. QED
    BY <1>2, <2>1, <2>2, <2>3 DEF TypeOK, Forget
<1>4. OneOwner'
  BY <1>1, PushKeepsOneOwner
<1>5. PoolsClean'
  <2> SUFFICES ASSUME NEW p \in Pools, NEW i \in DOMAIN items'[p]
               PROVE  Home[items'[p][i]] = p /\ content'[items'[p][i]] = Blank
    BY DEF PoolsClean
  <2>1. p \in Stores /\ items[p] \in Seq(Objects)
    BY DEF Stores, TypeOK
  <2>2. \/ p = s /\ items'[p][i] = o
        \/ i \in DOMAIN items[p] /\ items'[p][i] = items[p][i]
    <3>1. CASE p = s
      <4>1. items'[p] = Append(items[p], o)
        BY <1>1, <2>1, <3>1 DEF TypeOK
      <4>2. /\ DOMAIN Append(items[p], o) = 1 .. Len(items[p]) + 1
            /\ DOMAIN items[p] = 1 .. Len(items[p])
            /\ Len(items[p]) \in Nat
            /\ \A j \in 1 .. Len(items[p]) : Append(items[p], o)[j] = items[p][j]
            /\ Append(items[p], o)[Len(items[p]) + 1] = o
        BY <1>1, <2>1, AppendAt
      <4>3. i \in DOMAIN items[p] \/ i = Len(items[p]) + 1
        BY <4>1, <4>2
      <4>4. QED
        BY <3>1, <4>1, <4>2, <4>3
    <3>2. CASE p # s
      BY <1>1, <2>1, <3>2 DEF TypeOK
    <3>3. QED
      BY <3>1, <3>2
  <2>3. CASE p = s /\ items'[p][i] = o
    <3>1. s \notin Queues
      BY <2>3, StockAssumption
    <3>2. p = Home[o] /\ content' = [content EXCEPT ![o] = Blank]
      BY <2>3, <3>1
    <3>3. content'[o] = Blank
      BY <1>1, <3>2 DEF TypeOK
    <3>4. QED
      BY <2>3, <3>2, <3>3
  <2>4. CASE i \in DOMAIN items[p] /\ items'[p][i] = items[p][i]
    <3>1. items[p][i] \in Objects
      BY <2>1, <2>4
    <3>2. Home[items[p][i]] = p /\ content[items[p][i]] = Blank
      BY <2>4 DEF PoolsClean
    <3>3. content'[items[p][i]] = Blank
      BY <1>1, <3>1, <3>2 DEF TypeOK
    <3>4. QED
      BY <2>4, <3>2, <3>3
  <2>5. QED
    BY <2>2, <2>3, <2>4
<1>6. CallKnown'
  BY <1>2 DEF CallKnown, Forget, TypeOK
<1>7. HoldsWhenLive'
  BY <1>2 DEF HoldsWhenLive, Forget, TypeOK
<1>8. NullMeansClosed'
  BY <1>2 DEF NullMeansClosed, Forget, TypeOK
<1>9. QED
  BY <1>3, <1>4, <1>5, <1>6, <1>7, <1>8

LEMMA DestroyKeepsIInv ==
    ASSUME IInv, NEW a \in Acqs, Destroy(a)
    PROVE  IInv'
<1> USE DEF IInv
<1>1. CASE DestroyNull(a)
  <2>1. UNCHANGED data
    BY <1>1 DEF DestroyNull, Forget, TypeOK
  <2>2. OneOwner' /\ PoolsClean'
    BY <1>1, <2>1, StillOneOwner, StillPoolsClean DEF DestroyNull
  <2>3. TypeOK'
    <3>1. enq' \in [Acqs -> BOOLEAN]
      BY <1>1 DEF DestroyNull, Forget, TypeOK
    <3>2. QED
      BY <1>1, <3>1 DEF DestroyNull, Forget, TypeOK, PCs
  <2>4. CallKnown' /\ HoldsWhenLive' /\ NullMeansClosed'
    BY <1>1 DEF DestroyNull, Forget, TypeOK, CallKnown, HoldsWhenLive, NullMeansClosed
  <2>5. QED
    BY <2>2, <2>3, <2>4
<1>2. CASE DestroyEnqueue(a)
  <2>1. next[a] \in Queues /\ next[a] \in Stores
    BY <1>2 DEF DestroyEnqueue, GoesOn, TypeOK, Stores
  <2>2. QED
    BY <1>2, <2>1, PushKeepsIInv DEF DestroyEnqueue
<1>3. CASE DestroyReturn(a)
  <2>1. returnTo[a] = Home[data[a]] /\ returnTo[a] \in Stores
    BY <1>3, HomeIsBuilder DEF DestroyReturn, HoldsWhenLive, TypeOK, Stores
  <2>2. QED
    BY <1>3, <2>1, PushKeepsIInv DEF DestroyReturn
<1>4. QED
  BY <1>1, <1>2, <1>3 DEF Destroy

LEMMA CloserKeepsIInv ==
    ASSUME IInv, NEW c \in Closers,
           (\E q \in Queues : Close(c, q) \/ NotifyAll(c, q)) \/ Notifying(c)
    PROVE  IInv'
<1> USE DEF IInv
<1>1. UNCHANGED <<items, content, call, data, enq, next, returnTo>>
  BY DEF Close, NotifyAll, Notifying, MarkClosed, NotifyUnused, NotifyQueued, acqVars
<1>2. OneOwner' /\ PoolsClean'
  BY <1>1, StillOneOwner, StillPoolsClean
<1>3. /\ pc' \in [Acqs -> PCs]
      /\ \A b \in Acqs :
             pc'[b] = pc[b] \/ (pc[b] = "waiting" /\ pc'[b] = "notified")
  <2>1. CASE UNCHANGED pc
    BY <2>1 DEF TypeOK
  <2>2. CASE \E s : WakeAll(s)
    BY <2>2, WakeAllEffect
  <2>3. QED
    BY <2>1, <2>2 DEF Close, NotifyAll, Notifying, MarkClosed, NotifyUnused, NotifyQueued, acqVars
<1>4. /\ running' \in [Queues -> BOOLEAN]
      /\ \A q \in Queues : ~running[q] => ~running'[q]
  BY DEF TypeOK, Close, NotifyAll, Notifying, MarkClosed, NotifyUnused, NotifyQueued, acqVars
<1>5. notifier' \in [Closers -> [q : Queues, at : Phases] \cup {NULL}]
  <2>1. notifier \in [Closers -> [q : Queues, at : Phases] \cup {NULL}]
    BY DEF TypeOK
  <2>2. ASSUME NEW q \in Queues, Close(c, q) \/ NotifyAll(c, q)
        PROVE  notifier' \in [Closers -> [q : Queues, at : Phases] \cup {NULL}]
    <3>1. \A at \in Phases : [q |-> q, at |-> at] \in [q : Queues, at : Phases]
      OBVIOUS
    <3>2. QED
      BY <2>1, <2>2, <3>1 DEF Close, NotifyAll, Phases
  <2>3. CASE MarkClosed(c) \/ NotifyUnused(c)
    <3>1. \A n \in [q : Queues, at : Phases], at \in Phases :
              [n EXCEPT !.at = at] \in [q : Queues, at : Phases]
      OBVIOUS
    <3>2. notifier[c] \in [q : Queues, at : Phases]
      BY <2>1, <2>3 DEF MarkClosed, NotifyUnused
    <3>3. QED
      BY <2>1, <2>3, <3>1, <3>2 DEF MarkClosed, NotifyUnused, Phases
  <2>4. CASE NotifyQueued(c)
    BY <2>1, <2>4 DEF NotifyQueued
  <2>5. QED
    BY <2>2, <2>3, <2>4 DEF Notifying
<1>6. TypeOK'
  BY <1>1, <1>3, <1>4, <1>5 DEF TypeOK
<1>7. CallKnown' /\ HoldsWhenLive'
  BY <1>1, <1>3 DEF CallKnown, HoldsWhenLive
<1>8. NullMeansClosed'
  BY <1>1, <1>3, <1>4 DEF NullMeansClosed, TypeOK, Calls
<1>9. QED
  BY <1>2, <1>6, <1>7, <1>8

THEOREM IInvIsInductive == IInv /\ [Next]_vars => IInv'
<1> SUFFICES ASSUME IInv, [Next]_vars PROVE IInv'
  OBVIOUS
<1>1. ASSUME NEW a \in Acqs, Client(a) PROVE IInv'
  <2>1. ASSUME NEW c \in Calls, Acquire(a, c) PROVE IInv'
    BY <2>1, TakeKeepsIInv DEF Acquire
  <2>2. ASSUME NEW b \in Acqs, Move(a, b) PROVE IInv'
    BY <2>2, MoveKeepsIInv
  <2>3. QED
    BY <1>1, <2>1, <2>2, OwnFieldsKeepIInv, FillKeepsIInv, DestroyKeepsIInv DEF Client
<1>2. ASSUME NEW a \in Acqs, Constructing(a) \/ WakeSpuriously(a) PROVE IInv'
  <2>1. CASE Resume(a)
    <3>1. call[a] \in Calls
      BY <2>1 DEF Resume, IInv, CallKnown
    <3>2. QED
      BY <2>1, <3>1, TakeKeepsIInv DEF Resume
  <2>2. QED
    BY <1>2, <2>1, OwnFieldsKeepIInv DEF Constructing
<1>3. CASE UNCHANGED vars
  BY <1>3, StillOneOwner, StillPoolsClean
     DEF vars, acqVars, IInv, TypeOK, CallKnown, HoldsWhenLive, NullMeansClosed
<1>4. QED
  BY <1>1, <1>2, <1>3, CloserKeepsIInv DEF Next

\* Every state the library reaches satisfies the inductive invariant.
THEOREM InvariantHolds == Spec => []IInv
<1>1. QED
  BY InitEstablishesIInv, IInvIsInductive, PTL DEF Spec

\* Objects, queues and acquisitions keep their types.
THEOREM TypeCorrect == Spec => []TypeOK
<1>1. IInv => TypeOK
  BY DEF IInv
<1>2. QED
  BY <1>1, InvariantHolds, PTL

\* At all times every object is in one position of one store or in one
\* acquisition: it is neither shared nor lost.
THEOREM OneOwnerAlways == Spec => []OneOwner
<1>1. IInv => OneOwner
  BY DEF IInv
<1>2. QED
  BY <1>1, InvariantHolds, PTL

\* A pool holds only objects it built, and they have been reset.
THEOREM PoolsAlwaysClean == Spec => []PoolsClean
<1>1. IInv => PoolsClean
  BY DEF IInv
<1>2. QED
  BY <1>1, InvariantHolds, PTL

\* A blocking call for an unused object comes back without one only when the
\* queue it was made on has been closed.
THEOREM NullAlwaysMeansClosed == Spec => []NullMeansClosed
<1>1. IInv => NullMeansClosed
  BY DEF IInv
<1>2. QED
  BY <1>1, InvariantHolds, PTL

------------------------------------------------------------------------------
(* For the clients of the library: what a step leaves of the other         *)
(* acquisitions, and what it puts into a queue.                            *)

\* A client that holds an object writes into it and calls enqueue(q).
HandOver(a, v, q) ==
    /\ pc[a] = "live"
    /\ data[a] # NULL
    /\ content' = [content EXCEPT ![data[a]] = v]
    /\ enq' = [enq EXCEPT ![a] = TRUE]
    /\ next' = [next EXCEPT ![a] = q]
    /\ UNCHANGED <<items, running, notifier, pc, call, data, returnTo>>

\* The constructor of a runs, or has thrown, with the arguments c.
InCall(a, c) ==
    pc[a] \in {"unlocked", "waiting", "notified", "empty", "thrown"} /\ call[a] = c

\* At most, b has been woken.
Undisturbed(b) ==
    /\ pc'[b] = pc[b] \/ (pc[b] = "waiting" /\ pc'[b] = "notified")
    /\ call'[b] = call[b]
    /\ data'[b] = data[b]
    /\ enq'[b] = enq[b]
    /\ next'[b] = next[b]

\* Any step of a blocking constructor with the arguments c, from its call on.
BlockingCall(a, c) ==
    \/ Acquire(a, c)
    \/ AcquireUnlock(a, c)
    \/ InCall(a, c) /\ Constructing(a)

\* The object of b keeps its contents, too.
Untouched(b) ==
    Undisturbed(b) /\ (data[b] # NULL => content'[data[b]] = content[data[b]])

\* Neither the queue nor what lies in it changes.
QueueStill(q) ==
    /\ items'[q] = items[q]
    /\ \A i \in DOMAIN items[q] : content'[items[q][i]] = content[items[q][i]]

\* Whatever happens to one acquisition, but for moves.
OwnStep(a) ==
    \/ \E c \in Calls : Acquire(a, c) \/ AcquireUnlock(a, c)
    \/ Constructing(a) \/ WakeSpuriously(a) \/ Catch(a)
    \/ \E v \in Values : Fill(a, v)
    \/ Enqueue(a)
    \/ \E q \in Queues : EnqueueTo(a, q)
    \/ \E v \in Values, q \in Queues : HandOver(a, v, q)
    \/ Release(a)
    \/ Destroy(a)

ClosingStep(c) == (\E q \in Queues : Close(c, q) \/ NotifyAll(c, q)) \/ Notifying(c)

\* A kind of contents for each queue: what lies in it, and what is bound for it.
QueuesHold(K) ==
    \A q \in Queues : \A i \in DOMAIN items[q] : content[items[q][i]] \in K[q]
BoundFor(K) ==
    \A a \in Acqs : data[a] # NULL /\ GoesOn(a) => content[data[a]] \in K[next[a]]

\* A write to a held object reaches nothing that is stored or held by others.
LEMMA WriteStaysPrivate ==
    ASSUME IInv, NEW a \in Acqs, data[a] # NULL, NEW v,
           content' = [content EXCEPT ![data[a]] = v]
    PROVE  /\ data[a] \in Objects
           /\ content'[data[a]] = v
           /\ \A s \in Stores : \A i \in DOMAIN items[s] :
                  items[s][i] # data[a] /\ content'[items[s][i]] = content[items[s][i]]
           /\ \A b \in Acqs \ {a} : data[b] # NULL =>
                  data[b] # data[a] /\ content'[data[b]] = content[data[b]]
<1> USE DEF IInv
<1>1. data[a] \in Objects /\ data[a] \in Held
  BY DEF TypeOK, Held
<1>2. content'[data[a]] = v /\ \A o \in Objects \ {data[a]} : content'[o] = content[o]
  BY <1>1 DEF TypeOK
<1>3. ASSUME NEW s \in Stores, NEW i \in DOMAIN items[s]
      PROVE  items[s][i] # data[a] /\ content'[items[s][i]] = content[items[s][i]]
  <2>1. items[s] \in Seq(Objects)
    BY DEF TypeOK
  <2>2. items[s][i] \in Objects
    BY <2>1
  <2>3. QED
    BY <1>1, <1>2, <2>2 DEF OneOwner, HeldNotStored
<1>4. ASSUME NEW b \in Acqs \ {a}, data[b] # NULL
      PROVE  data[b] # data[a] /\ content'[data[b]] = content[data[b]]
  <2>1. data[b] \in Objects /\ data[b] # data[a]
    BY <1>4 DEF TypeOK, OneOwner, HeldOnce
  <2>2. QED
    BY <1>2, <2>1
<1>5. QED
  BY <1>1, <1>2, <1>3, <1>4

LEMMA HandOverKeepsIInv ==
    ASSUME IInv, NEW a \in Acqs, NEW v \in Values, NEW q \in Queues, HandOver(a, v, q)
    PROVE  IInv'
<1>1. \A s \in Stores : \A i \in DOMAIN items[s] :
          items[s][i] # data[a] /\ content'[items[s][i]] = content[items[s][i]]
  <2>1. data[a] # NULL /\ content' = [content EXCEPT ![data[a]] = v]
    BY DEF HandOver
  <2>2. QED
    BY <2>1, WriteStaysPrivate
<1> USE DEF IInv, HandOver
<1>2. TypeOK'
  <2>1. data[a] \in Objects
    BY DEF TypeOK
  <2>2. content' \in [Objects -> Values \cup {Blank}]
    BY <2>1 DEF TypeOK
  <2>3. enq' \in [Acqs -> BOOLEAN] /\ next' \in [Acqs -> Queues \cup {NULL}]
    BY DEF TypeOK
  <2>4. QED
    BY <2>2, <2>3 DEF TypeOK
<1>3. OneOwner'
  BY StillOneOwner
<1>4. PoolsClean'
  BY <1>1 DEF PoolsClean, Stores
<1>5. QED
  BY <1>2, <1>3, <1>4 DEF CallKnown, HoldsWhenLive, NullMeansClosed

\* A constructor that returns takes the head of its store, or nothing.
LEMMA TakeEffect ==
    ASSUME IInv, NEW a \in Acqs, NEW c \in Calls, pc[a] # "live", Take(a, c)
    PROVE  /\ enq'[a] = FALSE
           /\ \A b \in Acqs \ {a} : Undisturbed(b)
           /\ \/ /\ pc'[a] = "live"
                 /\ items[StoreOf(c)] # <<>>
                 /\ data'[a] = Head(items[StoreOf(c)])
                 /\ data'[a] \in Objects
                 /\ data'[a] # NULL
                 /\ items' = [items EXCEPT ![StoreOf(c)] = Tail(@)]
              \/ /\ items[StoreOf(c)] = <<>>
                 /\ data'[a] = NULL
                 /\ call'[a] = c
                 /\ pc'[a] = IF c.f = "BLOCKING" /\ c.t = "UNUSED" THEN "empty" ELSE "live"
                 /\ items' = items
<1> USE DEF IInv
<1>1. CASE TakeObject(a, c)
  <2>1. StoreOf(c) \in Stores
    BY StoreOfType
  <2>2. items[StoreOf(c)] \in Seq(Objects) /\ items[StoreOf(c)] # <<>>
    BY <1>1, <2>1 DEF TypeOK, TakeObject
  <2>3. Head(items[StoreOf(c)]) \in Objects /\ Head(items[StoreOf(c)]) # NULL
    BY <2>2, TailAt, WorkerAssumption
  <2>4. QED
    BY <1>1, <2>2, <2>3 DEF TakeObject, TypeOK, Undisturbed
<1>2. CASE TakeNull(a, c)
  <2>1. data[a] = NULL
    BY DEF HoldsWhenLive
  <2>2. QED
    BY <1>2, <2>1 DEF TakeNull, TypeOK, Undisturbed
<1>3. QED
  BY <1>1, <1>2 DEF Take

\* A destructor puts its object at the tail of the queue it goes on to, as it
\* is, or changes no queue.
LEMMA DestroyEffect ==
    ASSUME IInv, NEW a \in Acqs, Destroy(a)
    PROVE  /\ pc[a] = "live" /\ pc'[a] = "idle"
           /\ call'[a] = NULL
           /\ data'[a] = NULL
           /\ enq'[a] = FALSE
           /\ \A b \in Acqs \ {a} : Undisturbed(b)
           /\ \/ /\ data[a] # NULL
                 /\ GoesOn(a)
                 /\ next[a] \in Queues
                 /\ items' = [items EXCEPT ![next[a]] = Append(@, data[a])]
                 /\ UNCHANGED content
              \/ /\ data[a] # NULL
                 /\ ~GoesOn(a)
                 /\ items' = [items EXCEPT ![Home[data[a]]] = Append(@, data[a])]
                 /\ \A q \in Queues : items'[q] = items[q]
                 /\ content' = [content EXCEPT ![data[a]] = Blank]
              \/ /\ data[a] = NULL
                 /\ UNCHANGED <<items, content>>
<1> USE DEF IInv
<1>1. CASE DestroyNull(a)
  BY <1>1 DEF DestroyNull, Forget, TypeOK, Undisturbed
<1>2. ASSUME NEW s, pc[a] = "live", PushAndEnd(a, s), Forget(a)
      PROVE  /\ pc'[a] = "idle" /\ call'[a] = NULL /\ data'[a] = NULL /\ enq'[a] = FALSE
             /\ \A b \in Acqs \ {a} : Undisturbed(b)
  <2>1. /\ pc'[a] = "idle"
        /\ \A b \in Acqs \ {a} :
               pc'[b] = pc[b] \/ (pc[b] = "waiting" /\ pc'[b] = "notified")
    BY <1>2, NotifyOneEffect DEF PushAndEnd
  <2>2. QED
    BY <1>2, <2>1 DEF Forget, TypeOK, Undisturbed
<1>3. CASE DestroyEnqueue(a)
  BY <1>2, <1>3 DEF DestroyEnqueue, GoesOn, PushAndEnd, TypeOK
<1>4. CASE DestroyReturn(a)
  <2>1. returnTo[a] = Home[data[a]] /\ Home[data[a]] \in Pools
    BY <1>4, HomeIsBuilder DEF DestroyReturn, HoldsWhenLive, TypeOK
  <2>2. /\ items' = [items EXCEPT ![Home[data[a]]] = Append(@, data[a])]
        /\ content' = [content EXCEPT ![data[a]] = Blank]
    BY <1>4, <2>1 DEF DestroyReturn, PushAndEnd
  <2>3. \A q \in Queues : items'[q] = items[q]
    BY <2>1, <2>2, StockAssumption DEF TypeOK, Stores
  <2>4. QED
    BY <1>2, <1>4, <2>2, <2>3 DEF DestroyReturn
<1>5. QED
  BY <1>1, <1>3, <1>4 DEF Destroy

\* Whoever a destructor wakes finds an object, and it leaves no store empty.
LEMMA DestroyWakesForObject ==
    ASSUME IInv, NEW a \in Acqs, Destroy(a)
    PROVE  /\ \A s \in Stores : items[s] # <<>> => items'[s] # <<>>
           /\ \A b \in Acqs \ {a} :
                  pc'[b] # pc[b] => pc[b] = "waiting" /\ items'[StoreOf(call[b])] # <<>>
<1> USE DEF IInv
<1>1. CASE DestroyNull(a)
  BY <1>1 DEF DestroyNull, TypeOK
<1>2. ASSUME NEW s \in Stores, PushAndEnd(a, s), data[a] \in Objects
      PROVE  /\ \A t \in Stores : items[t] # <<>> => items'[t] # <<>>
             /\ \A b \in Acqs \ {a} :
                    pc'[b] # pc[b] => pc[b] = "waiting" /\ items'[StoreOf(call[b])] # <<>>
  <2>1. items[s] \in Seq(Objects) /\ Append(items[s], data[a]) # <<>>
    <3>1. items[s] \in Seq(Objects)
      BY <1>2 DEF TypeOK
    <3>2. QED
      BY <1>2, <3>1
  <2>2. items'[s] # <<>> /\ \A t \in Stores \ {s} : items'[t] = items[t]
    BY <1>2, <2>1 DEF PushAndEnd, TypeOK
  <2>3. \A b \in Acqs \ {a} : pc'[b] # pc[b] => b \in WaitersOn(s)
    BY <1>2 DEF PushAndEnd, NotifyOneAndEnd, TypeOK
  <2>4. QED
    BY <2>2, <2>3 DEF WaitersOn
<1>3. CASE DestroyEnqueue(a)
  BY <1>2, <1>3 DEF DestroyEnqueue, GoesOn, TypeOK, Stores
<1>4. CASE DestroyReturn(a)
  <2>1. data[a] \in Objects /\ Home[data[a]] \in Stores
    BY <1>4, HomeIsBuilder DEF DestroyReturn, TypeOK, Stores
  <2>2. PushAndEnd(a, Home[data[a]])
    BY <1>4 DEF DestroyReturn, HoldsWhenLive
  <2>3. QED
    BY <1>2, <2>1, <2>2
<1>5. QED
  BY <1>1, <1>3, <1>4 DEF Destroy

LEMMA MoveEffect ==
    ASSUME IInv, NEW a \in Acqs, NEW b \in Acqs, Move(a, b)
    PROVE  /\ pc[a] = "live" /\ pc'[a] = "live" /\ pc[b] = "idle" /\ pc'[b] = "live"
           /\ data'[b] = data[a] /\ data'[a] = NULL
           /\ enq'[b] = enq[a] /\ enq'[a] = FALSE
           /\ UNCHANGED <<items, content, running, notifier>>
           /\ \A c \in Acqs \ {a, b} : Untouched(c)
  BY DEF IInv, TypeOK, Move, Untouched, Undisturbed

LEMMA OwnStepKeepsIInv ==
    ASSUME IInv, NEW a \in Acqs, OwnStep(a)
    PROVE  IInv'
<1>1. CASE \E v \in Values, q \in Queues : HandOver(a, v, q)
  BY <1>1, HandOverKeepsIInv
<1>2. CASE Client(a) \/ Constructing(a) \/ WakeSpuriously(a)
  BY <1>2, IInvIsInductive DEF Next
<1>3. QED
  BY <1>1, <1>2 DEF OwnStep, Client

LEMMA ClosingStepKeepsIInv ==
    ASSUME IInv, NEW c \in Closers, ClosingStep(c)
    PROVE  IInv'
  BY CloserKeepsIInv DEF ClosingStep

LEMMA StillIInv ==
    ASSUME IInv, UNCHANGED vars
    PROVE  IInv'
  BY IInvIsInductive

\* What happens to one acquisition does not touch the others.
LEMMA OwnStepAlone ==
    ASSUME IInv, NEW a \in Acqs, OwnStep(a)
    PROVE  \A b \in Acqs \ {a} : Untouched(b)
<1>1. CASE \/ \E c \in Calls : AcquireUnlock(a, c)
           \/ Wait(a) \/ CheckRunning(a) \/ WakeSpuriously(a) \/ Catch(a)
           \/ Enqueue(a) \/ (\E q \in Queues : EnqueueTo(a, q)) \/ Release(a)
  BY <1>1 DEF AcquireUnlock, Wait, CheckRunning, WakeSpuriously, Catch, Enqueue, EnqueueTo,
              Release, Untouched, Undisturbed, IInv, TypeOK
<1>2. ASSUME NEW c \in Calls, pc[a] # "live", Take(a, c), UNCHANGED content
      PROVE  \A b \in Acqs \ {a} : Untouched(b)
  BY <1>2, TakeEffect DEF Untouched
<1>3. CASE (\E c \in Calls : Acquire(a, c)) \/ Resume(a)
  <2>1. Resume(a) => call[a] \in Calls
    BY DEF Resume, IInv, CallKnown
  <2>2. QED
    BY <1>2, <1>3, <2>1 DEF Acquire, Resume
<1>4. ASSUME NEW v, data[a] # NULL, content' = [content EXCEPT ![data[a]] = v],
             \A b \in Acqs \ {a} : Undisturbed(b)
      PROVE  \A b \in Acqs \ {a} : Untouched(b)
  <2>1. \A b \in Acqs \ {a} : data[b] # NULL =>
            data[b] # data[a] /\ content'[data[b]] = content[data[b]]
    BY <1>4, WriteStaysPrivate
  <2>2. QED
    BY <1>4, <2>1 DEF Untouched
<1>5. CASE \E v \in Values : Fill(a, v)
  <2>1. \A b \in Acqs \ {a} : Undisturbed(b)
    BY <1>5 DEF Fill, acqVars, Undisturbed
  <2>2. QED
    BY <1>4, <1>5, <2>1 DEF Fill
<1>6. CASE \E v \in Values, q \in Queues : HandOver(a, v, q)
  <2>1. \A b \in Acqs \ {a} : Undisturbed(b)
    BY <1>6 DEF HandOver, Undisturbed, IInv, TypeOK
  <2>2. QED
    BY <1>4, <1>6, <2>1 DEF HandOver
<1>7. CASE Destroy(a)
  <2>1. \A b \in Acqs \ {a} : Undisturbed(b)
    BY <1>7, DestroyEffect
  <2>2. CASE UNCHANGED content
    BY <2>1, <2>2 DEF Untouched
  <2>3. CASE data[a] # NULL /\ content' = [content EXCEPT ![data[a]] = Blank]
    BY <1>4, <2>1, <2>3
  <2>4. QED
    BY <1>7, <2>2, <2>3, DestroyEffect
<1>8. QED
  BY <1>1, <1>3, <1>5, <1>6, <1>7 DEF OwnStep, Constructing

LEMMA ClosingStepAlone ==
    ASSUME IInv, NEW c \in Closers, ClosingStep(c)
    PROVE  (\A b \in Acqs : Untouched(b)) /\ (\A q \in Queues : QueueStill(q))
<1>1. UNCHANGED <<items, content, call, data, enq, next>>
  BY DEF ClosingStep, Close, NotifyAll, Notifying, MarkClosed, NotifyUnused, NotifyQueued, acqVars
<1>2. \A b \in Acqs : pc'[b] = pc[b] \/ (pc[b] = "waiting" /\ pc'[b] = "notified")
  <2>1. CASE \E s : WakeAll(s)
    BY <2>1, WakeAllEffect DEF IInv
  <2>2. CASE UNCHANGED pc
    BY <2>2
  <2>3. QED
    BY <2>1, <2>2
       DEF ClosingStep, Close, NotifyAll, Notifying, MarkClosed, NotifyUnused, NotifyQueued, acqVars
<1>3. QED
  BY <1>1, <1>2 DEF Untouched, Undisturbed, QueueStill

LEMMA StillAlone ==
    ASSUME UNCHANGED vars
    PROVE  (\A b \in Acqs : Untouched(b)) /\ (\A q \in Queues : QueueStill(q))
  BY DEF vars, acqVars, Untouched, Undisturbed, QueueStill

\* A queue changes only when an object is taken from it or put into it.
LEMMA OwnStepOnQueue ==
    ASSUME IInv, NEW a \in Acqs, OwnStep(a), NEW q \in Queues
    PROVE  \/ QueueStill(q)
           \/ /\ UNCHANGED content
              /\ items[q] # <<>>
              /\ items'[q] = Tail(items[q])
              /\ data'[a] = Head(items[q])
              /\ pc[a] \in {"idle", "notified"}
           \/ /\ UNCHANGED content
              /\ Destroy(a)
              /\ data[a] # NULL
              /\ GoesOn(a) /\ next[a] = q
              /\ items'[q] = Append(items[q], data[a])
<1> DEFINE Taken == /\ UNCHANGED content
                    /\ items[q] # <<>>
                    /\ items'[q] = Tail(items[q])
                    /\ data'[a] = Head(items[q])
<1>1. ASSUME NEW c \in Calls, pc[a] # "live", Take(a, c), UNCHANGED content
      PROVE  QueueStill(q) \/ Taken
  <2>1. CASE StoreOf(c) = q
    BY <1>1, <2>1, TakeEffect DEF QueueStill, IInv, TypeOK, Stores
  <2>2. CASE StoreOf(c) # q
    BY <1>1, <2>2, TakeEffect DEF QueueStill, IInv, TypeOK, Stores
  <2>3. QED
    BY <2>1, <2>2
<1>2. CASE \E c \in Calls : Acquire(a, c)
  BY <1>1, <1>2 DEF Acquire
<1>3. CASE Resume(a)
  <2>1. call[a] \in Calls
    BY <1>3 DEF Resume, IInv, CallKnown
  <2>2. QED
    BY <1>1, <1>3, <2>1 DEF Resume
<1>4. ASSUME NEW v, data[a] # NULL, content' = [content EXCEPT ![data[a]] = v],
             items'[q] = items[q]
      PROVE  QueueStill(q)
  <2>1. \A s \in Stores : \A i \in DOMAIN items[s] :
            items[s][i] # data[a] /\ content'[items[s][i]] = content[items[s][i]]
    BY <1>4, WriteStaysPrivate
  <2>2. QED
    BY <1>4, <2>1 DEF QueueStill, Stores
<1>5. CASE Destroy(a)
  <2>1. CASE /\ data[a] # NULL /\ GoesOn(a) /\ next[a] \in Queues
             /\ items' = [items EXCEPT ![next[a]] = Append(@, data[a])]
             /\ UNCHANGED content
    BY <1>5, <2>1 DEF QueueStill, IInv, TypeOK, Stores
  <2>2. CASE /\ data[a] # NULL /\ (\A r \in Queues : items'[r] = items[r])
             /\ content' = [content EXCEPT ![data[a]] = Blank]
    BY <1>4, <2>2
  <2>3. CASE UNCHANGED <<items, content>>
    BY <2>3 DEF QueueStill
  <2>4. QED
    BY <1>5, <2>1, <2>2, <2>3, DestroyEffect
<1>6. CASE \E v \in Values : Fill(a, v)
  BY <1>4, <1>6 DEF Fill
<1>7. CASE \E v \in Values, r \in Queues : HandOver(a, v, r)
  BY <1>4, <1>7 DEF HandOver
<1>8. CASE UNCHANGED <<items, content>>
  BY <1>8 DEF QueueStill
<1>9. QED
  BY <1>2, <1>3, <1>5, <1>6, <1>7, <1>8
     DEF OwnStep, Constructing, AcquireUnlock, Wait, CheckRunning, WakeSpuriously, Catch,
         Enqueue, EnqueueTo, Release

\* Kinds are kept if what a itself is about to enqueue is of the right kind.
LEMMA OwnStepKeepsKinds ==
    ASSUME IInv, NEW K, QueuesHold(K), BoundFor(K), NEW a \in Acqs, OwnStep(a),
           (data[a] # NULL /\ GoesOn(a) => content[data[a]] \in K[next[a]])'
    PROVE  QueuesHold(K)' /\ BoundFor(K)'
<1>1. BoundFor(K)'
  BY OwnStepAlone DEF BoundFor, GoesOn, Untouched, Undisturbed
<1>2. ASSUME NEW q \in Queues, NEW i \in DOMAIN items'[q]
      PROVE  content'[items'[q][i]] \in K[q]
  <2>1. items[q] \in Seq(Objects)
    BY DEF IInv, TypeOK, Stores
  <2>2. CASE QueueStill(q)
    BY <2>2 DEF QueueStill, QueuesHold
  <2>3. CASE UNCHANGED content /\ items[q] # <<>> /\ items'[q] = Tail(items[q])
    <3>1. /\ DOMAIN Tail(items[q]) = 1 .. Len(items[q]) - 1
          /\ DOMAIN items[q] = 1 .. Len(items[q])
          /\ Len(items[q]) \in Nat
          /\ \A j \in 1 .. Len(items[q]) - 1 : Tail(items[q])[j] = items[q][j + 1]
      BY <2>1, <2>3, TailAt
    <3>2. i + 1 \in DOMAIN items[q] /\ items'[q][i] = items[q][i + 1]
      BY <2>3, <3>1
    <3>3. QED
      BY <2>3, <3>2 DEF QueuesHold
  <2>4. CASE /\ UNCHANGED content /\ data[a] # NULL /\ GoesOn(a) /\ next[a] = q
             /\ items'[q] = Append(items[q], data[a])
    <3>1. data[a] \in Objects /\ content[data[a]] \in K[q]
      BY <2>4 DEF BoundFor, IInv, TypeOK
    <3>2. /\ DOMAIN Append(items[q], data[a]) = 1 .. Len(items[q]) + 1
          /\ DOMAIN items[q] = 1 .. Len(items[q])
          /\ Len(items[q]) \in Nat
          /\ \A j \in 1 .. Len(items[q]) : Append(items[q], data[a])[j] = items[q][j]
          /\ Append(items[q], data[a])[Len(items[q]) + 1] = data[a]
      BY <2>1, <3>1, AppendAt
    <3>3. i = Len(items[q]) + 1 \/ i \in DOMAIN items[q]
      BY <2>4, <3>2
    <3>4. QED
      BY <2>4, <3>1, <3>2, <3>3 DEF QueuesHold
  <2>5. QED
    BY <2>2, <2>3, <2>4, OwnStepOnQueue
<1>3. QED
  BY <1>1, <1>2 DEF QueuesHold

\* So are they when no acquisition and no queue is touched.
LEMMA UntouchedKeepsKinds ==
    ASSUME NEW K, QueuesHold(K), BoundFor(K),
           \A b \in Acqs : Untouched(b), \A q \in Queues : QueueStill(q)
    PROVE  QueuesHold(K)' /\ BoundFor(K)'
  BY DEF QueuesHold, BoundFor, GoesOn, Untouched, Undisturbed, QueueStill

LEMMA OwnStepLeavesClosers ==
    ASSUME NEW a \in Acqs, OwnStep(a)
    PROVE  UNCHANGED <<running, notifier>>
  BY DEF OwnStep, Constructing, Acquire, AcquireUnlock, Wait, Resume, CheckRunning, WakeSpuriously,
         Catch, Fill, Enqueue, EnqueueTo, HandOver, Release, Destroy, DestroyNull, DestroyEnqueue,
         DestroyReturn

\* A pool is no queue.
LEMMA UnusedComesFromPool ==
    ASSUME NEW c \in Calls, c.t = "UNUSED"
    PROVE  StoreOf(c) \in Pools /\ StoreOf(c) \notin Queues
  BY StockAssumption, WorkerAssumption DEF StoreOf, Calls

\* A blocking constructor goes on, or ends with an object or without; the only
\* queue it changes is the one it takes its object from.
LEMMA BlockingCallEffect ==
    ASSUME IInv, NEW a \in Acqs, NEW c \in Calls, c.f = "BLOCKING", BlockingCall(a, c)
    PROVE  /\ OwnStep(a)
           /\ UNCHANGED content
           /\ enq'[a] => enq[a] /\ next'[a] = next[a]
           /\ \/ InCall(a, c)' /\ data'[a] = NULL
              \/ /\ pc'[a] = "live" /\ data'[a] = NULL
                 /\ c.t = "UNUSED" => ~running[c.q]
              \/ /\ pc'[a] = "live" /\ data'[a] # NULL /\ ~enq'[a]
                 /\ items[StoreOf(c)] # <<>>
                 /\ items'[StoreOf(c)] = Tail(items[StoreOf(c)])
                 /\ data'[a] = Head(items[StoreOf(c)])
           /\ \A q \in Queues : QueueStill(q) \/ (StoreOf(c) = q /\ data'[a] # NULL)
<1>1. OwnStep(a)
  BY DEF OwnStep, BlockingCall
<1>2. pc[a] # "live"
  BY DEF BlockingCall, Acquire, AcquireUnlock, InCall
<1>3. data[a] = NULL
  BY <1>2 DEF IInv, HoldsWhenLive
<1>4. CASE (Acquire(a, c) \/ Resume(a)) /\ Take(a, c)
  <2>1. UNCHANGED content
    BY <1>4 DEF Acquire, Resume
  <2>2. ASSUME items[StoreOf(c)] = <<>>, data'[a] = NULL, call'[a] = c,
               pc'[a] = IF c.f = "BLOCKING" /\ c.t = "UNUSED" THEN "empty" ELSE "live"
        PROVE  InCall(a, c)' \/ (pc'[a] = "live" /\ c.t # "UNUSED")
    BY <2>2 DEF InCall
  <2>3. \A q \in Queues : QueueStill(q) \/ (StoreOf(c) = q /\ data'[a] # NULL)
    <3>1. \/ data'[a] # NULL /\ items' = [items EXCEPT ![StoreOf(c)] = Tail(@)]
          \/ items' = items
      BY <1>2, <1>4, TakeEffect
    <3>2. \A q \in Queues : q \in Stores
      BY DEF Stores
    <3>3. QED
      BY <2>1, <3>1, <3>2 DEF QueueStill, IInv, TypeOK
  <2>4. /\ enq'[a] = FALSE
        /\ \/ /\ pc'[a] = "live" /\ data'[a] # NULL
              /\ items[StoreOf(c)] # <<>>
              /\ items'[StoreOf(c)] = Tail(items[StoreOf(c)])
              /\ data'[a] = Head(items[StoreOf(c)])
           \/ /\ items[StoreOf(c)] = <<>>
              /\ data'[a] = NULL
              /\ call'[a] = c
              /\ pc'[a] = IF c.f = "BLOCKING" /\ c.t = "UNUSED" THEN "empty" ELSE "live"
    BY <1>2, <1>4, TakeEffect, StoreOfType DEF IInv, TypeOK
  <2>5. \/ InCall(a, c)' /\ data'[a] = NULL
        \/ /\ pc'[a] = "live" /\ data'[a] = NULL
           /\ c.t = "UNUSED" => ~running[c.q]
        \/ /\ pc'[a] = "live" /\ data'[a] # NULL /\ ~enq'[a]
           /\ items[StoreOf(c)] # <<>>
           /\ items'[StoreOf(c)] = Tail(items[StoreOf(c)])
           /\ data'[a] = Head(items[StoreOf(c)])
    BY <2>2, <2>4
  <2>6. QED
    BY <1>1, <2>1, <2>3, <2>4, <2>5
<1>5. CASE AcquireUnlock(a, c)
  BY <1>1, <1>3, <1>5 DEF AcquireUnlock, InCall, QueueStill, IInv, TypeOK
<1>6. CASE InCall(a, c) /\ (Wait(a) \/ CheckRunning(a))
  BY <1>1, <1>3, <1>6 DEF InCall, Wait, CheckRunning, QueueStill, IInv, TypeOK
<1>7. QED
  BY <1>4, <1>5, <1>6 DEF BlockingCall, Constructing, Acquire, Resume, InCall

\* A constructor that does not block has ended when it returns: with the head of
\* its store, the only store it changes, or with nothing.
LEMMA NonblockingCallEffect ==
    ASSUME IInv, NEW a \in Acqs, NEW c \in Calls, c.f = "NONBLOCKING", Acquire(a, c)
    PROVE  /\ OwnStep(a)
           /\ UNCHANGED content
           /\ pc[a] = "idle" /\ pc'[a] = "live" /\ ~enq'[a]
           /\ \/ data'[a] = NULL
              \/ /\ data'[a] # NULL
                 /\ items[StoreOf(c)] # <<>>
                 /\ data'[a] = Head(items[StoreOf(c)])
           /\ \A q \in Queues : q # StoreOf(c) => QueueStill(q)
<1>1. OwnStep(a) /\ pc[a] = "idle" /\ Take(a, c) /\ UNCHANGED content
  BY DEF OwnStep, Acquire
<1>2. /\ enq'[a] = FALSE
      /\ \/ /\ pc'[a] = "live"
            /\ items[StoreOf(c)] # <<>>
            /\ data'[a] = Head(items[StoreOf(c)]) /\ data'[a] # NULL
            /\ items' = [items EXCEPT ![StoreOf(c)] = Tail(@)]
         \/ pc'[a] = "live" /\ data'[a] = NULL /\ items' = items
  BY <1>1, TakeEffect
<1>3. \A q \in Queues : q # StoreOf(c) => QueueStill(q)
  BY <1>1, <1>2 DEF QueueStill, IInv, TypeOK, Stores
<1>4. QED
  BY <1>1, <1>2, <1>3

------------------------------------------------------------------------------
(* OIWorker implements ObjectStore.                                        *)

LEMMA SameNames ==
    /\ Store!Stores = Stores
    /\ Store!Home = Home
    /\ Store!InitialItems = InitialItems
  BY DEF Store!Stores, Stores, Store!Home, Home, Store!InitialItems, InitialItems

LEMMA TakeIsStoreTake ==
    ASSUME IInv, NEW a \in Acqs, NEW c \in Calls, pc[a] # "live",
           TakeObject(a, c), UNCHANGED content
    PROVE  Store!Take(StoreOf(c))
<1>1. StoreOf(c) \in Stores /\ data[a] = NULL
  BY StoreOfType DEF IInv, HoldsWhenLive
<1>2. Head(items[StoreOf(c)]) # NULL
  BY <1>1, TailAt, WorkerAssumption DEF TakeObject, IInv, TypeOK
<1>3. data'[a] = Head(items[StoreOf(c)]) /\ \A b \in Acqs \ {a} : data'[b] = data[b]
  BY DEF TakeObject, IInv, TypeOK
<1>4. Held' = Held \cup {Head(items[StoreOf(c)])}
  BY <1>1, <1>2, <1>3 DEF Held
<1>5. QED
  BY <1>4 DEF Store!Take, TakeObject

LEMMA ForgetLetsGo ==
    ASSUME IInv, NEW a \in Acqs, data[a] # NULL, Forget(a)
    PROVE  data[a] \in Held /\ data[a] \in Objects /\ Held' = Held \ {data[a]}
<1>1. data'[a] = NULL /\ \A b \in Acqs \ {a} : data'[b] = data[b] /\ data[b] # data[a]
  BY DEF Forget, IInv, TypeOK, OneOwner, HeldOnce
<1>2. QED
  BY <1>1 DEF Held, IInv, TypeOK

LEMMA StepIsStoreStep == IInv /\ [Next]_vars => [Store!Next]_(Store!vars)
<1> SUFFICES ASSUME IInv, [Next]_vars
             PROVE  Store!Next \/ UNCHANGED <<items, content, Held>>
  BY DEF Store!vars
<1>1. ASSUME NEW a \in Acqs, NEW c \in Calls, pc[a] # "live", Take(a, c), UNCHANGED content
      PROVE  Store!Next \/ UNCHANGED <<items, content, Held>>
  <2>1. CASE TakeObject(a, c)
    BY <1>1, <2>1, TakeIsStoreTake, StoreOfType, SameNames DEF Store!Next
  <2>2. CASE TakeNull(a, c)
    BY <1>1, <2>2 DEF TakeNull, Held
  <2>3. QED
    BY <1>1, <2>1, <2>2 DEF Take
<1>2. ASSUME NEW a \in Acqs, NEW v \in Values, Fill(a, v)
      PROVE  Store!Next
  <2>1. data[a] \in Objects /\ data[a] \in Held
    BY <1>2 DEF Fill, IInv, TypeOK, Held
  <2>2. Store!Write(data[a], v)
    BY <1>2, <2>1 DEF Store!Write, Fill, acqVars, Held
  <2>3. QED
    BY <2>1, <2>2 DEF Store!Next
<1>3. ASSUME NEW a \in Acqs, DestroyEnqueue(a)
      PROVE  Store!Next
  <2>1. next[a] \in Queues
    BY <1>3 DEF DestroyEnqueue, GoesOn, IInv, TypeOK
  <2>2. data[a] \in Held /\ data[a] \in Objects /\ Held' = Held \ {data[a]}
    BY <1>3, ForgetLetsGo DEF DestroyEnqueue
  <2>3. Store!Put(data[a], next[a])
    BY <1>3, <2>2 DEF Store!Put, DestroyEnqueue, PushAndEnd
  <2>4. QED
    BY <2>1, <2>2, <2>3 DEF Store!Next
<1>4. ASSUME NEW a \in Acqs, DestroyReturn(a)
      PROVE  Store!Next
  <2>1. returnTo[a] = Home[data[a]]
    BY <1>4 DEF DestroyReturn, IInv, HoldsWhenLive
  <2>2. data[a] \in Held /\ data[a] \in Objects /\ Held' = Held \ {data[a]}
    BY <1>4, ForgetLetsGo DEF DestroyReturn
  <2>3. Store!Return(data[a])
    BY <1>4, <2>1, <2>2, SameNames DEF Store!Return, DestroyReturn, PushAndEnd
  <2>4. QED
    BY <2>2, <2>3 DEF Store!Next
<1>5. ASSUME NEW a \in Acqs, NEW b \in Acqs, Move(a, b)
      PROVE  UNCHANGED <<items, content, Held>>
  BY <1>5, MoveKeepsOneOwner DEF Move, IInv, HoldsWhenLive
<1>6. ASSUME NEW a \in Acqs, Client(a)
      PROVE  Store!Next \/ UNCHANGED <<items, content, Held>>
  <2>1. ASSUME NEW c \in Calls, Acquire(a, c)
        PROVE  Store!Next \/ UNCHANGED <<items, content, Held>>
    BY <1>1, <2>1 DEF Acquire
  <2>2. CASE DestroyNull(a)
    BY <2>2 DEF DestroyNull, Forget, Held, IInv, TypeOK
  <2>3. CASE \/ \E c \in Calls : AcquireUnlock(a, c)
             \/ Enqueue(a) \/ (\E q \in Queues : EnqueueTo(a, q)) \/ Release(a) \/ Catch(a)
    BY <2>3 DEF AcquireUnlock, Enqueue, EnqueueTo, Release, Catch, Held
  <2>4. QED
    BY <1>2, <1>3, <1>4, <1>5, <1>6, <2>1, <2>2, <2>3 DEF Client, Destroy
<1>7. ASSUME NEW a \in Acqs, Constructing(a) \/ WakeSpuriously(a)
      PROVE  Store!Next \/ UNCHANGED <<items, content, Held>>
  <2>1. CASE Resume(a)
    <3>1. call[a] \in Calls /\ pc[a] # "live"
      BY <2>1 DEF Resume, IInv, CallKnown
    <3>2. QED
      BY <1>1, <2>1, <3>1 DEF Resume
  <2>2. CASE Wait(a) \/ CheckRunning(a) \/ WakeSpuriously(a)
    BY <2>2 DEF Wait, CheckRunning, WakeSpuriously, Held
  <2>3. QED
    BY <1>7, <2>1, <2>2 DEF Constructing
<1>8. ASSUME NEW c \in Closers,
             (\E q \in Queues : Close(c, q) \/ NotifyAll(c, q)) \/ Notifying(c)
      PROVE  UNCHANGED <<items, content, Held>>
  BY <1>8 DEF Close, NotifyAll, Notifying, MarkClosed, NotifyUnused, NotifyQueued, acqVars, Held
<1>9. CASE UNCHANGED vars
  BY <1>9 DEF vars, acqVars, Held
<1>10. QED
  BY <1>6, <1>7, <1>8, <1>9 DEF Next

\* Every behaviour of the library, threads, waits and all, is a behaviour of
\* the object store: objects leave a store in the order they came, are written
\* only while held, and return wiped to the pool that built them.
THEOREM WorkerImplementsStore == Spec => ImplementsStore
<1>1. Init => Store!Init
  BY SameNames DEF Init, Store!Init, Held
<1>2. IInv /\ [Next]_vars => [Store!Next]_(Store!vars)
  BY StepIsStoreStep
<1>3. QED
  BY <1>1, <1>2, InvariantHolds, PTL DEF Spec, Store!Spec, ImplementsStore
==============================================================================
