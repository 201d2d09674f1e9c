------------------------- MODULE UDPConnectorProofs -------------------------
(***************************************************************************)
(* For every pool, every set of peers and every interval: no message path  *)
(* of the connector loses a buffer, no endpoint is punched early, and the  *)
(* four threads together do to the table of endpoints what PeerTable says. *)
(***************************************************************************)
EXTENDS UDPConnector, TLAPS

USE DEF Past, Nobody, Takers, Threads

LEMMA MessageFacts ==
    /\ Register \in Messages /\ Broadcast \in Messages /\ OtherMessage \in Messages
    /\ \A p \in Peers : Punch(p) \in Messages /\ Answer(p) \in Messages
    /\ NoMessage \notin Messages
    /\ \A msg \in Messages :
           /\ HandlerOf(msg) \in {"answer", "heard", "drop"}
           /\ HandlerOf(msg) # "drop" => msg.to \in Peers
<1>1. \A msg \in Messages :
          \/ msg = Register \/ msg = Broadcast \/ msg = OtherMessage
          \/ \E p \in Peers : msg = Punch(p) \/ msg = Answer(p)
  BY DEF Messages
<1>2. \A msg \in Messages : HandlerOf(msg) \in {"answer", "heard", "drop"}
                            /\ (HandlerOf(msg) # "drop" => msg.to \in Peers)
  BY <1>1 DEF HandlerOf, Register, Broadcast, OtherMessage, Punch, Answer
<1>3. NoMessage \notin Messages
  BY <1>1 DEF NoMessage, Register, Broadcast, OtherMessage, Punch, Answer
<1>4. QED
  BY <1>2, <1>3 DEF Messages

LEMMA AppendKeepsType ==
    ASSUME NEW S, NEW s \in Seq(S), NEW x \in S
    PROVE  Append(s, x) \in Seq(S) /\ Len(Append(s, x)) = Len(s) + 1 /\ Len(s) \in Nat
  OBVIOUS

LEMMA TailKeepsType ==
    ASSUME NEW S, NEW s \in Seq(S), s # <<>>
    PROVE  /\ Head(s) \in S
           /\ Tail(s) \in Seq(S)
           /\ Len(Tail(s)) = Len(s) - 1
           /\ Len(s) \in Nat
  OBVIOUS

------------------------------------------------------------------------------
(* Where the buffers are.                                                  *)
Buffers == unused + Len(sendQueue) + Len(mmQueue) + strays + TakersHold + SenderHolds + UpdateHolds

PoolTyped ==
    /\ unused \in Nat /\ strays \in Nat
    /\ sendQueue \in Seq(Messages) /\ mmQueue \in Seq(Messages)
    /\ acq \in [Threads -> Acquisitions]

LEMMA HolderFacts ==
    /\ TakersHold \in Nat /\ SenderHolds \in Nat /\ UpdateHolds \in Nat
    /\ TakersHold' \in Nat /\ SenderHolds' \in Nat /\ UpdateHolds' \in Nat
  BY DEF TakersHold, TakerHolds, SenderHolds, UpdateHolds, Count

LEMMA BuffersAreAll ==
    (BuffersConserved <=> Buffers = PoolSize) /\ (BuffersConserved' <=> Buffers' = PoolSize)
  BY DEF BuffersConserved, Buffers

LEMMA CountKept ==
    ASSUME IInv, Buffers' = Buffers
    PROVE  BuffersConserved'
  BY BuffersAreAll DEF IInv

LEMMA CountsAreNatural ==
    IInv => /\ unused \in Nat /\ Len(sendQueue) \in Nat /\ Len(mmQueue) \in Nat /\ strays \in Nat
            /\ TakersHold \in Nat /\ SenderHolds \in Nat /\ UpdateHolds \in Nat
<1>1. IInv => unused \in Nat /\ Len(sendQueue) \in Nat /\ Len(mmQueue) \in Nat /\ strays \in Nat
  BY DEF IInv, TypeOK
<1>2. QED
  BY <1>1, HolderFacts

\* One buffer passes between a taker and the pool or a queue.
LEMMA OnePasses ==
    ASSUME IInv
    PROVE  /\ (unused - 1) + Len(sendQueue) + Len(mmQueue) + strays + (TakersHold + 1)
               + SenderHolds + UpdateHolds = Buffers
           /\ (unused + 1) + Len(sendQueue) + Len(mmQueue) + strays + (TakersHold - 1)
               + SenderHolds + UpdateHolds = Buffers
           /\ unused + (Len(sendQueue) + 1) + Len(mmQueue) + strays + (TakersHold - 1)
               + SenderHolds + UpdateHolds = Buffers
           /\ unused + Len(sendQueue) + (Len(mmQueue) + 1) + strays + (TakersHold - 1)
               + SenderHolds + UpdateHolds = Buffers
           /\ unused + Len(sendQueue) + Len(mmQueue) + (strays + 1) + (TakersHold - 1)
               + SenderHolds + UpdateHolds = Buffers
<1>1. PICK u \in Nat, q \in Nat, m \in Nat, s \in Nat, t \in Nat, h \in Nat, a \in Nat :
          /\ u = unused /\ q = Len(sendQueue) /\ m = Len(mmQueue) /\ s = strays
          /\ t = TakersHold /\ h = SenderHolds /\ a = UpdateHolds
  BY CountsAreNatural, Zenon
<1>2. /\ (u - 1) + q + m + s + (t + 1) + h + a = u + q + m + s + t + h + a
      /\ (u + 1) + q + m + s + (t - 1) + h + a = u + q + m + s + t + h + a
      /\ u + (q + 1) + m + s + (t - 1) + h + a = u + q + m + s + t + h + a
      /\ u + q + (m + 1) + s + (t - 1) + h + a = u + q + m + s + t + h + a
      /\ u + q + m + (s + 1) + (t - 1) + h + a = u + q + m + s + t + h + a
  OBVIOUS
<1>3. QED
  BY <1>1, <1>2, Zenon DEF Buffers

LEMMA SameTakers ==
    ASSUME \A th \in Takers : (acq'[th] = "holding") = (acq[th] = "holding")
    PROVE  TakersHold' = TakersHold
  BY DEF TakersHold, TakerHolds, Count

LEMMA OneTakerMore ==
    ASSUME NEW t \in Takers, acq[t] # "holding", acq'[t] = "holding",
           \A th \in Takers \ {t} : (acq'[th] = "holding") = (acq[th] = "holding")
    PROVE  TakersHold' = TakersHold + 1
  BY DEF TakersHold, TakerHolds, Count

LEMMA OneTakerLess ==
    ASSUME NEW t \in Takers, acq[t] = "holding", acq'[t] # "holding",
           \A th \in Takers \ {t} : (acq'[th] = "holding") = (acq[th] = "holding")
    PROVE  TakersHold' = TakersHold - 1
  BY DEF TakersHold, TakerHolds, Count

\* A notification wakes a thread up and gives it nothing.
LEMMA NotifyOneFacts ==
    ASSUME NEW f \in [Threads -> Acquisitions], NEW threads \in SUBSET Threads,
           NEW g \in NotifyOne(f, threads)
    PROVE  /\ g \in [Threads -> Acquisitions]
           /\ \A th \in Threads : /\ (g[th] = "holding") = (f[th] = "holding")
                                  /\ (g[th] = "idle") = (f[th] = "idle")
<1>1. CASE g = f
  BY <1>1
<1>2. CASE \E t \in threads : f[t] = "waiting" /\ g = [f EXCEPT ![t] = "notified"]
  BY <1>2 DEF Acquisitions
<1>3. QED
  BY <1>1, <1>2 DEF NotifyOne

\* What IInv says of the pool and the acquisitions, and what can be said of a step.
PoolIsSound == PoolTyped /\ SenderAcquires /\ BuffersConserved

LEMMA IInvSoundPool == IInv => PoolIsSound
  BY DEF IInv, TypeOK, PoolTyped, PoolIsSound

\* A step that leaves the pool and the two hands that are not acquisitions alone.
LEMMA PoolUntouched ==
    ASSUME IInv, UNCHANGED <<poolVars, senderPc, answered>>
    PROVE  PoolIsSound'
  BY IInvSoundPool DEF PoolIsSound, PoolTyped, SenderAcquires, BuffersConserved, TakersHold,
     TakerHolds, SenderHolds, UpdateHolds, poolVars

------------------------------------------------------------------------------
THEOREM InitEstablishesIInv == Init => IInv
<1> SUFFICES ASSUME Init PROVE IInv
  OBVIOUS
<1>1. TypeOK
  <2>1. 0 \in 0 .. HBInterval + 1 /\ PoolSize \in Nat /\ toAdd \in Seq(Peers)
    BY ConnectorAssumption DEF Init
  <2>2. punchAge \in [Peers -> 0 .. HBInterval + 1]
    BY <2>1 DEF Init
  <2>3. sendQueue \in Seq(Messages) /\ mmQueue \in Seq(Messages)
    BY DEF Init
  <2>4. peer \in [{"main", "update"} -> Peers \cup {Nobody}] /\ acq \in [Threads -> Acquisitions]
    BY DEF Init, Acquisitions
  <2>5. QED
    BY <2>1, <2>2, <2>3, <2>4 DEF Init, TypeOK, Starting
<1>2. HandlesAnswered /\ DueIsDue /\ PunchesSomebody /\ StartsFresh
  BY DEF Init, HandlesAnswered, DueIsDue, PunchesSomebody, StartsFresh, Starting
<1>3. BuffersConserved /\ SenderAcquires
  BY ConnectorAssumption
     DEF Init, BuffersConserved, SenderAcquires, TakersHold, TakerHolds, SenderHolds, UpdateHolds,
         Count
<1>4. QED
  BY <1>1, <1>2, <1>3 DEF IInv

------------------------------------------------------------------------------
(* The clock.                                                              *)
LEMMA TickKeepsIInv ==
    ASSUME IInv, Tick
    PROVE  IInv'
<1>1. \A a \in 0 .. HBInterval + 1 : Older(a, HBInterval) \in 0 .. HBInterval + 1
  BY ConnectorAssumption DEF Older
<1>2. \A a \in 0 .. HBInterval + 1 : a > HBInterval => Older(a, HBInterval) = a
  BY ConnectorAssumption DEF Older
<1>3. /\ punchAge' \in [Peers -> 0 .. HBInterval + 1]
      /\ \A p \in Peers : punchAge[p] > HBInterval => punchAge'[p] = punchAge[p]
  BY <1>1, <1>2 DEF Tick, IInv, TypeOK
<1>4. TypeOK'
  BY <1>3 DEF Tick, IInv, TypeOK, poolVars, mainVars, ioVars
<1>5. DueIsDue'
  BY <1>3 DEF Tick, IInv, TypeOK, DueIsDue
<1>6. HandlesAnswered' /\ PunchesSomebody' /\ StartsFresh'
  BY DEF Tick, IInv, HandlesAnswered, PunchesSomebody, StartsFresh, mainVars, ioVars
<1>7. PoolIsSound'
  BY PoolUntouched DEF Tick, ioVars
<1>8. QED
  BY <1>4, <1>5, <1>6, <1>7 DEF IInv, PoolIsSound

------------------------------------------------------------------------------
(* The acquisitions.  All but Acquire only pass from one way of having     *)
(* nothing to another.                                                     *)
LEMMA OutsidePoolKept ==
    ASSUME IInv, UNCHANGED outsidePool
    PROVE  /\ HandlesAnswered' /\ DueIsDue' /\ PunchesSomebody' /\ StartsFresh'
           /\ PoolTyped' => TypeOK'
           /\ UNCHANGED <<senderPc, answered, SenderHolds, UpdateHolds>>
<1> USE DEF outsidePool, tableVars, mmVars, mainVars, updateVars, ioVars
<1>1. HandlesAnswered' /\ DueIsDue' /\ PunchesSomebody' /\ StartsFresh'
  BY DEF IInv, HandlesAnswered, DueIsDue, PunchesSomebody, StartsFresh
<1>2. PoolTyped' => TypeOK'
  BY DEF IInv, TypeOK, PoolTyped
<1>3. UNCHANGED <<senderPc, answered, SenderHolds, UpdateHolds>>
  BY DEF SenderHolds, UpdateHolds
<1>4. QED
  BY <1>1, <1>2, <1>3

LEMMA WaitingKeepsIInv ==
    ASSUME IInv, NEW th \in Threads, AcquireUnlock(th) \/ Wait(th) \/ WakeSpuriously(th)
    PROVE  IInv'
<1>1. PICK to \in {"unlocked", "waiting", "notified"} : acq' = [acq EXCEPT ![th] = to]
  BY DEF AcquireUnlock, Wait, WakeSpuriously
<1>2. UNCHANGED <<unused, sendQueue, mmQueue, strays, outsidePool>>
  BY DEF AcquireUnlock, Wait, WakeSpuriously
<1>3. acq \in [Threads -> Acquisitions] /\ acq[th] # "holding"
      /\ (th = "sender" => senderPc = "acquire")
  BY DEF AcquireUnlock, Wait, WakeSpuriously, Acquiring, IInv, TypeOK, SenderAcquires
<1>4. PoolTyped'
  BY <1>1, <1>2, <1>3, IInvSoundPool DEF PoolIsSound, PoolTyped, Acquisitions
<1>5. /\ HandlesAnswered' /\ DueIsDue' /\ PunchesSomebody' /\ StartsFresh' /\ TypeOK'
      /\ UNCHANGED <<senderPc, answered, SenderHolds, UpdateHolds>>
  BY <1>2, <1>4, OutsidePoolKept
<1>6. SenderAcquires'
  BY <1>1, <1>3, <1>5 DEF IInv, SenderAcquires
<1>7. TakersHold' = TakersHold
  BY <1>1, <1>3, SameTakers
<1>8. BuffersConserved'
  BY <1>2, <1>4, <1>5, <1>7, CountKept DEF Buffers
<1>9. QED
  BY <1>5, <1>6, <1>8 DEF IInv

LEMMA AcquireKeepsIInv ==
    ASSUME IInv, NEW th \in Threads, Acquire(th)
    PROVE  IInv'
<1>1. /\ th \in Takers /\ acq[th] # "holding" /\ unused > 0
      /\ unused' = unused - 1 /\ acq' = [acq EXCEPT ![th] = "holding"]
      /\ UNCHANGED <<sendQueue, mmQueue, strays, outsidePool>>
  BY DEF Acquire
<1>2. acq \in [Threads -> Acquisitions] /\ unused \in Nat /\ strays \in Nat
      /\ Len(sendQueue) \in Nat /\ Len(mmQueue) \in Nat
  BY DEF IInv, TypeOK
<1>3. PoolTyped'
  BY <1>1, <1>2, IInvSoundPool DEF PoolIsSound, PoolTyped, Acquisitions
<1>4. /\ HandlesAnswered' /\ DueIsDue' /\ PunchesSomebody' /\ StartsFresh' /\ TypeOK'
      /\ UNCHANGED <<senderPc, answered, SenderHolds, UpdateHolds>>
  BY <1>1, <1>3, OutsidePoolKept
<1>5. SenderAcquires'
  BY <1>1, <1>2, <1>4 DEF IInv, SenderAcquires
<1>6. TakersHold' = TakersHold + 1
  BY <1>1, <1>2, OneTakerMore
<1>7. Buffers' = Buffers
  <2>1. Buffers' = (unused - 1) + Len(sendQueue) + Len(mmQueue) + strays + (TakersHold + 1)
                       + SenderHolds + UpdateHolds
    BY <1>1, <1>4, <1>6, Zenon DEF Buffers
  <2>2. QED
    BY <2>1, OnePasses, Zenon
<1>8. QED
  BY <1>3, <1>4, <1>5, <1>7, CountKept DEF IInv

LEMMA OIErrorKeepsIInv ==
    ASSUME IInv, NEW th \in Threads, OIError(th)
    PROVE  IInv'
<1> USE DEF OIError, tableVars, mmVars, mainVars, updateVars, ioVars
<1>1. HandlesAnswered' /\ DueIsDue' /\ PunchesSomebody' /\ StartsFresh'
  BY DEF IInv, HandlesAnswered, DueIsDue, PunchesSomebody, StartsFresh
<1>2. TypeOK'
  BY DEF IInv, TypeOK, poolVars
<1>3. PoolIsSound'
  BY PoolUntouched
<1>4. QED
  BY <1>1, <1>2, <1>3 DEF IInv, PoolIsSound

LEMMA ListenerThrowsKeepsIInv ==
    ASSUME IInv, ListenerThrows
    PROVE  IInv'
<1> USE DEF tableVars, mmVars, mainVars, updateVars
<1>1. /\ acq["listener"] = "notified" /\ acq' = [acq EXCEPT !["listener"] = "idle"]
      /\ UNCHANGED <<unused, sendQueue, mmQueue, strays, tableVars, mmVars, peer, mainVars,
                     updateVars, senderPc>>
      /\ listenPc' = "ended"
  BY DEF ListenerThrows, FindsNothing
<1>2. PoolTyped'
  BY <1>1 DEF IInv, TypeOK, PoolTyped, Acquisitions
<1>3. TypeOK'
  BY <1>1, <1>2 DEF IInv, TypeOK, PoolTyped
<1>4. HandlesAnswered' /\ DueIsDue' /\ PunchesSomebody' /\ StartsFresh'
  BY <1>1 DEF IInv, HandlesAnswered, DueIsDue, PunchesSomebody, StartsFresh
<1>5. SenderAcquires'
  BY <1>1 DEF IInv, TypeOK, SenderAcquires
<1>6. TakersHold' = TakersHold
  BY <1>1, SameTakers DEF IInv, TypeOK
<1>7. BuffersConserved'
  BY <1>1, <1>2, <1>6, CountKept DEF Buffers, SenderHolds, UpdateHolds
<1>8. QED
  BY <1>3, <1>4, <1>5, <1>7 DEF IInv

------------------------------------------------------------------------------
(* What MMSend, GiveBack, AddEndpoint and the punches do.                  *)
LEMMA MMSendKeeps ==
    ASSUME IInv, NEW th \in Takers, NEW msg \in Messages, MMSend(th, msg),
           UNCHANGED <<senderPc, answered>>
    PROVE  PoolIsSound'
<1>1. sendQueue \in Seq(Messages) /\ unused \in Nat /\ acq \in [Threads -> Acquisitions]
      /\ strays \in Nat /\ Len(mmQueue) \in Nat
  BY DEF IInv, TypeOK
<1>2. sendQueue' \in Seq(Messages) /\ Len(sendQueue') = Len(sendQueue) + 1 /\ Len(sendQueue) \in Nat
  BY <1>1, AppendKeepsType DEF MMSend
<1> DEFINE f == [acq EXCEPT ![th] = "idle"]
<1>3. f \in [Threads -> Acquisitions]
  BY <1>1 DEF Acquisitions
<1>4. acq' \in NotifyOne(f, {"sender"}) /\ acq[th] = "holding"
      /\ UNCHANGED <<unused, mmQueue, strays>>
  BY DEF MMSend
<1> HIDE DEF f
<1>5. /\ acq' \in [Threads -> Acquisitions]
      /\ \A t \in Threads : /\ (acq'[t] = "holding") = (f[t] = "holding")
                             /\ (acq'[t] = "idle") = (f[t] = "idle")
  BY <1>3, <1>4, NotifyOneFacts
<1> USE DEF f
<1>6. PoolTyped'
  BY <1>2, <1>4, <1>5 DEF PoolTyped, IInv, TypeOK
<1>7. SenderAcquires'
  BY <1>1, <1>5 DEF IInv, SenderAcquires
<1>8. TakersHold' = TakersHold - 1
  <2>1. \A t \in Takers : (acq'[t] = "holding") = (t # th /\ acq[t] = "holding")
    BY <1>1, <1>5
  <2>2. QED
    BY <1>4, <2>1, OneTakerLess
<1>9. Buffers' = Buffers
  <2>1. SenderHolds' = SenderHolds /\ UpdateHolds' = UpdateHolds
    BY DEF SenderHolds, UpdateHolds
  <2>2. Buffers' = unused + (Len(sendQueue) + 1) + Len(mmQueue) + strays + (TakersHold - 1)
                       + SenderHolds + UpdateHolds
    BY <1>2, <1>4, <1>8, <2>1, Zenon DEF Buffers
  <2>3. QED
    BY <2>2, OnePasses, Zenon
<1>10. QED
  BY <1>6, <1>7, <1>9, CountKept DEF PoolIsSound

\* A buffer goes back to the pool, from a hand that the step says.
LEMMA GiveBackFacts ==
    ASSUME IInv, NEW f \in [Threads -> Acquisitions], GiveBack(f), f["sender"] = acq["sender"],
           UNCHANGED sendQueue, mmQueue' = mmQueue, strays' = strays
    PROVE  /\ unused' = unused + 1
           /\ PoolTyped'
           /\ acq'["sender"] # "holding" /\ (acq'["sender"] = "idle") = (acq["sender"] = "idle")
           /\ \A t \in Takers : (acq'[t] = "holding") = (f[t] = "holding")
<1>1. /\ acq' \in [Threads -> Acquisitions]
      /\ \A t \in Threads : /\ (acq'[t] = "holding") = (f[t] = "holding")
                             /\ (acq'[t] = "idle") = (f[t] = "idle")
  BY NotifyOneFacts DEF GiveBack
<1>2. QED
  BY <1>1 DEF GiveBack, IInv, TypeOK, PoolTyped, SenderAcquires

LEMMA StampKeepsDue ==
    ASSUME IInv, NEW p \in Peers, Stamp(p)
    PROVE  /\ punchAge' \in [Peers -> 0 .. Past(HBInterval)]
           /\ due' \in SUBSET Peers
           /\ DueIsDue'
<1>1. 0 \in 0 .. HBInterval + 1
  BY ConnectorAssumption
<1>2. QED
  BY <1>1 DEF Stamp, IInv, TypeOK, DueIsDue

LEMMA AddEndpointKeeps ==
    ASSUME IInv, NEW th \in {"main", "update"}, NEW p \in Peers, AddEndpoint(th, p)
    PROVE  /\ endpoints' \in SUBSET Peers /\ endpoints' = endpoints \cup {p}
           /\ punchAge' \in [Peers -> 0 .. Past(HBInterval)]
           /\ due' \in SUBSET Peers /\ DueIsDue'
           /\ peer' \in [{"main", "update"} -> Peers \cup {Nobody}]
           /\ peer'[th] = p /\ \A other \in {"main", "update"} \ {th} : peer'[other] = peer[other]
           /\ PoolIsSound'
           /\ UNCHANGED <<poolVars, connected, answered, listenPc, senderPc>>
<1>1. punchAge' \in [Peers -> 0 .. Past(HBInterval)] /\ due' \in SUBSET Peers /\ DueIsDue'
  BY StampKeepsDue DEF AddEndpoint
<1>2. peer' = [peer EXCEPT ![th] = p] /\ endpoints' = endpoints \cup {p}
      /\ UNCHANGED <<poolVars, connected, answered, listenPc, senderPc>>
  BY DEF AddEndpoint, mmVars, ioVars
<1>3. PoolIsSound'
  BY <1>2, PoolUntouched
<1>4. QED
  BY <1>1, <1>2, <1>3 DEF IInv, TypeOK

LEMMA PunchFirstKeeps ==
    ASSUME IInv, NEW th \in {"main", "update"}, peer[th] \in Peers, PunchFirst(th)
    PROVE  /\ PoolIsSound'
           /\ punchAge' \in [Peers -> 0 .. Past(HBInterval)]
           /\ due' \in SUBSET Peers /\ DueIsDue'
           /\ UNCHANGED <<endpoints, connected, peer, answered, listenPc, senderPc>>
<1>1. Punch(peer[th]) \in Messages
  BY MessageFacts
<1>2. UNCHANGED <<endpoints, connected, peer, answered, listenPc, senderPc>>
  BY DEF PunchFirst, mmVars, ioVars
<1>3. MMSend(th, Punch(peer[th])) /\ Stamp(peer[th])
  BY DEF PunchFirst
<1>4. PoolIsSound'
  BY <1>1, <1>2, <1>3, MMSendKeeps
<1>5. QED
  BY <1>2, <1>3, <1>4, StampKeepsDue

LEMMA PunchSecondKeeps ==
    ASSUME IInv, NEW th \in {"main", "update"}, peer[th] \in Peers, PunchSecond(th)
    PROVE  /\ PoolIsSound'
           /\ DueIsDue'
           /\ peer' \in [{"main", "update"} -> Peers \cup {Nobody}]
           /\ \A other \in {"main", "update"} \ {th} : peer'[other] = peer[other]
           /\ UNCHANGED <<endpoints, punchAge, due, connected, answered, listenPc, senderPc>>
<1>1. Punch(peer[th]) \in Messages
  BY MessageFacts
<1>2. UNCHANGED <<endpoints, punchAge, due, connected, answered, listenPc, senderPc>>
  BY DEF PunchSecond, tableVars, mmVars, ioVars
<1>3. MMSend(th, Punch(peer[th])) /\ peer' = [peer EXCEPT ![th] = Nobody]
  BY DEF PunchSecond
<1>4. DueIsDue'
  BY <1>2 DEF IInv, DueIsDue
<1>5. PoolIsSound'
  BY <1>1, <1>2, <1>3, MMSendKeeps
<1>6. QED
  BY <1>2, <1>3, <1>4, <1>5 DEF IInv, TypeOK

------------------------------------------------------------------------------
(* The program.                                                            *)
LEMMA StartsKeepIInv ==
    ASSUME IInv, StartReceiver \/ StartSender \/ RegisterQueue \/ StartUpdate
    PROVE  IInv'
<1> USE DEF Main, poolVars, runVars, tableVars, mmVars, updateVars, ioVars
<1>1. TypeOK'
  <2>1. CASE StartReceiver
    BY <2>1 DEF StartReceiver, IInv, TypeOK, Starting
  <2>2. CASE StartSender
    BY <2>2 DEF StartSender, IInv, TypeOK, Starting
  <2>3. CASE RegisterQueue
    BY <2>3 DEF RegisterQueue, IInv, TypeOK, Starting
  <2>4. CASE StartUpdate
    BY <2>4 DEF StartUpdate, IInv, TypeOK, Starting
  <2>5. QED
    BY <2>1, <2>2, <2>3, <2>4
<1>2. HandlesAnswered' /\ PunchesSomebody' /\ StartsFresh'
  BY DEF StartReceiver, StartSender, RegisterQueue, StartUpdate, IInv, HandlesAnswered,
         PunchesSomebody, StartsFresh, Starting
<1>3. DueIsDue'
  BY DEF StartReceiver, StartSender, RegisterQueue, StartUpdate, IInv, DueIsDue
<1>4. SenderAcquires'
  BY DEF StartReceiver, StartSender, RegisterQueue, StartUpdate, IInv, StartsFresh, SenderAcquires
<1>5. BuffersConserved'
  <2>1. /\ UNCHANGED <<unused, sendQueue, mmQueue, strays, acq, answered>>
        /\ (senderPc' \in {"targets", "send", "drop"}) = (senderPc \in {"targets", "send", "drop"})
    BY DEF StartReceiver, StartSender, RegisterQueue, StartUpdate, IInv, TypeOK, StartsFresh
  <2>2. QED
    BY <2>1 DEF IInv, BuffersConserved, TakersHold, TakerHolds, SenderHolds, UpdateHolds
<1>6. QED
  BY <1>1, <1>2, <1>3, <1>4, <1>5 DEF IInv

LEMMA MainAddsKeepsIInv ==
    ASSUME IInv, MainAdds
    PROVE  IInv'
<1>1. CASE toAdd # <<>> /\ Main("add", "first") /\ AddEndpoint("main", Head(toAdd))
           /\ toAdd' = Tail(toAdd) /\ UNCHANGED updatePc
  <2>1. Head(toAdd) \in Peers /\ toAdd' \in Seq(Peers)
    BY <1>1, TailKeepsType DEF IInv, TypeOK
  <2> DEFINE p == Head(toAdd)
  <2>2. AddEndpoint("main", p) /\ p \in Peers
    BY <1>1, <2>1
  <2> HIDE DEF p
  <2>3. TypeOK'
    <3>1. /\ PoolTyped' /\ listenPc' = listenPc /\ senderPc' = senderPc
          /\ answered' = answered /\ connected' = connected /\ endpoints' \in SUBSET Peers
          /\ punchAge' \in [Peers -> 0 .. Past(HBInterval)] /\ due' \in SUBSET Peers
          /\ peer' \in [{"main", "update"} -> Peers \cup {Nobody}]
      BY <2>2, AddEndpointKeeps DEF PoolIsSound
    <3>2. mainPc' = "first" /\ updatePc' = updatePc /\ toAdd' \in Seq(Peers)
      BY <1>1, <2>1 DEF Main
    <3>3. QED
      BY <3>1, <3>2, SMTT(15) DEF IInv, TypeOK, PoolTyped
  <2>4. HandlesAnswered' /\ PunchesSomebody' /\ StartsFresh'
    BY <1>1, <2>1, <2>2, AddEndpointKeeps
       DEF IInv, HandlesAnswered, PunchesSomebody, StartsFresh, Starting, Main
  <2>5. QED
    BY <2>2, <2>3, <2>4, AddEndpointKeeps DEF IInv, PoolIsSound
<1>2. CASE Main("first", "second") /\ PunchFirst("main") /\ UNCHANGED <<toAdd, updatePc>>
  <2>1. peer["main"] \in Peers
    BY <1>2 DEF IInv, PunchesSomebody, Main
  <2>2. TypeOK'
    BY <1>2, <2>1, PunchFirstKeeps DEF IInv, TypeOK, PoolIsSound, PoolTyped, Main
  <2>3. HandlesAnswered' /\ PunchesSomebody' /\ StartsFresh'
    BY <1>2, <2>1, PunchFirstKeeps
       DEF IInv, HandlesAnswered, PunchesSomebody, StartsFresh, Starting, Main
  <2>4. QED
    BY <1>2, <2>1, <2>2, <2>3, PunchFirstKeeps DEF IInv, PoolIsSound
<1>3. CASE Main("second", "add") /\ PunchSecond("main") /\ UNCHANGED <<toAdd, updatePc>>
  <2>1. peer["main"] \in Peers
    BY <1>3 DEF IInv, PunchesSomebody, Main
  <2>2. TypeOK'
    BY <1>3, <2>1, PunchSecondKeeps DEF IInv, TypeOK, PoolIsSound, PoolTyped, Main
  <2>3. HandlesAnswered' /\ PunchesSomebody' /\ StartsFresh'
    BY <1>3, <2>1, PunchSecondKeeps
       DEF IInv, HandlesAnswered, PunchesSomebody, StartsFresh, Starting, Main
  <2>4. QED
    BY <1>3, <2>1, <2>2, <2>3, PunchSecondKeeps DEF IInv, PoolIsSound
<1>4. QED
  BY <1>1, <1>2, <1>3 DEF MainAdds

LEMMA BroadcastKeepsIInv ==
    ASSUME IInv, BroadcastData
    PROVE  IInv'
<1>1. MMSend("main", Broadcast) /\ Broadcast \in Messages
  BY MessageFacts DEF BroadcastData
<1>2. UNCHANGED <<tableVars, mmVars, lock, peer, mainVars, updateVars, ioVars>>
  BY DEF BroadcastData
<1>3. PoolIsSound'
  BY <1>1, <1>2, MMSendKeeps DEF updateVars, ioVars
<1>4. TypeOK'
  BY <1>2, <1>3
     DEF IInv, TypeOK, PoolIsSound, PoolTyped, tableVars, mmVars, mainVars, updateVars, ioVars
<1>5. HandlesAnswered' /\ DueIsDue' /\ PunchesSomebody' /\ StartsFresh'
  BY <1>2 DEF IInv, HandlesAnswered, DueIsDue, PunchesSomebody, StartsFresh,
              tableVars, mainVars, updateVars, ioVars
<1>6. QED
  BY <1>3, <1>4, <1>5 DEF IInv, PoolIsSound

------------------------------------------------------------------------------
(* What the listener does with its object.                                 *)
LEMMA ListenerLetsGo ==
    ASSUME IInv, Listened, acq' = ListenerIdle
    PROVE  /\ acq' \in [Threads -> Acquisitions] /\ SenderAcquires'
           /\ TakersHold' = TakersHold - 1
<1>1. acq \in [Threads -> Acquisitions] /\ acq["listener"] = "holding" /\ senderPc' = senderPc
  BY DEF Listened, IInv, TypeOK, ioVars
<1>2. acq' \in [Threads -> Acquisitions] /\ SenderAcquires'
  BY <1>1 DEF ListenerIdle, Acquisitions, IInv, SenderAcquires
<1>3. TakersHold' = TakersHold - 1
  BY <1>1, OneTakerLess DEF ListenerIdle
<1>4. QED
  BY <1>2, <1>3

LEMMA ReceiveKeepsPool ==
    ASSUME IInv, NEW msg \in Messages, Receive(msg) \/ ReceiveStray
    PROVE  PoolIsSound'
<1>1. Listened /\ acq' = ListenerIdle /\ unused' = unused
  BY DEF Receive, ReceiveStray
<1>2. unused \in Nat /\ strays \in Nat /\ mmQueue \in Seq(Messages) /\ sendQueue \in Seq(Messages)
      /\ UNCHANGED <<sendQueue, SenderHolds, UpdateHolds>>
  BY <1>1 DEF IInv, TypeOK, Listened, SenderHolds, UpdateHolds, updateVars, ioVars
<1>3. \/ strays' = strays + 1 /\ mmQueue' = mmQueue
      \/ strays' = strays /\ mmQueue' = Append(mmQueue, msg)
  BY DEF Receive, ReceiveStray
<1>4. /\ strays' \in Nat /\ mmQueue' \in Seq(Messages) /\ Len(mmQueue) \in Nat
      /\ Len(mmQueue') \in Nat
      /\ \/ strays' = strays + 1 /\ Len(mmQueue') = Len(mmQueue)
         \/ strays' = strays /\ Len(mmQueue') = Len(mmQueue) + 1
  <2>1. CASE strays' = strays + 1 /\ mmQueue' = mmQueue
    BY <1>2, <2>1
  <2>2. CASE strays' = strays /\ mmQueue' = Append(mmQueue, msg)
    <3>1. mmQueue' \in Seq(Messages) /\ Len(mmQueue') = Len(mmQueue) + 1 /\ Len(mmQueue) \in Nat
      BY <1>2, <2>2, AppendKeepsType
    <3>2. QED
      BY <1>2, <2>2, <3>1
  <2>3. QED
    BY <1>3, <2>1, <2>2
<1>5. PoolTyped' /\ SenderAcquires' /\ TakersHold' = TakersHold - 1
  BY <1>1, <1>2, <1>4, ListenerLetsGo DEF PoolTyped
<1>6. Buffers' = Buffers
  <2>1. Len(sendQueue) \in Nat /\ sendQueue' = sendQueue
    BY <1>2
  <2>2. SenderHolds' = SenderHolds /\ UpdateHolds' = UpdateHolds
    BY <1>2
  <2>3. CASE strays' = strays + 1 /\ Len(mmQueue') = Len(mmQueue)
    <3>1. Buffers' = unused + Len(sendQueue) + Len(mmQueue) + (strays + 1) + (TakersHold - 1)
                         + SenderHolds + UpdateHolds
      BY <1>1, <1>5, <2>1, <2>2, <2>3, Zenon DEF Buffers
    <3>2. QED
      BY <3>1, OnePasses, Zenon
  <2>4. CASE strays' = strays /\ Len(mmQueue') = Len(mmQueue) + 1
    <3>1. Buffers' = unused + Len(sendQueue) + (Len(mmQueue) + 1) + strays + (TakersHold - 1)
                         + SenderHolds + UpdateHolds
      BY <1>1, <1>5, <2>1, <2>2, <2>4, Zenon DEF Buffers
    <3>2. QED
      BY <3>1, OnePasses, Zenon
  <2>5. QED
    BY <1>4, <2>3, <2>4
<1>7. QED
  BY <1>5, <1>6, CountKept DEF PoolIsSound

LEMMA ReceiveNothingKeepsPool ==
    ASSUME IInv, ReceiveNothing
    PROVE  PoolIsSound'
<1>1. Listened /\ GiveBack(ListenerIdle) /\ acq["listener"] = "holding"
      /\ UNCHANGED <<sendQueue, mmQueue, strays, senderPc, answered>>
  BY DEF ReceiveNothing, Listened, updateVars, ioVars
<1>2. ListenerIdle \in [Threads -> Acquisitions] /\ acq \in [Threads -> Acquisitions]
  BY DEF IInv, TypeOK, ListenerIdle, Acquisitions
<1>3. ListenerIdle["sender"] = acq["sender"] /\ ListenerIdle["listener"] # "holding"
      /\ \A t \in Takers \ {"listener"} : ListenerIdle[t] = acq[t]
  BY <1>2 DEF ListenerIdle
<1>4. /\ unused' = unused + 1
      /\ PoolTyped'
      /\ acq'["sender"] # "holding" /\ (acq'["sender"] = "idle") = (acq["sender"] = "idle")
      /\ \A t \in Takers : (acq'[t] = "holding") = (ListenerIdle[t] = "holding")
  BY <1>1, <1>2, <1>3, GiveBackFacts
<1>5. TakersHold' = TakersHold - 1
  BY <1>1, <1>3, <1>4, OneTakerLess
<1>6. /\ unused \in Nat /\ strays \in Nat /\ Len(sendQueue) \in Nat /\ Len(mmQueue) \in Nat
      /\ SenderHolds' = SenderHolds /\ UpdateHolds' = UpdateHolds
  BY <1>1 DEF IInv, TypeOK, SenderHolds, UpdateHolds
<1>7. Buffers' = Buffers
  <2>1. Buffers' = (unused + 1) + Len(sendQueue) + Len(mmQueue) + strays + (TakersHold - 1)
                       + SenderHolds + UpdateHolds
    BY <1>1, <1>4, <1>5, <1>6, Zenon DEF Buffers
  <2>2. QED
    BY <2>1, OnePasses, Zenon
<1>8. SenderAcquires'
  BY <1>1, <1>4 DEF IInv, SenderAcquires
<1>9. QED
  BY <1>4, <1>7, <1>8, CountKept DEF PoolIsSound

LEMMA NetworkKeepsIInv ==
    ASSUME IInv, Network
    PROVE  IInv'
<1>1. Listened
  BY DEF Network, Receive, ReceiveStray, ReceiveNothing
<1>2. UNCHANGED <<sendQueue, tableVars, mmVars, lock, peer, mainVars, updateVars, ioVars>>
  BY <1>1 DEF Listened
<1>3. PoolIsSound'
  BY MessageFacts, ReceiveKeepsPool, ReceiveNothingKeepsPool DEF Network
<1>4. TypeOK'
  BY <1>2, <1>3
     DEF IInv, TypeOK, PoolIsSound, PoolTyped, tableVars, mmVars, mainVars, updateVars, ioVars
<1>5. HandlesAnswered' /\ DueIsDue' /\ PunchesSomebody' /\ StartsFresh'
  BY <1>2 DEF IInv, HandlesAnswered, DueIsDue, PunchesSomebody, StartsFresh,
              tableVars, mainVars, updateVars, ioVars
<1>6. QED
  BY <1>3, <1>4, <1>5 DEF IInv, PoolIsSound

------------------------------------------------------------------------------
(* The sender.                                                             *)
SenderPcs == {"none", "start", "loop", "acquire", "targets", "send", "drop", "ended"}

LEMMA SenderTakeKeepsPool ==
    ASSUME IInv, SenderTake
    PROVE  PoolIsSound' /\ senderPc' \in SenderPcs
<1>1. /\ senderPc = "acquire" /\ acq["sender"] # "holding" /\ sendQueue # <<>>
      /\ acq' = [acq EXCEPT !["sender"] = "idle"] /\ sendQueue' = Tail(sendQueue)
      /\ senderPc' \in {"targets", "send", "drop"}
      /\ UNCHANGED <<unused, mmQueue, strays, answered>>
  BY DEF SenderTake, updateVars
<1>2. /\ acq \in [Threads -> Acquisitions] /\ sendQueue \in Seq(Messages)
      /\ unused \in Nat /\ strays \in Nat /\ mmQueue \in Seq(Messages) /\ Len(mmQueue) \in Nat
  BY DEF IInv, TypeOK
<1>3. sendQueue' \in Seq(Messages) /\ Len(sendQueue') = Len(sendQueue) - 1 /\ Len(sendQueue) \in Nat
      /\ Len(sendQueue') \in Nat
  BY <1>1, <1>2, TailKeepsType
<1>4. acq' \in [Threads -> Acquisitions] /\ acq'["sender"] = "idle"
      /\ \A t \in Takers : acq'[t] = acq[t]
  BY <1>1, <1>2 DEF Acquisitions
<1>5. PoolTyped' /\ SenderAcquires'
  BY <1>1, <1>2, <1>3, <1>4 DEF PoolTyped, SenderAcquires
<1>6. SenderHolds = 0 /\ SenderHolds' = 1 /\ UpdateHolds' = UpdateHolds /\ TakersHold' = TakersHold
  BY <1>1, <1>4, SameTakers DEF SenderHolds, UpdateHolds, Count
<1>7. Buffers' = Buffers
  BY <1>1, <1>2, <1>3, <1>6, HolderFacts DEF Buffers
<1>8. QED
  BY <1>1, <1>5, <1>7, CountKept DEF PoolIsSound, SenderPcs

LEMMA SenderSendKeepsPool ==
    ASSUME IInv, SenderSend
    PROVE  PoolIsSound' /\ senderPc' \in SenderPcs
<1>1. /\ senderPc \in {"send", "drop"} /\ senderPc' = "loop" /\ GiveBack(acq)
      /\ UNCHANGED <<sendQueue, mmQueue, strays, answered>>
  BY DEF SenderSend, updateVars
<1>2. acq \in [Threads -> Acquisitions]
  BY DEF IInv, TypeOK
<1>3. /\ unused' = unused + 1
      /\ PoolTyped'
      /\ acq'["sender"] # "holding" /\ (acq'["sender"] = "idle") = (acq["sender"] = "idle")
      /\ \A t \in Takers : (acq'[t] = "holding") = (acq[t] = "holding")
  BY <1>1, <1>2, GiveBackFacts
<1>4. SenderAcquires'
  BY <1>1, <1>3 DEF IInv, SenderAcquires
<1>5. SenderHolds = 1 /\ SenderHolds' = 0 /\ UpdateHolds' = UpdateHolds /\ TakersHold' = TakersHold
  BY <1>1, <1>3, SameTakers DEF SenderHolds, UpdateHolds, Count
<1>6. unused \in Nat /\ strays \in Nat /\ Len(sendQueue) \in Nat /\ Len(mmQueue) \in Nat
  BY DEF IInv, TypeOK
<1>7. Buffers' = Buffers
  BY <1>1, <1>3, <1>5, <1>6, HolderFacts DEF Buffers
<1>8. QED
  BY <1>1, <1>3, <1>4, <1>7, CountKept DEF PoolIsSound, SenderPcs

\* The steps of the sender that move no buffer.
LEMMA SenderGoesOn ==
    ASSUME IInv, SenderStart \/ SenderLoop \/ SenderTargets \/ SenderFindsNothing
    PROVE  PoolIsSound' /\ senderPc' \in SenderPcs
<1>1. /\ UNCHANGED <<unused, sendQueue, mmQueue, strays, answered>>
      /\ senderPc' \in SenderPcs
      /\ (senderPc' \in {"targets", "send", "drop"}) = (senderPc \in {"targets", "send", "drop"})
  BY DEF SenderStart, SenderLoop, SenderTargets, SenderFindsNothing, IInv, SenderAcquires,
         SenderPcs, poolVars, updateVars
<1>2. /\ acq \in [Threads -> Acquisitions] /\ acq' \in [Threads -> Acquisitions]
      /\ SenderAcquires' /\ \A t \in Takers : acq'[t] = acq[t]
  BY DEF SenderStart, SenderLoop, SenderTargets, SenderFindsNothing, FindsNothing, IInv, TypeOK,
         SenderAcquires, Acquisitions, poolVars
<1>3. PoolTyped'
  BY <1>1, <1>2 DEF IInv, TypeOK, PoolTyped
<1>4. SenderHolds' = SenderHolds /\ UpdateHolds' = UpdateHolds /\ TakersHold' = TakersHold
  BY <1>1, <1>2, SameTakers DEF SenderHolds, UpdateHolds
<1>5. Buffers' = Buffers
  BY <1>1, <1>4 DEF Buffers
<1>6. QED
  BY <1>1, <1>2, <1>3, <1>5, CountKept DEF PoolIsSound

LEMMA SenderKeepsIInv ==
    ASSUME IInv, DataSender
    PROVE  IInv'
<1>1. /\ UNCHANGED <<tableVars, mmVars, lock, peer, mainVars, updateVars, listenPc>>
      /\ senderPc # "none" /\ senderPc' # "none"
  BY DEF DataSender, SenderStart, SenderLoop, SenderTake, SenderFindsNothing, SenderTargets,
         SenderSend, FindsNothing, IInv, SenderAcquires
<1>2. PoolIsSound' /\ senderPc' \in SenderPcs
  BY SenderTakeKeepsPool, SenderSendKeepsPool, SenderGoesOn DEF DataSender
<1>3. TypeOK'
  BY <1>1, <1>2
     DEF IInv, TypeOK, PoolIsSound, PoolTyped, SenderPcs, tableVars, mmVars, mainVars, updateVars
<1>4. HandlesAnswered' /\ DueIsDue' /\ PunchesSomebody' /\ StartsFresh'
  BY <1>1 DEF IInv, HandlesAnswered, DueIsDue, PunchesSomebody, StartsFresh,
              tableVars, mainVars, updateVars
<1>5. QED
  BY <1>2, <1>3, <1>4 DEF IInv, PoolIsSound

------------------------------------------------------------------------------
(* The update thread.  First the steps that move no buffer.                *)
LEMMA UpdateLooksKeepIInv ==
    ASSUME IInv, UpdateStart \/ UpdateEnds \/ UpdateTop \/ UpdateLock \/ UpdateUnlock \/ UpdateHeard
    PROVE  IInv'
<1> USE DEF Update, runVars, tableVars, mmVars, mainVars, ioVars
<1>1. PoolIsSound'
  BY PoolUntouched
     DEF UpdateStart, UpdateEnds, UpdateTop, UpdateLock, UpdateUnlock, UpdateHeard
<1>2. TypeOK'
  <2>1. CASE UpdateStart \/ UpdateEnds
    BY <2>1 DEF UpdateStart, UpdateEnds, IInv, TypeOK, poolVars
  <2>2. CASE UpdateTop \/ UpdateHeard
    BY <2>2 DEF UpdateTop, UpdateHeard, IInv, TypeOK, poolVars
  <2>3. CASE UpdateLock \/ UpdateUnlock
    BY <2>3 DEF UpdateLock, UpdateUnlock, IInv, TypeOK, poolVars
  <2>4. QED
    BY <2>1, <2>2, <2>3
<1>3. HandlesAnswered' /\ PunchesSomebody'
  BY DEF UpdateStart, UpdateEnds, UpdateTop, UpdateLock, UpdateUnlock, UpdateHeard, IInv,
         HandlesAnswered, PunchesSomebody
<1>4. StartsFresh' /\ DueIsDue'
  BY DEF UpdateStart, UpdateEnds, UpdateTop, UpdateLock, UpdateUnlock, UpdateHeard, IInv,
         StartsFresh, DueIsDue
<1>5. QED
  BY <1>1, <1>2, <1>3, <1>4 DEF IInv, PoolIsSound

LEMMA HeartbeatKeepsIInv ==
    ASSUME IInv, NEW p \in Peers, UpdateHeartbeat(p)
    PROVE  IInv'
<1> USE DEF Update, mmVars, mainVars, ioVars
<1>1. 0 \in 0 .. HBInterval + 1
  BY ConnectorAssumption
<1>2. TypeOK'
  BY <1>1 DEF UpdateHeartbeat, IInv, TypeOK, poolVars
<1>3. HandlesAnswered' /\ PunchesSomebody' /\ StartsFresh'
  BY DEF UpdateHeartbeat, IInv, TypeOK, HandlesAnswered, PunchesSomebody, StartsFresh
<1>4. DueIsDue'
  BY DEF UpdateHeartbeat, IInv, TypeOK, DueIsDue
<1>5. PoolIsSound'
  BY PoolUntouched DEF UpdateHeartbeat
<1>6. QED
  BY <1>2, <1>3, <1>4, <1>5 DEF IInv, PoolIsSound

\* Then those that send.
LEMMA UpdateSendsKeepIInv ==
    ASSUME IInv, UpdateRegister \/ UpdatePunch
    PROVE  IInv'
<1> USE DEF Update, runVars, tableVars, mmVars, mainVars, ioVars
<1>1. PICK msg \in Messages : MMSend("update", msg)
  <2>1. CASE UpdateRegister
    BY <2>1, MessageFacts DEF UpdateRegister
  <2>2. CASE UpdatePunch
    BY <2>2, MessageFacts DEF UpdatePunch, IInv, PunchesSomebody
  <2>3. QED
    BY <2>1, <2>2
<1>2. PoolIsSound'
  <2>1. UNCHANGED <<senderPc, answered>>
    BY DEF UpdateRegister, UpdatePunch
  <2>2. QED
    BY <1>1, <2>1, MMSendKeeps
<1>3. TypeOK'
  BY <1>2 DEF UpdateRegister, UpdatePunch, IInv, TypeOK, PoolIsSound, PoolTyped
<1>4. HandlesAnswered' /\ PunchesSomebody'
  BY DEF UpdateRegister, UpdatePunch, IInv, TypeOK, HandlesAnswered, PunchesSomebody
<1>5. StartsFresh' /\ DueIsDue'
  BY DEF UpdateRegister, UpdatePunch, IInv, StartsFresh, DueIsDue
<1>6. QED
  BY <1>2, <1>3, <1>4, <1>5 DEF IInv, PoolIsSound

\* Then those that take a message and give its buffer back.
LEMMA PollKeepsIInv ==
    ASSUME IInv, UpdatePoll
    PROVE  IInv'
<1>1. CASE mmQueue = <<>>
  <2> USE DEF Update, runVars, tableVars, mmVars, mainVars, ioVars
  <2>1. TypeOK' /\ DueIsDue'
    BY <1>1 DEF UpdatePoll, IInv, TypeOK, DueIsDue, poolVars
  <2>2. HandlesAnswered' /\ PunchesSomebody' /\ StartsFresh'
    BY <1>1 DEF UpdatePoll, IInv, HandlesAnswered, PunchesSomebody, StartsFresh
  <2>3. PoolIsSound'
    BY <1>1, PoolUntouched DEF UpdatePoll
  <2>4. QED
    BY <2>1, <2>2, <2>3 DEF IInv, PoolIsSound
<1>2. CASE mmQueue # <<>>
  <2>1. /\ updatePc = "messages" /\ updatePc' = HandlerOf(Head(mmQueue))
        /\ answered' = Head(mmQueue) /\ mmQueue' = Tail(mmQueue)
        /\ UNCHANGED <<unused, sendQueue, strays, acq, tableVars, mmVars, lock, peer, mainVars, due,
                       topAge, ioVars>>
    BY <1>2 DEF UpdatePoll, Update
  <2>2. /\ Head(mmQueue) \in Messages /\ mmQueue' \in Seq(Messages)
        /\ Len(mmQueue') = Len(mmQueue) - 1 /\ Len(mmQueue) \in Nat /\ Len(mmQueue') \in Nat
    BY <1>2, <2>1, TailKeepsType DEF IInv, TypeOK
  <2>3. /\ answered' \in Messages /\ answered' # NoMessage
        /\ updatePc' \in {"answer", "heard", "drop"}
        /\ updatePc' # "drop" => answered'.to \in Peers
    BY <2>1, <2>2, MessageFacts
  <2>4. TypeOK'
    BY <2>1, <2>2, <2>3 DEF IInv, TypeOK, tableVars, mmVars, mainVars, ioVars
  <2>5. HandlesAnswered' /\ PunchesSomebody' /\ StartsFresh' /\ DueIsDue'
    BY <2>1, <2>3 DEF IInv, HandlesAnswered, PunchesSomebody, StartsFresh, DueIsDue, tableVars,
                      mainVars, ioVars
  <2>6. SenderAcquires'
    BY <2>1 DEF IInv, SenderAcquires, ioVars
  <2>7. BuffersConserved'
    <3>1. UpdateHolds = 0 /\ UpdateHolds' = 1
      BY <2>1, <2>3 DEF UpdateHolds, Count, IInv, HandlesAnswered
    <3>2. TakersHold' = TakersHold /\ SenderHolds' = SenderHolds
      BY <2>1 DEF TakersHold, TakerHolds, SenderHolds, ioVars
    <3>3. unused \in Nat /\ strays \in Nat /\ Len(sendQueue) \in Nat
      BY DEF IInv, TypeOK
    <3>4. Buffers' = Buffers
      BY <2>1, <2>2, <3>1, <3>2, <3>3, HolderFacts DEF Buffers
    <3>5. PoolTyped'
      BY <2>4 DEF TypeOK, PoolTyped
    <3>6. QED
      BY <3>4, <3>5, CountKept
  <2>8. QED
    BY <2>4, <2>5, <2>6, <2>7 DEF IInv
<1>3. QED
  BY <1>1, <1>2

LEMMA AnswerKeepsIInv ==
    ASSUME IInv, UpdateAnswer
    PROVE  IInv'
<1>1. CASE Update("answer", "first") /\ AddEndpoint("update", answered.to) /\ UNCHANGED mainVars
  <2> DEFINE p == answered.to
  <2>1. AddEndpoint("update", p) /\ p \in Peers
    BY <1>1 DEF IInv, HandlesAnswered, Update
  <2> HIDE DEF p
  <2>2. TypeOK'
    <3>1. /\ PoolTyped' /\ listenPc' = listenPc /\ senderPc' = senderPc
          /\ answered' = answered /\ connected' = connected /\ endpoints' \in SUBSET Peers
          /\ punchAge' \in [Peers -> 0 .. Past(HBInterval)] /\ due' \in SUBSET Peers
          /\ peer' \in [{"main", "update"} -> Peers \cup {Nobody}]
      BY <2>1, AddEndpointKeeps DEF PoolIsSound
    <3>2. updatePc' = "first" /\ mainPc' = mainPc /\ toAdd' = toAdd
      BY <1>1 DEF Update, mainVars
    <3>3. QED
      BY <3>1, <3>2 DEF IInv, TypeOK, PoolTyped
  <2>3. HandlesAnswered' /\ PunchesSomebody' /\ StartsFresh'
    BY <1>1, <2>1, AddEndpointKeeps
       DEF IInv, HandlesAnswered, PunchesSomebody, StartsFresh, Update, mainVars
  <2>4. QED
    BY <2>1, <2>2, <2>3, AddEndpointKeeps DEF IInv, PoolIsSound
<1>2. CASE Update("first", "second") /\ PunchFirst("update") /\ UNCHANGED mainVars
  <2>1. peer["update"] \in Peers
    BY <1>2 DEF IInv, PunchesSomebody, Update
  <2>2. TypeOK'
    BY <1>2, <2>1, PunchFirstKeeps DEF IInv, TypeOK, PoolIsSound, PoolTyped, Update, mainVars
  <2>3. HandlesAnswered' /\ PunchesSomebody' /\ StartsFresh'
    BY <1>2, <2>1, PunchFirstKeeps
       DEF IInv, HandlesAnswered, PunchesSomebody, StartsFresh, Update, mainVars
  <2>4. QED
    BY <1>2, <2>1, <2>2, <2>3, PunchFirstKeeps DEF IInv, PoolIsSound
<1>3. CASE Update("second", "drop") /\ PunchSecond("update") /\ UNCHANGED mainVars
  <2>1. peer["update"] \in Peers
    BY <1>3 DEF IInv, PunchesSomebody, Update
  <2>2. TypeOK'
    BY <1>3, <2>1, PunchSecondKeeps DEF IInv, TypeOK, PoolIsSound, PoolTyped, Update, mainVars
  <2>3. HandlesAnswered' /\ PunchesSomebody' /\ StartsFresh'
    BY <1>3, <2>1, PunchSecondKeeps
       DEF IInv, HandlesAnswered, PunchesSomebody, StartsFresh, Update, mainVars
  <2>4. QED
    BY <1>3, <2>1, <2>2, <2>3, PunchSecondKeeps DEF IInv, PoolIsSound
<1>4. QED
  BY <1>1, <1>2, <1>3 DEF UpdateAnswer

LEMMA DropKeepsIInv ==
    ASSUME IInv, UpdateDrop
    PROVE  IInv'
<1>1. /\ updatePc = "drop" /\ updatePc' = "top" /\ answered' = NoMessage /\ GiveBack(acq)
      /\ UNCHANGED <<sendQueue, mmQueue, strays, tableVars, mmVars, lock, peer, mainVars, due,
                     topAge, ioVars>>
  BY DEF UpdateDrop, Update
<1>2. acq \in [Threads -> Acquisitions]
  BY DEF IInv, TypeOK
<1>3. /\ unused' = unused + 1
      /\ PoolTyped'
      /\ acq'["sender"] # "holding" /\ (acq'["sender"] = "idle") = (acq["sender"] = "idle")
      /\ \A t \in Takers : (acq'[t] = "holding") = (acq[t] = "holding")
  BY <1>1, <1>2, GiveBackFacts
<1>4. TypeOK' /\ DueIsDue'
  BY <1>1, <1>3 DEF IInv, TypeOK, PoolTyped, DueIsDue, tableVars, mmVars, mainVars, ioVars
<1>5. HandlesAnswered' /\ PunchesSomebody' /\ StartsFresh'
  BY <1>1 DEF IInv, HandlesAnswered, PunchesSomebody, StartsFresh, tableVars, mainVars, ioVars
<1>6. SenderAcquires'
  BY <1>1, <1>3 DEF IInv, SenderAcquires, ioVars
<1>7. BuffersConserved'
  <2>1. UpdateHolds = 1 /\ UpdateHolds' = 0
    BY <1>1 DEF UpdateHolds, Count, IInv, HandlesAnswered
  <2>2. TakersHold' = TakersHold /\ SenderHolds' = SenderHolds
    BY <1>1, <1>3, SameTakers DEF SenderHolds, ioVars
  <2>3. unused \in Nat /\ strays \in Nat /\ Len(sendQueue) \in Nat /\ Len(mmQueue) \in Nat
    BY DEF IInv, TypeOK
  <2>4. Buffers' = Buffers
    BY <1>1, <1>3, <2>1, <2>2, <2>3, HolderFacts DEF Buffers
  <2>5. QED
    BY <1>3, <2>4, CountKept
<1>8. QED
  BY <1>4, <1>5, <1>6, <1>7 DEF IInv

------------------------------------------------------------------------------
THEOREM IInvIsInductive == IInv /\ [Next]_vars => IInv'
<1> SUFFICES ASSUME IInv, [Next]_vars PROVE IInv'
  OBVIOUS
<1>1. CASE Tick
  BY <1>1, TickKeepsIInv
<1>2. CASE MainProgram
  BY <1>2, StartsKeepIInv, MainAddsKeepsIInv, BroadcastKeepsIInv DEF MainProgram
<1>3. CASE \E th \in Threads : Constructing(th) \/ WakeSpuriously(th)
  BY <1>3, WaitingKeepsIInv, AcquireKeepsIInv DEF Constructing
<1>4. CASE Network
  BY <1>4, NetworkKeepsIInv
<1>5. CASE UpdateThread
  BY <1>5, UpdateLooksKeepIInv, HeartbeatKeepsIInv, UpdateSendsKeepIInv, PollKeepsIInv,
     AnswerKeepsIInv, DropKeepsIInv DEF UpdateThread
<1>6. CASE DataSender
  BY <1>6, SenderKeepsIInv
<1>7. CASE ListenerThrows \/ \E th \in Threads : OIError(th)
  BY <1>7, ListenerThrowsKeepsIInv, OIErrorKeepsIInv
<1>8. CASE UNCHANGED vars
  <2> USE <1>8 DEF vars, runVars, tableVars, mmVars, mainVars, updateVars, ioVars
  <2>1. TypeOK' /\ DueIsDue'
    BY DEF IInv, TypeOK, DueIsDue, poolVars
  <2>2. HandlesAnswered' /\ PunchesSomebody' /\ StartsFresh'
    BY DEF IInv, HandlesAnswered, PunchesSomebody, StartsFresh
  <2>3. PoolIsSound'
    BY PoolUntouched
  <2>4. QED
    BY <2>1, <2>2, <2>3 DEF IInv, PoolIsSound
<1>9. QED
  BY <1>1, <1>2, <1>3, <1>4, <1>5, <1>6, <1>7, <1>8
     DEF Next, MainThread, DataListener, DataUpdate, SenderThread

THEOREM InvariantHolds == Spec => []IInv
  BY InitEstablishesIInv, IInvIsInductive, PTL DEF Spec

\* Whatever the pool, the peers and the network: every buffer of the connector is
\* in the pool, in a queue or with one thread.
THEOREM BuffersAlwaysConserved == Spec => []BuffersConserved
<1>1. IInv => BuffersConserved
  BY DEF IInv
<1>2. QED
  BY <1>1, InvariantHolds, PTL

------------------------------------------------------------------------------
(* The steps that are neither the update thread's nor the program's leave  *)
(* the table, what is seen of connected, and the update thread's place.    *)
Elsewhere ==
    \/ Tick \/ BroadcastData \/ ListenerThrows \/ Network \/ DataSender
    \/ \E th \in Threads : Constructing(th) \/ WakeSpuriously(th) \/ OIError(th)

LEMMA ElsewhereLeaves ==
    ASSUME Elsewhere
    PROVE  UNCHANGED <<endpoints, connected, updatePc>>
<1> USE DEF tableVars, mmVars, updateVars
<1>1. CASE Tick \/ BroadcastData \/ ListenerThrows
  BY <1>1 DEF Tick, BroadcastData, ListenerThrows
<1>2. CASE Network
  BY <1>2 DEF Network, Receive, ReceiveStray, ReceiveNothing, Listened
<1>3. CASE DataSender
  BY <1>3 DEF DataSender, SenderStart, SenderLoop, SenderTake, SenderFindsNothing, SenderTargets,
              SenderSend
<1>4. CASE \E th \in Threads : Constructing(th) \/ WakeSpuriously(th) \/ OIError(th)
  BY <1>4 DEF Constructing, AcquireUnlock, Wait, Acquire, WakeSpuriously, OIError, outsidePool
<1>5. QED
  BY <1>1, <1>2, <1>3, <1>4 DEF Elsewhere

LEMMA StepKinds ==
    ASSUME [Next]_vars
    PROVE  Elsewhere \/ StartReceiver \/ StartSender \/ RegisterQueue \/ StartUpdate \/ MainAdds
               \/ UpdateThread \/ UNCHANGED vars
  BY DEF Next, MainThread, MainProgram, DataListener, DataUpdate, SenderThread, Elsewhere

------------------------------------------------------------------------------
(* The step to a punch is UpdateHeartbeat, of an endpoint that is due.     *)
LEMMA OnlyHeartbeatsPunch ==
    ASSUME IInv, [Next]_vars, updatePc = "heartbeat", updatePc' = "punch"
    PROVE  punchAge[peer'["update"]] > HBInterval
<1>1. PICK p \in Peers : UpdateHeartbeat(p)
  <2>1. ~UNCHANGED updatePc
    OBVIOUS
  <2>2. UpdateThread
    <3>1. ~(Elsewhere \/ UNCHANGED vars)
      BY <2>1, ElsewhereLeaves DEF vars, updateVars
    <3>2. ~(StartReceiver \/ StartSender \/ RegisterQueue \/ StartUpdate \/ MainAdds)
      BY <2>1 DEF StartReceiver, StartSender, RegisterQueue, StartUpdate, MainAdds, updateVars
    <3>3. QED
      BY <3>1, <3>2, StepKinds
  <2>3. QED
    BY <2>2 DEF UpdateThread, Update, UpdateStart, UpdateEnds, UpdateTop, UpdateRegister,
                UpdateLock, UpdatePunch, UpdateUnlock, UpdatePoll, UpdateAnswer, UpdateHeard,
                UpdateDrop
<1>2. p \in due /\ peer'["update"] = p
  BY <1>1 DEF UpdateHeartbeat, IInv, TypeOK
<1>3. QED
  BY <1>2 DEF IInv, DueIsDue

\* Whatever the interval, and whoever else punches: the update thread punches an
\* endpoint only when its last punch is longer ago than the heartbeat interval.
THEOREM NeverPunchesEarly == Spec => NoEarlyHeartbeat
<1>1. IInv /\ [Next]_vars =>
          [updatePc = "heartbeat" /\ updatePc' = "punch" =>
               punchAge[peer'["update"]] > HBInterval]_vars
  BY OnlyHeartbeatsPunch
<1>2. QED
  BY <1>1, InvariantHolds, PTL DEF Spec, NoEarlyHeartbeat

------------------------------------------------------------------------------
(* The refinement of PeerTable.                                            *)
Seen == [endpoints |-> endpoints, connected |-> connected /\ updatePc # "none"]

LEMMA SeenFacts ==
    ASSUME NEW p
    PROVE  /\ Table!Learned(Seen, p) = [endpoints |-> endpoints \cup {p},
                                        connected |-> connected /\ updatePc # "none"]
           /\ p \in endpoints =>
                  Table!Heard(Seen, p) = [endpoints |-> endpoints, connected |-> TRUE]
<1>1. Table!Learned(Seen, p) = [endpoints |-> endpoints \cup {p},
                                connected |-> connected /\ updatePc # "none"]
  BY DEF Seen, Table!Learned
<1>2. p \in endpoints => Table!Heard(Seen, p) = [endpoints |-> endpoints, connected |-> TRUE]
  BY DEF Seen, Table!Heard
<1>3. QED
  BY <1>1, <1>2

\* A step that adds an endpoint.
LEMMA AddsLearn ==
    ASSUME NEW p \in Peers, endpoints' = endpoints \cup {p}, UNCHANGED connected,
           (updatePc' = "none") = (updatePc = "none")
    PROVE  Seen' = Table!Learned(Seen, p)
  BY SeenFacts DEF Seen

\* Every other step leaves the table and what is seen of connected.
LEMMA OthersLookOn ==
    ASSUME IInv, UNCHANGED <<endpoints, connected>>, (updatePc' = "none") = (updatePc = "none")
    PROVE  UNCHANGED Seen
  BY DEF Seen

LEMMA StepSeen ==
    ASSUME IInv, [Next]_vars
    PROVE  (\E p \in Peers : Seen' \in {Table!Learned(Seen, p), Table!Heard(Seen, p)})
               \/ UNCHANGED Seen
<1> DEFINE Learns == \E p \in Peers : /\ endpoints' = endpoints \cup {p} /\ UNCHANGED connected
                                      /\ (updatePc' = "none") = (updatePc = "none")
           Stays == UNCHANGED <<endpoints, connected>> /\ (updatePc' = "none") = (updatePc = "none")
<1>1. CASE Elsewhere \/ UNCHANGED vars
  <2>1. Stays
    BY <1>1, ElsewhereLeaves DEF vars, tableVars, mmVars, updateVars
  <2>2. QED
    BY <2>1, OthersLookOn
<1>2. CASE StartReceiver \/ StartSender \/ RegisterQueue
  <2>1. Stays
    BY <1>2 DEF StartReceiver, StartSender, RegisterQueue, tableVars, mmVars, updateVars
  <2>2. QED
    BY <2>1, OthersLookOn
<1>3. CASE StartUpdate
  <2>1. endpoints = {} /\ endpoints' = {} /\ connected' = FALSE /\ updatePc = "none"
    BY <1>3 DEF StartUpdate, Main, IInv, StartsFresh, Starting
  <2>2. QED
    BY <2>1 DEF Seen
<1>4. CASE MainAdds
  <2>1. CASE AddEndpoint("main", Head(toAdd)) /\ toAdd # <<>> /\ UNCHANGED updatePc
    <3>1. Head(toAdd) \in Peers
      BY <2>1, TailKeepsType DEF IInv, TypeOK
    <3>2. QED
      BY <2>1, <3>1, AddsLearn DEF AddEndpoint, mmVars
  <2>2. CASE (PunchFirst("main") \/ PunchSecond("main")) /\ UNCHANGED updatePc
    <3>1. Stays
      BY <2>2 DEF PunchFirst, PunchSecond, tableVars, mmVars
    <3>2. QED
      BY <3>1, OthersLookOn
  <2>3. QED
    BY <1>4, <2>1, <2>2 DEF MainAdds
<1>5. CASE UpdateAnswer
  <2>1. CASE Update("answer", "first") /\ AddEndpoint("update", answered.to)
    <3>1. answered.to \in Peers
      BY <2>1 DEF IInv, HandlesAnswered, Update
    <3>2. QED
      BY <2>1, <3>1, AddsLearn DEF AddEndpoint, mmVars, Update
  <2>2. CASE (Update("first", "second") /\ PunchFirst("update"))
             \/ (Update("second", "drop") /\ PunchSecond("update"))
    <3>1. Stays
      BY <2>2 DEF PunchFirst, PunchSecond, tableVars, mmVars, Update
    <3>2. QED
      BY <3>1, OthersLookOn
  <2>3. QED
    BY <1>5, <2>1, <2>2 DEF UpdateAnswer
<1>6. CASE UpdateHeard
  <2>1. answered.to \in Peers /\ updatePc' # "none" /\ updatePc # "none" /\ endpoints' = endpoints
    BY <1>6 DEF UpdateHeard, Update, IInv, HandlesAnswered
  <2>2. CASE answered.to \in endpoints
    <3>1. connected' = TRUE
      BY <1>6, <2>2 DEF UpdateHeard
    <3>2. Seen' = Table!Heard(Seen, answered.to)
      BY <2>1, <2>2, <3>1, SeenFacts DEF Seen
    <3>3. QED
      BY <2>1, <3>2
  <2>3. CASE answered.to \notin endpoints
    <3>1. Stays
      BY <1>6, <2>1, <2>3 DEF UpdateHeard
    <3>2. QED
      BY <3>1, OthersLookOn
  <2>4. QED
    BY <2>2, <2>3
<1>7. CASE UpdateStart \/ UpdateEnds \/ UpdateTop \/ UpdateRegister \/ UpdateLock \/ UpdatePunch
           \/ UpdateUnlock \/ UpdateDrop \/ \E p \in Peers : UpdateHeartbeat(p)
  <2>1. Stays
    BY <1>7 DEF UpdateStart, UpdateEnds, UpdateTop, UpdateRegister, UpdateLock, UpdatePunch,
                UpdateUnlock, UpdateDrop, UpdateHeartbeat, Update, tableVars, mmVars
  <2>2. QED
    BY <2>1, OthersLookOn
<1>8. CASE UpdatePoll
  <2>1. mmQueue # <<>> => HandlerOf(Head(mmQueue)) # "none"
    BY DEF HandlerOf
  <2>2. Stays
    BY <1>8, <2>1 DEF UpdatePoll, Update, tableVars, mmVars
  <2>3. QED
    BY <2>2, OthersLookOn
<1>9. QED
  BY <1>1, <1>2, <1>3, <1>4, <1>5, <1>6, <1>7, <1>8, StepKinds
     DEF UpdateThread

\* Whatever the pool, the peers and the clock: the connector does to its table
\* only what PeerTable says.
THEOREM ConnectorImplementsPeerTable == Spec => ImplementsPeerTable
<1>1. Init => Table!Init
  BY DEF Init, Table!Init, Table!Fresh
<1>2. IInv /\ [Next]_vars =>
          [Table!Next]_[endpoints |-> endpoints, connected |-> connected /\ updatePc # "none"]
  BY StepSeen, Zenon DEF Seen, Table!Next
<1>3. QED
  BY <1>1, <1>2, InvariantHolds, PTL DEF Spec, ImplementsPeerTable, Table!Spec
==============================================================================
