----------------------- MODULE ScheduledCommandsProofs -----------------------
(***************************************************************************)
(* For any commands, times and clock: a scheduled command is executed once *)
(* and not before its time, and a wait ends when the next one is due if the*)
(* time-out can say so.                                                    *)
(***************************************************************************)
EXTENDS ScheduledCommands, WellFoundedInduction, TLAPS

LEMMA LeastOf ==
    ASSUME NEW T \in SUBSET Nat, T # {}
    PROVE  \E x \in T : \A y \in T : x <= y
<1> DEFINE smaller == {p \in Nat \X Nat : p[1] < p[2]}
<1>1. IsWellFoundedOn(smaller, Nat)
  BY NatLessThanWellFounded, Zenon DEF OpToRel
<1>2. ASSUME NEW x \in T, NEW y \in T, <<y, x>> \notin smaller
      PROVE  x <= y
  BY <1>2
<1> HIDE DEF smaller
<1>3. \E x \in T : \A y \in T : <<y, x>> \notin smaller
  BY <1>1, WFMin
<1>4. QED
  BY <1>2, <1>3

\* A positive number that fits stays what it is.
LEMMA NarrowFits ==
    ASSUME NEW x \in Nat, x < HalfRange
    PROVE  Narrow(x) = x
<1>1. HalfRange \in Nat /\ HalfRange > 0
  BY CommandsAssumption
<1>2. x % (2 * HalfRange) = x
  BY <1>1
<1>3. QED
  BY <1>1, <1>2 DEF Narrow

LEMMA HeadAndTail ==
    ASSUME NEW S, NEW q \in Seq(S), q # <<>>
    PROVE  /\ 1 \in DOMAIN q /\ Head(q) = q[1] /\ Head(q) \in S
           /\ Tail(q) \in Seq(S)
           /\ \A i \in DOMAIN Tail(q) :
                  i + 1 \in DOMAIN q /\ Tail(q)[i] = q[i + 1] /\ i \in Nat \ {0}
  OBVIOUS

LEMMA InitEstablishesIInv == Init => IInv
  BY DEF Init, IInv, TypeOK, InboxApart, ScheduledApart, ExecutedApart, NoneTwice, OnceAndNotEarly,
         TimeoutRight

LEMMA TickKeepsIInv ==
    ASSUME IInv, Tick
    PROVE  IInv'
<1>1. now \in Nat /\ now' = now + 1
      /\ UNCHANGED <<toSend, inbox, scheduled, executed, pc, t, timeout, deadline>>
  BY DEF Tick, IInv, TypeOK
<1>2. TypeOK'
  BY <1>1 DEF IInv, TypeOK
<1>3. QED
  BY <1>1, <1>2
     DEF IInv, InboxApart, ScheduledApart, ExecutedApart, NoneTwice, OnceAndNotEarly,
         TimeoutRight, NextFits

\* A new message is of a command that is nowhere else.
LEMMA ArriveKeepsIInv ==
    ASSUME IInv, NEW c \in Commands, Arrive(c)
    PROVE  IInv'
<1>1. PICK msg \in [cmd : {c}, time : Times \cup {-1}] \cup [cmd : {NoCommand}, time : {-1}] :
          inbox' = Append(inbox, msg)
  BY DEF Arrive
<1>2. /\ msg \in [cmd : Commands \cup {NoCommand}, time : Nat \cup {-1}]
      /\ msg.cmd # NoCommand => msg.cmd = c
  BY <1>1, CommandsAssumption
<1>3. /\ c \in toSend /\ toSend' = toSend \ {c}
      /\ UNCHANGED <<now, scheduled, executed, pc, t, timeout, deadline>>
  BY DEF Arrive
<1>4. /\ inbox \in Seq([cmd : Commands \cup {NoCommand}, time : Nat \cup {-1}])
      /\ Len(inbox') = Len(inbox) + 1 /\ Len(inbox) \in Nat
      /\ DOMAIN inbox' = 1 .. Len(inbox) + 1
      /\ \A i \in DOMAIN inbox : inbox'[i] = inbox[i]
      /\ inbox'[Len(inbox) + 1] = msg
      /\ inbox' \in Seq([cmd : Commands \cup {NoCommand}, time : Nat \cup {-1}])
      /\ DOMAIN inbox = 1 .. Len(inbox)
  BY <1>1, <1>2 DEF IInv, TypeOK
<1>5. TypeOK'
  BY <1>3, <1>4 DEF IInv, TypeOK
<1>6. \A i \in DOMAIN inbox' : inbox'[i].cmd # NoCommand =>
          \/ i = Len(inbox) + 1 /\ inbox'[i].cmd = c
          \/ i \in DOMAIN inbox /\ inbox'[i] = inbox[i] /\ inbox[i].cmd # c
  <2>1. \A i \in DOMAIN inbox : inbox[i].cmd # NoCommand => inbox[i].cmd # c
    BY <1>3 DEF IInv, InboxApart
  <2>2. QED
    BY <1>2, <1>4, <2>1
<1>7. InboxApart'
  BY <1>3, <1>6 DEF IInv, InboxApart, ScheduledApart, ExecutedApart
<1>8. ScheduledApart' /\ ExecutedApart'
  BY <1>3 DEF IInv, ScheduledApart, ExecutedApart
<1>9. NoneTwice'
  BY <1>3, <1>6 DEF IInv, NoneTwice
<1>10. OnceAndNotEarly' /\ TimeoutRight'
  BY <1>3 DEF IInv, OnceAndNotEarly, TimeoutRight, NextFits
<1>11. QED
  BY <1>5, <1>7, <1>8, <1>9, <1>10 DEF IInv

\* A command goes from the heap to the executed ones.
LEMMA HandleTopKeepsIInv ==
    ASSUME IInv, HandleTop
    PROVE  IInv'
<1>1. PICK s \in Top :
          /\ s.time <= t
          /\ executed' = Append(executed, [cmd |-> s.cmd, time |-> s.time, at |-> now])
          /\ scheduled' = scheduled \ {s}
  BY DEF HandleTop
<1>0. pc' = "handle"
  BY DEF HandleTop
<1> DEFINE new == [cmd |-> s.cmd, time |-> s.time, at |-> now]
<1>2. s \in scheduled /\ s \in [cmd : Commands, time : Nat] /\ now \in Nat /\ t \in Nat /\ t <= now
  BY <1>1 DEF Top, IInv, TypeOK
<1>3. UNCHANGED <<now, toSend, inbox, pc, t, timeout, deadline>>
  BY DEF HandleTop
<1>4. /\ new \in [cmd : Commands, time : Nat, at : Nat]
      /\ new.cmd = s.cmd /\ new.at >= new.time
  BY <1>1, <1>2
<1>5. executed' = Append(executed, new)
  BY <1>1
<1> HIDE DEF new
<1>6. /\ Len(executed) \in Nat
      /\ DOMAIN executed = 1 .. Len(executed)
      /\ DOMAIN executed' = 1 .. Len(executed) + 1
      /\ \A i \in DOMAIN executed : executed'[i] = executed[i]
      /\ executed'[Len(executed) + 1] = new
      /\ executed' \in Seq([cmd : Commands, time : Nat, at : Nat])
  BY <1>4, <1>5 DEF IInv, TypeOK
<1>7. TypeOK'
  BY <1>1, <1>3, <1>6 DEF IInv, TypeOK
<1>8. \A i \in DOMAIN executed' :
          \/ i = Len(executed) + 1 /\ executed'[i] = new
          \/ i \in DOMAIN executed /\ executed'[i] = executed[i] /\ executed[i].cmd # s.cmd
  <2>1. \A i \in DOMAIN executed : executed[i].cmd # s.cmd
    BY <1>2 DEF IInv, ScheduledApart
  <2>2. QED
    BY <1>6, <2>1
<1>9. InboxApart'
  BY <1>1, <1>2, <1>3, <1>4, <1>8 DEF IInv, InboxApart
<1>10. ScheduledApart'
  <2>1. \A r \in scheduled \ {s} : r.cmd # s.cmd
    BY <1>2 DEF IInv, NoneTwice
  <2>2. QED
    BY <1>1, <1>3, <1>4, <1>8, <2>1 DEF IInv, ScheduledApart
<1>11. ExecutedApart'
  <2>1. s.cmd \notin toSend
    BY <1>2 DEF IInv, ScheduledApart
  <2>2. QED
    BY <1>3, <1>4, <1>8, <2>1 DEF IInv, ExecutedApart
<1>12. NoneTwice'
  BY <1>1, <1>3 DEF IInv, NoneTwice
<1>13. OnceAndNotEarly'
  BY <1>4, <1>8 DEF IInv, OnceAndNotEarly
<1>14. TimeoutRight'
  BY <1>0 DEF TimeoutRight
<1>15. QED
  BY <1>7, <1>9, <1>10, <1>11, <1>12, <1>13, <1>14 DEF IInv

\* A command goes from the queue to the heap.
LEMMA ReceiveKeepsIInv ==
    ASSUME IInv, Receive
    PROVE  IInv'
<1> DEFINE msg == Head(inbox)
           entry == [cmd |-> msg.cmd, time |-> IF msg.time >= 0 THEN msg.time ELSE now]
<1>1. /\ inbox # <<>> /\ inbox' = Tail(inbox)
      /\ scheduled' = IF msg.cmd = NoCommand THEN scheduled ELSE scheduled \cup {entry}
      /\ UNCHANGED <<now, toSend, executed, t>>
  BY DEF Receive
<1>2. /\ inbox \in Seq([cmd : Commands \cup {NoCommand}, time : Nat \cup {-1}])
      /\ msg = inbox[1] /\ 1 \in DOMAIN inbox
      /\ msg \in [cmd : Commands \cup {NoCommand}, time : Nat \cup {-1}]
      /\ inbox' \in Seq([cmd : Commands \cup {NoCommand}, time : Nat \cup {-1}])
      /\ \A i \in DOMAIN inbox' : i + 1 \in DOMAIN inbox /\ inbox'[i] = inbox[i + 1] /\ i \in Nat \ {0}
  <2>1. inbox \in Seq([cmd : Commands \cup {NoCommand}, time : Nat \cup {-1}])
    BY DEF IInv, TypeOK
  <2> DEFINE S == [cmd : Commands \cup {NoCommand}, time : Nat \cup {-1}]
  <2>2. inbox \in Seq(S) /\ inbox # <<>>
    BY <1>1, <2>1
  <2> HIDE DEF S, msg
  <2>3. /\ 1 \in DOMAIN inbox /\ Head(inbox) = inbox[1] /\ Head(inbox) \in S
        /\ Tail(inbox) \in Seq(S)
        /\ \A i \in DOMAIN Tail(inbox) :
               i + 1 \in DOMAIN inbox /\ Tail(inbox)[i] = inbox[i + 1] /\ i \in Nat \ {0}
    BY <2>2, HeadAndTail
  <2>4. QED
    BY <1>1, <2>2, <2>3, Zenon DEF S, msg
<1>3. msg.cmd # NoCommand => entry \in [cmd : Commands, time : Nat] /\ entry.cmd = msg.cmd
  BY <1>2 DEF IInv, TypeOK
<1> HIDE DEF msg, entry
<1>4. TypeOK'
  BY <1>1, <1>2, <1>3 DEF IInv, TypeOK
<1>5. msg.cmd # NoCommand =>
          /\ msg.cmd \notin toSend
          /\ \A s \in scheduled : s.cmd # msg.cmd
          /\ \A j \in DOMAIN executed : executed[j].cmd # msg.cmd
          /\ \A i \in DOMAIN inbox' : inbox'[i].cmd # msg.cmd
  <2>1. \A i \in DOMAIN inbox : inbox[i].cmd = msg.cmd /\ msg.cmd # NoCommand => i = 1
    BY <1>2 DEF IInv, NoneTwice
  <2>2. \A i \in DOMAIN inbox' : i + 1 # 1
    BY <1>2
  <2>3. QED
    BY <1>2, <2>1, <2>2 DEF IInv, InboxApart
<1>6. \A s \in scheduled' : s \in scheduled \/ (msg.cmd # NoCommand /\ s = entry /\ s.cmd = msg.cmd)
  BY <1>1, <1>3
<1>7. InboxApart'
  BY <1>1, <1>2, <1>5, <1>6 DEF IInv, InboxApart
<1>8. ScheduledApart'
  BY <1>1, <1>5, <1>6 DEF IInv, ScheduledApart
<1>9. NoneTwice'
  <2>1. \A i, j \in DOMAIN inbox' :
            inbox'[i].cmd = inbox'[j].cmd /\ inbox'[i].cmd # NoCommand => i = j
    <3>1. \A i, j \in DOMAIN inbox' :
              inbox'[i].cmd = inbox'[j].cmd /\ inbox'[i].cmd # NoCommand => i + 1 = j + 1
      BY <1>2 DEF IInv, NoneTwice
    <3>2. QED
      BY <1>2, <3>1
  <2>2. \A s, r \in scheduled' : s.cmd = r.cmd => s = r
    BY <1>5, <1>6 DEF IInv, NoneTwice
  <2>3. QED
    BY <2>1, <2>2 DEF NoneTwice
<1>10. ExecutedApart' /\ OnceAndNotEarly'
  BY <1>1 DEF IInv, ExecutedApart, OnceAndNotEarly
<1>11. TimeoutRight'
  BY DEF Receive, TimeoutRight
<1>12. QED
  BY <1>4, <1>7, <1>8, <1>9, <1>10, <1>11 DEF IInv

\* The time-out is computed from a command with the smallest time.
LEMMA HandleDoneTimeoutRight ==
    ASSUME IInv, HandleDone
    PROVE  TimeoutRight'
<1>1. SUFFICES ASSUME scheduled # {}, NextFits
               PROVE  timeout' \in Nat /\ \A s \in scheduled : timeout' <= s.time - t
  BY DEF HandleDone, TimeoutRight, NextFits
<1>2. t \in Nat /\ \A s \in scheduled : s.time \in Nat
  BY DEF IInv, TypeOK
<1>3. PICK top \in scheduled : \A s \in scheduled : top.time <= s.time
  <2> DEFINE times == {s.time : s \in scheduled}
  <2>1. times \in SUBSET Nat /\ times # {}
    BY <1>1, <1>2
  <2>2. PICK x \in times : \A y \in times : x <= y
    BY <2>1, LeastOf
  <2>3. QED
    BY <2>2
<1>4. PICK s \in Top : timeout' = TimeoutOf(s)
  <2>1. Top # {}
    BY <1>3 DEF Top
  <2>2. QED
    BY <1>1, <2>1 DEF HandleDone
<1>5. s \in scheduled /\ (\A r \in scheduled : s.time <= r.time) /\ s.time > t
  BY <1>4 DEF Top, HandleDone
<1>6. s.time - t \in Nat /\ s.time - t < HalfRange
  BY <1>1, <1>2, <1>5, CommandsAssumption DEF NextFits
<1>7. timeout' = s.time - t
  BY <1>4, <1>6, NarrowFits DEF TimeoutOf
<1>8. QED
  BY <1>2, <1>5, <1>6, <1>7

LEMMA WaitingKeepsIInv ==
    ASSUME IInv, ReadClock \/ HandleDone \/ BeginWait \/ TimeOut \/ UNCHANGED vars
    PROVE  IInv'
<1>1. UNCHANGED <<now, toSend, inbox, scheduled, executed>> /\ t' \in {t, now}
  BY DEF ReadClock, HandleDone, BeginWait, TimeOut, vars
<1>2. TypeOK'
  BY <1>1 DEF IInv, TypeOK
<1>3. TimeoutRight'
  <2>1. CASE HandleDone
    BY <2>1, HandleDoneTimeoutRight
  <2>2. CASE ReadClock \/ BeginWait \/ TimeOut
    BY <2>2 DEF ReadClock, BeginWait, TimeOut, TimeoutRight
  <2>3. CASE UNCHANGED vars
    BY <2>3 DEF vars, IInv, TimeoutRight, NextFits
  <2>4. QED
    BY <2>1, <2>2, <2>3
<1>4. QED
  BY <1>1, <1>2, <1>3
     DEF IInv, InboxApart, ScheduledApart, ExecutedApart, NoneTwice, OnceAndNotEarly

THEOREM IInvIsInductive == IInv /\ [Next]_vars => IInv'
  BY TickKeepsIInv, ArriveKeepsIInv, HandleTopKeepsIInv, ReceiveKeepsIInv, WaitingKeepsIInv
     DEF Next, CommandThread

THEOREM InvariantHolds == Spec => []IInv
  BY InitEstablishesIInv, IInvIsInductive, PTL DEF Spec

\* Whatever is sent, with or without a time, however long the thread waits: no
\* command is executed twice or before its time.
THEOREM AlwaysOnceAndNotEarly == Spec => []OnceAndNotEarly
<1>1. IInv => OnceAndNotEarly
  BY DEF IInv
<1>2. QED
  BY <1>1, InvariantHolds, PTL

\* However many commands there are, whatever the clock does during a pass, and with a
\* time-out of any width: a wait that begins ends when the next command is due, except
\* for the time that has passed since the clock was read, if its delay fits.
THEOREM WaitAlwaysBounded == Spec => WaitIsBounded
<1>1. ASSUME IInv, [Next]_vars, pc = "acquire", pc' = "waiting", scheduled # {}, NextFits
      PROVE  deadline' # Never /\ \A s \in scheduled : deadline' <= s.time + (now - t)
  <2>1. BeginWait
    BY <1>1 DEF Next, CommandThread, Tick, Arrive, ReadClock, HandleTop, HandleDone, TimeOut,
                Receive, vars
  <2>2. timeout \in Nat /\ \A s \in scheduled : timeout <= s.time - t
    BY <1>1 DEF IInv, TimeoutRight
  <2>3. /\ now \in Nat /\ t \in Nat
        /\ \A s \in scheduled : s.time \in Nat
    BY <1>1 DEF IInv, TypeOK
  <2>4. deadline' = now + timeout
    BY <2>1, <2>2 DEF BeginWait
  <2>5. QED
    BY <2>2, <2>3, <2>4 DEF Never
<1>2. IInv /\ [Next]_vars =>
          [pc = "acquire" /\ pc' = "waiting" /\ scheduled # {} /\ NextFits =>
               deadline' # Never /\ \A s \in scheduled : deadline' <= s.time + (now - t)]_vars
  BY <1>1
<1>3. QED
  BY <1>2, InvariantHolds, PTL DEF Spec, WaitIsBounded
==============================================================================
