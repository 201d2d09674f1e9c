------------------------- MODULE ScheduledCommands -------------------------
(***************************************************************************)
(* The command thread of RGBDStreamIO: it executes the scheduled commands  *)
(* that are due, waits for a message no longer than until the next one is  *)
(* due, and schedules the command in the message.  The wait for a message  *)
(* is a timed acquisition of the command queue; a negative time-out, which *)
(* HandleScheduledCommands returns when nothing is scheduled, has no limit.*)
(* The time-out is a signed 32 bit number; HalfRange stands for 2^31.      *)
(***************************************************************************)
EXTENDS Integers, Sequences

CONSTANTS
    Commands,    \* the commands that are sent
    NoCommand,   \* what a message without a "cmd" holds instead of a command
    Times,       \* what the "time" of a command can be
    HalfRange,   \* 2^31
    MaxTime      \* bound: the clock stops here unless a wait ends later

ASSUME CommandsAssumption ==
    /\ NoCommand \notin Commands
    /\ Times \subseteq Nat
    /\ HalfRange \in Nat \ {0}
    /\ MaxTime \in Nat

VARIABLES
    now,         \* the clock, in milliseconds
    toSend,      \* the commands nobody has sent yet
    inbox,       \* _commands_queue: [cmd, time], time = -1 when the message has none
    scheduled,   \* scheduled_commands, a heap: the set of [cmd, time] in it
    executed,    \* what HandleCommand was called with, and when
    pc,          \* where the thread is
    t,           \* HandleScheduledCommands' clock
    timeout,     \* nextCommandTimeout
    deadline     \* when the wait for a message ends

vars == <<now, toSend, inbox, scheduled, executed, pc, t, timeout, deadline>>

\* A wait without a limit.
Never == -1

Init ==
    /\ now = 0
    /\ toSend = Commands
    /\ inbox = <<>>
    /\ scheduled = {}
    /\ executed = <<>>
    /\ pc = "loop"
    /\ t = 0 /\ timeout = -1 /\ deadline = Never

\* A signed number of the width of int32_t.
Narrow(x) == LET r == x % (2 * HalfRange) IN IF r >= HalfRange THEN r - 2 * HalfRange ELSE r

------------------------------------------------------------------------------
(* The environment: the clock, and the senders of commands.                *)
Tick ==
    /\ now < MaxTime \/ (pc = "waiting" /\ deadline # Never /\ now < deadline)
    /\ now' = now + 1
    /\ UNCHANGED <<toSend, inbox, scheduled, executed, pc, t, timeout, deadline>>

Arrive(c) ==
    /\ c \in toSend
    /\ toSend' = toSend \ {c}
    /\ \E msg \in [cmd : {c}, time : Times \cup {-1}] \cup [cmd : {NoCommand}, time : {-1}] :
           inbox' = Append(inbox, msg)
    /\ UNCHANGED <<now, scheduled, executed, pc, t, timeout, deadline>>

------------------------------------------------------------------------------
(* HandleScheduledCommands.                                                *)
ReadClock ==
    /\ pc = "loop"
    /\ pc' = "handle"
    /\ t' = now
    /\ UNCHANGED <<now, toSend, inbox, scheduled, executed, timeout, deadline>>

\* The comparison of the heap the wrong way around.
Latest == {s \in scheduled : \A r \in scheduled : s.time >= r.time}

\* top() is one of the commands with the smallest time.
Top == {s \in scheduled : \A r \in scheduled : s.time <= r.time}

\* A clock taken for one millisecond later.
HandleTopEarly ==
    /\ pc = "handle"
    /\ \E s \in Top :
           /\ s.time <= t + 1
           /\ executed' = Append(executed, [cmd |-> s.cmd, time |-> s.time, at |-> now])
           /\ scheduled' = scheduled \ {s}
    /\ UNCHANGED <<now, toSend, inbox, pc, t, timeout, deadline>>

\* HandleCommand, then pop.
HandleTop ==
    /\ pc = "handle"
    /\ \E s \in Top :
           /\ s.time <= t
           /\ executed' = Append(executed, [cmd |-> s.cmd, time |-> s.time, at |-> now])
           /\ scheduled' = scheduled \ {s}
    /\ UNCHANGED <<now, toSend, inbox, pc, t, timeout, deadline>>

\* Waits for a message only.
NoTimeoutOf(s) == -1

TimeoutOf(s) == Narrow(s.time - t)

HandleDone ==
    /\ pc = "handle"
    /\ \A s \in Top : s.time > t
    /\ timeout' = IF scheduled = {} THEN -1 ELSE TimeoutOf(CHOOSE s \in Top : TRUE)
    /\ pc' = "acquire"
    /\ UNCHANGED <<now, toSend, inbox, scheduled, executed, t, deadline>>

------------------------------------------------------------------------------
(* The timed acquisition of the command queue.                             *)
\* The queue is found empty and a wait of this length begins.
BeginWait ==
    /\ pc = "acquire"
    /\ inbox = <<>>
    /\ deadline' = IF timeout < 0 THEN Never ELSE now + timeout
    /\ pc' = "waiting"
    /\ UNCHANGED <<now, toSend, inbox, scheduled, executed, t, timeout>>

\* The time is up and nothing has come.
TimeOut ==
    /\ pc = "waiting"
    /\ deadline # Never
    /\ now >= deadline
    /\ inbox = <<>>
    /\ pc' = "loop"
    /\ deadline' = Never
    /\ UNCHANGED <<now, toSend, inbox, scheduled, executed, t, timeout>>

\* A message: ScheduleCommand(msg) if there is a command in it, then the object
\* is dropped.
Receive ==
    /\ pc \in {"acquire", "waiting"}
    /\ inbox # <<>>
    /\ LET msg == Head(inbox) IN
           scheduled' = IF msg.cmd = NoCommand THEN scheduled
                        ELSE scheduled \cup
                             {[cmd |-> msg.cmd, time |-> IF msg.time >= 0 THEN msg.time ELSE now]}
    /\ inbox' = Tail(inbox)
    /\ pc' = "loop"
    /\ deadline' = Never
    /\ UNCHANGED <<now, toSend, executed, t, timeout>>

CommandThread == ReadClock \/ HandleTop \/ HandleDone \/ BeginWait \/ TimeOut \/ Receive

Next == Tick \/ (\E c \in Commands : Arrive(c)) \/ CommandThread

\* The thread and the clock go on.  A message that comes while the thread waits
\* is not bound to wake it: its notification can be lost.
BoundToMove == CommandThread /\ (pc = "waiting" => deadline # Never /\ now >= deadline)

Fairness == WF_vars(BoundToMove) /\ WF_vars(Tick)
Spec == Init /\ [][Next]_vars
FairSpec == Spec /\ Fairness

------------------------------------------------------------------------------
\* A command is executed once, and not before its time.
OnceAndNotEarly ==
    /\ \A i \in DOMAIN executed : executed[i].at >= executed[i].time
    /\ \A i, j \in DOMAIN executed : executed[i].cmd = executed[j].cmd => i = j

\* A delay from the clock of this pass that is a positive number in 32 bits.
NextFits == \E s \in scheduled : s.time - t < HalfRange

\* "Don't wait longer than until when the next command is due": a wait that begins
\* ends, also when no message comes, no later than each scheduled command is due,
\* except for the time that has passed since this pass read the clock, in which
\* it executed the commands before.  A delay of 2^31 milliseconds is too long for
\* that: its time-out can be negative, which is no limit.
WaitIsBounded ==
    [][pc = "acquire" /\ pc' = "waiting" /\ scheduled # {} /\ NextFits =>
           deadline' # Never /\ \A s \in scheduled : deadline' <= s.time + (now - t)]_vars

\* A scheduled command that is due is executed, even when no message comes or the
\* notification of one is lost, unless a wait began with the next command too far
\* ahead for the time-out.
DueIsExecuted ==
    [](pc = "acquire" /\ scheduled # {} => NextFits) =>
        \A c \in Commands :
            (\E s \in scheduled : s.cmd = c /\ s.time <= now)
                ~> (\E i \in DOMAIN executed : executed[i].cmd = c)

\* The same of commands however far ahead.  It does not hold (README, section 4).
FarIsExecuted ==
    \A c \in Commands :
        (\E s \in scheduled : s.cmd = c /\ s.time <= now)
            ~> (\E i \in DOMAIN executed : executed[i].cmd = c)

\* "if not empty, .time must be bigger than t (after the loop above), so this
\* should be a positive number...": the time-out until the next command.
TimeoutIsPositive == pc = "acquire" /\ scheduled # {} => timeout > 0

\* The wait of WaitIsBounded without the time since the clock was read.  It does not
\* hold (README, section 4).
WaitsUntilDue ==
    pc = "waiting" /\ scheduled # {} =>
        deadline # Never /\ \A s \in scheduled : deadline <= s.time

------------------------------------------------------------------------------
(* The inductive invariant of the proofs.                                  *)
TypeOK ==
    /\ now \in Nat /\ t \in 0 .. now
    /\ toSend \in SUBSET Commands
    /\ inbox \in Seq([cmd : Commands \cup {NoCommand}, time : Nat \cup {-1}])
    /\ scheduled \in SUBSET [cmd : Commands, time : Nat]
    /\ executed \in Seq([cmd : Commands, time : Nat, at : Nat])

\* A command is in one place: not sent yet, in the queue, in the heap or executed...
InboxApart ==
    \A i \in DOMAIN inbox : inbox[i].cmd # NoCommand =>
        /\ inbox[i].cmd \notin toSend
        /\ \A s \in scheduled : s.cmd # inbox[i].cmd
        /\ \A j \in DOMAIN executed : executed[j].cmd # inbox[i].cmd
ScheduledApart ==
    \A s \in scheduled :
        /\ s.cmd \notin toSend
        /\ \A j \in DOMAIN executed : executed[j].cmd # s.cmd
ExecutedApart == \A j \in DOMAIN executed : executed[j].cmd \notin toSend

\* ... and there only once.
NoneTwice ==
    /\ \A i, j \in DOMAIN inbox : inbox[i].cmd = inbox[j].cmd /\ inbox[i].cmd # NoCommand => i = j
    /\ \A s, r \in scheduled : s.cmd = r.cmd => s = r

\* The time-out of the wait that comes next, seen from the clock of this pass.
TimeoutRight ==
    pc = "acquire" /\ scheduled # {} /\ NextFits =>
        timeout \in Nat /\ \A s \in scheduled : timeout <= s.time - t

IInv ==
    /\ TypeOK /\ InboxApart /\ ScheduledApart /\ ExecutedApart /\ NoneTwice
    /\ OnceAndNotEarly /\ TimeoutRight
==============================================================================
