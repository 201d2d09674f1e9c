------------------------------ MODULE SendLine ------------------------------
(***************************************************************************)
(* What an endpoint promises to the threads that send, without threads,    *)
(* buffers, locks and condition variables: the messages form one line, in  *)
(* which they are given to the socket first come, first served, whoever    *)
(* sent them, each once; and none is lost unless the endpoint stands       *)
(* still.  UDPBase implements this specification.                          *)
(***************************************************************************)
EXTENDS Integers, Sequences

CONSTANT Letters    \* messages, each with its user and the number the user gave it

VARIABLES
    line,       \* the messages on their way to the socket
    sent,       \* the messages given to the socket, in order
    stopped     \* the endpoint stands still: not started yet, failed or closed

vars == <<line, sent, stopped>>

Init == line = <<>> /\ sent = <<>> /\ stopped = TRUE

\* A thread numbers its messages upwards and hands each over once.
IsNew(m) ==
    \A s \in {line, sent} : \A i \in DOMAIN s : s[i].user = m.user => s[i].seq < m.seq

HandOver(m) ==
    /\ IsNew(m)
    /\ line' = Append(line, m)
    /\ UNCHANGED <<sent, stopped>>

Transmit ==
    /\ ~stopped
    /\ line # <<>>
    /\ sent' = Append(sent, Head(line))
    /\ line' = Tail(line)
    /\ UNCHANGED stopped

Drop ==
    /\ stopped
    /\ line # <<>>
    /\ line' = Tail(line)
    /\ UNCHANGED <<sent, stopped>>

StartOrStop ==
    /\ stopped' = ~stopped
    /\ UNCHANGED <<line, sent>>

Next == (\E m \in Letters : HandOver(m)) \/ Transmit \/ Drop \/ StartOrStop

Spec == Init /\ [][Next]_vars
==============================================================================
