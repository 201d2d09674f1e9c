------------------------------ MODULE FrameFlow ------------------------------
(***************************************************************************)
(* What oi.rgbd promises of its messages, without threads, queues, buffers *)
(* and wakeups: one line from the producers to the writer.  A producer that*)
(* is told its message is queued has put it at the end of the line, and the*)
(* writer takes from its front.  RGBDStreamIO implements this              *)
(* specification.                                                          *)
(***************************************************************************)
EXTENDS Integers, Sequences

CONSTANTS Producers, MaxFrames

VARIABLES
    queued,   \* queued[p]: how many messages p has been told are queued
    line,     \* the messages on their way
    written   \* the messages the writer has seen

vars == <<queued, line, written>>

Init ==
    /\ queued = [p \in Producers |-> 0]
    /\ line = <<>>
    /\ written = <<>>

Put(p) ==
    /\ queued[p] < MaxFrames
    /\ queued' = [queued EXCEPT ![p] = @ + 1]
    /\ line' = Append(line, [from |-> p, seq |-> queued[p] + 1])
    /\ UNCHANGED written

Write ==
    /\ line # <<>>
    /\ line' = Tail(line)
    /\ written' = Append(written, Head(line))
    /\ UNCHANGED queued

Next == Write \/ \E p \in Producers : Put(p)

Spec == Init /\ [][Next]_vars
==============================================================================
