--------------------------- MODULE MCRGBDStreamIO ---------------------------
(***************************************************************************)
(* A streamer with a frame thread and the configuration thread, and a pool *)
(* of two buffers.                                                         *)
(***************************************************************************)
EXTENDS RGBDStreamIO

CONSTANTS o1, o2, pool, ql, qw, qs

FrameStock == [p \in {pool} |-> <<o1, o2>>]
FramePool == [q \in {ql, qw, qs} |-> pool]
StreamFrames == Frames
==============================================================================
