----------------------------- MODULE RGBDFrame -----------------------------
(***************************************************************************)
(* How a camera frame becomes messages (RGBDDevice::QueueRGBDFrame): one   *)
(* colour message, then the rows of the depth image in blocks that fit a   *)
(* datagram.  Row numbers and the elapsed time are unsigned 16 bit; Modulus*)
(* stands for 2^16.  Pixels are left out.  A message needs a buffer of the *)
(* pool: the acquisition waits while there is none, and its thread may     *)
(* sleep for ever (a lost notification, a pool nobody fills again), get one*)
(* late, or be woken without one and throw.                                *)
(***************************************************************************)
EXTENDS Integers, Sequences

CONSTANTS
    Modulus,     \* 2^16
    Payload,     \* MAX_UDP_PACKET_SIZE - sizeof(RGBD_HEADER_STRUCT): bytes of a block
    Heights,     \* what frame_height() of a device returns
    Widths,      \* what frame_width() of a device returns
    Times,       \* the timestamps of frames
    DeltaLimit   \* 60000: from here on delta_t is sent as 0

ASSUME FrameAssumption ==
    /\ Modulus \in Nat \ {0}
    /\ Payload \in Nat
    /\ Heights \subseteq Nat
    /\ Widths \subseteq Nat \ {0}
    /\ Times \subseteq Int
    /\ DeltaLimit \in Nat

VARIABLES
    pc,          \* where the camera thread is
    asleep,      \* it waits for a buffer of the pool
    size,        \* the frame's height and width
    prevFrame,   \* _prev_frame, uninitialised before the first frame
    elapsed,     \* timestamp - _prev_frame of this frame
    deltaValue,  \* what the headers of this frame say of it
    startRow, endRow,
    blocks,      \* the depth blocks of this frame that were enqueued
    result       \* what the last call returned: "none", "length" or "-1"

vars == <<pc, asleep, size, prevFrame, elapsed, deltaValue, startRow, endRow, blocks, result>>

Init ==
    /\ pc = "idle"
    /\ asleep = FALSE
    /\ size \in [height : Heights, width : Widths]
    /\ prevFrame \in Times
    /\ elapsed = 0
    /\ deltaValue = 0
    /\ startRow = 0 /\ endRow = 0
    /\ blocks = <<>>
    /\ result = "none"

\* A pixel taken for one byte.
LinesOfBytes(w) == ((Payload % Modulus) \div w) % Modulus

\* linesPerMessage: the cast to 16 bits binds tighter than the division.
LinesPerMessage(w) == ((Payload % Modulus) \div (2 * w)) % Modulus

\* The elapsed time kept as the signed number it was computed as.
SignedDelta(d) == IF d >= DeltaLimit THEN 0 ELSE d

DeltaOf(d) == IF d >= DeltaLimit THEN 0 ELSE d % Modulus

\* The call: the elapsed time and the size of the frame.
QueueRGBDFrame(h, w, timestamp) ==
    /\ pc = "idle"
    /\ pc' = "color"
    /\ size' = [height |-> h, width |-> w]
    /\ elapsed' = timestamp - prevFrame
    /\ deltaValue' = DeltaOf(timestamp - prevFrame)
    /\ prevFrame' = timestamp
    /\ startRow' = 0
    /\ blocks' = <<>>
    /\ result' = "none"
    /\ UNCHANGED <<asleep, endRow>>

\* An acquisition: the color message and each block need a buffer.
Acquiring == pc \in {"color", "block"}

\* The pool is found empty and the thread waits to be notified.
AwaitBuffer ==
    /\ Acquiring
    /\ ~asleep
    /\ asleep' = TRUE
    /\ UNCHANGED <<pc, size, prevFrame, elapsed, deltaValue, startRow, endRow, blocks, result>>

\* Woken, it finds the pool empty again: an OIError, which nobody catches.
AcquisitionThrows ==
    /\ Acquiring
    /\ asleep
    /\ asleep' = FALSE
    /\ pc' = "thrown"
    /\ UNCHANGED <<size, prevFrame, elapsed, deltaValue, startRow, endRow, blocks, result>>

\* The color message has a buffer, at once or after a wait, and is enqueued.
QueueColor ==
    /\ pc = "color"
    /\ pc' = "rows"
    /\ asleep' = FALSE
    /\ UNCHANGED <<size, prevFrame, elapsed, deltaValue, startRow, endRow, blocks, result>>

Return(value) ==
    /\ pc' = "idle"
    /\ result' = value
    /\ UNCHANGED <<size, prevFrame, elapsed, deltaValue, startRow, blocks>>

\* Continues where it should break when the end has wrapped around.
LoopTestContinues ==
    LET end == (startRow + LinesPerMessage(size.width)) % Modulus IN
    /\ pc = "rows"
    /\ UNCHANGED asleep
    /\ \/ startRow >= size.height /\ Return("length") /\ UNCHANGED endRow
       \/ /\ startRow < size.height /\ startRow >= end
          /\ endRow' = end
          /\ UNCHANGED <<pc, size, prevFrame, elapsed, deltaValue, startRow, blocks, result>>
       \/ /\ startRow < size.height /\ startRow < end
          /\ endRow' = IF end >= size.height THEN size.height ELSE end
          /\ pc' = "block"
          /\ UNCHANGED <<size, prevFrame, elapsed, deltaValue, startRow, blocks, result>>

\* Leaves the loop when the next full block would reach beyond the image.
LoopTestFullBlocksOnly ==
    LET end == (startRow + LinesPerMessage(size.width)) % Modulus IN
    /\ pc = "rows"
    /\ UNCHANGED asleep
    /\ \/ end >= size.height /\ Return("length") /\ UNCHANGED endRow
       \/ /\ end < size.height
          /\ endRow' = end
          /\ pc' = "block"
          /\ UNCHANGED <<size, prevFrame, elapsed, deltaValue, startRow, blocks, result>>

\* The condition of the loop, and the break when the end has wrapped around.
LoopTest ==
    LET end == (startRow + LinesPerMessage(size.width)) % Modulus IN
    /\ pc = "rows"
    /\ UNCHANGED asleep
    /\ \/ startRow >= size.height /\ Return("length") /\ UNCHANGED endRow
       \/ startRow < size.height /\ startRow >= end /\ Return("length") /\ endRow' = end
       \/ /\ startRow < size.height /\ startRow < end
          /\ endRow' = IF end >= size.height THEN size.height ELSE end
          /\ pc' = "block"
          /\ UNCHANGED <<size, prevFrame, elapsed, deltaValue, startRow, blocks, result>>

\* Goes on one row too far.
QueueBlockSkipsRow ==
    /\ pc = "block"
    /\ asleep' = FALSE
    /\ blocks' = Append(blocks, [startRow |-> startRow, endRow |-> endRow])
    /\ startRow' = (startRow + LinesPerMessage(size.width) + 1) % Modulus
    /\ pc' = "rows"
    /\ UNCHANGED <<size, prevFrame, elapsed, deltaValue, endRow, result>>

\* A block has a buffer, is filled with the rows and enqueued; the loop goes on.
QueueBlock ==
    /\ pc = "block"
    /\ asleep' = FALSE
    /\ blocks' = Append(blocks, [startRow |-> startRow, endRow |-> endRow])
    /\ startRow' = (startRow + LinesPerMessage(size.width)) % Modulus
    /\ pc' = "rows"
    /\ UNCHANGED <<size, prevFrame, elapsed, deltaValue, endRow, result>>

\* No buffer, the pool's queue being closed: the rest of the frame is given up.
NoBuffer ==
    /\ Acquiring
    /\ Return("-1")
    /\ asleep' = FALSE
    /\ UNCHANGED endRow

Working == QueueColor \/ LoopTest \/ QueueBlock

Waiting == AwaitBuffer \/ AcquisitionThrows

Next ==
    \/ \E h \in Heights, w \in Widths, t \in Times : QueueRGBDFrame(h, w, t)
    \/ Working
    \/ Waiting
    \/ NoBuffer

Spec == Init /\ [][Next]_vars

------------------------------------------------------------------------------
TypeOK ==
    /\ pc \in {"idle", "color", "rows", "block", "thrown"}
    /\ asleep \in BOOLEAN
    /\ size \in [height : Nat, width : Nat \ {0}]
    /\ prevFrame \in Times
    /\ elapsed \in Int
    /\ deltaValue \in 0 .. Modulus - 1
    /\ startRow \in Nat /\ endRow \in Nat
    /\ blocks \in Seq([startRow : Nat, endRow : Nat])
    /\ result \in {"none", "length", "-1"}

\* However the call ends, the blocks it has queued are rows of the image, from
\* the first row on, in order, without a gap, a repetition or an empty block.
RowsInOrder ==
    \A i \in DOMAIN blocks :
        /\ blocks[i].startRow = IF i = 1 THEN 0 ELSE blocks[i - 1].endRow
        /\ blocks[i].startRow < blocks[i].endRow
        /\ blocks[i].endRow <= size.height

\* The rows of a block fit behind the header in one buffer.
BlocksFit ==
    \A i \in DOMAIN blocks :
        2 * size.width * (blocks[i].endRow - blocks[i].startRow) <= Payload

\* The row counter cannot wrap for images of this size, and a row fits a block.
Representable == LinesPerMessage(size.width) > 0
                 /\ size.height + LinesPerMessage(size.width) <= Modulus

LastRow == blocks[Len(blocks)].endRow

\* A call that returns a length has queued the whole image.
WholeImage ==
    result = "length" /\ Representable /\ size.height > 0 =>
        blocks # <<>> /\ LastRow = size.height

\* Where the loop is: the rows before the one it looks at are queued.
RowsSoFar ==
    /\ pc = "color" => blocks = <<>> /\ startRow = 0
    /\ pc \in {"rows", "block"} => startRow < Modulus /\ (blocks = <<>> => startRow = 0)
    /\ pc = "rows" /\ blocks # <<>> =>
           LastRow = IF startRow >= size.height THEN size.height ELSE startRow
    /\ pc = "block" =>
           /\ startRow < endRow /\ endRow <= size.height
           /\ startRow + LinesPerMessage(size.width) < Modulus
           /\ endRow = IF startRow + LinesPerMessage(size.width) >= size.height
                       THEN size.height ELSE startRow + LinesPerMessage(size.width)
           /\ blocks # <<>> => LastRow = startRow
    /\ pc # "idle" => result = "none"
    /\ asleep => Acquiring

IInv == TypeOK /\ RowsInOrder /\ BlocksFit /\ WholeImage /\ RowsSoFar

\* delta_t is the time since the previous frame, or 0 when that is too long ago
\* for 16 bits.
DeltaIsElapsed == deltaValue = IF elapsed >= DeltaLimit THEN 0 ELSE elapsed
==============================================================================
