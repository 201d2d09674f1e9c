-------------------------- MODULE CameraClientProofs --------------------------
(***************************************************************************)
(* The row loop of RGBDFrame and the client around it.  For frames of every*)
(* size: the blocks are the rows of the image, in order, each fits a       *)
(* buffer, and a call that returns a length has queued all of them as long *)
(* as the row counter cannot wrap around.  The client is a camera thread of*)
(* RGBDFrame, so all of that holds for it; and, for any number of threads  *)
(* and signals, it gives back what it was lent.                            *)
(***************************************************************************)
EXTENDS CameraClient, TLAPS

USE DEF Acquiring

------------------------------------------------------------------------------
(* The row loop.                                                           *)
\* Sums of two row numbers, as 16 bit arithmetic computes them.
LEMMA SumWrapsOnce ==
    ASSUME NEW m \in Nat \ {0}, NEW a \in 0 .. m - 1, NEW b \in 0 .. m - 1
    PROVE  /\ (a + b) % m \in 0 .. m - 1
           /\ a + b < m => (a + b) % m = a + b
           /\ a + b >= m => (a + b) % m = a + b - m
  BY Z3

LEMMA RemainderInRange ==
    ASSUME NEW m \in Nat \ {0}, NEW a \in Int
    PROVE  a % m \in 0 .. m - 1
  BY Z3

LEMMA RemainderIsSmaller ==
    ASSUME NEW m \in Nat \ {0}, NEW a \in Nat
    PROVE  a % m <= a
  BY Z3

\* A quotient times its divisor.
LEMMA QuotientFits ==
    ASSUME NEW a \in Nat, NEW d \in Nat \ {0}
    PROVE  a \div d \in Nat /\ d * (a \div d) <= a
  BY Z3

LEMMA LessTimesLess ==
    ASSUME NEW d \in Nat, NEW x \in Nat, NEW y \in Nat, x <= y
    PROVE  d * x <= d * y
  BY Z3

------------------------------------------------------------------------------
(* The lines of a block.                                                   *)

LEMMA LinesFit ==
    ASSUME NEW w \in Nat \ {0}
    PROVE  /\ LinesPerMessage(w) \in 0 .. Modulus - 1
           /\ 2 * w * LinesPerMessage(w) <= Payload
<1> DEFINE room == Payload % Modulus
           lines == room \div (2 * w)
<1>1. room \in Nat /\ room <= Payload
  BY FrameAssumption, RemainderInRange, RemainderIsSmaller
<1>2. lines \in Nat /\ (2 * w) * lines <= room
  <2>1. 2 * w \in Nat \ {0}
    OBVIOUS
  <2> HIDE DEF room
  <2>2. QED
    BY <1>1, <2>1, QuotientFits
<1> HIDE DEF lines
<1>3. lines % Modulus \in 0 .. Modulus - 1 /\ lines % Modulus <= lines
  <2>1. lines \in Int /\ Modulus \in Nat \ {0}
    BY <1>2, FrameAssumption
  <2> HIDE DEF room
  <2>2. QED
    BY <1>2, <2>1, RemainderInRange, RemainderIsSmaller
<1>4. (2 * w) * (lines % Modulus) <= (2 * w) * lines
  <2>1. lines % Modulus \in Nat
    BY <1>3, FrameAssumption
  <2> HIDE DEF lines
  <2>2. QED
    BY <1>2, <1>3, <2>1, LessTimesLess
<1>5. LinesPerMessage(w) = lines % Modulus
  BY DEF LinesPerMessage, lines, room
<1>6. (2 * w) * LinesPerMessage(w) <= Payload
  <2>1. (2 * w) * lines \in Int /\ (2 * w) * (lines % Modulus) \in Int
    BY <1>2, <1>3, FrameAssumption
  <2>2. QED
    BY <1>1, <1>2, <1>4, <1>5, <2>1, FrameAssumption
<1>7. QED
  BY <1>3, <1>5, <1>6

\* A part of a block's lines fits as well.
LEMMA BlockFits ==
    ASSUME NEW w \in Nat \ {0}, NEW n \in Nat, n <= LinesPerMessage(w)
    PROVE  2 * w * n <= Payload
<1>1. LinesPerMessage(w) \in Nat /\ 2 * w * LinesPerMessage(w) <= Payload
  BY LinesFit, FrameAssumption
<1>2. (2 * w) * n <= (2 * w) * LinesPerMessage(w)
  BY <1>1, LessTimesLess
<1>3. (2 * w) * n \in Int /\ (2 * w) * LinesPerMessage(w) \in Int
  BY <1>1
<1>4. QED
  BY <1>1, <1>2, <1>3, FrameAssumption

------------------------------------------------------------------------------
(* The inductive invariant.                                                *)

THEOREM InitEstablishesIInv == Init => IInv
<1> SUFFICES ASSUME Init PROVE IInv
  OBVIOUS
<1>1. TypeOK
  <2>1. size \in [height : Nat, width : Nat \ {0}]
    BY FrameAssumption DEF Init
  <2>2. 0 \in 0 .. Modulus - 1 /\ <<>> \in Seq([startRow : Nat, endRow : Nat])
    BY FrameAssumption
  <2>3. asleep \in BOOLEAN
    BY DEF Init
  <2>4. QED
    BY <2>1, <2>2, <2>3 DEF Init, TypeOK
<1>2. QED
  BY <1>1 DEF Init, IInv, RowsInOrder, BlocksFit, WholeImage, RowsSoFar

LEMMA CallKeepsIInv ==
    ASSUME IInv, NEW h \in Heights, NEW w \in Widths, NEW t \in Times, QueueRGBDFrame(h, w, t)
    PROVE  IInv'
<1>1. TypeOK'
  <2>1. t - prevFrame \in Int
    BY FrameAssumption DEF IInv, TypeOK
  <2>2. DeltaOf(t - prevFrame) \in 0 .. Modulus - 1
    <3>1. \A d \in Int : DeltaOf(d) \in 0 .. Modulus - 1
      <4> TAKE d \in Int
      <4>1. d % Modulus \in 0 .. Modulus - 1 /\ 0 \in 0 .. Modulus - 1
        BY FrameAssumption, RemainderInRange
      <4>2. QED
        BY <4>1 DEF DeltaOf
    <3>2. QED
      BY <2>1, <3>1
  <2>3. QED
    BY <2>1, <2>2, FrameAssumption DEF IInv, TypeOK, QueueRGBDFrame
<1>2. QED
  BY <1>1, FrameAssumption
     DEF QueueRGBDFrame, IInv, RowsInOrder, BlocksFit, WholeImage, RowsSoFar

LEMMA ColorKeepsIInv ==
    ASSUME IInv, QueueColor
    PROVE  IInv'
<1>1. TypeOK'
  BY DEF IInv, TypeOK, QueueColor
<1>2. RowsSoFar'
  BY FrameAssumption DEF IInv, TypeOK, RowsSoFar, QueueColor
<1>3. QED
  BY <1>1, <1>2
     DEF QueueColor, IInv, RowsInOrder, BlocksFit, WholeImage, Representable, LastRow, LinesPerMessage

LEMMA LoopTestKeepsIInv ==
    ASSUME IInv, LoopTest
    PROVE  IInv'
<1> DEFINE lines == LinesPerMessage(size.width)
           end == (startRow + lines) % Modulus
<1>1. size.width \in Nat \ {0} /\ size.height \in Nat /\ startRow \in 0 .. Modulus - 1
  BY FrameAssumption DEF IInv, TypeOK, RowsSoFar, LoopTest
<1>2. lines \in 0 .. Modulus - 1
  BY <1>1, LinesFit
<1>3. /\ end \in 0 .. Modulus - 1
      /\ startRow + lines < Modulus => end = startRow + lines
      /\ startRow + lines >= Modulus => end = startRow + lines - Modulus
  <2> HIDE DEF lines
  <2>1. QED
    BY <1>1, <1>2, FrameAssumption, SumWrapsOnce
<1>4. UNCHANGED <<size, prevFrame, elapsed, deltaValue, startRow, blocks>>
  BY DEF LoopTest, Return
<1>5. LinesPerMessage(size.width)' = lines
  BY <1>4 DEF LinesPerMessage
<1> HIDE DEF lines, end
<1>6. TypeOK'
  BY <1>1, <1>3, <1>4, FrameAssumption DEF IInv, TypeOK, LoopTest, Return, lines, end
<1>7. RowsInOrder' /\ BlocksFit'
  BY <1>4 DEF IInv, RowsInOrder, BlocksFit
<1>8. WholeImage'
  <2>1. SUFFICES ASSUME result' = "length", Representable', size'.height > 0
                 PROVE  blocks # <<>> /\ LastRow = size.height
    BY <1>4 DEF WholeImage, LastRow
  <2>2. lines > 0 /\ size.height + lines <= Modulus /\ size.height > 0
    BY <1>4, <1>5, <2>1 DEF Representable
  <2>3. startRow >= size.height
    <3>1. CASE startRow < size.height /\ startRow >= end
      <4>1. startRow + lines < Modulus
        BY <1>1, <1>2, <2>2, <3>1, FrameAssumption
      <4>2. QED
        BY <1>1, <1>2, <1>3, <2>2, <3>1, <4>1
    <3>2. CASE result' = result
      BY <2>1, <3>2 DEF LoopTest, IInv, RowsSoFar
    <3>3. QED
      BY <3>1, <3>2 DEF LoopTest, lines, end
  <2>4. blocks # <<>>
    BY <1>1, <2>2, <2>3 DEF LoopTest, IInv, RowsSoFar
  <2>5. QED
    BY <2>3, <2>4 DEF LoopTest, IInv, RowsSoFar
<1>9. RowsSoFar'
  <2>0. ~asleep'
    BY DEF LoopTest, IInv, RowsSoFar
  <2>1. CASE pc' = "idle"
    BY <2>0, <2>1 DEF RowsSoFar
  <2>2. CASE pc' = "block"
    <3>1. startRow < size.height /\ startRow < end
      BY <2>2 DEF LoopTest, Return, lines, end
    <3>2. endRow' = IF end >= size.height THEN size.height ELSE end
      BY <2>2 DEF LoopTest, Return, lines, end
    <3>3. startRow + lines < Modulus /\ end = startRow + lines
      BY <1>1, <1>2, <1>3, <3>1, FrameAssumption
    <3>4. LastRow' = LastRow
      BY <1>4 DEF LastRow
    <3>5. blocks # <<>> => LastRow = startRow
      BY <3>1, <1>1 DEF LoopTest, IInv, RowsSoFar
    <3>6. (blocks = <<>> => startRow = 0) /\ result' = "none"
      BY <2>2 DEF LoopTest, Return, IInv, RowsSoFar
    <3>7. /\ startRow' < endRow' /\ endRow' <= size'.height
          /\ startRow' + lines < Modulus
          /\ endRow' = IF startRow' + lines >= size'.height
                       THEN size'.height ELSE startRow' + lines
      BY <1>1, <1>2, <1>4, <3>1, <3>2, <3>3, FrameAssumption
    <3>8. startRow' < Modulus /\ (blocks' = <<>> => startRow' = 0)
      BY <1>1, <1>4, <3>6, FrameAssumption
    <3>9. blocks' # <<>> => LastRow' = startRow'
      BY <1>4, <3>4, <3>5
    <3>10. QED
      BY <1>5, <2>2, <3>6, <3>7, <3>8, <3>9 DEF RowsSoFar
  <2>3. QED
    BY <2>1, <2>2 DEF LoopTest, Return
<1>10. QED
  BY <1>6, <1>7, <1>8, <1>9 DEF IInv

LEMMA BlockAppended ==
    ASSUME NEW S, NEW q \in Seq(S), NEW e \in S
    PROVE  /\ Append(q, e) \in Seq(S)
           /\ Append(q, e) # <<>>
           /\ DOMAIN Append(q, e) = 1 .. Len(q) + 1
           /\ DOMAIN q = 1 .. Len(q)
           /\ Len(q) \in Nat
           /\ Len(Append(q, e)) = Len(q) + 1
           /\ \A i \in DOMAIN q : Append(q, e)[i] = q[i]
           /\ Append(q, e)[Len(q) + 1] = e
  OBVIOUS

LEMMA BlockKeepsIInv ==
    ASSUME IInv, QueueBlock
    PROVE  IInv'
<1> DEFINE lines == LinesPerMessage(size.width)
           block == [startRow |-> startRow, endRow |-> endRow]
<1>1. /\ size.width \in Nat \ {0} /\ size.height \in Nat
      /\ startRow \in 0 .. Modulus - 1 /\ endRow \in Nat
      /\ blocks \in Seq([startRow : Nat, endRow : Nat])
  BY FrameAssumption DEF IInv, TypeOK, RowsSoFar, QueueBlock
<1>2. lines \in 0 .. Modulus - 1
  BY <1>1, LinesFit
<1>3. /\ startRow < endRow /\ endRow <= size.height
      /\ startRow + lines < Modulus
      /\ endRow = IF startRow + lines >= size.height THEN size.height ELSE startRow + lines
      /\ blocks = <<>> => startRow = 0
      /\ blocks # <<>> => LastRow = startRow
      /\ result = "none"
  BY DEF QueueBlock, IInv, RowsSoFar
<1>4. startRow' = startRow + lines
  <2> HIDE DEF lines
  <2>1. (startRow + lines) % Modulus = startRow + lines
    <3>1. Modulus \in Nat \ {0} /\ startRow \in 0 .. Modulus - 1 /\ startRow + lines < Modulus
      BY <1>1, <1>3, FrameAssumption
    <3>2. QED
      BY <1>2, <3>1, SumWrapsOnce
  <2>2. QED
    BY <2>1 DEF QueueBlock, lines
<1>5. LinesPerMessage(size.width)' = lines
  BY DEF QueueBlock, LinesPerMessage
<1>6. 2 * size.width * (endRow - startRow) <= Payload
  <2>1. endRow - startRow \in Nat /\ endRow - startRow <= lines
    BY <1>1, <1>2, <1>3, FrameAssumption
  <2> HIDE DEF lines
  <2>2. QED
    BY <1>1, <2>1, BlockFits DEF lines
<1> HIDE DEF lines
<1>7. /\ pc' = "rows" /\ result' = "none" /\ asleep' = FALSE
      /\ blocks' = Append(blocks, block)
      /\ UNCHANGED <<size, prevFrame, elapsed, deltaValue, endRow>>
  BY <1>3 DEF QueueBlock
<1>8. /\ Len(blocks') = Len(blocks) + 1
      /\ blocks'[Len(blocks) + 1] = block
      /\ \A i \in DOMAIN blocks : blocks'[i] = blocks[i]
      /\ DOMAIN blocks' = 1 .. Len(blocks) + 1 /\ DOMAIN blocks = 1 .. Len(blocks)
      /\ Len(blocks) \in Nat /\ blocks' # <<>>
      /\ blocks' \in Seq([startRow : Nat, endRow : Nat])
  <2> DEFINE Blocks == [startRow : Nat, endRow : Nat]
  <2>1. block \in Blocks /\ blocks \in Seq(Blocks)
    BY <1>1, FrameAssumption
  <2>2. blocks' \in Seq(Blocks)
    BY <1>7, <2>1
  <2> HIDE DEF block, Blocks
  <2>3. /\ Len(blocks') = Len(blocks) + 1
        /\ blocks'[Len(blocks) + 1] = block
        /\ \A i \in DOMAIN blocks : blocks'[i] = blocks[i]
        /\ DOMAIN blocks' = 1 .. Len(blocks) + 1 /\ DOMAIN blocks = 1 .. Len(blocks)
        /\ Len(blocks) \in Nat /\ blocks' # <<>>
    BY <1>7, <2>1, BlockAppended
  <2>4. QED
    BY <2>2, <2>3 DEF Blocks
<1>9. TypeOK'
  <2>1. startRow' \in Nat
    BY <1>1, <1>2, <1>4, FrameAssumption
  <2>2. QED
    <3>1. asleep' \in BOOLEAN
      BY <1>7
    <3>2. QED
      BY <1>7, <1>8, <2>1, <3>1 DEF IInv, TypeOK
<1>10. RowsInOrder'
  <2>1. \A i \in 1 .. Len(blocks) :
            /\ blocks'[i].startRow = IF i = 1 THEN 0 ELSE blocks'[i - 1].endRow
            /\ blocks'[i].startRow < blocks'[i].endRow
            /\ blocks'[i].endRow <= size.height
    <3> TAKE i \in 1 .. Len(blocks)
    <3>1. i \in DOMAIN blocks /\ (i # 1 => i - 1 \in DOMAIN blocks)
      BY <1>8
    <3>2. blocks'[i] = blocks[i] /\ (i # 1 => blocks'[i - 1] = blocks[i - 1])
      BY <1>8, <3>1
    <3>3. QED
      BY <3>1, <3>2 DEF IInv, RowsInOrder
  <2>2. block.startRow = IF Len(blocks) + 1 = 1 THEN 0 ELSE blocks'[Len(blocks)].endRow
    <3>1. CASE blocks = <<>>
      BY <1>3, <1>8, <3>1
    <3>2. CASE blocks # <<>>
      <4>1. Len(blocks) \in DOMAIN blocks /\ Len(blocks) + 1 # 1
        <5>1. Len(blocks) # 0
          BY <1>1, <3>2
        <5>2. Len(blocks) \in Nat /\ DOMAIN blocks = 1 .. Len(blocks)
          BY <1>8
        <5>3. QED
          BY <5>1, <5>2
      <4>2. blocks[Len(blocks)].endRow = startRow
        BY <1>3, <3>2 DEF LastRow
      <4>3. blocks'[Len(blocks)].endRow = startRow
        BY <1>8, <4>1, <4>2
      <4>4. QED
        BY <4>1, <4>3
    <3>3. QED
      BY <3>1, <3>2
  <2>3. block.startRow < block.endRow /\ block.endRow <= size.height
    BY <1>3
  <2> HIDE DEF block
  <2>4. \A i \in 1 .. Len(blocks) + 1 :
            /\ blocks'[i].startRow = IF i = 1 THEN 0 ELSE blocks'[i - 1].endRow
            /\ blocks'[i].startRow < blocks'[i].endRow
            /\ blocks'[i].endRow <= size.height
    <3> TAKE i \in 1 .. Len(blocks) + 1
    <3>1. CASE i \in 1 .. Len(blocks)
      BY <2>1, <3>1
    <3>2. CASE i = Len(blocks) + 1
      <4>1. i - 1 = Len(blocks)
        BY <1>8, <3>2
      <4>2. QED
        BY <1>8, <2>2, <2>3, <3>2, <4>1
    <3>3. QED
      BY <1>8, <3>1, <3>2
  <2>5. QED
    BY <1>7, <1>8, <2>4 DEF RowsInOrder
<1>11. BlocksFit'
  <2>1. 2 * size.width * (block.endRow - block.startRow) <= Payload
    BY <1>6
  <2> HIDE DEF block
  <2>2. \A i \in 1 .. Len(blocks) + 1 :
            2 * size.width * (blocks'[i].endRow - blocks'[i].startRow) <= Payload
    <3> TAKE i \in 1 .. Len(blocks) + 1
    <3>1. CASE i = Len(blocks) + 1
      BY <1>8, <2>1, <3>1
    <3>2. CASE i \in DOMAIN blocks
      <4>1. blocks'[i] = blocks[i]
        BY <1>8, <3>2
      <4>2. QED
        BY <3>2, <4>1 DEF IInv, BlocksFit
    <3>3. QED
      BY <1>8, <3>1, <3>2
  <2>3. QED
    BY <1>7, <1>8, <2>2 DEF BlocksFit
<1>12. WholeImage'
  BY <1>7 DEF WholeImage
<1>13. RowsSoFar'
  <2>1. LastRow' = endRow
    BY <1>8 DEF LastRow
  <2>2. LastRow' = IF startRow' >= size'.height THEN size'.height ELSE startRow'
    BY <1>3, <1>4, <1>7, <2>1
  <2>3. startRow' < Modulus
    BY <1>3, <1>4
  <2>4. QED
    <3>1. asleep' => Acquiring'
      BY <1>7
    <3>2. QED
      BY <1>7, <1>8, <2>2, <2>3, <3>1 DEF RowsSoFar
<1>14. QED
  BY <1>9, <1>10, <1>11, <1>12, <1>13 DEF IInv

LEMMA NoBufferKeepsIInv ==
    ASSUME IInv, NoBuffer
    PROVE  IInv'
<1>1. TypeOK'
  BY DEF NoBuffer, Return, IInv, TypeOK
<1>2. QED
  BY <1>1 DEF NoBuffer, Return, IInv, RowsInOrder, BlocksFit, WholeImage, RowsSoFar

LEMMA WaitingKeepsIInv ==
    ASSUME IInv, Waiting
    PROVE  IInv'
<1>1. UNCHANGED <<size, prevFrame, elapsed, deltaValue, startRow, endRow, blocks, result>>
      /\ asleep' \in BOOLEAN /\ (pc' = pc \/ (pc' = "thrown" /\ ~asleep')) /\ Acquiring
  BY DEF Waiting, AwaitBuffer, AcquisitionThrows
<1>2. TypeOK'
  BY <1>1 DEF IInv, TypeOK
<1>3. RowsSoFar'
  BY <1>1 DEF IInv, RowsSoFar, LastRow, LinesPerMessage
<1>4. QED
  BY <1>1, <1>2, <1>3
     DEF IInv, RowsInOrder, BlocksFit, WholeImage, Representable, LastRow, LinesPerMessage

THEOREM IInvIsInductive == IInv /\ [Next]_vars => IInv'
<1> SUFFICES ASSUME IInv, [Next]_vars PROVE IInv'
  OBVIOUS
<1>1. CASE UNCHANGED vars
  BY <1>1 DEF vars, IInv, TypeOK, RowsInOrder, BlocksFit, WholeImage, Representable,
              LastRow, LinesPerMessage, RowsSoFar
<1>2. QED
  BY <1>1, CallKeepsIInv, ColorKeepsIInv, LoopTestKeepsIInv, BlockKeepsIInv,
     NoBufferKeepsIInv, WaitingKeepsIInv
     DEF Next, Working

\* Every state of the camera thread satisfies the inductive invariant.
THEOREM InvariantHolds == Spec => []IInv
<1>1. QED
  BY InitEstablishesIInv, IInvIsInductive, PTL DEF Spec

\* The blocks of a frame are rows of the image, in order and without gaps,
\* whether the call completes or gives up.
THEOREM RowsAlwaysInOrder == Spec => []RowsInOrder
<1>1. IInv => RowsInOrder
  BY DEF IInv
<1>2. QED
  BY <1>1, InvariantHolds, PTL

\* No block is written beyond the end of its buffer.
THEOREM BlocksAlwaysFit == Spec => []BlocksFit
<1>1. IInv => BlocksFit
  BY DEF IInv
<1>2. QED
  BY <1>1, InvariantHolds, PTL

\* A call that returns a length has queued the whole image, whatever its size,
\* as long as the row counter can represent one block more than the image has.
THEOREM ImageAlwaysWhole == Spec => []WholeImage
<1>1. IInv => WholeImage
  BY DEF IInv
<1>2. QED
  BY <1>1, InvariantHolds, PTL

\* Every number of a frame stays in its range; the difference that a header carries
\* is 16 bits wide whatever the clock of the camera says.
THEOREM TypeAlwaysCorrect == Spec => []TypeOK
<1>1. IInv => TypeOK
  BY DEF IInv
<1>2. QED
  BY <1>1, InvariantHolds, PTL

------------------------------------------------------------------------------
(* The client implements RGBDFrame.                                        *)
LEMMA SizeStays ==
    ASSUME ClientTypeOK, [ClientNext]_allVars
    PROVE  /\ [Next]_vars
           /\ size' \in [height : Heights, width : Widths]
<1>1. size.height \in Heights /\ size.width \in Widths /\ size \in [height : Heights, width : Widths]
  BY DEF ClientTypeOK
<1>2. CASE Queue
  <2>1. PICK t \in Times : QueueRGBDFrame(size.height, size.width, t)
    BY <1>2 DEF Queue
  <2>2. Next
    BY <1>1, <2>1 DEF Next
  <2>3. size' = [height |-> size.height, width |-> size.width]
    BY <2>1 DEF QueueRGBDFrame
  <2>4. QED
    BY <1>1, <2>2, <2>3
<1>3. CASE Queueing \/ QueueThrows
  BY <1>1, <1>3 DEF Queueing, QueueThrows, Next, Working, Waiting, QueueColor, LoopTest, QueueBlock,
                    NoBuffer, Return, AwaitBuffer, AcquisitionThrows
<1>4. CASE UNCHANGED vars
  BY <1>1, <1>4 DEF vars
<1>5. QED
  <2>1. ~Queue /\ ~Queueing /\ ~QueueThrows => UNCHANGED vars
    BY DEF ClientNext, Cycle, OpenDevice, OpenDeviceFails, WaitForNewFrame, ReleaseFrames,
           Camera, SigInt, SigUsr1, Handlers, StartOrStop, Toggle, allVars
  <2>2. QED
    BY <1>2, <1>3, <1>4, <2>1

------------------------------------------------------------------------------
(* The client's own invariant.                                             *)
LEMMA ClientInitEstablishes == ClientInit => ClientIInv
  BY ClientAssumption
     DEF ClientInit, Init, ClientIInv, ClientTypeOK, LentWhileWorking

LEMMA MainThreadKeeps ==
    ASSUME ClientIInv, OpenDevice \/ OpenDeviceFails \/ Cycle
    PROVE  ClientIInv'
<1>1. size' \in [height : Heights, width : Widths]
  BY SizeStays DEF ClientIInv, ClientNext
<1>2. UNCHANGED <<paused, handler>>
  BY DEF OpenDevice, OpenDeviceFails, Cycle, WaitForNewFrame, Queue, Queueing, QueueThrows,
         ReleaseFrames, deviceVars
<1>3. ClientTypeOK'
  BY <1>1, <1>2 DEF ClientIInv, ClientTypeOK, OpenDevice, OpenDeviceFails, Cycle, WaitForNewFrame,
                    Queue, Queueing, QueueThrows, ReleaseFrames, deviceVars, Go
<1>4. LentWhileWorking'
  BY DEF ClientIInv, ClientTypeOK, LentWhileWorking, OpenDevice, OpenDeviceFails, Cycle,
         WaitForNewFrame, Queue, Queueing, QueueThrows, ReleaseFrames, Go
<1>5. QED
  BY <1>3, <1>4 DEF ClientIInv

\* The steps of signals and their handlers leave the frames alone.
LEMMA HandlersKeep ==
    ASSUME ClientIInv, NEW th \in Threads, SigUsr1(th) \/ StartOrStop(th) \/ Toggle(th)
    PROVE  ClientIInv'
<1>1. UNCHANGED <<vars, loopVars>>
  BY DEF SigUsr1, StartOrStop, Toggle
<1>2. handler' \in [Threads -> {"none", "start", "stop", "toggle"}]
  <2>1. \E place \in {"none", "start", "stop", "toggle"} : handler' = [handler EXCEPT ![th] = place]
    BY DEF SigUsr1, StartOrStop, Toggle
  <2>2. QED
    BY <2>1 DEF ClientIInv, ClientTypeOK
<1>3. started' \in BOOLEAN /\ paused' \in BOOLEAN
  <2>1. CASE SigUsr1(th)
    BY <2>1 DEF SigUsr1, ClientIInv, ClientTypeOK
  <2>2. CASE StartOrStop(th)
    BY <2>2 DEF StartOrStop, ClientIInv, ClientTypeOK
  <2>3. CASE Toggle(th)
    BY <2>3 DEF Toggle, ClientIInv, ClientTypeOK
  <2>4. QED
    BY <2>1, <2>2, <2>3
<1>4. QED
  BY <1>1, <1>2, <1>3 DEF ClientIInv, ClientTypeOK, LentWhileWorking, vars, loopVars

LEMMA ClientIInvIsInductive == ClientIInv /\ [ClientNext]_allVars => ClientIInv'
<1> SUFFICES ASSUME ClientIInv, [ClientNext]_allVars PROVE ClientIInv'
  OBVIOUS
<1>1. CASE OpenDevice \/ OpenDeviceFails \/ Cycle
  BY <1>1, MainThreadKeeps
<1>2. CASE Handlers \/ \E th \in Threads : SigUsr1(th)
  BY <1>2, HandlersKeep DEF Handlers
<1>3. CASE Camera \/ SigInt \/ UNCHANGED allVars
  <2>1. UNCHANGED <<size, loop, lent, started, paused, handler>>
    BY <1>3 DEF Camera, SigInt, allVars, clientVars, loopVars, deviceVars, vars
  <2>2. QED
    BY <2>1 DEF ClientIInv, ClientTypeOK, LentWhileWorking
<1>4. QED
  BY <1>1, <1>2, <1>3 DEF ClientNext

THEOREM ClientInvariantHolds == ClientSpec => []ClientIInv
  BY ClientInitEstablishes, ClientIInvIsInductive, PTL DEF ClientSpec

------------------------------------------------------------------------------
\* The main thread of the client, with a camera, signals and handlers around it,
\* is a camera thread of RGBDFrame.
THEOREM ClientIsACameraThread == ClientSpec => Spec
<1>1. ClientInit => Init
  BY DEF ClientInit
<1>2. ClientIInv /\ [ClientNext]_allVars => [Next]_vars
  BY SizeStays DEF ClientIInv
<1>3. QED
  BY <1>1, <1>2, ClientInvariantHolds, PTL DEF ClientSpec, Spec

\* So the client queues the rows of each image in order and whole, in blocks
\* that fit, however it is interrupted.
THEOREM ClientFramesRight == ClientSpec => [](TypeOK /\ RowsInOrder /\ BlocksFit /\ WholeImage)
<1>1. QED
  BY ClientIsACameraThread, TypeAlwaysCorrect, RowsAlwaysInOrder, BlocksAlwaysFit,
     ImageAlwaysWhole, PTL

\* At most one set of frames is ever lent, and none while the client waits for the
\* next one, also after a frame that was given up.
THEOREM FramesAlwaysGivenBack == ClientSpec => []FramesGivenBack
<1>1. ClientIInv => FramesGivenBack
  BY DEF ClientIInv, LentWhileWorking, FramesGivenBack
<1>2. QED
  BY <1>1, ClientInvariantHolds, PTL
==============================================================================
