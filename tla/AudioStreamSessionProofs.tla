----------------------- MODULE AudioStreamSessionProofs -----------------------
(***************************************************************************)
(* The audio buffer for every capacity, frame size and set of packets.     *)
(***************************************************************************)
EXTENDS AudioStreamSession, TLAPS

\* What is in the buffer is the sound that follows what was taken.
BufferInOrder ==
    \A a \in Address : a < audioBufferSize => audioBuffer[a] = taken + a

\* What the reader has seen of the size still holds: only the reader takes.
SizeStillThere == readerPc = "test" => size <= audioBufferSize

\* Between the loop's condition and the mutex a frame is there, and is the next.
FrameThere ==
    readerPc \in {"check", "copy"} => ReadSize <= audioBufferSize /\ due = taken

\* The inductive invariant.
IInv == TypeOK /\ BufferInOrder /\ SizeStillThere /\ FrameThere /\ FramesInOrder

USE CapacityAssumption, ReadSizeAssumption, PacketAssumption, BoundAssumption

\* The empty buffer of StartAudioStream satisfies the invariant.
LEMMA InitIInv == Init => IInv
  BY DEF Init, IInv, TypeOK, BufferInOrder, SizeStillThere, FrameThere, FramesInOrder,
         Address, Position

\* An append leaves what is in the buffer, and what the reader holds, alone.
LEMMA CaptureKeeps == IInv /\ Capture => IInv'
<1> SUFFICES ASSUME IInv, Capture PROVE IInv'
  OBVIOUS
<1> USE DEF IInv, Capture
<1>1. PICK n \in PacketSizes :
        /\ Fits(n)
        /\ audioBufferSize' = audioBufferSize + n
        /\ audioBuffer' = [a \in Address |->
                             IF a >= audioBufferSize /\ a < audioBufferSize + n
                             THEN taken + a ELSE audioBuffer[a]]
  OBVIOUS
<1>2. n \in Nat /\ audioBufferSize' \in 0..Capacity
  BY <1>1 DEF TypeOK, Fits
<1>3. TypeOK'
  BY <1>1, <1>2 DEF TypeOK, Address
<1>4. BufferInOrder'
  BY <1>1, <1>2 DEF TypeOK, BufferInOrder, Address
<1>5. SizeStillThere' /\ FrameThere'
  BY <1>1, <1>2 DEF TypeOK, SizeStillThere, FrameThere
<1>6. FramesInOrder'
  BY DEF FramesInOrder
<1> QED
  BY <1>3, <1>4, <1>5, <1>6

\* The steps of the reader that change neither the buffer nor the frame.
LEMMA LookKeeps == IInv /\ (LoadSize \/ Enter \/ Leave \/ Check \/ Convert) => IInv'
<1> SUFFICES ASSUME IInv, LoadSize \/ Enter \/ Leave \/ Check \/ Convert PROVE IInv'
  OBVIOUS
<1> USE DEF IInv, BufferInOrder, SizeStillThere, FrameThere, FramesInOrder
<1>1. CASE LoadSize
  BY <1>1 DEF LoadSize, TypeOK
<1>2. CASE Enter
  BY <1>2 DEF Enter, Loops, TypeOK
<1>3. CASE Leave
  BY <1>3 DEF Leave, TypeOK
<1>4. CASE Check
  BY <1>4 DEF Check, Enough, TypeOK
<1>5. CASE Convert
  BY <1>5 DEF Convert, TypeOK
<1> QED
  BY <1>1, <1>2, <1>3, <1>4, <1>5

\* The read hands out the front of the buffer and moves the rest to its place.
LEMMA CopyKeeps == IInv /\ Copy => IInv'
<1> SUFFICES ASSUME IInv, Copy PROVE IInv'
  OBVIOUS
<1> USE DEF IInv, Copy
<1>1. ReadSize <= audioBufferSize /\ due = taken
  BY DEF FrameThere
<1>2. Position \subseteq Address /\ \A p \in Position : p < audioBufferSize
  BY <1>1 DEF TypeOK, Position, Address
<1>3. frame' \in [Position -> Nat] /\ \A p \in Position : frame'[p] = due + p
  BY <1>1, <1>2 DEF TypeOK, BufferInOrder
<1>4. audioBufferSize' \in 0..Capacity /\ taken' \in Nat
  BY <1>1 DEF TypeOK
<1>5. audioBuffer' \in [Address -> Nat]
  BY <1>1 DEF TypeOK, Shift, Address
<1>6. TypeOK'
  BY <1>3, <1>4, <1>5 DEF TypeOK
<1>7. BufferInOrder'
  <2>1. SUFFICES ASSUME NEW a \in Address, a < audioBufferSize - ReadSize
                 PROVE  audioBuffer'[a] = taken' + a
    BY DEF BufferInOrder
  <2>2. a + ReadSize \in Address /\ a + ReadSize < audioBufferSize
    BY <2>1 DEF TypeOK, Address
  <2>3. audioBuffer'[a] = audioBuffer[a + ReadSize]
    BY <2>1 DEF Shift
  <2>4. audioBuffer[a + ReadSize] = taken + (a + ReadSize)
    BY <2>2 DEF BufferInOrder
  <2> QED
    BY <2>2, <2>3, <2>4 DEF TypeOK, Address
<1>8. SizeStillThere' /\ FrameThere' /\ FramesInOrder'
  BY <1>3 DEF SizeStillThere, FrameThere, FramesInOrder
<1> QED
  BY <1>6, <1>7, <1>8

\* The buffer holds the sound that follows what was taken, and the reader's
\* look at its size still holds, in every reachable state.
THEOREM AudioInvariance == Spec => []IInv
<1>1. IInv /\ [Next]_vars => IInv'
  <2> SUFFICES ASSUME IInv, [Next]_vars PROVE IInv'
    OBVIOUS
  <2>1. CASE Next
    BY <2>1, CaptureKeeps, LookKeeps, CopyKeeps DEF Next, Read
  <2>2. CASE UNCHANGED vars
    BY <2>2 DEF vars, IInv, TypeOK, BufferInOrder, SizeStillThere, FrameThere, FramesInOrder
  <2> QED
    BY <2>1, <2>2
<1> QED
  BY InitIInv, <1>1, PTL DEF Spec

\* The buffer, its size and the reader's copies of them have their types.
THEOREM AudioTypes == Spec => []TypeOK
<1>1. IInv => TypeOK
  BY DEF IInv
<1> QED
  BY AudioInvariance, <1>1, PTL

\* The size subtracted under the mutex never exceeds what is there.
THEOREM AudioNoUnderflow == Spec => []NoUnderflow
<1>1. IInv => NoUnderflow
  BY DEF IInv, FrameThere, NoUnderflow
<1> QED
  BY AudioInvariance, <1>1, PTL

\* Every frame that is encoded is the next of the sound, whole and in order.
THEOREM AudioInOrder == Spec => []FramesInOrder
<1>1. IInv => FramesInOrder
  BY DEF IInv
<1> QED
  BY AudioInvariance, <1>1, PTL

=============================================================================
