-------------------------- MODULE AudioStreamSession --------------------------
(***************************************************************************)
(* The sound of the PC on its way to the encoder (AudioStreamSession.cpp   *)
(* and ScreenCaptureSession::encodeAudioFrame): loopbackThread appends     *)
(* packets to a capped buffer, the capture thread takes frames of ReadSize *)
(* from its front.  Both do so under a mutex, but the reader looks at the  *)
(* buffer's size outside it, twice, and ReadFromBuffer does not tell its   *)
(* caller when it has given nothing.                                       *)
(*                                                                         *)
(* A sample kept in the buffer is its serial number, counted from 0: the   *)
(* memory is modelled with what is in it, so that a frame out of order,    *)
(* torn or left over from the last read shows.                             *)
(***************************************************************************)
EXTENDS Integers

CONSTANTS
    Capacity,     \* AUDIO_BUFFER_SIZE
    ReadSize,     \* what one audio frame of the encoder takes
    PacketSizes,  \* the packets the sound card delivers
    MaxSamples    \* bound: samples kept in a behaviour

ASSUME CapacityAssumption == Capacity \in Nat \ {0}
ASSUME ReadSizeAssumption == ReadSize \in Nat \ {0}
ASSUME PacketAssumption == PacketSizes \subseteq Nat
ASSUME BoundAssumption == MaxSamples \in Nat

VARIABLES
    audioBuffer,      \* the memory
    audioBufferSize,  \* how much of it is filled
    taken,            \* history: the samples read so far
    readerPc,         \* where the capture thread is
    size,             \* encodeAudioFrame's local copy of audioBufferSize
    due,              \* history: the first sample of the frame now to be read
    frame             \* src_data, the frame handed to the resampler

vars == <<audioBuffer, audioBufferSize, taken, readerPc, size, due, frame>>

Address == 0..(Capacity - 1)
Position == 0..(ReadSize - 1)

Init ==
    /\ audioBuffer = [a \in Address |-> 0]
    /\ audioBufferSize = 0
    /\ taken = 0
    /\ readerPc = "idle"
    /\ size = 0
    /\ due = 0
    /\ frame = [p \in Position |-> 0]

-----------------------------------------------------------------------------
(* The loopback thread.                                                    *)

\* MUTANT: the room is compared without what is already there.
FitsAlone(n) == n < Capacity

Fits(n) == audioBufferSize + n < Capacity

\* MUTANT: what no longer fits starts the buffer anew.
CaptureResetting ==
    /\ \E n \in PacketSizes :
        /\ taken + audioBufferSize + n <= MaxSamples
        /\ audioBufferSize' = IF Fits(n) THEN audioBufferSize + n ELSE 0
        /\ audioBuffer' = [a \in Address |->
                             IF a >= audioBufferSize /\ a < audioBufferSize + n
                             THEN taken + a ELSE audioBuffer[a]]
    /\ UNCHANGED <<taken, readerPc, size, due, frame>>

\* A packet is appended, under the mutex; one that does not fit is dropped whole
\* (its step changes nothing).
Capture ==
    /\ \E n \in PacketSizes :
        /\ taken + audioBufferSize + n <= MaxSamples
        /\ Fits(n)
        /\ audioBufferSize' = audioBufferSize + n
        /\ audioBuffer' = [a \in Address |->
                             IF a >= audioBufferSize /\ a < audioBufferSize + n
                             THEN taken + a ELSE audioBuffer[a]]
    /\ UNCHANGED <<taken, readerPc, size, due, frame>>

-----------------------------------------------------------------------------
(* The capture thread: encodeAudioFrame, once for every picture.           *)

\* size = m_audioGrabber->audioBufferSize, before the loop and at its end.
LoadSize ==
    /\ readerPc \in {"idle", "encoded"}
    /\ size' = audioBufferSize
    /\ readerPc' = "test"
    /\ UNCHANGED <<audioBuffer, audioBufferSize, taken, due, frame>>

Loops == size >= ReadSize

\* The loop's condition, and a frame that can be written.
Enter ==
    /\ readerPc = "test"
    /\ Loops
    /\ due' = taken
    /\ readerPc' = "check"
    /\ UNCHANGED <<audioBuffer, audioBufferSize, taken, size, frame>>

\* There is not enough sound, or no memory for the frame: the loop ends.
Leave ==
    /\ readerPc = "test"
    /\ readerPc' = "idle"
    /\ UNCHANGED <<audioBuffer, audioBufferSize, taken, size, due, frame>>

\* MUTANT: nothing is read when exactly a frame is there.
EnoughStrict == ReadSize < audioBufferSize

Enough == ReadSize <= audioBufferSize

\* ReadFromBuffer's look at the size, before it takes the mutex; without enough
\* it returns, and the caller goes on with the frame it has.
Check ==
    /\ readerPc = "check"
    /\ readerPc' = IF Enough THEN "copy" ELSE "convert"
    /\ UNCHANGED <<audioBuffer, audioBufferSize, taken, size, due, frame>>

\* The rest of the buffer moves to its front.
Shift == [a \in Address |->
            IF a < audioBufferSize - ReadSize THEN audioBuffer[a + ReadSize]
            ELSE audioBuffer[a]]

\* The rest of ReadFromBuffer, under the mutex.
Copy ==
    /\ readerPc = "copy"
    /\ frame' = [p \in Position |-> audioBuffer[p]]
    /\ audioBuffer' = Shift
    /\ audioBufferSize' = audioBufferSize - ReadSize
    /\ taken' = taken + ReadSize
    /\ readerPc' = "convert"
    /\ UNCHANGED <<size, due>>

\* The frame is resampled and encoded, or the conversion fails and the loop ends.
Convert ==
    /\ readerPc = "convert"
    /\ readerPc' \in {"encoded", "idle"}
    /\ UNCHANGED <<audioBuffer, audioBufferSize, taken, size, due, frame>>

Read == LoadSize \/ Enter \/ Leave \/ Check \/ Copy \/ Convert

Next == Capture \/ Read

\* The capture thread runs its callback for every picture; a frame cannot be
\* short of memory each time.
Fairness == WF_vars(Read) /\ SF_vars(Enter)

Spec == Init /\ [][Next]_vars /\ Fairness

-----------------------------------------------------------------------------
(* Properties.                                                             *)

TypeOK ==
    /\ audioBuffer \in [Address -> Nat]
    /\ audioBufferSize \in 0..Capacity
    /\ taken \in Nat
    /\ readerPc \in {"idle", "test", "check", "copy", "convert", "encoded"}
    /\ size \in 0..Capacity
    /\ due \in Nat
    /\ frame \in [Position -> Nat]

\* The two unlocked looks at the size are enough: when the mutex is taken a
\* whole frame is in the buffer, and audioBufferSize -= readSize
\* (AudioStreamSession.cpp:77) does not wrap around.
NoUnderflow == readerPc = "copy" => ReadSize <= audioBufferSize

\* What is encoded is the next frame of the sound, whole and in order: neither
\* ReadFromBuffer's silent return (AudioStreamSession.cpp:71) nor an append in
\* between makes the encoder repeat or mix samples.
FramesInOrder == readerPc = "convert" => \A p \in Position : frame[p] = due + p

\* Sound for a whole frame is taken out of the buffer at some time, however the
\* two threads interleave; a full buffer does not stay full.
Drained ==
    \A k \in 0..MaxSamples :
        audioBufferSize >= ReadSize /\ taken = k ~> taken # k

=============================================================================
