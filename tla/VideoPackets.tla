---------------------------- MODULE VideoPackets ----------------------------
(***************************************************************************)
(* How the video server of RPRobot-master/test.c cuts a frame into the     *)
(* packages of its TCP stream: a '$', a mark, a 16-bit length and at most  *)
(* ChunkMax bytes of the picture.  The mark is the number of the package   *)
(* within the frame, modulo 256, and '^' in the frame's last package: the  *)
(* only thing that tells a reader where a picture ends.                    *)
(***************************************************************************)
EXTENDS Integers, Sequences, SequencesExt

CONSTANTS
  ChunkMax,    \* IMG_PACKAGE_SIZE - 4, 0x1000 - 4 in the code
  ByteMod,     \* values of an unsigned char, 256
  EndMark,     \* '^', 94
  Lengths,     \* lengths of the frames capture() returns
  MaxFrames    \* bound: frames in one behaviour

\* The length of a package is sent as two bytes.
LengthMod == ByteMod * ByteMod

ASSUME MarkAssumption == ByteMod \in Nat \ {0} /\ EndMark \in 0 .. ByteMod - 1
ASSUME ChunkAssumption == ChunkMax \in Nat \ {0} /\ ChunkMax < LengthMod
ASSUME LengthAssumption == Lengths \subseteq Nat
ASSUME FrameAssumption == MaxFrames \in Nat

VARIABLES
  pc,       \* "capture", or "cut" while packages of a frame are left
  left,     \* pkg_left
  start,    \* pkg_start, as an offset into the frame
  seq,      \* packages of this frame sent so far
  wire,     \* packages sent on this connection: mark, len and offset of the bytes
  first,    \* history: index in wire of the current frame's first package
  frames    \* history: lengths of the frames captured

vars == <<pc, left, start, seq, wire, first, frames>>

Package == [mark : 0 .. ByteMod - 1, len : 0 .. ChunkMax, off : Nat]

TypeOK ==
  /\ pc \in {"capture", "cut"}
  /\ left \in Nat
  /\ start \in Nat
  /\ seq \in Nat
  /\ wire \in Seq(Package)
  /\ first \in 1 .. Len(wire) + 1
  /\ frames \in Seq(Nat)

Init ==
  /\ pc = "capture"
  /\ left = 0
  /\ start = 0
  /\ seq = 0
  /\ wire = << >>
  /\ first = 1
  /\ frames = << >>

Header(mark, len) == [mark |-> mark, len |-> len % LengthMod, off |-> start]

\* Mutant: the package number is not reset for a new frame.
CaptureKeepsSeq(n) ==
  /\ pc = "capture"
  /\ Len(frames) < MaxFrames
  /\ pc' = "cut"
  /\ left' = n
  /\ start' = 0
  /\ first' = Len(wire) + 1
  /\ frames' = Append(frames, n)
  /\ UNCHANGED <<wire, seq>>

Capture(n) ==
  /\ pc = "capture"
  /\ Len(frames) < MaxFrames
  /\ pc' = "cut"
  /\ left' = n
  /\ start' = 0
  /\ seq' = 0
  /\ first' = Len(wire) + 1
  /\ frames' = Append(frames, n)
  /\ UNCHANGED wire

\* Mutant: packages are cut off as long as there is anything left.
FullPackageAlways ==
  /\ pc = "cut"
  /\ left > 0
  /\ wire' = Append(wire, Header(seq % ByteMod, ChunkMax))
  /\ seq' = seq + 1
  /\ start' = start + ChunkMax
  /\ left' = left - ChunkMax
  /\ UNCHANGED <<pc, first, frames>>

\* Mutant: the source pointer stays where it is.
FullPackageInPlace ==
  /\ pc = "cut"
  /\ left > ChunkMax
  /\ wire' = Append(wire, Header(seq % ByteMod, ChunkMax))
  /\ seq' = seq + 1
  /\ left' = left - ChunkMax
  /\ UNCHANGED <<pc, start, first, frames>>

FullPackage ==
  /\ pc = "cut"
  /\ left > ChunkMax
  /\ wire' = Append(wire, Header(seq % ByteMod, ChunkMax))
  /\ seq' = seq + 1
  /\ start' = start + ChunkMax
  /\ left' = left - ChunkMax
  /\ UNCHANGED <<pc, first, frames>>

\* Mutant: the last package is marked with its number.
LastPackageNumbered ==
  /\ pc = "cut"
  /\ left <= ChunkMax
  /\ wire' = Append(wire, Header(seq % ByteMod, left))
  /\ pc' = "capture"
  /\ UNCHANGED <<left, start, seq, first, frames>>

LastPackage ==
  /\ pc = "cut"
  /\ left <= ChunkMax
  /\ wire' = Append(wire, Header(EndMark, left))
  /\ pc' = "capture"
  /\ UNCHANGED <<left, start, seq, first, frames>>

Next ==
  \/ \E n \in Lengths : Capture(n)
  \/ FullPackage
  \/ LastPackage

Spec == Init /\ [][Next]_vars

-----------------------------------------------------------------------------
(* What must hold. *)

Frame == frames[Len(frames)]

PackagesTile ==
  frames # << >> =>
    /\ \A i \in first .. Len(wire) :
         /\ wire[i].off = IF i = first THEN 0 ELSE wire[i - 1].off + wire[i - 1].len
         /\ wire[i].off + wire[i].len <= Frame
    /\ pc = "capture" =>
         /\ first <= Len(wire)
         /\ wire[Len(wire)].off + wire[Len(wire)].len = Frame

NoEmptyPackage ==
  \A i \in first .. Len(wire) : wire[i].len = 0 => Frame = 0

\* The packages of a frame, in the order they are sent, are the whole picture:
\* each begins where the one before it ended, the first at 0, the last ends at
\* the frame's length, and each fits the package buffer; and only an empty frame
\* has an empty package, at an exact multiple of the package size too.
FrameTiled == PackagesTile /\ NoEmptyPackage

\* A frame of at most so many bytes never reaches the number that is '^'.
LargestSafe == (EndMark + 1) * ChunkMax

\* In such a frame '^' marks the last package and no other.
EndMarkLast ==
  frames # << >> /\ Frame <= LargestSafe
    => \A i \in first .. Len(wire) :
         wire[i].mark = EndMark <=> (i = Len(wire) /\ pc = "capture")

\* What a reader makes of the stream: it adds up package lengths and ends a
\* picture at every '^'.
Reading == [done : Seq(Nat), open : Nat]
NothingRead == [done |-> << >>, open |-> 0]

ReadPackage(a, c) ==
  IF c.mark = EndMark
    THEN [done |-> Append(a.done, a.open + c.len), open |-> 0]
    ELSE [done |-> a.done, open |-> a.open + c.len]

Read(w) ==
  LET read[i \in 0 .. Len(w)] ==
        IF i = 0 THEN NothingRead ELSE ReadPackage(read[i - 1], w[i])
  IN  read[Len(w)]

\* As long as no frame is larger than LargestSafe the reader sees the frames
\* that were captured and, between frames, no remainder.
ReaderInStep ==
  (pc = "capture" /\ \A i \in DOMAIN frames : frames[i] <= LargestSafe)
    => Read(wire) = [done |-> frames, open |-> 0]
=============================================================================
