------------------------- MODULE VideoPacketsProofs -------------------------
(***************************************************************************)
(* Theorems about VideoPackets for any package size, any frame lengths and *)
(* any number of frames.                                                   *)
(***************************************************************************)
EXTENDS VideoPackets, SequenceFacts

\* What is known in the middle of a frame: the bytes sent and the bytes left
\* make up the frame, the number of packages tells how many bytes were sent,
\* and every package so far is a full one that carries its number.
CutInv ==
  pc = "cut" =>
    /\ frames # << >>
    /\ start + left = Frame
    /\ start = seq * ChunkMax
    /\ Len(wire) + 1 = first + seq
    /\ start # 0 => left # 0
    /\ \A i \in first .. Len(wire) : wire[i].mark = (i - first) % ByteMod
    /\ first <= Len(wire) => wire[Len(wire)].off + wire[Len(wire)].len = start

IInv ==
  /\ CutInv
  /\ pc = "capture" /\ frames = << >> => wire = << >>
  /\ PackagesTile
  /\ NoEmptyPackage
  /\ EndMarkLast

LEMMA LessFactor ==
  ASSUME NEW a \in Nat, NEW b \in Nat, NEW c \in Nat \ {0}, a * c < b * c
  PROVE  a < b
  <1> SUFFICES ASSUME b <= a
               PROVE  FALSE
    OBVIOUS
  <1>1. PICK d \in Nat : a = b + d
    <2>1. a - b \in Nat /\ a = b + (a - b)
      OBVIOUS
    <2>2. QED
      BY <2>1
  <1>2. a * c = b * c + d * c
    BY <1>1
  <1>3. d * c >= 0
    OBVIOUS
  <1>4. QED
    BY <1>2, <1>3

LEMMA NextMultiple ==
  ASSUME NEW n \in Nat, NEW c \in Nat
  PROVE  (n + 1) * c = n * c + c
  OBVIOUS

LEMMA SmallMod ==
  ASSUME NEW m \in Nat \ {0}, NEW x \in 0 .. m - 1
  PROVE  x % m = x
  OBVIOUS

LEMMA ModRange ==
  ASSUME NEW m \in Nat \ {0}, NEW x \in Nat
  PROVE  x % m \in 0 .. m - 1
  OBVIOUS

LEMMA InitType == Init => TypeOK
  BY DEF Init, TypeOK

LEMMA LengthModNat == LengthMod \in Nat \ {0}
  BY MarkAssumption, ChunkAssumption DEF LengthMod

\* A full or a shorter package keeps its length in the two bytes.
LEMMA HeaderFacts ==
  ASSUME NEW k \in 0 .. ByteMod - 1, NEW n \in 0 .. ChunkMax, start \in Nat
  PROVE  /\ Header(k, n) = [mark |-> k, len |-> n, off |-> start]
         /\ Header(k, n) \in Package
  <1>1. n \in 0 .. LengthMod - 1
    BY ChunkAssumption, LengthModNat
  <1>2. n % LengthMod = n
    BY <1>1, LengthModNat, SmallMod
  <1>3. QED
    BY <1>2 DEF Header, Package

LEMMA StepType ==
  ASSUME TypeOK, [Next]_vars
  PROVE  TypeOK'
  <1>1. CASE UNCHANGED vars
    BY <1>1 DEF vars, TypeOK
  <1>2. ASSUME NEW n \in Lengths, Capture(n)
        PROVE  TypeOK'
    BY <1>2, LengthAssumption, AppendProperties DEF Capture, TypeOK
  <1>3. CASE FullPackage
    <2>1. seq % ByteMod \in 0 .. ByteMod - 1
      BY MarkAssumption, ModRange DEF TypeOK
    <2>2. ChunkMax \in 0 .. ChunkMax
      BY ChunkAssumption
    <2>3. Header(seq % ByteMod, ChunkMax) \in Package
      BY <2>1, <2>2, HeaderFacts DEF TypeOK
    <2>4. wire' \in Seq(Package) /\ Len(wire') = Len(wire) + 1
      BY <1>3, <2>3, AppendProperties DEF FullPackage, TypeOK
    <2>5. first' \in 1 .. Len(wire') + 1
      BY <1>3, <2>4 DEF FullPackage, TypeOK
    <2>6. left' \in Nat /\ start' \in Nat /\ seq' \in Nat
      BY <1>3, ChunkAssumption DEF FullPackage, TypeOK
    <2>7. QED
      BY <1>3, <2>4, <2>5, <2>6 DEF FullPackage, TypeOK
  <1>4. CASE LastPackage
    <2>1. left \in 0 .. ChunkMax
      BY <1>4, ChunkAssumption DEF LastPackage, TypeOK
    <2>2. Header(EndMark, left) \in Package
      BY <2>1, HeaderFacts, MarkAssumption DEF TypeOK
    <2>3. wire' \in Seq(Package) /\ Len(wire') = Len(wire) + 1
      BY <1>4, <2>2, AppendProperties DEF LastPackage, TypeOK
    <2>4. first' \in 1 .. Len(wire') + 1
      BY <1>4, <2>3 DEF LastPackage, TypeOK
    <2>5. QED
      BY <1>4, <2>3, <2>4 DEF LastPackage, TypeOK
  <1>5. QED
    BY <1>1, <1>2, <1>3, <1>4 DEF Next

\* Every package fits the package buffer and its length the two header bytes.
THEOREM TypeCorrect == Spec => []TypeOK
  BY InitType, StepType, PTL DEF Spec

LEMMA CaptureStep ==
  ASSUME TypeOK, IInv, NEW n \in Lengths, Capture(n)
  PROVE  IInv'
  <1>1. frames' # << >> /\ frames'[Len(frames')] = n /\ Len(frames') \in Nat
    BY LengthAssumption, AppendProperties DEF TypeOK, Capture
  <1>2. pc' = "cut" /\ left' = n /\ start' = 0 /\ seq' = 0 /\ wire' = wire
        /\ first' = Len(wire) + 1 /\ Len(wire) \in Nat /\ n \in Nat
    BY LengthAssumption DEF TypeOK, Capture
  <1>3. \A i : i \notin first' .. Len(wire')
    BY <1>2
  <1>4. 0 = 0 * ChunkMax
    BY ChunkAssumption
  <1>5. CutInv'
    BY <1>1, <1>2, <1>3, <1>4 DEF CutInv, Frame
  <1>6. QED
    BY <1>2, <1>3, <1>5 DEF IInv, PackagesTile, NoEmptyPackage, EndMarkLast

\* A package appended to the wire.
LEMMA WireStep ==
  ASSUME TypeOK, NEW m, wire' = Append(wire, m)
  PROVE  /\ Len(wire) \in Nat
         /\ Len(wire') = Len(wire) + 1
         /\ wire'[Len(wire) + 1] = m
         /\ \A i \in 1 .. Len(wire) : wire'[i] = wire[i]
  BY DEF TypeOK

LEMMA FullStep ==
  ASSUME TypeOK, IInv, FullPackage
  PROVE  IInv'
  <1> DEFINE m == Header(seq % ByteMod, ChunkMax)
  <1>1. m.mark = seq % ByteMod /\ m.len = ChunkMax /\ m.off = start
    <2>1. seq % ByteMod \in 0 .. ByteMod - 1
      BY MarkAssumption, ModRange DEF TypeOK
    <2>2. ChunkMax \in 0 .. ChunkMax /\ start \in Nat
      BY ChunkAssumption DEF TypeOK
    <2>3. QED
      BY <2>1, <2>2, HeaderFacts
  <1>2. wire' = Append(wire, m)
    BY DEF FullPackage
  <1> HIDE DEF m
  <1>3. /\ Len(wire) \in Nat
        /\ Len(wire') = Len(wire) + 1
        /\ wire'[Len(wire) + 1] = m
        /\ \A i \in 1 .. Len(wire) : wire'[i] = wire[i]
    BY <1>2, WireStep
  <1>4. /\ pc = "cut" /\ pc' = "cut" /\ left > ChunkMax /\ left' = left - ChunkMax
        /\ start' = start + ChunkMax /\ seq' = seq + 1
        /\ first' = first /\ frames' = frames
    BY DEF FullPackage
  <1>5. /\ frames # << >> /\ start + left = Frame
        /\ Len(wire) + 1 = first + seq
        /\ first <= Len(wire) => wire[Len(wire)].off + wire[Len(wire)].len = start
    BY <1>4 DEF IInv, CutInv
  <1>6. start = seq * ChunkMax
    BY <1>4 DEF IInv, CutInv
  <1>7. \A i \in first .. Len(wire) : wire[i].mark = (i - first) % ByteMod
    BY <1>4 DEF IInv, CutInv
  <1>8. /\ first \in Nat /\ first >= 1 /\ seq \in Nat /\ left \in Nat /\ start \in Nat
        /\ ChunkMax \in Nat /\ ChunkMax >= 1
    BY ChunkAssumption DEF TypeOK
  <1>9. Frame' = Frame
    BY <1>4 DEF Frame
  <1>10. start' = seq' * ChunkMax
    BY <1>4, <1>8, <1>6, NextMultiple
  <1>11. \A i \in first .. Len(wire') : i = Len(wire) + 1 \/ i \in first .. Len(wire)
    BY <1>3, <1>8
  <1>12. \A i \in first .. Len(wire) : i \in 1 .. Len(wire) /\ wire'[i] = wire[i]
    BY <1>3, <1>8
  <1>13. CutInv'
    <2>1. \A i \in first .. Len(wire') : wire'[i].mark = (i - first) % ByteMod
      <3> SUFFICES ASSUME NEW i \in first .. Len(wire')
                   PROVE  wire'[i].mark = (i - first) % ByteMod
        OBVIOUS
      <3>1. (Len(wire) + 1) - first = seq
        BY <1>3, <1>5, <1>8
      <3>2. CASE i = Len(wire) + 1
        <4>1. wire'[i] = m
          BY <1>3, <3>2
        <4>2. i - first = seq
          BY <3>1, <3>2, Zenon
        <4>3. QED
          BY <1>1, <4>1, <4>2, Zenon
      <3>3. CASE i \in first .. Len(wire)
        BY <1>7, <1>12, <3>3
      <3>4. QED
        BY <1>11, <3>2, <3>3
    <2>2. wire'[Len(wire')].off + wire'[Len(wire')].len = start'
      BY <1>1, <1>3, <1>4
    <2>3. start' + left' = Frame' /\ Len(wire') + 1 = first' + seq' /\ left' # 0
      BY <1>3, <1>4, <1>5, <1>8, <1>9
    <2>4. QED
      BY <1>4, <1>5, <1>10, <2>1, <2>2, <2>3 DEF CutInv
  <1>14. PackagesTile'
    <2> SUFFICES ASSUME NEW i \in first .. Len(wire')
                 PROVE  /\ wire'[i].off = IF i = first THEN 0
                                          ELSE wire'[i - 1].off + wire'[i - 1].len
                        /\ wire'[i].off + wire'[i].len <= Frame
      BY <1>4, <1>9 DEF PackagesTile
    <2>1. CASE i = Len(wire) + 1
      <3>1. wire'[i].off = start /\ wire'[i].len = ChunkMax
        BY <1>1, <1>3, <2>1
      <3>2. start + ChunkMax <= Frame
        BY <1>4, <1>5, <1>8
      <3>3. CASE i = first
        <4>1. seq = 0
          BY <1>3, <1>5, <1>8, <2>1, <3>3
        <4>2. start = 0
          BY <1>8, <1>6, <4>1
        <4>3. QED
          BY <3>1, <3>2, <3>3, <4>2
      <3>4. CASE i # first
        <4>1. i - 1 = Len(wire) /\ first <= Len(wire) /\ Len(wire) \in first .. Len(wire)
          BY <1>3, <1>8, <2>1, <3>4
        <4>2. wire'[i - 1] = wire[Len(wire)]
          BY <1>12, <4>1
        <4>3. QED
          BY <1>5, <3>1, <3>2, <3>4, <4>1, <4>2
      <3>5. QED
        BY <3>3, <3>4
    <2>2. CASE i \in first .. Len(wire)
      <3>1. wire'[i] = wire[i] /\ (i # first => i - 1 \in first .. Len(wire))
        BY <1>3, <1>8, <1>12, <2>2
      <3>2. i # first => wire'[i - 1] = wire[i - 1]
        BY <1>12, <3>1
      <3>3. QED
        BY <1>5, <2>2, <3>1, <3>2 DEF IInv, PackagesTile
    <2>3. QED
      BY <1>11, <2>1, <2>2
  <1>15. NoEmptyPackage'
    <2> SUFFICES ASSUME NEW i \in first .. Len(wire'), wire'[i].len = 0
                 PROVE  Frame' = 0
      BY <1>4, <1>9 DEF NoEmptyPackage
    <2>1. CASE i = Len(wire) + 1
      <3>1. wire'[i].len = ChunkMax
        BY <1>1, <1>3, <2>1
      <3>2. QED
        BY <1>8, <3>1
    <2>2. CASE i \in first .. Len(wire)
      BY <1>9, <1>12, <2>2 DEF IInv, NoEmptyPackage
    <2>3. QED
      BY <1>11, <2>1, <2>2
  <1>16. EndMarkLast'
    <2> SUFFICES ASSUME Frame <= LargestSafe, NEW i \in first .. Len(wire')
                 PROVE  wire'[i].mark # EndMark
      BY <1>4, <1>9 DEF EndMarkLast, LargestSafe
    <2>1. seq' * ChunkMax < (EndMark + 1) * ChunkMax
      <3>1. start' < Frame
        BY <1>4, <1>5, <1>8
      <3>2. (EndMark + 1) * ChunkMax \in Nat /\ start' \in Nat /\ Frame \in Nat
        <4>1. \A x, y \in Nat : x * y \in Nat
          OBVIOUS
        <4>2. EndMark + 1 \in Nat
          BY MarkAssumption
        <4>3. start' \in Nat /\ Frame \in Nat
          BY <1>4, <1>5, <1>8
        <4>4. QED
          BY <1>8, <4>1, <4>2, <4>3
      <3>3. QED
        BY <1>10, <3>1, <3>2 DEF LargestSafe
    <2>2. seq' < EndMark + 1
      BY <1>4, <1>8, <2>1, LessFactor, MarkAssumption
    <2>3. i - first \in 0 .. seq
      BY <1>3, <1>5, <1>8
    <2>4. i - first \in 0 .. ByteMod - 1 /\ i - first # EndMark
      BY <1>4, <1>8, <2>2, <2>3, MarkAssumption
    <2>5. wire'[i].mark = (i - first) % ByteMod
      BY <1>4, <1>13 DEF CutInv
    <2>6. QED
      BY <2>4, <2>5, SmallMod, MarkAssumption
  <1>17. QED
    BY <1>4, <1>13, <1>14, <1>15, <1>16 DEF IInv

LEMMA LastStep ==
  ASSUME TypeOK, IInv, LastPackage
  PROVE  IInv'
  <1> DEFINE m == Header(EndMark, left)
  <1>1. left \in 0 .. ChunkMax /\ pc = "cut"
    BY ChunkAssumption DEF LastPackage, TypeOK
  <1>2. m.mark = EndMark /\ m.len = left /\ m.off = start
    BY <1>1, HeaderFacts, MarkAssumption DEF TypeOK
  <1>3. wire' = Append(wire, m)
    BY DEF LastPackage
  <1> HIDE DEF m
  <1>4. /\ Len(wire) \in Nat
        /\ Len(wire') = Len(wire) + 1
        /\ wire'[Len(wire) + 1] = m
        /\ \A i \in 1 .. Len(wire) : wire'[i] = wire[i]
    BY <1>3, WireStep
  <1>5. /\ pc' = "capture" /\ left' = left /\ start' = start
        /\ first' = first /\ frames' = frames
    BY DEF LastPackage
  <1>6. /\ frames # << >> /\ start + left = Frame
        /\ Len(wire) + 1 = first + seq
        /\ start # 0 => left # 0
        /\ first <= Len(wire) => wire[Len(wire)].off + wire[Len(wire)].len = start
    BY <1>1 DEF IInv, CutInv
  <1>7. start = seq * ChunkMax
    BY <1>1 DEF IInv, CutInv
  <1>8. first \in Nat /\ first >= 1 /\ seq \in Nat /\ left \in Nat /\ start \in Nat
    BY DEF TypeOK
  <1>9. Frame' = Frame
    BY <1>5 DEF Frame
  <1>10. \A i \in first .. Len(wire') : i = Len(wire) + 1 \/ i \in first .. Len(wire)
    BY <1>4, <1>8
  <1>11. \A i \in first .. Len(wire) : i \in 1 .. Len(wire) /\ wire'[i] = wire[i]
    BY <1>4, <1>8
  <1>12. CutInv' /\ (pc' = "capture" /\ frames' = << >> => wire' = << >>)
    BY <1>5, <1>6 DEF CutInv
  <1>13. PackagesTile'
    <2>1. first <= Len(wire') /\ wire'[Len(wire')].off + wire'[Len(wire')].len = Frame
      BY <1>2, <1>4, <1>6, <1>8
    <2> SUFFICES ASSUME NEW i \in first .. Len(wire')
                 PROVE  /\ wire'[i].off = IF i = first THEN 0
                                          ELSE wire'[i - 1].off + wire'[i - 1].len
                        /\ wire'[i].off + wire'[i].len <= Frame
      BY <1>5, <1>9, <2>1 DEF PackagesTile
    <2>2. CASE i = Len(wire) + 1
      <3>1. wire'[i].off = start /\ wire'[i].len = left
        BY <1>2, <1>4, <2>2
      <3>2. CASE i = first
        <4>1. seq = 0
          BY <1>4, <1>6, <1>8, <2>2, <3>2
        <4>2. start = 0
          BY <1>7, <4>1, ChunkAssumption
        <4>3. QED
          BY <1>6, <1>8, <3>1, <3>2, <4>2
      <3>3. CASE i # first
        <4>1. i - 1 = Len(wire) /\ first <= Len(wire) /\ Len(wire) \in first .. Len(wire)
          BY <1>4, <1>8, <2>2, <3>3
        <4>2. wire'[i - 1] = wire[Len(wire)]
          BY <1>11, <4>1
        <4>3. QED
          BY <1>6, <1>8, <3>1, <3>3, <4>1, <4>2
      <3>4. QED
        BY <3>2, <3>3
    <2>3. CASE i \in first .. Len(wire)
      <3>1. wire'[i] = wire[i] /\ (i # first => i - 1 \in first .. Len(wire))
        BY <1>4, <1>8, <1>11, <2>3
      <3>2. i # first => wire'[i - 1] = wire[i - 1]
        BY <1>11, <3>1
      <3>3. QED
        BY <1>6, <2>3, <3>1, <3>2 DEF IInv, PackagesTile
    <2>4. QED
      BY <1>10, <2>2, <2>3
  <1>14. NoEmptyPackage'
    <2>1. left = 0 => Frame = 0
      BY <1>6, <1>8
    <2> SUFFICES ASSUME NEW i \in first .. Len(wire'), wire'[i].len = 0
                 PROVE  Frame' = 0
      BY <1>5, <1>9 DEF NoEmptyPackage
    <2>2. CASE i = Len(wire) + 1
      <3>1. wire'[i].len = left
        BY <1>2, <1>4, <2>2
      <3>2. QED
        BY <1>9, <2>1, <3>1
    <2>3. CASE i \in first .. Len(wire)
      BY <1>9, <1>11, <2>3 DEF IInv, NoEmptyPackage
    <2>4. QED
      BY <1>10, <2>2, <2>3
  <1>15. EndMarkLast'
    <2>1. wire'[Len(wire) + 1].mark = EndMark
      BY <1>2, <1>4
    <2>2. Frame <= LargestSafe => \A i \in first .. Len(wire) : wire[i].mark # EndMark
      BY <1>1, <1>6 DEF IInv, EndMarkLast
    <2>3. QED
      BY <1>4, <1>5, <1>9, <1>10, <1>11, <2>1, <2>2 DEF EndMarkLast, LargestSafe
  <1>16. QED
    BY <1>12, <1>13, <1>14, <1>15 DEF IInv

LEMMA InvCorrect == Spec => []IInv
  <1>1. Init => IInv
    BY DEF Init, IInv, CutInv, PackagesTile, NoEmptyPackage, EndMarkLast
  <1>2. TypeOK /\ IInv /\ [Next]_vars => IInv'
    <2> SUFFICES ASSUME TypeOK, IInv, [Next]_vars
                 PROVE  IInv'
      OBVIOUS
    <2>1. CASE UNCHANGED vars
      BY <2>1 DEF vars, IInv, CutInv, PackagesTile, NoEmptyPackage, EndMarkLast, Frame, LargestSafe
    <2>2. QED
      BY <2>1, CaptureStep, FullStep, LastStep DEF Next
  <1>3. QED
    BY <1>1, <1>2, TypeCorrect, PTL DEF Spec

\* The packages of every frame are the whole picture, each byte once and in
\* order, whatever the frame's length, and none is empty unless the frame is.
THEOREM FramesTiled == Spec => []FrameTiled
  <1>1. IInv => FrameTiled
    BY DEF IInv, FrameTiled
  <1>2. QED
    BY <1>1, InvCorrect, PTL

\* Up to LargestSafe bytes, 388 740 in the code, a frame's only '^' is the mark
\* of its last package.
THEOREM EndMarks == Spec => []EndMarkLast
  <1>1. IInv => EndMarkLast
    BY DEF IInv
  <1>2. QED
    BY <1>1, InvCorrect, PTL

-----------------------------------------------------------------------------
(* The reader. *)

ReadStep(w) == [i \in 1 .. Len(w) |-> [a \in Reading |-> ReadPackage(a, w[i])]]

\* The reader's recursion is well defined on every stream of packages.
LEMMA ReadDefined ==
  ASSUME NEW w \in Seq(Package)
  PROVE  \E f : Iterates(f, Len(w), Reading, NothingRead, ReadStep(w)) /\ Read(w) = f[Len(w)]
  <1> DEFINE n == Len(w)
             step == ReadStep(w)
             Is(g) == g = [i \in 0 .. n |-> IF i = 0 THEN NothingRead ELSE ReadPackage(g[i - 1], w[i])]
  <1>1. n \in Nat /\ NothingRead \in Reading
    BY DEF NothingRead, Reading
  <1>2. \A i \in 1 .. n : \A a \in Reading : ReadPackage(a, w[i]) \in Reading
    <2> SUFFICES ASSUME NEW i \in 1 .. n, NEW a \in Reading
                 PROVE  ReadPackage(a, w[i]) \in Reading
      OBVIOUS
    <2>1. w[i] \in Package
      OBVIOUS
    <2>2. a.done \in Seq(Nat) /\ a.open \in Nat /\ w[i].len \in Nat
      BY <2>1, ChunkAssumption DEF Reading, Package
    <2>3. a.open + w[i].len \in Nat /\ Append(a.done, a.open + w[i].len) \in Seq(Nat)
      BY <2>2, AppendProperties
    <2>4. QED
      BY <2>2, <2>3 DEF ReadPackage, Reading
  <1>3. step \in [1 .. n -> [Reading -> Reading]]
    BY <1>2 DEF ReadStep
  <1>4. PICK f : Iterates(f, n, Reading, NothingRead, step)
    <2> HIDE DEF n, step
    <2>1. QED
      BY <1>1, <1>3, PrefixRecursion, Zenon
  <1>5. ASSUME NEW g, Is(g)
        PROVE  Iterates(g, n, Reading, NothingRead, step) /\ g = f
    <2> DEFINE I == {i \in Nat : i <= n => g[i] = f[i]}
    <2>1. 0 \in I
      BY <1>1, <1>4, <1>5 DEF Iterates
    <2>2. ASSUME NEW i \in I
          PROVE  i + 1 \in I
      <3>1. i \in Nat /\ i + 1 \in Nat
        OBVIOUS
      <3>2. ASSUME i + 1 <= n
            PROVE  g[i + 1] = f[i + 1]
        <4>1. i + 1 \in 1 .. n /\ i + 1 \in 0 .. n /\ i \in 0 .. n /\ (i + 1) - 1 = i /\ g[i] = f[i]
          BY <1>1, <3>1, <3>2
        <4>2. f[i + 1] = step[i + 1][f[i]] /\ f[i] \in Reading
          BY <1>4, <4>1 DEF Iterates
        <4>3. f[i + 1] = ReadPackage(f[i], w[i + 1])
          BY <4>1, <4>2 DEF ReadStep
        <4>4. g[i + 1] = ReadPackage(g[i], w[i + 1])
          BY <1>5, <3>1, <4>1
        <4>5. QED
          BY <4>1, <4>3, <4>4
      <3>3. QED
        BY <3>1, <3>2
    <2>3. I = Nat
      <3>1. I \in SUBSET Nat
        OBVIOUS
      <3> HIDE DEF I
      <3>2. QED
        BY <2>1, <2>2, <3>1, SetInduction
    <2>4. \A i \in 0 .. n : g[i] = f[i]
      BY <1>1, <2>3
    <2>5. f \in [0 .. n -> Reading]
      BY <1>4 DEF Iterates
    <2>6. g = f
      BY <1>5, <2>4, <2>5
    <2>7. QED
      BY <1>4, <2>6
  <1>6. Is(f)
    <2>1. f \in [0 .. n -> Reading] /\ f[0] = NothingRead
      BY <1>4 DEF Iterates
    <2>2. ASSUME NEW i \in 1 .. n
          PROVE  f[i] = ReadPackage(f[i - 1], w[i])
      <3>1. i - 1 \in 0 .. n
        BY <1>1
      <3>2. f[i] = step[i][f[i - 1]] /\ f[i - 1] \in Reading
        BY <1>4, <2>1, <3>1 DEF Iterates
      <3>3. QED
        BY <3>2 DEF ReadStep
    <2>3. QED
      BY <1>1, <2>1, <2>2
  <1>7. Read(w) = (CHOOSE g : Is(g))[n]
    BY DEF Read
  <1>8. Is(CHOOSE g : Is(g))
    <2> HIDE DEF Is
    <2>1. QED
      BY <1>6, Zenon
  <1>9. QED
    BY <1>5, <1>7, <1>8

\* Nothing is read from nothing.
LEMMA ReadEmpty == Read(<< >>) = NothingRead
  <1>1. << >> \in Seq(Package)
    OBVIOUS
  <1>2. PICK f : Iterates(f, Len(<< >>), Reading, NothingRead, ReadStep(<< >>)) /\ Read(<< >>) = f[Len(<< >>)]
    BY <1>1, ReadDefined
  <1>3. QED
    BY <1>2 DEF Iterates

\* One package more is one step more.
LEMMA ReadAppend ==
  ASSUME NEW w \in Seq(Package), NEW c \in Package
  PROVE  /\ Read(w) \in Reading
         /\ Read(Append(w, c)) = ReadPackage(Read(w), c)
  <1> DEFINE n == Len(w)
             v == Append(w, c)
  <1>1. /\ n \in Nat /\ v \in Seq(Package) /\ Len(v) = n + 1 /\ v[n + 1] = c
        /\ \A i \in 1 .. n : v[i] = w[i]
    BY AppendProperties
  <1>2. PICK f : Iterates(f, n, Reading, NothingRead, ReadStep(w)) /\ Read(w) = f[n]
    BY ReadDefined
  <1>3. PICK g : Iterates(g, n + 1, Reading, NothingRead, ReadStep(v)) /\ Read(v) = g[n + 1]
    BY <1>1, ReadDefined
  <1> HIDE DEF v
  <1>4. \A i \in 1 .. n : ReadStep(w)[i] = ReadStep(v)[i]
    BY <1>1 DEF ReadStep
  <1>5. \A i \in 0 .. n : f[i] = g[i]
    <2>1. n \in Nat /\ n + 1 \in Nat /\ n <= n + 1
      BY <1>1
    <2> HIDE DEF n
    <2>2. QED
      BY <1>2, <1>3, <1>4, <2>1, IterationUnique
  <1>6. f[n] \in Reading /\ f[n] = g[n]
    BY <1>1, <1>2, <1>5 DEF Iterates
  <1>7. g[n + 1] = ReadStep(v)[n + 1][g[n]]
    <2>1. n + 1 \in 1 .. n + 1 /\ (n + 1) - 1 = n
      BY <1>1
    <2>2. QED
      BY <1>3, <2>1 DEF Iterates
  <1>8. ReadStep(v)[n + 1][f[n]] = ReadPackage(f[n], c)
    <2>1. n + 1 \in 1 .. Len(v)
      BY <1>1
    <2>2. QED
      BY <1>1, <1>6, <2>1 DEF ReadStep
  <1>9. QED
    BY <1>2, <1>3, <1>6, <1>7, <1>8 DEF v

\* In the middle of a frame the reader has the frames before it, and of this one
\* as many bytes as were sent.
ReaderInv ==
  (\A i \in DOMAIN frames : frames[i] <= LargestSafe)
    => Read(wire) = IF pc = "cut"
                      THEN [done |-> SubSeq(frames, 1, Len(frames) - 1), open |-> start]
                      ELSE [done |-> frames, open |-> 0]

LEMMA ReaderStep ==
  ASSUME TypeOK, IInv, ReaderInv, TypeOK', IInv', [Next]_vars
  PROVE  ReaderInv'
  <1>1. CASE UNCHANGED vars
    BY <1>1 DEF vars, ReaderInv
  <1>2. ASSUME NEW n \in Lengths, Capture(n)
        PROVE  ReaderInv'
    <2>1. frames \in Seq(Nat) /\ frames' = Append(frames, n) /\ n \in Nat
      BY <1>2, LengthAssumption DEF Capture, TypeOK
    <2>2. /\ Len(frames') - 1 = Len(frames) /\ SubSeq(frames', 1, Len(frames)) = frames
          /\ \A i \in DOMAIN frames : i \in DOMAIN frames' /\ frames'[i] = frames[i]
      <3>1. Len(frames') = Len(frames) + 1 /\ Len(frames) \in Nat /\ frames' \in Seq(Nat)
        BY <2>1, AppendProperties
      <3>2. \A i \in 1 .. Len(frames) : i \in 1 .. Len(frames') /\ frames'[i] = frames[i]
        BY <2>1, <3>1, AppendProperties
      <3>3. SubSeq(frames', 1, Len(frames)) = frames
        <4>1. /\ SubSeq(frames', 1, Len(frames)) \in Seq(Nat)
              /\ Len(SubSeq(frames', 1, Len(frames))) = Len(frames)
          BY <3>1
        <4>2. \A i \in 1 .. Len(frames) : SubSeq(frames', 1, Len(frames))[i] = frames[i]
          BY <3>1, <3>2
        <4>3. QED
          BY <2>1, <4>1, <4>2, SeqEqual
      <3>4. QED
        BY <2>1, <3>1, <3>2, <3>3
    <2>3. pc = "capture" /\ pc' = "cut" /\ start' = 0 /\ wire' = wire
      BY <1>2 DEF Capture
    <2>4. QED
      BY <2>2, <2>3 DEF ReaderInv
  <1>3. CASE FullPackage \/ LastPackage
    <2> SUFFICES ASSUME \A i \in DOMAIN frames' : frames'[i] <= LargestSafe
                 PROVE  Read(wire') = IF pc' = "cut"
                                        THEN [done |-> SubSeq(frames', 1, Len(frames') - 1), open |-> start']
                                        ELSE [done |-> frames', open |-> 0]
      BY DEF ReaderInv
    <2>1. pc = "cut" /\ frames' = frames /\ first' = first
      BY <1>3 DEF FullPackage, LastPackage
    <2> DEFINE done == SubSeq(frames, 1, Len(frames) - 1)
               m == wire'[Len(wire')]
    <2>2. Read(wire) = [done |-> done, open |-> start]
      BY <2>1 DEF ReaderInv
    <2>3. /\ frames # << >> /\ start + left = Frame /\ first <= Len(wire) + 1
          /\ start \in Nat /\ left \in Nat
      BY <2>1 DEF IInv, CutInv, TypeOK
    <2>4. frames \in Seq(Nat) /\ Len(frames) \in Nat \ {0} /\ Len(frames) \in DOMAIN frames
      BY <2>3, EmptySeq DEF TypeOK
    <2>5. Frame' = Frame /\ Frame <= LargestSafe
      BY <2>1, <2>4 DEF Frame
    <2>6. wire' = Append(wire, m) /\ m \in Package /\ Len(wire') = Len(wire) + 1
      <3>1. PICK h : wire' = Append(wire, h)
        BY <1>3 DEF FullPackage, LastPackage
      <3>2. Len(wire') = Len(wire) + 1 /\ wire'[Len(wire) + 1] = h /\ Len(wire) \in Nat
        BY <3>1, WireStep
      <3>3. wire' \in Seq(Package) /\ Len(wire') \in DOMAIN wire'
        BY <3>2 DEF TypeOK
      <3>4. QED
        BY <3>1, <3>2, <3>3
    <2> HIDE DEF m
    <2>7. Read(wire') = ReadPackage(Read(wire), m)
      BY <2>6, ReadAppend DEF TypeOK
    <2>8. Len(wire') \in first' .. Len(wire')
      <3>1. first' \in Nat /\ Len(wire') \in Nat /\ first' <= Len(wire')
        BY <2>1, <2>3, <2>6 DEF TypeOK
      <3>2. QED
        BY <3>1
    <2>9. m.mark = EndMark <=> pc' = "capture"
      BY <2>1, <2>3, <2>5, <2>8 DEF IInv, EndMarkLast, m
    <2>10. CASE FullPackage
      <3>1. pc' = "cut" /\ start' = start + ChunkMax
        BY <2>10, <2>1 DEF FullPackage
      <3>2. m = Header(seq % ByteMod, ChunkMax)
        BY <2>6, <2>10, WireStep DEF FullPackage, m
      <3>3. m.len = ChunkMax
        <4>1. seq % ByteMod \in 0 .. ByteMod - 1
          BY MarkAssumption, ModRange DEF TypeOK
        <4>2. ChunkMax \in 0 .. ChunkMax
          BY ChunkAssumption
        <4>3. QED
          BY <2>3, <3>2, <4>1, <4>2, HeaderFacts
      <3>4. QED
        BY <2>1, <2>2, <2>7, <2>9, <3>1, <3>3 DEF ReadPackage
    <2>11. CASE LastPackage
      <3>1. pc' = "capture"
        BY <2>11 DEF LastPackage
      <3>2. m = Header(EndMark, left)
        BY <2>6, <2>11, WireStep DEF LastPackage, m
      <3>3. m.len = left
        <4>1. left \in 0 .. ChunkMax
          BY <2>11, ChunkAssumption DEF LastPackage, TypeOK
        <4>2. QED
          BY <2>3, <3>2, <4>1, HeaderFacts, MarkAssumption
      <3>4. Append(done, Frame) = frames
        BY <2>4 DEF Frame
      <3> HIDE DEF done
      <3>5. m.mark = EndMark
        BY <2>9, <3>1
      <3>6. Read(wire') = [done |-> Append(Read(wire).done, Read(wire).open + m.len), open |-> 0]
        BY <2>7, <3>5 DEF ReadPackage
      <3>7. Read(wire).done = done /\ Read(wire).open = start
        BY <2>2
      <3>8. Read(wire') = [done |-> frames, open |-> 0]
        BY <2>3, <3>3, <3>4, <3>6, <3>7
      <3>9. QED
        BY <2>1, <3>1, <3>8
    <2>12. QED
      BY <1>3, <2>10, <2>11
  <1>4. QED
    BY <1>2, <1>1, <1>3 DEF Next

\* As long as no frame is too large for the end mark, a reader of the stream has
\* between frames exactly the frames that were captured, however many.
THEOREM ReaderStaysInStep == Spec => []ReaderInStep
  <1>1. Init => ReaderInv
    <2> SUFFICES ASSUME Init
                 PROVE  ReaderInv
      OBVIOUS
    <2>1. wire = << >> /\ frames = << >> /\ pc = "capture"
      BY DEF Init
    <2>2. QED
      BY <2>1, ReadEmpty DEF ReaderInv, NothingRead
  <1>2. ReaderInv => ReaderInStep
    BY DEF ReaderInv, ReaderInStep
  <1>3. QED
    BY <1>1, <1>2, ReaderStep, TypeCorrect, InvCorrect, PTL DEF Spec
=============================================================================
