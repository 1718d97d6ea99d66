-------------------------- MODULE JpegSenderProofs --------------------------
(***************************************************************************)
(* Proof that the packets of RtpSender carry every frame, whatever the     *)
(* packet size, the sizes of pictures and tables, and the host; and that   *)
(* what JpegSender gives it to send, for every set of pictures that the    *)
(* assumption allows, is what was captured.                                *)
(***************************************************************************)
EXTENDS JpegSender, SequenceFacts, FiniteSetTheorems

Packet == [seq : Int, at : Int, off : Int, m : BOOLEAN, tables : BOOLEAN,
           len : Int, total : Int]

Types ==
  /\ busy \in BOOLEAN
  /\ ic \in Int
  /\ frame \in [size : Int, table : Nat, dri : BOOLEAN]
  /\ busy => frame.table \in TableSizes
  /\ offset \in Int /\ left \in Int
  /\ seq \in Int
  /\ wire \in Seq(Packet)

\* What has been sent and what is left are the frame; the packet to come
\* follows on the last.
Progress ==
  /\ offset + left = frame.size
  /\ wire = << >> => offset = 0
  /\ wire # << >> =>
       /\ offset > 0 /\ left >= 0
       /\ offset = wire[Len(wire)].at + wire[Len(wire)].len
       /\ busy => seq = (wire[Len(wire)].seq + 1) % SeqNumbers
  /\ ~busy => left <= 0

IInv ==
  /\ Types
  /\ Progress
  /\ \A i \in 1 .. Len(wire) : FollowsOn(i) /\ WellFormed(i)

\* A remainder and a quotient are integers.
LEMMA Arithmetic ==
  ASSUME NEW s \in Int
  PROVE  /\ s % SeqNumbers \in Int
         /\ s % (Base * Base * Base) \in Int
         /\ OffOnWire(s) \in Int
         /\ Swapped(s) \in Int
  <1>1. Base \in Nat /\ Base > 0
    BY RtpAssumption
  <1>2. Base * Base \in Nat /\ Base * Base > 0
    BY <1>1
  <1>3. (Base * Base) * Base \in Nat /\ (Base * Base) * Base > 0
    BY <1>1, <1>2
  <1>4. \A n \in Nat : n > 0 => s % n \in Int /\ s \div n \in Int
    OBVIOUS
  <1>5. s % Base \in Int /\ s \div Base \in Int
    BY <1>1, <1>4
  <1>6. (s % Base) * Base \in Int
    BY <1>1, <1>5
  <1>7. (s % Base) * Base + s \div Base \in Int
    BY <1>5, <1>6
  <1>8. s % (Base * Base) \in Int /\ s % (Base * Base * Base) \in Int
    BY <1>2, <1>3, <1>4
  <1>9. QED
    BY <1>5, <1>7, <1>8 DEF SeqNumbers, OffOnWire, Swapped

\* There is room for data behind the headers of every packet.
LEMMA RoomLeft ==
  ASSUME Types, busy
  PROVE  Headers(offset) \in Int /\ PacketMax - Headers(offset) > 0 /\ PacketMax \in Int
  BY RtpAssumption, SMTT(30) DEF Types, Headers, RtpHdr, ChannelHdr, JpegHdr, RstHdr, TableHdr

LEMMA InitInv == RtpInit => IInv
  <1> SUFFICES ASSUME RtpInit PROVE IInv
    OBVIOUS
  <1>1. Base * Base \in Int
    BY RtpAssumption
  <1>2. seq \in Int
    BY <1>1 DEF RtpInit, SeqNumbers
  <1>3. Types
    <2>1. ic \in Int
      BY RtpAssumption DEF RtpInit
    <2>2. wire \in Seq(Packet)
      BY DEF RtpInit
    <2>3. frame \in [size : Int, table : Nat, dri : BOOLEAN]
      BY DEF RtpInit, FrameOf
    <2>4. busy \in BOOLEAN /\ ~busy
      BY Zenon DEF RtpInit
    <2>5. offset \in Int /\ left \in Int
      BY DEF RtpInit
    <2>6. QED
      BY <1>2, <2>1, <2>2, <2>3, <2>4, <2>5 DEF Types
  <1>4. QED
    BY <1>3 DEF RtpInit, IInv, Progress, FrameOf

LEMMA BeginInv ==
  ASSUME IInv, NEW size \in Int, NEW table \in TableSizes, NEW dri \in BOOLEAN,
         BeginFrame(FrameOf(size, table, dri))
  PROVE  IInv'
  <1>1. size \in Int /\ table \in Nat
    BY RtpAssumption
  <1>2. Types'
    BY <1>1 DEF IInv, Types, BeginFrame, FrameOf
  <1>3. Progress'
    BY <1>1 DEF IInv, Types, Progress, BeginFrame, FrameOf
  <1>4. Len(wire') = 0
    BY DEF BeginFrame
  <1>5. QED
    BY <1>2, <1>3, <1>4 DEF IInv

LEMMA SendInv ==
  ASSUME IInv, SendPacket
  PROVE  IInv'
  <1> DEFINE room == PacketMax - Headers(offset)
             len == IF room >= left THEN left ELSE room
             packet == [seq |-> seq, at |-> offset, off |-> OffOnWire(offset),
                        m |-> room >= left, tables |-> offset = 0,
                        len |-> len, total |-> Headers(offset) + len]
  <1>1. /\ busy /\ left > 0
        /\ wire' = Append(wire, packet)
        /\ offset' = offset + len
        /\ left' = left - len
        /\ seq' = (seq + 1) % SeqNumbers
        /\ UNCHANGED <<host, ic, busy, frame, next, sent>>
    BY DEF SendPacket
  <1>2. /\ Headers(offset) \in Int /\ room > 0 /\ room \in Int
        /\ PacketMax \in Int
    BY <1>1, RoomLeft DEF IInv
  <1>3. /\ offset \in Int /\ left \in Int /\ seq \in Int /\ frame.size \in Int
        /\ wire \in Seq(Packet)
    BY DEF IInv, Types
  <1> HIDE DEF room
  <1>4. len \in Int /\ len > 0 /\ len <= left /\ len <= room
    BY <1>1, <1>2, <1>3
  <1> HIDE DEF len
  <1>5. OffOnWire(offset) \in Int /\ (seq + 1) % SeqNumbers \in Int
    <2>1. seq + 1 \in Int
      BY <1>3
    <2>2. \A s \in Int : s % SeqNumbers \in Int /\ OffOnWire(s) \in Int
      BY Arithmetic
    <2>3. QED
      BY <1>3, <2>1, <2>2
  <1>6. packet \in Packet
    BY <1>2, <1>3, <1>4, <1>5 DEF Packet
  <1>7. offset >= 0 /\ (offset = 0 <=> wire = << >>)
    BY <1>3 DEF IInv, Progress
  <1>8. Types'
    BY <1>1, <1>3, <1>4, <1>5, <1>6 DEF IInv, Types
  <1>9. /\ Len(wire') = Len(wire) + 1 /\ Len(wire) \in Nat
        /\ wire'[Len(wire) + 1] = packet
        /\ \A i \in 1 .. Len(wire) : wire'[i] = wire[i]
        /\ wire' # << >>
    BY <1>1, <1>3, <1>6
  <1>10. Progress'
    <2>1. offset' + left' = frame'.size
      BY <1>1, <1>3, <1>4 DEF IInv, Progress
    <2>2. offset' > 0 /\ left' >= 0
      BY <1>1, <1>3, <1>4, <1>7
    <2>3. wire'[Len(wire')] = packet
      BY <1>9
    <2>4. offset' = wire'[Len(wire')].at + wire'[Len(wire')].len
      BY <1>1, <2>3
    <2>5. seq' = (wire'[Len(wire')].seq + 1) % SeqNumbers
      BY <1>1, <2>3
    <2>6. busy' /\ SeqNumbers' = SeqNumbers
      BY <1>1 DEF SeqNumbers
    <2>7. QED
      BY <1>9, <2>1, <2>2, <2>4, <2>5, <2>6 DEF Progress
  <1>11. ASSUME NEW i \in 1 .. Len(wire)
         PROVE  FollowsOn(i)' /\ WellFormed(i)'
    <2>1. wire'[i] = wire[i] /\ (i > 1 => wire'[i - 1] = wire[i - 1])
      BY <1>9
    <2>2. FollowsOn(i) /\ WellFormed(i)
      BY DEF IInv
    <2>3. QED
      BY <1>1, <2>1, <2>2 DEF FollowsOn, WellFormed, SeqNumbers
  <1>12. ASSUME NEW k, k = Len(wire) + 1
         PROVE  FollowsOn(k)' /\ WellFormed(k)'
    <2>1. wire'[k] = packet /\ k \in Int /\ (k = 1 <=> wire = << >>)
      BY <1>3, <1>9, <1>12
    <2>2. FollowsOn(k)'
      <3>1. CASE wire = << >>
        BY <1>7, <2>1, <3>1 DEF FollowsOn
      <3>2. CASE wire # << >>
        <4>1. Len(wire) \in 1 .. Len(wire) /\ k - 1 = Len(wire)
          BY <1>3, <1>12, <3>2
        <4>2. wire'[k - 1] = wire[Len(wire)]
          BY <1>9, <4>1
        <4>3. /\ offset = wire[Len(wire)].at + wire[Len(wire)].len
              /\ seq = (wire[Len(wire)].seq + 1) % SeqNumbers
          BY <1>1, <3>2 DEF IInv, Progress
        <4>4. packet.at = offset /\ packet.seq = seq
          OBVIOUS
        <4>5. QED
          BY <2>1, <3>2, <4>2, <4>3, <4>4 DEF FollowsOn, SeqNumbers
      <3>3. QED
        BY <3>1, <3>2
    <2>3. WellFormed(k)'
      <3>1. offset + left = frame.size
        BY DEF IInv, Progress
      <3>2. Headers(offset) + len <= PacketMax
        BY <1>2, <1>4 DEF room
      <3>3. room >= left <=> offset + len = frame.size
        BY <1>2, <1>3, <1>4, <3>1 DEF len
      <3>4. offset = 0 <=> k = 1
        BY <1>7, <2>1
      <3>5. host = "little" => OffOnWire(offset) = offset % (Base * Base * Base)
        BY DEF OffOnWire
      <3>6. offset + len <= frame.size
        BY <1>3, <1>4, <3>1
      <3>7. /\ packet.at = offset /\ packet.len = len
            /\ packet.total = Headers(offset) + len /\ packet.off = OffOnWire(offset)
            /\ packet.m = (room >= left) /\ packet.tables = (offset = 0)
        OBVIOUS
      <3> HIDE DEF packet
      <3>8. QED
        BY <1>1, <1>4, <2>1, <3>2, <3>3, <3>4, <3>5, <3>6, <3>7 DEF WellFormed
    <2>4. QED
      BY <2>2, <2>3
  <1>13. \A i \in 1 .. Len(wire') : i \in 1 .. Len(wire) \/ i = Len(wire) + 1
    BY <1>9
  <1>14. \A i \in 1 .. Len(wire') : FollowsOn(i)' /\ WellFormed(i)'
    BY <1>11, <1>12, <1>13
  <1>15. QED
    BY <1>8, <1>10, <1>14 DEF IInv

LEMMA EndInv ==
  ASSUME IInv, EndFrame
  PROVE  IInv'
  <1>1. seq' \in Int
    BY Arithmetic DEF IInv, Types, EndFrame
  <1>2. Types'
    BY <1>1 DEF IInv, Types, EndFrame
  <1>3. Progress'
    BY DEF IInv, Types, Progress, EndFrame
  <1>4. \A i \in 1 .. Len(wire') : FollowsOn(i)' /\ WellFormed(i)'
    BY DEF IInv, EndFrame, FollowsOn, WellFormed, SeqNumbers
  <1>5. QED
    BY <1>2, <1>3, <1>4 DEF IInv

LEMMA InvCorrect == RtpSpec => []IInv
  <1>1. IInv /\ [RtpNext]_rtpVars => IInv'
    <2> SUFFICES ASSUME IInv, [RtpNext]_rtpVars PROVE IInv'
      OBVIOUS
    <2>1. CASE UNCHANGED rtpVars
      BY <2>1 DEF rtpVars, IInv, Types, Progress, FollowsOn, WellFormed, SeqNumbers
    <2>2. CASE RtpNext
      <3>1. Sizes \subseteq Int
        BY RtpAssumption
      <3>2. QED
        BY <2>2, <3>1, BeginInv, SendInv, EndInv DEF RtpNext
    <2>3. QED
      BY <2>1, <2>2
  <1>2. QED
    BY <1>1, InitInv, PTL DEF RtpSpec

\* What the invariant says of a whole frame.
LEMMA CarriedBy == IInv => FrameCarried
  <1> SUFFICES ASSUME IInv, ~busy, frame.size > 0
               PROVE  wire # << >> /\ wire[Len(wire)].m
    BY DEF IInv, FrameCarried
  <1>1. /\ offset + left = frame.size /\ left <= 0
        /\ offset \in Int /\ left \in Int
        /\ wire \in Seq(Packet)
    BY DEF IInv, Progress, Types
  <1>2. wire # << >>
    BY <1>1 DEF IInv, Progress
  <1>3. Len(wire) \in 1 .. Len(wire)
    BY <1>1, <1>2
  <1>4. wire[Len(wire)].at + wire[Len(wire)].len = frame.size
    BY <1>1, <1>2 DEF IInv, Progress
  <1>5. WellFormed(Len(wire))
    BY <1>3 DEF IInv
  <1>6. QED
    BY <1>2, <1>4, <1>5 DEF WellFormed

\* Every frame is carried, each byte once and in order, with its tables in the
\* first packet and its marker in the last.
THEOREM FramesCarried == RtpSpec => []FrameCarried
  <1>1. QED
    BY CarriedBy, InvCorrect, PTL

-----------------------------------------------------------------------------
(* The pictures. *)

Parts == Segments \cup Scan \cup {"SOI", "EOI"}

\* A picture with a Huffman table behind its first marker.
WithDht(q) == <<"SOI", "DHT">> \o SubSeq(q, 2, Len(q))

\* s is where the scan of q is announced.
ScanAt(q, s) ==
  /\ s \in 2 .. Len(q)
  /\ \A i \in 2 .. s - 1 : q[i] \in Segments \ {"SOS"}
  /\ q[s] = "SOS"
  /\ \A i \in s + 1 .. Len(q) : q[i] \in Scan \cup {"EOI"}

\* No marker is a part of the scan.
LEMMA KindsApart ==
  /\ Scan \cap Segments = {}
  /\ "SOI" \notin Segments \cup Scan /\ "EOI" \notin Segments \cup Scan
  /\ "SOS" \in Segments /\ Tables \subseteq Segments
  BY DEF Scan, Segments, Tables, Intervals

LEMMA PictureFacts ==
  ASSUME NEW q \in Pictures
  PROVE  /\ q \in Seq(Parts) /\ Len(q) \in Nat /\ Len(q) >= 2 /\ q[1] = "SOI"
         /\ \E s : ScanAt(q, s)
  <1>1. q \in Seq(Parts) /\ q[1] = "SOI" /\ \E s : ScanAt(q, s)
    BY PictureAssumption DEF Parts, ScanAt
  <1>2. Len(q) \in Nat
    BY <1>1
  <1>3. Len(q) >= 2
    <2>1. PICK s : ScanAt(q, s)
      BY <1>1
    <2>2. QED
      BY <1>2, <2>1 DEF ScanAt
  <1>4. QED
    BY <1>1, <1>2, <1>3

\* The picture with the table: everything behind SOI moves by one.
LEMMA WithDhtFacts ==
  ASSUME NEW q \in Pictures
  PROVE  /\ WithDht(q) \in Seq(Parts \cup {"DHT"}) /\ Len(WithDht(q)) = Len(q) + 1
         /\ WithDht(q)[1] = "SOI" /\ WithDht(q)[2] = "DHT"
         /\ \A i \in 2 .. Len(q) : WithDht(q)[i + 1] = q[i]
         /\ \A s : ScanAt(q, s) => ScanAt(WithDht(q), s + 1)
  <1> DEFINE front == <<"SOI", "DHT">>
             rest == SubSeq(q, 2, Len(q))
             S == Parts \cup {"DHT"}
             w == WithDht(q)
  <1>1. q \in Seq(Parts) /\ Len(q) \in Nat /\ Len(q) >= 2
    BY PictureFacts
  <1>2. front \in Seq(S) /\ Len(front) = 2 /\ front[1] = "SOI" /\ front[2] = "DHT"
    BY DEF Parts
  <1>3. rest \in Seq(S) /\ Len(rest) = Len(q) - 1 /\ \A i \in 1 .. Len(q) - 1 : rest[i] = q[i + 1]
    BY <1>1
  <1>4. w = front \o rest
    BY DEF WithDht
  <1> HIDE DEF front, rest, S, w
  <1>5. /\ w \in Seq(S) /\ Len(w) = Len(front) + Len(rest)
        /\ \A i \in 1 .. Len(front) : w[i] = front[i]
        /\ \A i \in 1 .. Len(rest) : w[Len(front) + i] = rest[i]
    <2>1. /\ front \o rest \in Seq(S) /\ Len(front \o rest) = Len(front) + Len(rest)
          /\ \A i \in 1 .. Len(front) : (front \o rest)[i] = front[i]
          /\ \A i \in 1 .. Len(rest) : (front \o rest)[Len(front) + i] = rest[i]
      <3>1. front \in Seq(S)
        BY <1>2
      <3>2. rest \in Seq(S)
        BY <1>3
      <3>3. QED
        BY <3>1, <3>2, ConcatAt
    <2>2. QED
      BY <1>4, <2>1
  <1>6. Len(w) = Len(q) + 1 /\ w[1] = "SOI" /\ w[2] = "DHT"
    BY <1>1, <1>2, <1>3, <1>5
  <1>7. ASSUME NEW i \in 2 .. Len(q)
        PROVE  w[i + 1] = q[i]
    <2>1. PICK k : k = i - 1
      OBVIOUS
    <2>2. k \in 1 .. Len(rest) /\ k \in 1 .. Len(q) - 1 /\ Len(front) + k = i + 1 /\ k + 1 = i
      BY <1>1, <1>2, <1>3, <2>1
    <2>3. w[Len(front) + k] = rest[k]
      BY <1>5, <2>2
    <2>4. rest[k] = q[k + 1]
      BY <1>3, <2>2
    <2>5. QED
      BY <2>2, <2>3, <2>4
  <1>8. ASSUME NEW s, ScanAt(q, s)
        PROVE  ScanAt(w, s + 1)
    <2>1. s \in 2 .. Len(q) /\ q[s] = "SOS"
      BY <1>8 DEF ScanAt
    <2>2. ASSUME NEW i \in 2 .. (s + 1) - 1
          PROVE  w[i] \in Segments \ {"SOS"}
      <3>1. CASE i = 2
        BY <1>6, <3>1 DEF Segments, Intervals
      <3>2. CASE i # 2
        <4>1. i - 1 \in 2 .. s - 1 /\ i - 1 \in 2 .. Len(q) /\ (i - 1) + 1 = i
          BY <1>1, <2>1, <3>2
        <4>2. w[i] = q[i - 1]
          BY <1>7, <4>1
        <4>3. QED
          BY <1>8, <4>1, <4>2 DEF ScanAt
      <3>3. QED
        BY <3>1, <3>2
    <2>3. ASSUME NEW i \in (s + 1) + 1 .. Len(w)
          PROVE  w[i] \in Scan \cup {"EOI"}
      <3>1. i - 1 \in s + 1 .. Len(q) /\ i - 1 \in 2 .. Len(q) /\ (i - 1) + 1 = i
        BY <1>1, <1>6, <2>1
      <3>2. w[i] = q[i - 1]
        BY <1>7, <3>1
      <3>3. QED
        BY <1>8, <3>1, <3>2 DEF ScanAt
    <2>4. w[s + 1] = "SOS" /\ s + 1 \in 2 .. Len(w)
      BY <1>1, <1>6, <1>7, <2>1
    <2>5. QED
      BY <2>2, <2>3, <2>4 DEF ScanAt
  <1>9. QED
    BY <1>5, <1>6, <1>7, <1>8 DEF S, w

\* There is one place where a scan is announced.
LEMMA ScanAtIs ==
  ASSUME NEW q, Len(q) \in Nat, q[1] = "SOI", NEW s, ScanAt(q, s)
  PROVE  SosOf(q) = s /\ \A i \in 1 .. Len(q) : q[i] = "SOS" => i = s
  <1>1. s \in 1 .. Len(q) /\ q[s] = "SOS"
    BY DEF ScanAt
  <1>2. ASSUME NEW i \in 1 .. Len(q), q[i] = "SOS"
        PROVE  i = s
    <2>1. i # 1
      BY <1>2
    <2>2. i \notin 2 .. s - 1
      BY <1>2 DEF ScanAt
    <2>3. i \notin s + 1 .. Len(q)
      BY <1>2, KindsApart DEF ScanAt
    <2>4. QED
      BY <1>1, <2>1, <2>2, <2>3
  <1>3. QED
    BY <1>1, <1>2 DEF SosOf
-----------------------------------------------------------------------------
(* What is not a Huffman table stays. *)

\* A part as it counts in Others.
Kept(x) == IF x = "DHT" THEN << >> ELSE <<x>>

\* Others of two pictures, one behind the other.
LEMMA OthersConcat ==
  ASSUME NEW S, NEW s \in Seq(S), NEW t \in Seq(S)
  PROVE  Others(s \o t) = Others(s) \o Others(t)
  <1> DEFINE a == [i \in 1 .. Len(s) |-> Kept(s[i])]
             b == [i \in 1 .. Len(t) |-> Kept(t[i])]
             c == [i \in 1 .. Len(s \o t) |-> Kept((s \o t)[i])]
  <1>1. \A x \in S : Kept(x) \in Seq(S)
    BY DEF Kept
  <1>2. /\ Len(s) \in Nat /\ Len(t) \in Nat /\ Len(s \o t) = Len(s) + Len(t)
        /\ \A i \in 1 .. Len(s) : s[i] \in S /\ (s \o t)[i] = s[i]
        /\ \A i \in 1 .. Len(t) : t[i] \in S /\ (s \o t)[Len(s) + i] = t[i]
    BY ConcatAt
  <1>3. a \in Seq(Seq(S)) /\ Len(a) = Len(s)
    <2>1. a \in [1 .. Len(s) -> Seq(S)]
      BY <1>1, <1>2
    <2> HIDE DEF a
    <2>2. QED
      BY <1>2, <2>1, FunctionIsSequence
  <1>4. b \in Seq(Seq(S)) /\ Len(b) = Len(t)
    <2>1. b \in [1 .. Len(t) -> Seq(S)]
      BY <1>1, <1>2
    <2> HIDE DEF b
    <2>2. QED
      BY <1>2, <2>1, FunctionIsSequence
  <1>5. c \in Seq(Seq(S)) /\ Len(c) = Len(s) + Len(t)
    <2>1. \A i \in 1 .. Len(s \o t) : (s \o t)[i] \in S
      BY ConcatAt
    <2>2. c \in [1 .. Len(s \o t) -> Seq(S)]
      BY <1>1, <2>1
    <2> HIDE DEF c
    <2>3. Len(s \o t) \in Nat
      BY <1>2
    <2>4. QED
      BY <1>2, <2>2, <2>3, FunctionIsSequence
  <1>6. c = a \o b
    <2>1. /\ a \o b \in Seq(Seq(S)) /\ Len(a \o b) = Len(a) + Len(b)
          /\ \A i \in 1 .. Len(a) : (a \o b)[i] = a[i]
          /\ \A i \in 1 .. Len(b) : (a \o b)[Len(a) + i] = b[i]
      <3>1. a \in Seq(Seq(S)) /\ b \in Seq(Seq(S))
        BY <1>3, <1>4
      <3> HIDE DEF a, b
      <3>2. QED
        BY <3>1, ConcatAt
    <2>2. ASSUME NEW i \in 1 .. Len(s)
          PROVE  c[i] = a[i]
      <3>1. i \in 1 .. Len(s \o t) /\ (s \o t)[i] = s[i]
        BY <1>2
      <3>2. QED
        BY <3>1
    <2>3. ASSUME NEW i \in 1 .. Len(t)
          PROVE  c[Len(s) + i] = b[i]
      <3>1. Len(s) + i \in 1 .. Len(s \o t) /\ (s \o t)[Len(s) + i] = t[i]
        BY <1>2
      <3>2. QED
        BY <3>1
    <2> HIDE DEF a, b, c
    <2>4. ASSUME NEW i \in 1 .. Len(c)
          PROVE  c[i] = (a \o b)[i]
      <3>1. CASE i <= Len(s)
        <4>1. i \in 1 .. Len(s) /\ i \in 1 .. Len(a)
          BY <1>2, <1>3, <3>1
        <4>2. QED
          BY <2>1, <2>2, <4>1
      <3>2. CASE i > Len(s)
        <4>1. PICK k : k = i - Len(s)
          OBVIOUS
        <4>2. k \in 1 .. Len(t) /\ k \in 1 .. Len(b) /\ Len(s) + k = i /\ Len(a) + k = i
          BY <1>2, <1>3, <1>4, <1>5, <3>2, <4>1
        <4>3. (a \o b)[Len(a) + k] = b[k]
          BY <2>1, <4>2
        <4>4. c[Len(s) + k] = b[k]
          BY <2>3, <4>2
        <4>5. QED
          BY <4>2, <4>3, <4>4
      <3>3. i \in Int /\ Len(s) \in Int
        BY <1>2, <1>5
      <3>4. i <= Len(s) \/ i > Len(s)
        BY <3>3
      <3>5. QED
        BY <3>1, <3>2, <3>4
    <2>5. Len(c) = Len(a \o b)
      BY <1>3, <1>4, <1>5, <2>1
    <2>6. QED
      BY <1>5, <2>1, <2>4, <2>5, SeqEqual
  <1>7. FlattenSeq(a \o b) = FlattenSeq(a) \o FlattenSeq(b)
    <2> HIDE DEF a, b
    <2>1. QED
      BY <1>3, <1>4, FlattenConcat
  <1>8. Others(s) = FlattenSeq(a) /\ Others(t) = FlattenSeq(b) /\ Others(s \o t) = FlattenSeq(c)
    BY Zenon DEF Others, Kept
  <1>9. QED
    BY <1>6, <1>7, <1>8

\* The picture with the table differs from the one without it by the table.
LEMMA OthersStay ==
  ASSUME NEW q \in Pictures
  PROVE  Others(WithDht(q)) = Others(q)
  <1> DEFINE rest == SubSeq(q, 2, Len(q))
             S == Parts \cup {"DHT"}
  <1>1. q \in Seq(Parts) /\ Len(q) \in Nat /\ Len(q) >= 2 /\ q[1] = "SOI"
    BY PictureFacts
  <1>2. rest \in Seq(S) /\ q \in Seq(S)
    BY <1>1
  <1>3. <<"SOI">> \in Seq(S) /\ <<"DHT">> \in Seq(S)
    BY DEF Parts
  <1>4. q = <<"SOI">> \o rest
    <2>1. Len(<<"SOI">> \o rest) = Len(q) /\ (<<"SOI">> \o rest) \in Seq(S)
      BY <1>1, <1>2, <1>3
    <2>2. \A i \in 1 .. Len(q) : (<<"SOI">> \o rest)[i] = q[i]
      BY <1>1
    <2>3. QED
      BY <1>2, <2>1, <2>2, SeqEqual
  <1>5. <<"SOI", "DHT">> = <<"SOI">> \o <<"DHT">>
    OBVIOUS
  <1> HIDE DEF rest, S
  <1>6. WithDht(q) = (<<"SOI">> \o <<"DHT">>) \o rest
    BY <1>5 DEF WithDht, rest
  <1>7. Others(<<"SOI">> \o rest) = Others(<<"SOI">>) \o Others(rest)
    BY <1>2, <1>3, OthersConcat
  <1>8. Others((<<"SOI">> \o <<"DHT">>) \o rest) = Others(<<"SOI">> \o <<"DHT">>) \o Others(rest)
    <2>1. <<"SOI">> \o <<"DHT">> \in Seq(S)
      BY <1>3, ConcatProperties
    <2>2. QED
      BY <1>2, <2>1, OthersConcat
  <1>9. Others(<<"SOI">> \o <<"DHT">>) = Others(<<"SOI">>) \o Others(<<"DHT">>)
    BY <1>3, OthersConcat
  <1>10. Others(<<"DHT">>) = << >>
    <2> DEFINE c == [i \in 1 .. Len(<<"DHT">>) |-> Kept(<<"DHT">>[i])]
    <2>1. Others(<<"DHT">>) = FlattenSeq(c)
      BY Zenon DEF Others, Kept
    <2>2. c = <<<< >>>>
      BY DEF Kept
    <2>3. FlattenSeq(<<<< >>>>) = << >>
      <3>1. <<<< >>>> \in Seq(Seq(S)) /\ <<<< >>>> # << >>
        OBVIOUS
      <3>2. Head(<<<< >>>>) = << >> /\ Tail(<<<< >>>>) = << >>
        OBVIOUS
      <3>3. FlattenSeq(<<<< >>>>) = Head(<<<< >>>>) \o FlattenSeq(Tail(<<<< >>>>))
        BY <3>1, FlattenHead
      <3>4. FlattenSeq(<< >>) = << >>
        BY DEF FlattenSeq
      <3>5. << >> \o << >> = << >>
        OBVIOUS
      <3>6. QED
        BY <3>2, <3>3, <3>4, <3>5
    <2>4. QED
      BY <2>1, <2>2, <2>3
  <1>11. Others(<<"SOI">>) \in Seq(S)
    <2> DEFINE c == [i \in 1 .. Len(<<"SOI">>) |-> Kept(<<"SOI">>[i])]
    <2>1. Others(<<"SOI">>) = FlattenSeq(c)
      BY Zenon DEF Others, Kept
    <2>2. c = <<<<"SOI">>>>
      BY DEF Kept
    <2>3. <<<<"SOI">>>> \in Seq(Seq(S))
      BY <1>3
    <2>4. QED
      BY <2>1, <2>2, <2>3, FlattenIsSeq
  <1>12. Others(<<"SOI">>) \o << >> = Others(<<"SOI">>)
    BY <1>11, ConcatEmptySeq
  <1>13. QED
    BY <1>4, <1>6, <1>7, <1>8, <1>9, <1>10, <1>12
-----------------------------------------------------------------------------
(* The invariant of the whole. *)

Struct == [lqt : Int, cqt : Int, dri : BOOLEAN, dims : BOOLEAN, scan : Int, size : Int]

\* What the parts up to n of the picture say is in the struct.
Known(n) ==
  /\ found.lqt \in 0 .. n
  /\ found.lqt = 0 => \A i \in 1 .. n : pic[i] \notin Tables
  /\ found.lqt # 0 => pic[found.lqt] \in Tables /\ \A i \in 1 .. found.lqt - 1 : pic[i] \notin Tables
  /\ found.cqt = 0 => \A i \in 1 .. n : pic[i] \in Tables => i = found.lqt
  /\ found.cqt # 0 =>
       /\ found.lqt # 0 /\ found.cqt \in found.lqt + 1 .. n /\ pic[found.cqt] \in Tables
       /\ \A i \in 1 .. found.cqt - 1 : pic[i] \in Tables => i = found.lqt
  /\ found.dri <=> \E i \in 1 .. n : pic[i] \in Intervals
  /\ found.dims <=> \E i \in 1 .. n : pic[i] = "SOF0"

StageInv ==
  /\ stage \in {"wait", "check", "details", "ready"}
  /\ found \in Struct

\* jpeg_check_dht is at the first marker or in the scan, never between.
CheckInv ==
  stage = "check" =>
    /\ given \in Pictures /\ pic = given /\ found = Nothing
    /\ ptr # 1 =>
         /\ ptr \in 2 .. Len(pic) + 1
         /\ ptr <= Len(pic) => pic[ptr] \in Scan \cup {"EOI"}

ExaminedInv == Examined => given \in Pictures /\ pic = WithDht(given)

\* A segment that ends in 0xFF was read by a ptr that is a byte short.
Missed == early /\ EndsInFF \cap ToSet(given) # {}

DetailsInv ==
  stage = "details" =>
    /\ ptr \in 1 .. Len(pic) + 1
    /\ ~Missed => ptr \in 1 .. SosOf(pic) /\ Known(ptr - 1)

ReadyInv ==
  stage = "ready" /\ ~Missed =>
    /\ Known(SosOf(pic))
    /\ found.size = Bytes(SosOf(pic) + 1) + IF early THEN 3 ELSE 2

CrashInv == crashed => stage = "ready" /\ found.lqt # 0 /\ found.cqt = 0

PicInv == StageInv /\ CheckInv /\ ExaminedInv /\ DetailsInv /\ ReadyInv /\ CrashInv

\* The bytes of a stretch of the picture are a number.
LEMMA BytesAreInt ==
  ASSUME NEW i \in Int, Len(pic) \in Nat
  PROVE  Bytes(i) \in Int
  <1> DEFINE T == {j \in i .. Len(pic) : pic[j] # "byte"}
  <1>1. IsFiniteSet(i .. Len(pic))
    BY FS_Interval
  <1>2. IsFiniteSet(T)
    BY <1>1, FS_Subset
  <1>3. Cardinality(T) \in Nat
    BY <1>2, FS_CardinalityType
  <1>4. Bytes(i) = Len(pic) - i + 1 + Cardinality(T)
    BY DEF Bytes
  <1> HIDE DEF T
  <1>5. QED
    BY <1>3, <1>4

\* A picture that was examined is one with its scan announced somewhere.
LEMMA ExaminedFacts ==
  ASSUME NEW g \in Pictures, NEW p, p = WithDht(g)
  PROVE  /\ Len(p) \in Nat /\ Len(p) >= 3 /\ p[1] = "SOI" /\ p[2] = "DHT"
         /\ ScanAt(p, SosOf(p)) /\ SosOf(p) \in 3 .. Len(p)
         /\ \A i \in 1 .. Len(p) : p[i] = "SOS" => i = SosOf(p)
         /\ \A i \in 1 .. Len(p) : p[i] \in EndsInFF => EndsInFF \cap ToSet(g) # {}
  <1>1. PICK s : ScanAt(g, s)
    BY PictureFacts
  <1>2. /\ g \in Seq(Parts) /\ Len(g) \in Nat /\ Len(g) >= 2
        /\ Len(p) = Len(g) + 1
        /\ p[1] = "SOI" /\ p[2] = "DHT"
        /\ \A i \in 2 .. Len(g) : p[i + 1] = g[i]
        /\ ScanAt(p, s + 1)
    BY <1>1, PictureFacts, WithDhtFacts
  <1>3. Len(p) \in Nat
    BY <1>2
  <1>4. SosOf(p) = s + 1 /\ \A i \in 1 .. Len(p) : p[i] = "SOS" => i = s + 1
    BY <1>2, <1>3, ScanAtIs
  <1>5. s + 1 \in 3 .. Len(p)
    BY <1>1, <1>2 DEF ScanAt
  <1>6. ASSUME NEW i \in 1 .. Len(p), p[i] \in EndsInFF
        PROVE  EndsInFF \cap ToSet(g) # {}
    <2>1. i # 1 /\ i # 2
      BY <1>2, <1>6 DEF EndsInFF
    <2>2. i - 1 \in 2 .. Len(g) /\ (i - 1) + 1 = i /\ i - 1 \in 1 .. Len(g)
      BY <1>2, <2>1
    <2>3. g[i - 1] \in EndsInFF
      BY <1>2, <1>6, <2>2
    <2>4. QED
      BY <2>2, <2>3 DEF ToSet
  <1>7. QED
    BY <1>2, <1>3, <1>4, <1>5, <1>6

\* A part that is parsed adds what it says.
LEMMA SegmentAdds ==
  ASSUME NEW n \in Nat, Known(n), found \in Struct, found' = WithSegment(found, n + 1), pic' = pic
  PROVE  Known(n + 1)' /\ found' \in Struct
  <1>1. \A i : i \in 1 .. n + 1 <=> i \in 1 .. n \/ i = n + 1
    OBVIOUS
  <1>2. /\ \A x \in Intervals : x \notin Tables /\ x # "SOF0"
        /\ "SOF0" \notin Tables
    BY DEF Tables, Intervals
  <1>3. CASE pic[n + 1] \in Tables
    <2>0. pic[n + 1] \notin Intervals /\ pic[n + 1] # "SOF0" /\ found' = WithTable(found, n + 1)
      BY <1>2, <1>3 DEF WithSegment
    <2>1. CASE found.lqt = 0
      <3>1. found' = [found EXCEPT !.lqt = n + 1]
        BY <2>0, <2>1 DEF WithTable
      <3>2. found.cqt = 0
        BY <2>1 DEF Known
      <3>3. /\ found'.lqt = n + 1 /\ found'.cqt = 0 /\ found'.dri = found.dri
            /\ found'.dims = found.dims /\ found' \in Struct
        BY <3>1, <3>2 DEF Struct
      <3>4. QED
        BY <1>1, <1>3, <2>0, <2>1, <3>2, <3>3 DEF Known
    <2>2. CASE found.lqt # 0 /\ found.cqt = 0
      <3>1. found' = [found EXCEPT !.cqt = n + 1]
        BY <2>0, <2>2 DEF WithTable
      <3>2. /\ found'.lqt = found.lqt /\ found'.cqt = n + 1 /\ found'.dri = found.dri
            /\ found'.dims = found.dims /\ found' \in Struct
        BY <3>1 DEF Struct
      <3>3. QED
        BY <1>1, <1>3, <2>0, <2>2, <3>2 DEF Known
    <2>3. CASE found.lqt # 0 /\ found.cqt # 0
      <3>1. found' = found
        BY <2>0, <2>3 DEF WithTable
      <3>2. QED
        BY <1>1, <2>0, <2>3, <3>1 DEF Known
    <2>4. QED
      BY <2>1, <2>2, <2>3
  <1>4. CASE pic[n + 1] \in Intervals
    <2>1. found' = [found EXCEPT !.dri = TRUE]
      BY <1>2, <1>4 DEF WithSegment
    <2>2. /\ found'.lqt = found.lqt /\ found'.cqt = found.cqt /\ found'.dri = TRUE
          /\ found'.dims = found.dims /\ found' \in Struct
      BY <2>1 DEF Struct
    <2>3. QED
      BY <1>1, <1>2, <1>4, <2>2 DEF Known
  <1>5. CASE pic[n + 1] = "SOF0"
    <2>1. found' = [found EXCEPT !.dims = TRUE]
      BY <1>2, <1>5 DEF WithSegment
    <2>2. /\ found'.lqt = found.lqt /\ found'.cqt = found.cqt /\ found'.dri = found.dri
          /\ found'.dims = TRUE /\ found' \in Struct
      BY <2>1 DEF Struct
    <2>3. QED
      BY <1>1, <1>2, <1>5, <2>2 DEF Known
  <1>6. CASE pic[n + 1] \notin Tables \cup Intervals \cup {"SOF0"}
    <2>1. found' = found
      BY <1>6 DEF WithSegment
    <2>2. QED
      BY <1>1, <1>6, <2>1 DEF Known
  <1>7. QED
    BY <1>3, <1>4, <1>5, <1>6

\* The struct stays a struct whatever part is parsed.
LEMMA StructStays ==
  ASSUME found \in Struct, NEW i \in Int
  PROVE  WithSegment(found, i) \in Struct
  BY DEF Struct, WithSegment, WithTable

\* What a step leaves alone.
LEMMA SameBytes ==
  ASSUME pic' = pic, NEW i
  PROVE  Bytes(i)' = Bytes(i)
  BY Zenon DEF Bytes
LEMMA PicInitInv == SendInit => PicInv
  <1> SUFFICES ASSUME SendInit PROVE PicInv
    OBVIOUS
  <1>1. stage = "wait" /\ found = Nothing /\ crashed = FALSE
    BY DEF SendInit, PicInit
  <1>2. Nothing \in Struct
    BY DEF Nothing, Struct
  <1>3. StageInv
    BY <1>1, <1>2 DEF StageInv
  <1>4. CheckInv /\ ExaminedInv /\ DetailsInv /\ ReadyInv /\ CrashInv
    BY <1>1 DEF CheckInv, ExaminedInv, Examined, DetailsInv, ReadyInv, CrashInv
  <1>5. QED
    BY <1>3, <1>4 DEF PicInv

LEMMA TakeInv ==
  ASSUME PicInv, TakePicture, UNCHANGED crashed
  PROVE  PicInv'
  <1>1. /\ stage = "wait" /\ stage' = "check" /\ ptr' = 1 /\ found' = Nothing
        /\ given' \in Pictures /\ pic' = given'
    BY DEF TakePicture
  <1>2. Nothing \in Struct
    BY DEF Nothing, Struct
  <1>3. ~crashed'
    BY <1>1 DEF PicInv, CrashInv
  <1>4. StageInv'
    BY <1>1, <1>2 DEF StageInv
  <1>5. CheckInv'
    BY <1>1 DEF CheckInv
  <1>6. ExaminedInv' /\ DetailsInv' /\ ReadyInv' /\ CrashInv'
    BY <1>1, <1>3 DEF ExaminedInv, Examined, DetailsInv, ReadyInv, CrashInv
  <1>7. QED
    BY <1>4, <1>5, <1>6 DEF PicInv

\* Nothing is known before the first part.
LEMMA NothingKnown ==
  ASSUME found = Nothing
  PROVE  Known(0)
  BY DEF Known, Nothing

LEMMA CheckStep ==
  ASSUME PicInv, Check, UNCHANGED crashed
  PROVE  PicInv'
  <1>1. stage = "check" /\ UNCHANGED <<given, early, found, count>>
    BY DEF Check
  <1>2. /\ given \in Pictures /\ pic = given /\ found = Nothing /\ found \in Struct
        /\ ptr # 1 => /\ ptr \in 2 .. Len(pic) + 1
                      /\ ptr <= Len(pic) => pic[ptr] \in Scan \cup {"EOI"}
    BY <1>1 DEF PicInv, CheckInv, StageInv
  <1>3. /\ pic \in Seq(Parts) /\ Len(pic) \in Nat /\ Len(pic) >= 2 /\ pic[1] = "SOI"
    BY <1>2, PictureFacts
  <1>4. ~crashed'
    BY <1>1 DEF PicInv, CrashInv
  <1>5. CASE InsertBehindMarker(1) /\ Examine
    <2>1. pic' = WithDht(given)
      <3>1. SubSeq(pic, 1, 1 - 1) = << >>
        BY <1>3
      <3>2. << >> \o <<"SOI", "DHT">> = <<"SOI", "DHT">>
        OBVIOUS
      <3>3. pic' = SubSeq(pic, 1, 1 - 1) \o <<"SOI", "DHT">> \o SubSeq(pic, 1 + 1, Len(pic))
        BY <1>3, <1>5 DEF InsertBehindMarker
      <3>4. 1 + 1 = 2
        OBVIOUS
      <3>5. QED
        BY <1>2, <3>1, <3>2, <3>3, <3>4 DEF WithDht
    <2>2. stage' = "details" /\ ptr' = 1
      BY <1>5 DEF Examine
    <2>3. StageInv' /\ CheckInv' /\ ReadyInv' /\ CrashInv'
      BY <1>1, <1>2, <1>4, <2>2 DEF StageInv, CheckInv, ReadyInv, CrashInv
    <2>4. ExaminedInv'
      BY <1>1, <1>2, <2>1, <2>2 DEF ExaminedInv, WithDht
    <2>5. DetailsInv'
      <3>1. /\ Len(pic') \in Nat /\ Len(pic') >= 3 /\ SosOf(pic)' \in 3 .. Len(pic')
        <4>1. SosOf(pic') \in 3 .. Len(pic') /\ Len(pic') \in Nat /\ Len(pic') >= 3
          BY <1>2, <2>1, ExaminedFacts
        <4>2. QED
          BY <4>1 DEF SosOf
      <3>2. Known(0)'
        BY <1>1, <1>2 DEF Known, Nothing
      <3>3. QED
        BY <2>2, <3>1, <3>2 DEF DetailsInv
    <2>6. QED
      BY <2>3, <2>4, <2>5 DEF PicInv
  <1>6. CASE ptr <= Len(pic) /\ ptr' \in Skipped(ptr) /\ UNCHANGED <<stage, pic>>
    <2>1. stage' = "check" /\ stage' # "ready"
      BY <1>1, <1>6
    <2>2. ptr \in 1 .. Len(pic) + 1
      BY <1>2, <1>3
    <2>3. ptr' \in 2 .. Len(pic) + 1 /\ (ptr' <= Len(pic) => pic[ptr'] \in Scan \cup {"EOI"})
      <3>1. ptr <= Len(pic) => pic[ptr] \in Scan \cup {"EOI", "SOI"}
        BY <1>2, <1>3
      <3>2. CASE pic[ptr] = "byte" /\ ptr <= Len(pic)
        <4>1. ptr' = ptr + 1
          BY <1>6, <3>2 DEF Skipped
        <4>2. PICK s : ScanAt(pic, s)
          BY <1>2, PictureFacts
        <4>3. pic[ptr] \notin Segments \cup {"SOI"}
          BY <3>2 DEF Segments, Tables, Intervals
        <4>4. ptr > s
          <5>1. s \in Int /\ \A i \in 2 .. s - 1 : pic[i] \in Segments
            BY <4>2 DEF ScanAt
          <5>2. pic[s] \in Segments
            BY <4>2, KindsApart DEF ScanAt
          <5>3. ptr # 1 /\ ptr # s /\ ptr \notin 2 .. s - 1
            BY <1>3, <4>3, <5>1, <5>2
          <5>4. QED
            BY <2>2, <5>1, <5>3
        <4>5. ptr + 1 <= Len(pic) => pic[ptr + 1] \in Scan \cup {"EOI"}
          BY <1>3, <2>2, <4>2, <4>4 DEF ScanAt
        <4>6. QED
          BY <1>3, <2>2, <3>2, <4>1, <4>5
      <3>3. CASE pic[ptr] # "byte" /\ ptr <= Len(pic)
        <4>1. pic[ptr] \notin Segments
          BY <3>1, <3>3 DEF Segments, Tables, Intervals, Scan
        <4>2. ptr' \in Anywhere(ptr)
          BY <1>6, <3>3, <4>1 DEF Skipped
        <4>3. QED
          BY <1>3, <2>2, <4>2 DEF Anywhere
      <3>4. ptr <= Len(pic)
        BY <1>6
      <3>5. QED
        BY <3>2, <3>3, <3>4
    <2>33. CheckInv'
      BY <1>1, <1>2, <1>6, <2>3 DEF CheckInv
    <2>4. StageInv' /\ ExaminedInv' /\ DetailsInv' /\ ReadyInv' /\ CrashInv'
      BY <1>1, <1>2, <1>4, <2>1 DEF StageInv, ExaminedInv, Examined, DetailsInv, ReadyInv, CrashInv
    <2>5. QED
      BY <2>33, <2>4 DEF PicInv
  <1>7. CASE InsertBehindMarker(ptr) /\ Examine /\ ptr <= Len(pic) /\ pic[ptr] \in {"SOF0", "SOF2"}
    <2>1. ptr = 1 \/ pic[ptr] \in Scan \cup {"EOI"}
      BY <1>2, <1>7
    <2>2. QED
      BY <1>3, <1>7, <2>1 DEF Scan
  <1>8. CASE Examine /\ ptr <= Len(pic) /\ pic[ptr] = "DHT"
    <2>1. ptr = 1 \/ pic[ptr] \in Scan \cup {"EOI"}
      BY <1>2, <1>8
    <2>2. QED
      BY <1>3, <1>8, <2>1 DEF Scan
  <1>9. ptr \in Int
    BY <1>2
  <1>10. QED
    BY <1>3, <1>5, <1>6, <1>7, <1>8, <1>9 DEF Check

LEMMA DetailsStep ==
  ASSUME PicInv, Details, UNCHANGED crashed
  PROVE  PicInv'
  <1>1. stage = "details" /\ UNCHANGED <<given, pic, early, count>>
    BY DEF Details
  <1>2. given \in Pictures /\ pic = WithDht(given) /\ found \in Struct
    BY <1>1 DEF PicInv, ExaminedInv, Examined, StageInv
  <1>3. ptr \in 1 .. Len(pic) + 1 /\ (~Missed => ptr \in 1 .. SosOf(pic) /\ Known(ptr - 1))
    BY <1>1 DEF PicInv, DetailsInv
  <1>4. /\ Len(pic) \in Nat /\ pic[1] = "SOI"
        /\ ScanAt(pic, SosOf(pic)) /\ SosOf(pic) \in 3 .. Len(pic)
        /\ \A i \in 1 .. Len(pic) : pic[i] = "SOS" => i = SosOf(pic)
        /\ \A i \in 1 .. Len(pic) : pic[i] \in EndsInFF => EndsInFF \cap ToSet(given) # {}
    BY <1>2, ExaminedFacts
  <1>5. ~crashed'
    BY <1>1 DEF PicInv, CrashInv
  <1>6. /\ Missed' <=> Missed
        /\ SosOf(pic)' = SosOf(pic)
    BY <1>1 DEF Missed, SosOf
  <1>7. ASSUME stage' \in {"details", "ready"}
        PROVE  ExaminedInv' /\ CheckInv' /\ CrashInv'
    BY <1>1, <1>2, <1>5, <1>7 DEF ExaminedInv, CheckInv, CrashInv, WithDht
  <1>8. ASSUME NEW scan \in Int, NEW before \in Int, Finish(scan, before)
        PROVE  /\ stage' = "ready" /\ found' \in Struct /\ found'.size = before + Bytes(scan)
               /\ found'.lqt = found.lqt /\ found'.cqt = found.cqt
               /\ found'.dri = found.dri /\ found'.dims = found.dims
    <2>1. Bytes(scan) \in Int
      BY <1>4, BytesAreInt
    <2>2. before + Bytes(scan) \in Int
      BY <2>1
    <2>3. found' = [found EXCEPT !.scan = scan, !.size = before + Bytes(scan)] /\ stage' = "ready"
      BY <1>8 DEF Finish
    <2>4. QED
      BY <1>2, <2>2, <2>3 DEF Struct
  <1>9. CASE ptr > Len(pic) /\ Finish(Len(pic) + 1, 0)
    <2>1. Missed
      BY <1>3, <1>4, <1>9
    <2>2. stage' = "ready" /\ found' \in Struct
      <3>1. PICK n : n = Len(pic) + 1
        OBVIOUS
      <3>2. n \in Int /\ 0 \in Int /\ Finish(n, 0)
        BY <1>4, <1>9, <3>1
      <3>3. QED
        BY <1>8, <3>2
    <2>3. StageInv' /\ DetailsInv' /\ ReadyInv'
      BY <1>6, <2>1, <2>2 DEF StageInv, DetailsInv, ReadyInv
    <2>4. QED
      BY <1>7, <2>2, <2>3 DEF PicInv
  <1>10. CASE /\ ptr <= Len(pic) /\ pic[ptr] = "SOS"
              /\ Finish(ptr + 1, IF early THEN 3 ELSE 2)
    <2>1. ptr = SosOf(pic) /\ ptr \in Int
      BY <1>3, <1>4, <1>10
    <2>2. /\ stage' = "ready" /\ found' \in Struct
          /\ found'.size = (IF early THEN 3 ELSE 2) + Bytes(ptr + 1)
          /\ found'.lqt = found.lqt /\ found'.cqt = found.cqt
          /\ found'.dri = found.dri /\ found'.dims = found.dims
      BY <1>8, <1>10, <2>1
    <2>3. Bytes(ptr + 1)' = Bytes(ptr + 1)' /\ Bytes(ptr + 1) \in Int
      BY <1>4, <2>1, BytesAreInt
    <2>4. PICK k : k = SosOf(pic)
      OBVIOUS
    <2>5. Bytes(k + 1)' = Bytes(k + 1)
      BY <1>1, SameBytes
    <2>6. Bytes(SosOf(pic) + 1)' = Bytes(k + 1)
      BY <1>6, <2>4, <2>5 DEF Bytes
    <2>7. found'.size = Bytes(SosOf(pic) + 1)' + IF early' THEN 3 ELSE 2
      BY <1>1, <2>1, <2>2, <2>3, <2>4, <2>6
    <2>8. ASSUME ~Missed
          PROVE  Known(SosOf(pic))'
      <3>1. Known(ptr - 1)
        BY <1>3, <2>8
      <3>2. \A i : i \in 1 .. k <=> i \in 1 .. k - 1 \/ i = k
        BY <1>4, <2>4
      <3>3. pic[k] = "SOS" /\ "SOS" \notin Tables \cup Intervals
        BY <1>10, <2>1, <2>4 DEF Tables, Intervals
      <3>4. Known(k)'
        BY <1>1, <2>1, <2>2, <2>4, <3>1, <3>2, <3>3 DEF Known
      <3>5. SosOf(pic)' = k
        BY <1>6, <2>4
      <3>6. QED
        BY <3>4, <3>5 DEF Known
    <2>9. ReadyInv'
      BY <1>6, <2>7, <2>8 DEF ReadyInv
    <2>10. StageInv' /\ DetailsInv'
      BY <2>2 DEF StageInv, DetailsInv
    <2>11. QED
      BY <1>7, <2>2, <2>9, <2>10 DEF PicInv
  <1>11. CASE /\ ptr <= Len(pic) /\ pic[ptr] # "SOS"
              /\ found' = WithSegment(found, ptr)
              /\ ptr' \in CASE pic[ptr] = "SOI" -> {ptr + 1}
                            [] pic[ptr] \in Tables \cup Intervals \cup {"SOF0"} -> Parsed(ptr)
                            [] OTHER -> Skipped(ptr)
              /\ UNCHANGED stage
    <2>1. ptr \in Int /\ ptr \in 1 .. Len(pic)
      BY <1>3, <1>4, <1>11
    <2>2. found' \in Struct
      BY <1>2, <1>11, <2>1, StructStays
    <2>3. ptr' = ptr + 1 \/ ptr' \in Anywhere(ptr)
      BY <1>11 DEF Parsed, Skipped
    <2>4. ptr' \in 1 .. Len(pic) + 1
      BY <1>4, <2>1, <2>3 DEF Anywhere
    <2>5. ASSUME ~Missed
          PROVE  ptr' \in 1 .. SosOf(pic) /\ Known(ptr - 1)'
      <3>1. ptr \in 1 .. SosOf(pic) /\ Known(ptr - 1)
        BY <1>3, <2>5
      <3>2. ptr # SosOf(pic)
        BY <1>4, <1>11 DEF ScanAt
      <3>3. pic[ptr] = "SOI" \/ pic[ptr] \in Segments
        BY <1>4, <3>1, <3>2 DEF ScanAt
      <3>4. ~(early /\ pic[ptr] \in EndsInFF)
        BY <1>4, <2>1, <2>5 DEF Missed
      <3>5. pic[ptr] # "byte"
        BY <3>3 DEF Segments, Tables, Intervals
      <3>6. ptr' = ptr + 1
        BY <1>11, <3>3, <3>4, <3>5 DEF Parsed, Skipped
      <3>7. PICK n : n = ptr - 1
        OBVIOUS
      <3>8. n \in Nat /\ n + 1 = ptr /\ Known(n)
        BY <3>1, <3>7
      <3>9. Known(n + 1)'
        BY <1>1, <1>2, <1>11, <3>8, SegmentAdds
      <3>10. ptr' - 1 = n + 1
        BY <2>1, <3>6, <3>7
      <3>11. QED
        BY <1>4, <3>1, <3>2, <3>6, <3>9, <3>10, SMTT(30) DEF Known
    <2>6. DetailsInv'
      BY <1>1, <1>6, <2>4, <2>5 DEF DetailsInv, Known
    <2>7. StageInv' /\ ReadyInv'
      BY <1>1, <1>11, <2>2 DEF StageInv, ReadyInv
    <2>8. QED
      BY <1>1, <1>7, <1>11, <2>6, <2>7 DEF PicInv
  <1>12. ptr \in Int /\ Len(pic) \in Int
    BY <1>3, <1>4
  <1>13. QED
    BY <1>9, <1>10, <1>11, <1>12 DEF Details

LEMMA DoneStep ==
  ASSUME PicInv, PictureDone, ~crashed'
  PROVE  PicInv'
  <1>1. stage' = "wait" /\ UNCHANGED <<given, pic, ptr, early, found, count>>
    BY DEF PictureDone
  <1>2. StageInv'
    BY <1>1 DEF PicInv, StageInv
  <1>3. CheckInv' /\ ExaminedInv' /\ DetailsInv' /\ ReadyInv' /\ CrashInv'
    BY <1>1 DEF CheckInv, ExaminedInv, Examined, DetailsInv, ReadyInv, CrashInv
  <1>4. QED
    BY <1>2, <1>3 DEF PicInv

\* A step of the sender leaves the picture as it is.
LEMMA SenderStep ==
  ASSUME PicInv, UNCHANGED picVars, crashed' => crashed \/ (stage = "ready" /\ found.lqt # 0 /\ found.cqt = 0)
  PROVE  PicInv'
  <1>1. UNCHANGED <<stage, given, pic, ptr, early, found, count>>
    BY DEF picVars
  <1>2. StageInv' /\ CheckInv'
    BY <1>1 DEF PicInv, StageInv, CheckInv
  <1>3. ExaminedInv'
    BY <1>1 DEF PicInv, ExaminedInv, Examined, WithDht
  <1>4. DetailsInv'
    BY <1>1 DEF PicInv, DetailsInv, Missed, SosOf, Known
  <1>5. ReadyInv'
    <2>1. PICK k : k = SosOf(pic)
      OBVIOUS
    <2>2. SosOf(pic)' = k
      BY <1>1, <2>1 DEF SosOf
    <2>3. Bytes(k + 1)' = Bytes(k + 1)
      BY <1>1, SameBytes
    <2>4. Bytes(SosOf(pic) + 1)' = Bytes(k + 1)
      BY <2>2, <2>3 DEF Bytes
    <2>5. Known(SosOf(pic))' <=> Known(k)
      BY <1>1, <2>2 DEF Known
    <2>6. ASSUME stage' = "ready", ~Missed'
          PROVE  /\ Known(SosOf(pic))'
                 /\ found'.size = Bytes(SosOf(pic) + 1)' + IF early' THEN 3 ELSE 2
      <3>1. stage = "ready" /\ ~Missed
        BY <1>1, <2>6 DEF Missed
      <3>2. Known(k) /\ found.size = Bytes(k + 1) + IF early THEN 3 ELSE 2
        BY <2>1, <3>1 DEF PicInv, ReadyInv
      <3>3. QED
        BY <1>1, <2>4, <2>5, <3>2
    <2>7. QED
      BY <2>6 DEF ReadyInv
  <1>6. CrashInv'
    BY <1>1 DEF PicInv, CrashInv
  <1>7. QED
    BY <1>2, <1>3, <1>4, <1>5, <1>6 DEF PicInv

-----------------------------------------------------------------------------
(* The sender under the pictures it is given. *)

\* The struct as it is passed on is one that the sender can take.
LEMMA DescribedFits ==
  ASSUME found \in Struct
  PROVE  \E size \in Int, table \in TableSizes, dri \in BOOLEAN : Described = FrameOf(size, table, dri)
  <1>1. found.size \in Int /\ found.dri \in BOOLEAN
    BY DEF Struct
  <1>2. (IF found.lqt = 0 THEN 0 ELSE TableLength) \in TableSizes
    BY TablesAssumption
  <1>3. QED
    BY <1>1, <1>2, Zenon DEF Described

LEMMA SendStep ==
  ASSUME PicInv, IInv, Send
  PROVE  PicInv' /\ IInv'
  <1>1. CASE crashed' = TRUE /\ UNCHANGED <<picVars, rtpVars>> /\ found.lqt # 0 /\ found.cqt = 0
    <2>1. stage = "ready"
      BY DEF Send
    <2>2. PicInv'
      BY <1>1, <2>1, SenderStep
    <2>3. IInv'
      BY <1>1 DEF rtpVars, IInv, Types, Progress, FollowsOn, WellFormed, SeqNumbers
    <2>4. QED
      BY <2>2, <2>3
  <1>2. CASE BeginFrame(Described) /\ PictureDone /\ UNCHANGED crashed
    <2>1. ~crashed'
      BY <1>2 DEF Send
    <2>2. PicInv'
      BY <1>2, <2>1, DoneStep
    <2>3. found \in Struct
      BY DEF PicInv, StageInv
    <2>4. PICK size \in Int, table \in TableSizes, dri \in BOOLEAN : Described = FrameOf(size, table, dri)
      BY <2>3, DescribedFits
    <2>5. BeginFrame(FrameOf(size, table, dri))
      BY <1>2, <2>4
    <2>6. IInv'
      BY <2>5, BeginInv
    <2>7. QED
      BY <2>2, <2>6
  <1>3. QED
    BY <1>1, <1>2 DEF Send

LEMMA SenderInvariant == SendSpec => [](PicInv /\ IInv)
  <1>1. SendInit => PicInv /\ IInv
    BY PicInitInv, InitInv DEF SendInit
  <1>2. PicInv /\ IInv /\ [SendNext]_sendVars => (PicInv /\ IInv)'
    <2> SUFFICES ASSUME PicInv, IInv, [SendNext]_sendVars PROVE PicInv' /\ IInv'
      OBVIOUS
    <2>1. ASSUME UNCHANGED rtpVars
          PROVE  IInv'
      BY <2>1 DEF rtpVars, IInv, Types, Progress, FollowsOn, WellFormed, SeqNumbers
    <2>2. CASE UNCHANGED sendVars
      <3>1. UNCHANGED picVars /\ UNCHANGED rtpVars /\ UNCHANGED crashed
        BY <2>2 DEF sendVars
      <3>2. crashed' => crashed \/ (stage = "ready" /\ found.lqt # 0 /\ found.cqt = 0)
        BY <3>1
      <3>3. QED
        BY <2>1, <3>1, <3>2, SenderStep
    <2>3. CASE (TakePicture \/ Check \/ Details) /\ ~busy /\ UNCHANGED <<rtpVars, crashed>>
      <3>1. UNCHANGED rtpVars /\ UNCHANGED crashed
        BY <2>3
      <3>2. QED
        BY <2>1, <2>3, <3>1, TakeInv, CheckStep, DetailsStep
    <2>4. CASE Send
      BY <2>4, SendStep
    <2>5. CASE (SendPacket \/ EndFrame) /\ UNCHANGED <<picVars, crashed>>
      <3>1. UNCHANGED picVars /\ UNCHANGED crashed
        BY <2>5
      <3>2. crashed' => crashed \/ (stage = "ready" /\ found.lqt # 0 /\ found.cqt = 0)
        BY <3>1
      <3>3. PicInv'
        BY <3>1, <3>2, SenderStep
      <3>4. QED
        BY <2>5, <3>3, SendInv, EndInv
    <2>6. QED
      BY <2>2, <2>3, <2>4, <2>5 DEF SendNext
  <1>3. QED
    BY <1>1, <1>2, PTL DEF SendSpec

\* The packets carry the frame that was found in the picture, whatever picture
\* was captured: each byte once and in order (FrameCarried of RtpSender).
THEOREM PicturesCarried == SendSpec => []FrameCarried
  <1>1. IInv => FrameCarried
    BY CarriedBy
  <1>2. QED
    BY <1>1, SenderInvariant, PTL

\* Whatever picture was captured, the Huffman table that jpeg_check_dht adds
\* leaves one that can be decoded.
THEOREM PicturesDecodable == SendSpec => []PictureDecodable
  <1>1. PicInv => PictureDecodable
    <2> SUFFICES ASSUME PicInv, Examined
                 PROVE  /\ pic[1] = "SOI"
                        /\ Before(pic, {"DHT"}) # {}
                        /\ Others(pic) = Others(given)
      BY DEF PictureDecodable
    <2>1. given \in Pictures /\ pic = WithDht(given)
      BY DEF PicInv, ExaminedInv
    <2>2. pic[1] = "SOI" /\ pic[2] = "DHT" /\ SosOf(pic) \in 3 .. Len(pic) /\ Len(pic) \in Nat
      BY <2>1, ExaminedFacts
    <2>3. 2 \in Before(pic, {"DHT"})
      BY <2>2 DEF Before
    <2>4. QED
      BY <2>1, <2>2, <2>3, OthersStay
  <1>2. QED
    BY <1>1, SenderInvariant, PTL

\* A set of numbers with a least one.
LEMMA MinIs ==
  ASSUME NEW T, T \subseteq Int, NEW t \in T, \A x \in T : t <= x
  PROVE  Min(T) = t
  <1>1. \A x \in T : x \in Int
    OBVIOUS
  <1>2. \A x \in T : (\A y \in T : x <= y) => x = t
    BY <1>1
  <1>3. \E x \in T : \A y \in T : x <= y
    OBVIOUS
  <1>4. QED
    BY <1>2, <1>3, Zenon DEF Min

\* The parts of the given kinds up to the scan.
LEMMA FoundTables ==
  ASSUME given \in Pictures, pic = WithDht(given), found \in Struct, Known(SosOf(pic))
  PROVE  LET tables == Before(pic, Tables) IN
         /\ IsFiniteSet(tables)
         /\ found.lqt = 0 => tables = {}
         /\ found.lqt # 0 => found.lqt \in tables /\ Min(tables) = found.lqt
         /\ found.lqt # 0 /\ found.cqt = 0 => tables = {found.lqt}
         /\ found.cqt # 0 => /\ found.cqt \in tables /\ found.lqt \in tables /\ found.cqt # found.lqt
                             /\ Min(tables \ {found.lqt}) = found.cqt
  <1> DEFINE tables == Before(pic, Tables)
  <1>1. PICK n : n = SosOf(pic)
    OBVIOUS
  <1>2. n \in 3 .. Len(pic) /\ Len(pic) \in Nat
    BY <1>1, ExaminedFacts
  <1>3. Known(n)
    BY <1>1
  <1>4. tables = {i \in 1 .. n : pic[i] \in Tables}
    BY <1>1 DEF Before
  <1>5. \A i : i \in tables <=> i \in 1 .. n /\ pic[i] \in Tables
    BY <1>4
  <1>6. IsFiniteSet(tables)
    <2>1. IsFiniteSet(1 .. n)
      BY <1>2, FS_Interval
    <2>2. QED
      BY <1>4, <2>1, FS_Subset
  <1> HIDE DEF tables
  <1>7. tables \subseteq Int
    BY <1>5
  <1>8. found.lqt = 0 => tables = {}
    BY <1>3, <1>5 DEF Known
  <1>9. ASSUME found.lqt # 0
        PROVE  found.lqt \in tables /\ Min(tables) = found.lqt
    <2>1. found.lqt \in tables
      BY <1>2, <1>3, <1>5, <1>9 DEF Known
    <2>2. \A x \in tables : found.lqt <= x
      BY <1>2, <1>3, <1>5, <1>9 DEF Known
    <2>3. QED
      BY <1>7, <2>1, <2>2, MinIs
  <1>10. found.lqt # 0 /\ found.cqt = 0 => tables = {found.lqt}
    BY <1>3, <1>5, <1>9 DEF Known
  <1>11. ASSUME found.cqt # 0
         PROVE  /\ found.cqt \in tables /\ found.lqt \in tables /\ found.cqt # found.lqt
                /\ Min(tables \ {found.lqt}) = found.cqt
    <2>1. found.lqt # 0 /\ found.cqt \in found.lqt + 1 .. n /\ found.lqt \in 0 .. n
      BY <1>3, <1>11 DEF Known
    <2>2. found.cqt \in tables /\ found.lqt \in tables /\ found.cqt # found.lqt
      BY <1>2, <1>3, <1>5, <1>9, <1>11, <2>1, SMTT(30) DEF Known
    <2>3. ASSUME NEW x \in tables \ {found.lqt}
          PROVE  found.cqt <= x
      <3>1. x \in 1 .. n /\ pic[x] \in Tables /\ x # found.lqt
        BY <1>5
      <3>2. x \notin 1 .. found.cqt - 1
        BY <1>3, <1>11, <3>1 DEF Known
      <3>3. QED
        BY <1>2, <2>1, <3>1, <3>2
    <2>4. tables \ {found.lqt} \subseteq Int /\ found.cqt \in tables \ {found.lqt}
      BY <1>7, <2>2
    <2>5. QED
      BY <2>2, <2>3, <2>4, MinIs
  <1>12. QED
    BY <1>6, <1>8, <1>9, <1>10, <1>11 DEF tables

\* Two elements or one.
LEMMA Counting ==
  ASSUME NEW T, IsFiniteSet(T)
  PROVE  /\ Cardinality({}) = 0
         /\ \A a : T = {a} => Cardinality(T) = 1
         /\ \A a \in T, b \in T : a # b => Cardinality(T) >= 2
  <1>1. Cardinality({}) = 0
    BY FS_EmptySet
  <1>2. ASSUME NEW a, T = {a}
        PROVE  Cardinality(T) = 1
    BY <1>2, FS_Singleton
  <1>3. ASSUME NEW a \in T, NEW b \in T, a # b
        PROVE  Cardinality(T) >= 2
    <2>1. IsFiniteSet({a}) /\ Cardinality({a}) = 1
      BY FS_Singleton
    <2>2. IsFiniteSet({a} \cup {b}) /\ Cardinality({a} \cup {b}) = Cardinality({a}) + 1
      BY <1>3, <2>1, FS_AddElement
    <2>3. {a} \cup {b} \subseteq T
      OBVIOUS
    <2>4. Cardinality({a} \cup {b}) <= Cardinality(T)
      BY <2>3, FS_Subset
    <2>5. Cardinality(T) \in Nat
      BY FS_CardinalityType
    <2>6. QED
      BY <2>1, <2>2, <2>4, <2>5
  <1>4. QED
    BY <1>1, <1>2, <1>3

\* Whatever picture was captured, the struct describes it; and the sender is
\* given NULL for a table only when the picture has a single table segment, or
\* one was missed (DetailsUsable).
THEOREM PicturesDescribed == SendSpec => []DetailsUsable
  <1>1. ASSUME PicInv, stage = "ready", ~Missed
        PROVE  /\ found.lqt = IF Before(pic, Tables) = {} THEN 0 ELSE Min(Before(pic, Tables))
               /\ found.cqt = IF Cardinality(Before(pic, Tables)) < 2 THEN 0
                              ELSE Min(Before(pic, Tables) \ {Min(Before(pic, Tables))})
               /\ found.dri <=> Before(pic, Intervals) # {}
               /\ found.dims <=> Before(pic, {"SOF0"}) # {}
               /\ found.size = Bytes(SosOf(pic) + 1) + IF early THEN 3 ELSE 2
               /\ found.lqt # 0 /\ found.cqt = 0 => Cardinality(Before(pic, Tables)) = 1
    <2> DEFINE tables == Before(pic, Tables)
    <2>1. given \in Pictures /\ pic = WithDht(given) /\ found \in Struct
      BY <1>1 DEF PicInv, ExaminedInv, Examined, StageInv
    <2>2. /\ Known(SosOf(pic))
          /\ found.size = Bytes(SosOf(pic) + 1) + IF early THEN 3 ELSE 2
      BY <1>1 DEF PicInv, ReadyInv
    <2>3. /\ IsFiniteSet(tables)
          /\ found.lqt = 0 => tables = {}
          /\ found.lqt # 0 => found.lqt \in tables /\ Min(tables) = found.lqt
          /\ found.lqt # 0 /\ found.cqt = 0 => tables = {found.lqt}
          /\ found.cqt # 0 => /\ found.cqt \in tables /\ found.lqt \in tables /\ found.cqt # found.lqt
                              /\ Min(tables \ {found.lqt}) = found.cqt
      BY <2>1, <2>2, FoundTables
    <2>4. found.dri <=> Before(pic, Intervals) # {}
      BY <2>2 DEF Known, Before
    <2>5. found.dims <=> Before(pic, {"SOF0"}) # {}
      BY <2>2 DEF Known, Before
    <2>6. found.cqt # 0 => found.lqt # 0
      BY <2>2 DEF Known
    <2> HIDE DEF tables
    <2>7. /\ tables = {} => Cardinality(tables) = 0
          /\ \A a : tables = {a} => Cardinality(tables) = 1
          /\ \A a \in tables, b \in tables : a # b => Cardinality(tables) >= 2
          /\ Cardinality(tables) \in Nat
      BY <2>3, Counting, FS_CardinalityType
    <2>8. /\ found.lqt = 0 => Cardinality(tables) = 0 /\ found.cqt = 0
          /\ found.lqt # 0 /\ found.cqt = 0 => Cardinality(tables) = 1
          /\ found.cqt # 0 => Cardinality(tables) >= 2
      BY <2>3, <2>6, <2>7
    <2>9. found.lqt = IF tables = {} THEN 0 ELSE Min(tables)
      BY <2>3
    <2>10. found.cqt = IF Cardinality(tables) < 2 THEN 0 ELSE Min(tables \ {Min(tables)})
      BY <2>3, <2>6, <2>7, <2>8
    <2>11. QED
      BY <2>2, <2>4, <2>5, <2>8, <2>9, <2>10 DEF tables
  <1>2. PicInv => DetailsUsable
    <2> SUFFICES ASSUME PicInv PROVE DetailsUsable
      OBVIOUS
    <2>1. DetailsFound
      BY <1>1, Zenon DEF DetailsFound, Missed
    <2>2. crashed => Cardinality(Before(pic, Tables)) = 1 \/ Missed
      BY <1>1 DEF PicInv, CrashInv
    <2>3. QED
      BY <2>1, <2>2 DEF DetailsUsable, Missed
  <1>3. QED
    BY <1>2, SenderInvariant, PTL

=============================================================================
