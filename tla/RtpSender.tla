------------------------------ MODULE RtpSender ------------------------------
(***************************************************************************)
(* rtp_send_jframe of RPRobot-master/rtsp/rtp/rtp.c: one JPEG frame cut    *)
(* into RTP packets, frame after frame, each call given the sequence       *)
(* number the call before it returned.  A packet is what a receiver reads  *)
(* of it.  The order of the bytes in the host's integers is part of the    *)
(* state: two fields come out differently on the two kinds of host.        *)
(***************************************************************************)
EXTENDS Integers, Sequences

CONSTANTS
  PacketMax,     \* RTP_PACKET_SIZE_MAX
  Base,          \* values of a byte: 256
  Hosts,         \* byte orders of the host: "little", "big"
  Channels,      \* the interleaved channel ic, or -1 for none
  Sizes,         \* bytes of scan data
  TableSizes,    \* bytes of a quantization table, 0 when the picture has none
  MaxFrames      \* bound: frames sent

\* RTP_HDR_SIZE, the '$' header, struct jpeghdr, jpeghdr_rst, jpeghdr_qtable
RtpHdr == 12
ChannelHdr == 4
JpegHdr == 8
RstHdr == 4
TableHdr == 4

ASSUME RtpAssumption ==
  /\ Base \in Nat /\ Base > 1
  /\ Hosts \subseteq {"little", "big"}
  /\ Channels \subseteq Int
  /\ Sizes \subseteq Int /\ TableSizes \subseteq Nat
  /\ MaxFrames \in Nat
  /\ PacketMax \in Nat
  /\ \A q \in TableSizes : PacketMax > RtpHdr + ChannelHdr + JpegHdr + RstHdr + TableHdr + 2 * q

VARIABLES
  host,        \* the byte order
  ic,          \* the channel
  busy,        \* rtp_send_jframe is running
  frame,       \* data_size, qt_size and whether there is a restart interval
  offset,      \* bytes sent
  left,        \* bytes_left
  seq,         \* start_seq
  wire,        \* the packets of this frame
  next,        \* history: the number after the last packet's, -1 before the first
  sent         \* frames sent

rtpVars == <<host, ic, busy, frame, offset, left, seq, wire, next, sent>>

SeqNumbers == Base * Base

FrameOf(size, table, dri) == [size |-> size, table |-> table, dri |-> dri]

RtpInit ==
  /\ host \in Hosts /\ ic \in Channels
  /\ busy = FALSE
  /\ frame = FrameOf(0, 0, FALSE)
  /\ offset = 0 /\ left = 0
  /\ seq \in 0 .. SeqNumbers - 1
  /\ wire = << >>
  /\ next = -1
  /\ sent = 0

\* The call, up to the loop.
BeginFrame(f) ==
  /\ ~busy /\ sent < MaxFrames
  /\ busy' = TRUE
  /\ frame' = f
  /\ offset' = 0
  /\ left' = f.size
  /\ wire' = << >>
  /\ UNCHANGED <<host, ic, seq, next, sent>>

\* The headers in front of the data of the packet at offset o: the tables go
\* with the first packet, the restart header with every one.
Headers(o) ==
  RtpHdr + (IF ic < 0 THEN 0 ELSE ChannelHdr) + JpegHdr
    + (IF frame.dri THEN RstHdr ELSE 0)
    + (IF o = 0 THEN TableHdr + 2 * frame.table ELSE 0)

\* htonl(o) >> 8 in a bit field of three bytes, as the receiver reads it: on a
\* big-endian host the shift loses the low byte.
OffOnWire(o) == IF host = "little" THEN o % (Base * Base * Base) ELSE o \div Base

\* Mutant: the marker is set when the packet could hold more than is left.
SendPacketMarkedLate ==
  LET room == PacketMax - Headers(offset)
      len == IF room > left THEN left ELSE room
  IN /\ busy /\ left > 0
     /\ wire' = Append(wire, [seq |-> seq, at |-> offset, off |-> OffOnWire(offset),
                              m |-> room > left, tables |-> offset = 0,
                              len |-> len, total |-> Headers(offset) + len])
     /\ offset' = offset + len
     /\ left' = left - len
     /\ seq' = (seq + 1) % SeqNumbers
     /\ UNCHANGED <<host, ic, busy, frame, next, sent>>

\* One turn of the loop; what send makes of the packet is not looked at.
SendPacket ==
  LET room == PacketMax - Headers(offset)
      len == IF room >= left THEN left ELSE room
  IN /\ busy /\ left > 0
     /\ wire' = Append(wire, [seq |-> seq, at |-> offset, off |-> OffOnWire(offset),
                              m |-> room >= left, tables |-> offset = 0,
                              len |-> len, total |-> Headers(offset) + len])
     /\ offset' = offset + len
     /\ left' = left - len
     /\ seq' = (seq + 1) % SeqNumbers
     /\ UNCHANGED <<host, ic, busy, frame, next, sent>>

\* htons of a number, as the host sees it
Swapped(s) == IF host = "little" THEN (s % Base) * Base + s \div Base ELSE s

\* The number returned is that of the header, and the next call gets it.
EndFrame ==
  /\ busy /\ left <= 0
  /\ busy' = FALSE
  /\ seq' = Swapped(seq)
  /\ next' = seq
  /\ sent' = sent + 1
  /\ UNCHANGED <<host, ic, frame, offset, left, wire>>

RtpNext ==
  \/ \E size \in Sizes, table \in TableSizes, dri \in BOOLEAN :
       BeginFrame(FrameOf(size, table, dri))
  \/ SendPacket
  \/ EndFrame

RtpSpec == RtpInit /\ [][RtpNext]_rtpVars

-----------------------------------------------------------------------------
(* What must hold. *)

\* Packet i follows on the one before it, in its data and its number.
FollowsOn(i) ==
  /\ wire[i].at = IF i = 1 THEN 0 ELSE wire[i - 1].at + wire[i - 1].len
  /\ i > 1 => wire[i].seq = (wire[i - 1].seq + 1) % SeqNumbers

\* Packet i is neither empty nor too large for the buffer, and only the first has
\* the tables, only the one with the last byte the marker.
WellFormed(i) ==
  /\ wire[i].len > 0 /\ wire[i].total <= PacketMax
  /\ wire[i].at + wire[i].len <= frame.size
  /\ wire[i].tables <=> i = 1
  /\ wire[i].m <=> wire[i].at + wire[i].len = frame.size
  /\ host = "little" => wire[i].off = wire[i].at % (Base * Base * Base)

\* The packets of a frame carry its scan data, each byte once and in order; the
\* tables are in the first, the marker is in the last and in no other, and on a
\* little-endian host each says where its data belongs (rtp.c 92-134).
FrameCarried ==
  /\ \A i \in 1 .. Len(wire) : FollowsOn(i) /\ WellFormed(i)
  /\ ~busy /\ frame.size > 0 => wire # << >> /\ wire[Len(wire)].m

\* The function's comment (rtp.c:31-33): it returns "the sequence number to be
\* sent for the first packet of the next frame".
SequenceContinues == ~busy /\ next >= 0 => seq = next
=============================================================================
