----------------------------- MODULE JpegPicture -----------------------------
(***************************************************************************)
(* What RPRobot-master/video/imgproc.c does to a picture: jpeg_check_dht,  *)
(* which is to insert a Huffman table when there is none, and              *)
(* jpeg_get_frame_details, which finds what the RTP headers need.          *)
(*                                                                         *)
(* A picture is the sequence of its parts: header segments, then the bytes *)
(* of the scan, in which 0xFF stands with a 0 ("stuffed") or a restart     *)
(* number ("rst").  Where the code takes two bytes for a length that are   *)
(* none, it goes on anywhere later: lengths of scans are not modelled.     *)
(***************************************************************************)
EXTENDS Integers, Sequences, SequencesExt

CONSTANTS
  Pictures,      \* the pictures a camera delivers
  MaxPictures    \* bound: pictures looked at

\* "DQTff" is a table whose last byte is 0xFF, "DQT2" has both tables in it, and
\* "DRIff" is a restart interval whose last byte is 0xFF: 255, 511 and so on.
Tables == {"DQT", "DQTff", "DQT2"}
Intervals == {"DRI", "DRIff"}
Segments == Tables \cup Intervals \cup {"APP0", "DHT", "SOF0", "SOF2", "SOS"}
Scan == {"byte", "stuffed", "rst"}

\* What a camera delivers: SOI and segments of together less than 64 kB, a scan,
\* and an end, which a torn or cut picture may lack.
ASSUME PictureAssumption ==
  /\ MaxPictures \in Nat
  /\ Pictures \subseteq Seq(Segments \cup Scan \cup {"SOI", "EOI"})
  /\ \A q \in Pictures :
       /\ q # << >> /\ q[1] = "SOI"
       /\ \E s \in 2 .. Len(q) :
            /\ \A i \in 2 .. s - 1 : q[i] \in Segments \ {"SOS"}
            /\ q[s] = "SOS"
            /\ \A i \in s + 1 .. Len(q) : q[i] \in Scan \/ (q[i] = "EOI" /\ i = Len(q))

VARIABLES
  stage,     \* "wait", "check", "details", "ready"
  given,     \* history: the picture before jpeg_check_dht
  pic,       \* the picture in the buffer
  ptr,       \* the part the scan is at
  early,     \* whether "ptr += f(++ptr)" reads ptr before it is incremented
  found,     \* struct jpeg_frame; tables are the parts they are in, 0 is NULL
  count      \* pictures so far

picVars == <<stage, given, pic, ptr, early, found, count>>

\* CLEAR(jframe)
Nothing == [lqt |-> 0, cqt |-> 0, dri |-> FALSE, dims |-> FALSE, scan |-> 0, size |-> 0]

PicInit ==
  /\ stage = "wait"
  /\ given = << >> /\ pic = << >>
  /\ ptr = 1
  /\ early \in BOOLEAN
  /\ found = Nothing
  /\ count = 0

\* Mutant: the struct keeps what the last picture left in it.
TakePictureUncleared ==
  /\ stage = "wait" /\ count < MaxPictures
  /\ \E q \in Pictures : given' = q /\ pic' = q
  /\ stage' = "check"
  /\ ptr' = 1
  /\ count' = count + 1
  /\ UNCHANGED <<early, found>>

\* The caller has a picture, and clears the struct.
TakePicture ==
  /\ stage = "wait" /\ count < MaxPictures
  /\ \E q \in Pictures : given' = q /\ pic' = q
  /\ stage' = "check"
  /\ ptr' = 1
  /\ found' = Nothing
  /\ count' = count + 1
  /\ UNCHANGED early

-----------------------------------------------------------------------------
(* jpeg_check_dht. *)

\* Behind part i, at one of the scan or past the end.
Anywhere(i) == {j \in i + 1 .. Len(pic) + 1 : j <= Len(pic) => pic[j] \in Scan \cup {"EOI"}}

\* Where the scan goes on after part i, when its two bytes behind the marker are
\* taken for its length.  SOI has none: what is taken for it is the next marker,
\* 0xFF00 or more.
Skipped(i) ==
  CASE pic[i] = "byte" -> {i + 1}
    [] pic[i] \in Segments -> {i + 1}
    [] OTHER -> Anywhere(i)

\* The table is put where the pointer is, which is behind the marker of a part:
\* in the middle of it when the part is a segment.
InsertBehindMarker(i) ==
  pic' = SubSeq(pic, 1, i - 1)
           \o (IF pic[i] = "SOI" THEN <<pic[i], "DHT">> ELSE <<"broken", "DHT", "broken">>)
           \o SubSeq(pic, i + 1, Len(pic))

Examine ==
  /\ stage' = "details"
  /\ ptr' = 1

\* Mutant: a marker without a length is passed like any other byte.
CheckPassingSoi ==
  /\ stage = "check"
  /\ IF ptr > Len(pic) \/ (ptr <= Len(pic) /\ pic[ptr] = "EOI")
       THEN InsertBehindMarker(1) /\ Examine
     ELSE IF pic[ptr] \in {"SOF0", "SOF2"}
       THEN InsertBehindMarker(ptr) /\ Examine
     ELSE IF pic[ptr] = "DHT"
       THEN UNCHANGED pic /\ Examine
     ELSE /\ ptr' \in IF pic[ptr] = "SOI" THEN {ptr + 1} ELSE Skipped(ptr)
          /\ UNCHANGED <<stage, pic>>
  /\ UNCHANGED <<given, early, found, count>>

\* One turn of the loop.  At the end, wherever it was found or missed, the table
\* goes behind SOI; at the frame header it goes behind that marker.
Check ==
  /\ stage = "check"
  /\ IF ptr > Len(pic) \/ (ptr <= Len(pic) /\ pic[ptr] = "EOI")
       THEN InsertBehindMarker(1) /\ Examine
     ELSE IF pic[ptr] \in {"SOF0", "SOF2"}
       THEN InsertBehindMarker(ptr) /\ Examine
     ELSE IF pic[ptr] = "DHT"
       THEN UNCHANGED pic /\ Examine
     ELSE ptr' \in Skipped(ptr) /\ UNCHANGED <<stage, pic>>
  /\ UNCHANGED <<given, early, found, count>>

-----------------------------------------------------------------------------
(* jpeg_get_frame_details. *)

\* jpeg_parse_dqt: the first table found, then the second.
WithTable(f, i) ==
  IF f.lqt = 0 THEN [f EXCEPT !.lqt = i]
  ELSE IF f.cqt = 0 THEN [f EXCEPT !.cqt = i]
  ELSE f

\* What a segment leaves in the struct.
WithSegment(f, i) ==
  CASE pic[i] \in Tables -> WithTable(f, i)
    [] pic[i] \in Intervals -> [f EXCEPT !.dri = TRUE]
    [] pic[i] = "SOF0" -> [f EXCEPT !.dims = TRUE]
    [] OTHER -> f

\* Segments that end in 0xFF.  SOF0 ends in the number of a table.
EndsInFF == {"DQTff", "DRIff"}

\* Where the scan goes on after a segment that is parsed: an early ptr is a byte
\* short of the next segment, which matters when that byte is 0xFF: with the
\* 0xFF behind it, it is taken for a marker.
Parsed(i) == IF early /\ pic[i] \in EndsInFF THEN Anywhere(i) ELSE {i + 1}

\* Bytes of the scan's parts from i: all but a plain one have two.
Bytes(i) == Len(pic) - i + 1 + Cardinality({j \in i .. Len(pic) : pic[j] # "byte"})

\* The end: after SOS the scan starts with the last two bytes of its header,
\* which are overwritten, or the last three.
Finish(scan, before) ==
  /\ found' = [found EXCEPT !.scan = scan, !.size = before + Bytes(scan)]
  /\ stage' = "ready"
  /\ UNCHANGED ptr

Details ==
  /\ stage = "details"
  /\ IF ptr > Len(pic) THEN Finish(Len(pic) + 1, 0)
     ELSE IF pic[ptr] = "SOS" THEN Finish(ptr + 1, IF early THEN 3 ELSE 2)
     ELSE /\ found' = WithSegment(found, ptr)
          /\ ptr' \in CASE pic[ptr] = "SOI" -> {ptr + 1}
                        [] pic[ptr] \in Tables \cup Intervals \cup {"SOF0"} -> Parsed(ptr)
                        [] OTHER -> Skipped(ptr)
          /\ UNCHANGED stage
  /\ UNCHANGED <<given, pic, early, count>>

\* The caller is done with it.
PictureDone ==
  /\ stage = "ready"
  /\ stage' = "wait"
  /\ UNCHANGED <<given, pic, ptr, early, found, count>>

-----------------------------------------------------------------------------
(* What must hold. *)

Examined == stage \in {"details", "ready"}

SosOf(q) == CHOOSE i \in 1 .. Len(q) : q[i] = "SOS"
Before(q, kinds) == {i \in 1 .. SosOf(q) : q[i] \in kinds}

\* The parts that are no Huffman tables.
Others(q) == FlattenSeq([i \in 1 .. Len(q) |-> IF q[i] = "DHT" THEN << >> ELSE <<q[i]>>])

\* However jpeg_check_dht reads the picture, it leaves one that can be decoded: a
\* table stands before the scan, and everything else is what it was and in one
\* piece.  (It never finds a table that the picture has: SOI makes it pass over
\* all the headers, and so it always adds one.)
PictureDecodable ==
  Examined =>
    /\ pic[1] = "SOI"
    /\ Before(pic, {"DHT"}) # {}
    /\ Others(pic) = Others(given)

\* The struct describes this picture: its first two tables, its restart interval
\* and its dimensions, and the whole scan (imgproc.c 60-93); unless a table or a
\* restart interval ends in 0xFF and the compiler reads ptr before it increments it.
DetailsFound ==
  stage = "ready" /\ (early => EndsInFF \cap ToSet(given) = {}) =>
    LET tables == Before(pic, Tables) IN
    /\ found.lqt = IF tables = {} THEN 0 ELSE Min(tables)
    /\ found.cqt = IF Cardinality(tables) < 2 THEN 0 ELSE Min(tables \ {Min(tables)})
    /\ found.dri <=> Before(pic, Intervals) # {}
    /\ found.dims <=> Before(pic, {"SOF0"}) # {}
    /\ found.size = Bytes(SosOf(pic) + 1) + IF early THEN 3 ELSE 2
=============================================================================
