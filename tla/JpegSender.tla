----------------------------- MODULE JpegSender -----------------------------
(***************************************************************************)
(* The way of a picture in the RTSP server: jpeg_check_dht when it was     *)
(* captured, jpeg_get_frame_details, and rtp_send_jframe, picture after    *)
(* picture.                                                                *)
(***************************************************************************)
EXTENDS JpegPicture, RtpSender

CONSTANTS TableLength    \* bytes of a quantization table: 64

\* A picture is sent with two such tables or with none.
ASSUME TablesAssumption == {0, TableLength} \subseteq TableSizes

VARIABLE crashed         \* memcpy was given a null pointer

sendVars == <<picVars, rtpVars, crashed>>

SendInit == PicInit /\ RtpInit /\ crashed = FALSE

\* The struct as rtp_send_jframe takes it.
Described == FrameOf(found.size, IF found.lqt = 0 THEN 0 ELSE TableLength, found.dri)

\* With one table and no second the first packet is copied from NULL.
Send ==
  /\ stage = "ready" /\ ~crashed
  /\ IF found.lqt # 0 /\ found.cqt = 0 /\ found.size > 0
       THEN crashed' = TRUE /\ UNCHANGED <<picVars, rtpVars>>
       ELSE BeginFrame(Described) /\ PictureDone /\ UNCHANGED crashed

SendNext ==
  \/ (TakePicture \/ Check \/ Details) /\ ~busy /\ UNCHANGED <<rtpVars, crashed>>
  \/ Send
  \/ (SendPacket \/ EndFrame) /\ UNCHANGED <<picVars, crashed>>

SendSpec == SendInit /\ [][SendNext]_sendVars

-----------------------------------------------------------------------------
(* What must hold. *)

\* The struct is right as DetailsFound says, and the sender is given two tables
\* or none: it reads from NULL only when a picture has a single table segment (a
\* grey one's, or both tables in one, which jpeg_parse_dqt does not look for), or
\* when one was missed (rtp.c 102-109).
DetailsUsable ==
  /\ DetailsFound
  /\ crashed => \/ Cardinality(Before(pic, Tables)) = 1
                \/ early /\ EndsInFF \cap ToSet(given) # {}
=============================================================================
