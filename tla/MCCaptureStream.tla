--------------------------- MODULE MCCaptureStream ---------------------------
(* Small instances of CaptureStream. *)
EXTENDS CaptureStream

\* A short picture, and one that fills the buffer.
MCUsed == {2, 3}
=============================================================================
