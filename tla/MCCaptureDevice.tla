--------------------------- MODULE MCCaptureDevice ---------------------------
(* Small instances of CaptureDevice. *)
EXTENDS CaptureDevice

\* An empty picture, too short a one, a short one, and one that fills the buffer.
MCUsed == 0 .. 3
=============================================================================
