---------------------------- MODULE MCVideoPackets ----------------------------
(* A small VideoPackets: packages of 3 bytes, marks modulo 5, end mark 3. *)
EXTENDS VideoPackets

\* Frames up to 12 bytes are safe; 13 and more number a full package with the
\* end mark, 16 and more wrap the number.
MCLengths == {0, 1, 2, 3, 4, 6, 7, 9, 11, 12, 13, 17}
=============================================================================
