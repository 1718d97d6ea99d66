--------------------------- MODULE MCRobotServer ---------------------------
(* Small instances of RobotServer for TLC. *)
EXTENDS RobotServer

\* One byte of each class the loops tell apart: below 0, 0, 1..2, 3 or more.
MCForeignBytes == {-1, 0, 1, 3}
=============================================================================
