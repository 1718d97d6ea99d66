------------------------------ MODULE MCAutoGo ------------------------------
(* A small instance of AutoGo. *)
EXTENDS AutoGo

\* Around the threshold, where one lost echo matters, and where it does not.
MCDistances == {34, 35, 43, 44, 80}
=============================================================================
