--------------------------- MODULE MCControlParser ---------------------------
(* Datagrams for ControlParser: payloads full of bytes that look like commands. *)
EXTENDS ControlParser

MCCommands ==
  {Stop, Ports}
    \cup {State(l) : l \in {<<36, 0, 36>>, <<7, 36, 3>>}}
    \cup {Move(l) : l \in {<<36, 0, 36, 0>>, <<7, 9, 36, 2>>}}

\* Up to three commands of at most six bytes; a buffer of 16 cuts the longest.
MCDatagrams == BoundedSeq(MCCommands, 3)
=============================================================================
