---------------------------- MODULE MCJpegSender ----------------------------
(* Small instances of JpegSender. *)
EXTENDS JpegSender

\* Over UDP, and interleaved.
MCChannels == {-1, 0}

Data(n) == [i \in 1 .. n |-> "byte"]

\* With and without a Huffman table, a restart interval, tables and an interval
\* that end in 0xFF; a single table; both in one segment; progressive; cut off; every length
\* of scan around what one and two packets hold.
MCPictures ==
  {<<"SOI", "DQT", "DQT", "SOF0", "SOS">> \o Data(n) \o <<"EOI">> : n \in {0, 4, 5, 13, 14, 15}}
    \cup {<<"SOI", "APP0", "DQT", "DQT", "DRI", "SOF0", "DHT", "SOS", "byte", "rst",
            "byte", "stuffed", "byte", "EOI">>,
          <<"SOI", "DQTff", "DQT", "SOF0", "SOS", "stuffed", "byte", "EOI">>,
          <<"SOI", "DQT", "DQT", "SOF0", "DRIff", "SOS", "stuffed", "rst", "byte", "EOI">>,
          <<"SOI", "DQT", "SOF0", "SOS", "byte", "EOI">>,
          <<"SOI", "DQT2", "SOF0", "SOS", "byte", "EOI">>,
          <<"SOI", "DQT", "DQTff", "DHT", "SOF2", "SOS", "byte", "byte">>}
=============================================================================
