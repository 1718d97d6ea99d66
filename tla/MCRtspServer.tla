---------------------------- MODULE MCRtspServer ----------------------------
(***************************************************************************)
(* Requests for RtspServer: every method, headers of every handler, and    *)
(* messages that stop in the middle.                                       *)
(***************************************************************************)
EXTENDS RtspServer

MCTables == {response_status} \cup {Places(h_set[i].headers) : i \in 1 .. Len(h_set)}
MCKeys == {200, 406} \cup 1 .. Len(Dictionary)

\* The lengths of the words; the others stand for texts of this size.
WordSize(w) ==
    CASE w \in {",", ";", "=", " "} -> 1
      [] w = "long" -> 483
      [] w = "middle" -> 440
      [] w = "short" -> 100
      [] w = "server_port" -> 21
      [] w = "session" -> 10
      [] w = "date" -> 24
      [] w = "seq" -> 53
      [] w \in {"first", "second"} -> 5
      [] OTHER -> Len(w)
MCTextSize(text) ==
    LET upTo[i \in 0 .. Len(text)] == IF i = 0 THEN 0 ELSE upTo[i - 1] + WordSize(text[i])
        between == IF text = supported_methods THEN 2 * (Len(text) - 1) ELSE 0
    IN upTo[Len(text)] + between

Named(name, says) == [name |-> name, says |-> says]
CSeq(k) == Named("CSeq", <<k>>)

Media == [type : {"application/sdp", "text/html"}, quality : BOOLEAN]
Accepts == {Named("Accept", <<m>>) : m \in Media} \cup
           {Named("Accept", <<m[1], m[2]>>) : m \in Media \X Media}

Offer(proto, cast, param) ==
    [proto |-> proto, cast |-> cast, param |-> param, ports |-> "4588-4589"]

Client(ports, param) ==
    Named("Transport", <<[Offer("RTP/AVP", "unicast", param) EXCEPT !.ports = ports]>>)

\* Every kind of offer, and what a second one may be.
Offers == {Offer("RTP/AVP", c, p) : c \in {"unicast", "multicast"}, p \in {"ports", "mode", "none"}} \cup
          {Offer("RTP/AVP/TCP", "unicast", "both")}
Seconds == {Offer("RTP/AVP/UDP", c, p) : c \in {"unicast", "multicast"}, p \in {"ports", "mode"}}
Transports == {Named("Transport", <<o>>) : o \in Offers} \cup
              {Named("Transport", <<o[1], o[2]>>) : o \in Offers \X Seconds}

Message(method, headers) ==
    [method |-> method, headers |-> headers, lines |-> Len(headers) + 2, words |-> <<8, 24, 8>>]
Cut(m, k) == [m EXCEPT !.lines = k]
Line(m, words) == [m EXCEPT !.words = words]

Plain(m) == Message(m, <<CSeq("1"), Named("Require", <<"x">>)>>)

MCRequests ==
    {Message("DESCRIBE", <<CSeq("1"), a>>) : a \in Accepts} \cup
    {Message("SETUP", <<t, CSeq("2")>>) : t \in Transports} \cup
    {Plain(m) : m \in {"DESCRIBE", "OPTIONS", "PLAY", "TEARDOWN", "RECORD"}} \cup
    {Message("PLAY", <<CSeq("3"), CSeq("4"), CSeq("5")>>),
     Message("SETUP", <<CSeq("1"), CSeq("2"), CSeq("3"), CSeq("4"), CSeq("5"), CSeq("6"), CSeq("7")>>),
     Message("PLAY", <<CSeq("1"), CSeq("2"), CSeq("3"), CSeq("4"), CSeq("5")>>),
     Message("OPTIONS", <<Named("X-Unknown", <<"x">>)>>),
     Message("SETUP", <<Named("Conference", <<"x">>), CSeq("1")>>),
     Message("SETUP", <<Named("Transport", <<Offer("RTP/SAVP", "unicast", "ports")>>)>>),
     Message("SETUP", <<Named("Transport",
         <<Offer("RTP/AVP", "multicast", "ports"), Offer("RTP/AVP", "anycast", "ports")>>)>>)} \cup
    {Cut(Plain("PLAY"), k) : k \in 0 .. 3} \cup
    \* A URI that ends before h_buf.num, one that does not, and a version that wipes it.
    {Line(Plain("OPTIONS"), <<7, 53, 8>>), Line(Plain("OPTIONS"), <<7, 54, 8>>),
     Line(Plain("OPTIONS"), <<7, 54, 13>>), Line(Message("OPTIONS", <<>>), <<7, 60, 8>>)} \cup
    \* Fewer words than three; with two the URI may reach the version and h_buf.num.
    {Line(Cut(Message("OPTIONS", <<>>), 0), <<>>), Line(Message("OPTIONS", <<>>), <<7>>),
     Line(Message("OPTIONS", <<>>), <<7, 40>>), Line(Message("OPTIONS", <<>>), <<7, 45>>),
     Line(Message("OPTIONS", <<>>), <<7, 54>>)} \cup
    \* Texts that tmpbuf or resbuf has no room for.
    {Message("SETUP", <<Client("long", "ports")>>), Message("SETUP", <<Client("long", "both")>>),
     Message("SETUP", <<Client("long", "ports"), Client("short", "ports")>>)} \cup
    {Message("SETUP", <<Client("middle", "ports"), Client("short", p)>>) : p \in {"ports", "both"}} \cup
    {Message("SETUP", <<Named("CSeq", <<"long">>), Named("CSeq", <<"long">>)>>)}

\* One request for each row of the tables, but for two that say more.
MCRows == {Message("OPTIONS", <<Named(Dictionary[i], <<"x">>)>>) :
    i \in {j \in 1 .. Len(Dictionary) :
            InTables(Dictionary[j], REQ) /\ Dictionary[j] \notin {"Accept", "Transport"}}}

=============================================================================
