---------------------------- MODULE RtspServer ----------------------------
(***************************************************************************)
(* How a request to the RTSP server is answered: parse_request,            *)
(* process_request with the handlers of header.c and method.c, and         *)
(* create_response_message.  They are called in this order, one request at *)
(* a time.  A text is a sequence of words and separators; a response's     *)
(* values are pointers, into the request or into tmpbuf, that are followed *)
(* only when the message is written.                                       *)
(***************************************************************************)
EXTENDS RtspLookup, RtspTables, SequencesExt

CONSTANTS
    Requests,       \* the messages that may come
    MaxRequests,    \* bound: how many of them come
    HBuf,           \* places in a header_buffer
    NumAt,          \* where h_buf.num stands in struct request: 68, or 72 for wide pointers
    TBuf, RBuf,     \* bytes of tmpbuf and of resbuf
    TextSize(_),    \* bytes of a text
    Longest         \* bound of Servable: bytes of the texts that it is about

\* What a header's name may be.
Names == {Dictionary[i] : i \in 1 .. Len(Dictionary)}

\* The searches of rtsp.c are for these, in these tables.
ASSUME TablesAssumption ==
    /\ response_status \in LookupTables
    /\ \A i \in 1 .. Len(h_set) : Places(h_set[i].headers) \in LookupTables
    /\ {200, 406} \subseteq LookupKeys
    /\ \A name \in Names : Place(name) \in LookupKeys

\* What stands between the words of a header's value.
Separators == {",", ";", "=", " "}

\* The words that sscanf takes from a message are so long; a header alone has two.
ASSUME WordsAssumption == \A m \in Requests :
    /\ m.words \in Seq(Nat \ {0})
    /\ Len(m.words) < 3 => m.headers = <<>>

\* A message has so many whole lines, and its headers have names.  Accept and
\* Transport say a list of types and of offers.
ASSUME RequestsAssumption ==
    /\ MaxRequests \in Nat /\ HBuf \in Nat
    /\ \A m \in Requests :
        /\ m.lines \in Nat
        /\ Len(m.headers) \in Nat
        /\ \A k \in 1 .. Len(m.headers) : LET header == m.headers[k] IN
            /\ header.name \in Names
            /\ header.name \in {"Accept", "Transport"} => Len(header.says) \in Nat
            /\ header.name = "Accept" => \A i \in 1 .. Len(header.says) :
                   header.says[i].type \notin Separators /\ header.says[i].quality \in BOOLEAN
            /\ header.name = "Transport" => \A i \in 1 .. Len(header.says) :
                   LET offer == header.says[i] IN
                   /\ {offer.proto, offer.cast, offer.ports} \cap Separators = {}
                   /\ offer.param \in {"ports", "mode", "both", "none"}

VARIABLES
    pc,             \* "idle", what is being done, or how the program ended
    msg,            \* the message in the receive buffer
    n,              \* the header that is being parsed or handled
    fields,         \* p_req->h_buf: the row each header was given, or "NULL"
    res,            \* p_res
    tmp, b, used,   \* tmpbuf, one place per text, the next place and b_idx, its byte
    trn,            \* process_header_transport's variables
    todo,           \* the headers the method has still to add
    set,            \* get_header: the set that is being searched, and
    types,          \* those that may be
    ret,            \* what process_request returned
    seq,            \* the first sequence number of the stream
    out,            \* the last message that was written
    served          \* how many there were

parseVars == <<msg, n, fields>>
replyVars == <<res, tmp, b, used, trn, todo, ret, seq>>
callVars == <<out, served>>
vars == <<pc, parseVars, replyVars, callVars, set, types, lookupVars>>

Ends == {"aborted", "crashed", "wild"}

(***************************************************************************)
(* The messages.  What a header says is structured; Text is how it is      *)
(* written.                                                                *)
(***************************************************************************)
Joined(parts) ==
    FlattenSeq([i \in 1 .. Len(parts) |-> IF i = 1 THEN parts[i] ELSE <<",", " ">> \o parts[i]])

MediaText(media) == IF media.quality THEN <<media.type, ";", "q=1">> ELSE <<media.type>>

OfferText(offer) ==
    <<offer.proto, ";", offer.cast>> \o
    CASE offer.param = "ports" -> <<";", "client_port", "=", offer.ports>>
      [] offer.param = "mode" -> <<";", "mode", "=", "play">>
      [] offer.param = "both" -> <<";", "client_port", "=", offer.ports, ";", "mode", "=", "play">>
      [] offer.param = "none" -> <<>>

Text(header) ==
    CASE header.name = "Accept" ->
            Joined([i \in 1 .. Len(header.says) |-> MediaText(header.says[i])])
      [] header.name = "Transport" ->
            Joined([i \in 1 .. Len(header.says) |-> OfferText(header.says[i])])
      [] OTHER -> header.says

\* The whole message is in the buffer: the request line, the headers and the
\* line that ends it.
Whole(m) == m.lines = Len(m.headers) + 2 /\ Len(m.words) = 3

(***************************************************************************)
(* The sizes                                                               *)
(***************************************************************************)
\* The length of what is written into entity_buf.
EntityLength == "22"

\* What add_header_str, add_header_int and process_header_public write.
MethodTexts == {<<"session">>, <<"date">>, <<"seq", "first">>, <<"seq", "second">>,
                supported_methods, <<"application/sdp">>, <<EntityLength>>}

ServerPorts == <<";", "server_port">>
ServerPortsSize == 22

\* No part of a Transport is longer than the whole.
ASSUME SizesAssumption ==
    /\ NumAt \in Nat /\ TBuf \in Nat /\ RBuf \in Nat /\ Longest \in Nat
    /\ \A text \in MethodTexts : TextSize(text) \in 0 .. Longest
    /\ \A name \in Names : TextSize(<<name>>) \in 0 .. Longest
    /\ \A m \in Requests : \A k \in 1 .. Len(m.headers) : LET text == Text(m.headers[k]) IN
        /\ m.headers[k].name \in {"CSeq", "Transport"} => TextSize(text) \in Nat
        /\ m.headers[k].name = "Transport" =>
            \A i \in 1 .. Len(text) + 1, j \in 0 .. Len(text) : LET part == SubSeq(text, i, j) IN
                /\ TextSize(part) \in 0 .. TextSize(text)
                /\ TextSize(part \o ServerPorts) = TextSize(part) + ServerPortsSize

\* Where the method, the URI and the version stand in struct request.
WordAt == <<0, 15, 55>>

\* sscanf does not stop at the ends of the fields: whether byte p holds a character
\* when it returns.  The NUL behind a word may fall into the word before.
InLine(m, p) == \E k \in 1 .. Len(m.words) :
    /\ p \in WordAt[k] .. WordAt[k] + m.words[k] - 1
    /\ \A j \in k + 1 .. Len(m.words) : p # WordAt[j] + m.words[j]

VersionEmpty(m) == ~InLine(m, WordAt[3])

\* h_buf.num was set to 0 before; with a character in it, it counts no fields.
NumOverwritten(m) == \E p \in NumAt .. NumAt + 3 : InLine(m, p)

(***************************************************************************)
(* parse_request                                                           *)
(***************************************************************************)
Receive ==
    /\ pc = "idle"
    /\ served < MaxRequests
    /\ msg' \in Requests
    /\ pc' = "line"
    /\ fields' = <<>>
    /\ UNCHANGED <<n, replyVars, callVars, set, types, lookupVars>>

ParseLine ==
    /\ pc = "line"
    /\ msg.lines > 0 /\ Len(msg.words) = 3
    /\ n' = 1
    /\ pc' = "headers"
    /\ UNCHANGED <<msg, fields, replyVars, callVars, set, types, lookupVars>>

\* There are three words but no line feed: what is read as the first header's end
\* is before the buffer.
ParseLineCut ==
    /\ pc = "line"
    /\ msg.lines = 0 /\ Len(msg.words) = 3
    /\ pc' = "wild"
    /\ UNCHANGED <<parseVars, replyVars, callVars, set, types, lookupVars>>

\* Fewer words: parse_request returns -1, and main goes on all the same.
ParseLineShort ==
    /\ pc = "line"
    /\ Len(msg.words) < 3
    /\ pc' = "process"
    /\ res' = [res EXCEPT !.version = ""]
    /\ UNCHANGED <<parseVars, tmp, b, used, trn, todo, ret, seq, callVars, set, types, lookupVars>>

FirstSet(from, wanted) == CHOOSE i \in from .. Len(h_set) :
    h_set[i].type \in wanted /\ \A j \in from .. i - 1 : h_set[j].type \notin wanted

\* get_header
Search(name, wanted) ==
    /\ types' = wanted
    /\ set' = FirstSet(1, wanted)
    /\ Start(Places(h_set[set'].headers), Place(name))

ParseHeader ==
    /\ pc = "headers"
    /\ n <= Len(msg.headers)
    /\ n + 1 <= msg.lines
    /\ Search(msg.headers[n].name, REQ)
    /\ pc' = "field"
    /\ UNCHANGED <<parseVars, replyVars, callVars>>

\* The line has no end: the assertion about the carriage return or the one about
\* the blank behind the colon fails.
ParseHeaderCut ==
    /\ pc = "headers"
    /\ n + 1 > msg.lines
    /\ pc' = "aborted"
    /\ UNCHANGED <<parseVars, replyVars, callVars, set, types, lookupVars>>

\* Mutant: the version of the last response stays.
ParsedKeepingVersion ==
    /\ pc = "headers"
    /\ n = Len(msg.headers) + 1
    /\ n + 1 <= msg.lines
    /\ pc' = "process"
    /\ UNCHANGED <<parseVars, replyVars, callVars, set, types, lookupVars>>

\* process_request until process_header: an old version in p_res would mean that
\* a response is processed.
Parsed ==
    /\ pc = "headers"
    /\ n = Len(msg.headers) + 1
    /\ n + 1 <= msg.lines
    /\ pc' = "process"
    /\ res' = [res EXCEPT !.version = ""]
    /\ UNCHANGED <<parseVars, tmp, b, used, trn, todo, ret, seq, callVars, set, types, lookupVars>>

(***************************************************************************)
(* get_header and get_status                                               *)
(***************************************************************************)
Compare ==
    /\ pc \in {"field", "todo", "status"}
    /\ Look
    /\ UNCHANGED <<pc, parseVars, replyVars, callVars, set, types>>

Missed == Done /\ hit = 0

MoreSets == \E i \in set + 1 .. Len(h_set) : h_set[i].type \in types

NextSet ==
    /\ pc \in {"field", "todo"}
    /\ Missed
    /\ MoreSets
    /\ set' = FirstSet(set + 1, types)
    /\ Start(Places(h_set[set'].headers), key)
    /\ UNCHANGED <<pc, parseVars, replyVars, callVars, types>>

\* The name get_header's result has, NULL if nothing was found.
RowFound == IF hit # 0 THEN h_set[set].headers[hit] ELSE "NULL"

FieldSearched == pc = "field" /\ (hit # 0 \/ (Missed /\ ~MoreSets))

\* parse_headers takes the row it got; a header too many is written past the end.
TakeField ==
    /\ FieldSearched
    /\ ~NumOverwritten(msg)
    /\ fields' = Append(fields, RowFound)
    /\ n' = n + 1
    /\ pc' = IF Len(fields) = HBuf THEN "wild" ELSE "headers"
    /\ UNCHANGED <<msg, replyVars, callVars, set, types, lookupVars>>

\* The row is written where h_buf.num says.
TakeFieldAstray ==
    /\ FieldSearched
    /\ NumOverwritten(msg)
    /\ pc' = "wild"
    /\ UNCHANGED <<parseVars, replyVars, callVars, set, types, lookupVars>>

TakeStatus ==
    /\ pc = "status"
    /\ Done
    /\ res' = [res EXCEPT !.status = IF hit # 0 THEN response_status[hit] ELSE 0]
    /\ pc' = "handle"
    /\ UNCHANGED <<parseVars, tmp, b, used, trn, todo, ret, seq, callVars, set, types, lookupVars>>

(***************************************************************************)
(* process_header and the handlers of the headers                          *)
(***************************************************************************)
ProcessHeader ==
    /\ pc = "process"
    /\ IF res.version = "" /\ ~VersionEmpty(msg)
       THEN /\ b' = 0 /\ used' = 0
            /\ res' = [res EXCEPT !.fields = <<>>, !.entity = "none"]
            /\ n' = 1
            /\ Start(response_status, 200)
            /\ pc' = "status"
       ELSE /\ pc' = "aborted"
            /\ UNCHANGED <<res, b, used, n, lookupVars>>
    /\ UNCHANGED <<msg, fields, tmp, trn, todo, ret, seq, callVars, set, types>>

Handled == n > Len(fields)
Handling(row) == pc = "handle" /\ ~Handled /\ fields[n] = row
Words == Text(msg.headers[n])

\* Writing a text at tmpbuf + b_idx leaves b_idx alone; the caller moves it.
Written(place, text) ==
    IF place < Len(tmp) THEN [tmp EXCEPT ![place + 1] = text] ELSE Append(tmp, text)

\* There is room in tmpbuf for a text and its NUL.  sprintf does not ask: see TmpOverrun.
Fits(text) == used + TextSize(text) + 1 <= TBuf
MoveBehind(text) == b' = b + 1 /\ used' = used + TextSize(text) + 1

\* add_header: a header too many is written past the end, and the assertion says so.
AddHeader(name, memory, place) ==
    res' = [res EXCEPT !.fields = Append(@, [name |-> name, in |-> memory, at |-> place])]

Room(then) == IF Len(res.fields) = HBuf THEN "aborted" ELSE then

HandleDefault ==
    /\ pc = "handle" /\ ~Handled
    /\ fields[n] \notin {"NULL", "CSeq", "Accept", "Transport"}
    /\ n' = n + 1
    /\ UNCHANGED <<pc, msg, fields, replyVars, callVars, set, types, lookupVars>>

\* The row is a null pointer, and its handler is called.
HandleUnknown ==
    /\ Handling("NULL")
    /\ pc' = "crashed"
    /\ UNCHANGED <<parseVars, replyVars, callVars, set, types, lookupVars>>

HandleCSeq ==
    /\ Handling("CSeq")
    /\ AddHeader("CSeq", "req", n)
    /\ n' = n + 1
    /\ pc' = Room("handle")
    /\ UNCHANGED <<msg, fields, tmp, b, used, trn, todo, ret, seq, callVars, set, types, lookupVars>>

\* process_header_accept: a type of the list is application/sdp.  What stands between
\* two separators is taken for a type, without the blanks in front.  Parameters are
\* too: the separator has been overwritten when the code asks whether it was a
\* semicolon.
AcceptScan(v) ==
    LET separator(i) == v[i] \in {",", ";"}
    IN  \E t \in 1 .. Len(v) :
            /\ v[t] = "application/sdp"
            /\ t = 1 \/ \E i \in 1 .. t - 1 : separator(i) /\ \A k \in i + 1 .. t - 1 : v[k] = " "
            /\ t = Len(v) \/ separator(t + 1)

HandleAccept ==
    /\ Handling("Accept")
    /\ n' = n + 1
    /\ IF AcceptScan(Words)
       THEN /\ res' = [res EXCEPT !.entity = "type"]
            /\ UNCHANGED <<pc, lookupVars>>
       ELSE /\ Start(response_status, 406)
            /\ pc' = "status"
            /\ UNCHANGED res
    /\ UNCHANGED <<msg, fields, tmp, b, used, trn, todo, ret, seq, callVars, set, types>>

\* The variables of process_header_transport at its start.
NoScan == [c |-> 1, value |-> 1, trans |-> 1, i |-> 0, allowed |-> TRUE,
           sign |-> FALSE, ports |-> FALSE, end |-> 0]

HandleTransport ==
    /\ Handling("Transport")
    /\ trn' = NoScan
    /\ pc' = "transport"
    /\ UNCHANGED <<parseVars, res, tmp, b, used, todo, ret, seq, callVars, set, types, lookupVars>>

(***************************************************************************)
(* process_header_transport: one word or separator at a time               *)
(***************************************************************************)
Scanning == pc = "transport" /\ trn.c <= Len(Words) /\ trn.end = 0
At(w) == Scanning /\ Words[trn.c] = w
Value == SubSeq(Words, trn.value, trn.c - 1)
ScanRest == <<parseVars, res, todo, ret, seq, callVars, set, types, lookupVars>>

TransportWord ==
    /\ Scanning
    /\ Words[trn.c] \notin {";", ",", "="}
    /\ trn' = [trn EXCEPT !.c = @ + 1]
    /\ UNCHANGED <<pc, tmp, b, used, ScanRest>>

\* The first part names the protocol; anything but these fails an assertion.
TransportProtocol ==
    /\ At(";") /\ trn.i = 0
    /\ trn' = [trn EXCEPT !.c = @ + 1, !.value = trn.c + 1, !.i = 1]
    /\ pc' = IF Value \in {<<"RTP/AVP">>, <<"RTP/AVP/UDP">>, <<"RTP/AVP/TCP">>}
             THEN pc ELSE "aborted"
    /\ UNCHANGED <<tmp, b, used, ScanRest>>

\* The second says how it is sent.  Multicast is not offered: the rest of the
\* offer is passed over.
NextComma(i) == CHOOSE j \in i .. Len(Words) + 1 :
    (j > Len(Words) \/ Words[j] = ",") /\ \A k \in i .. j - 1 : Words[k] # ","

TransportCast ==
    /\ At(";") /\ trn.i = 1
    /\ CASE Value = <<"multicast">> ->
                /\ trn' = [trn EXCEPT !.c = NextComma(trn.c + 1), !.i = 0, !.allowed = FALSE]
                /\ UNCHANGED pc
         [] Value = <<"unicast">> ->
                /\ trn' = [trn EXCEPT !.c = @ + 1, !.value = trn.c + 1, !.i = 2]
                /\ UNCHANGED pc
         [] OTHER -> pc' = "aborted" /\ UNCHANGED trn
    /\ UNCHANGED <<tmp, b, used, ScanRest>>

\* The others are parameters; client_port's value is copied.
TransportParameter ==
    /\ At(";") /\ trn.i > 1
    /\ trn' = [trn EXCEPT !.c = @ + 1, !.value = trn.c + 1, !.i = @ + 1,
                          !.sign = FALSE, !.ports = @ \/ trn.sign]
    /\ IF trn.sign
       THEN Fits(Value) /\ tmp' = Written(b, Value) /\ MoveBehind(Value)
       ELSE UNCHANGED <<tmp, b, used>>
    /\ UNCHANGED <<pc, ScanRest>>

TransportKey ==
    /\ At("=")
    /\ Fits(Value)
    /\ tmp' = Written(b, Value)
    /\ trn' = [trn EXCEPT !.c = @ + 1, !.value = trn.c + 1,
                          !.sign = @ \/ Value = <<"client_port">>]
    /\ UNCHANGED <<pc, b, used, ScanRest>>

\* Mutant: the first offer is taken, allowed or not.
TransportCommaTakesFirst ==
    /\ At(",")
    /\ trn' = [trn EXCEPT !.end = trn.c]
    /\ UNCHANGED <<pc, tmp, b, used, ScanRest>>

\* A comma ends an offer that is allowed; behind one that is not the next begins.
TransportComma ==
    /\ At(",")
    /\ LET next == CHOOSE j \in trn.c + 1 .. Len(Words) + 1 :
                (j > Len(Words) \/ Words[j] # " ") /\ \A k \in trn.c + 1 .. j - 1 : Words[k] = " "
       IN trn' = IF trn.allowed THEN [trn EXCEPT !.end = trn.c]
                 ELSE [trn EXCEPT !.c = next, !.value = next, !.trans = next, !.allowed = TRUE]
    /\ UNCHANGED <<pc, tmp, b, used, ScanRest>>

\* Behind the loop.
Scanned == pc = "transport" /\ (trn.c > Len(Words) \/ trn.end # 0)
OfferEnd == IF trn.end # 0 THEN trn.end - 1 ELSE Len(Words)
LastValue == SubSeq(Words, trn.value, OfferEnd)
\* The offer, with the server's ports if the client named its own.
OfferRepeated ==
    SubSeq(Words, trn.trans, OfferEnd) \o (IF trn.ports \/ trn.sign THEN ServerPorts ELSE <<>>)
AnswerSize == (IF trn.sign THEN TextSize(LastValue) + 1 ELSE 0)
            + (IF trn.allowed THEN TextSize(OfferRepeated) + 1 ELSE 0)

\* The offer is repeated.
TransportAnswer ==
    /\ Scanned
    /\ used + AnswerSize <= TBuf
    /\ LET copied == IF trn.sign THEN Written(b, LastValue) ELSE tmp
           place == IF trn.sign THEN b + 1 ELSE b
       IN IF trn.allowed
          THEN /\ tmp' = IF place < Len(copied) THEN [copied EXCEPT ![place + 1] = OfferRepeated]
                         ELSE Append(copied, OfferRepeated)
               /\ b' = place + 1
               /\ AddHeader("Transport", "tmp", place)
               /\ pc' = Room("handle")
          ELSE /\ tmp' = copied
               /\ b' = place
               /\ pc' = "handle"
               /\ UNCHANGED res
    /\ used' = used + AnswerSize
    /\ n' = n + 1
    /\ UNCHANGED <<msg, fields, trn, todo, ret, seq, callVars, set, types, lookupVars>>

(***************************************************************************)
(* The methods: what each adds behind the headers' answers                 *)
(***************************************************************************)
Header(name, type, text) == [name |-> name, type |-> type, text |-> text]

process_method_describe ==
    << Header("Content-Type", "entity", <<"application/sdp">>),
       Header("Content-Length", "entity", <<EntityLength>>) >>
process_method_options == << Header("Public", "response", supported_methods) >>
process_method_setup ==
    << Header("Session", "extension", <<"session">>), Header("Date", "general", <<"date">>) >>
process_method_play(first) ==
    process_method_setup \o << Header("RTP-Info", "extension", <<"seq", first>>) >>

\* The loop of process_header ends where h_buf.num says.
HandleAstray ==
    /\ pc = "handle" /\ Handled
    /\ NumOverwritten(msg)
    /\ pc' = "wild"
    /\ UNCHANGED <<parseVars, replyVars, callVars, set, types, lookupVars>>

Method ==
    /\ pc = "handle" /\ Handled
    /\ ~NumOverwritten(msg)
    /\ pc' = "add"
    /\ ret' = IF msg.method = "PLAY" THEN 1 ELSE 0
    /\ IF msg.method = "PLAY" THEN seq' \in {"first", "second"} ELSE seq' = seq
    /\ todo' = CASE msg.method = "DESCRIBE" /\ res.entity # "none" -> process_method_describe
                 [] msg.method = "OPTIONS" -> process_method_options
                 [] msg.method = "PLAY" -> process_method_play(seq')
                 [] msg.method = "SETUP" -> process_method_setup
                 [] OTHER -> <<>>
    /\ res' = [res EXCEPT !.entity =
                  IF msg.method = "DESCRIBE" /\ @ # "none" THEN "sdp" ELSE @]
    /\ UNCHANGED <<parseVars, tmp, b, used, trn, callVars, set, types, lookupVars>>

NextHeader ==
    /\ pc = "add" /\ todo # <<>>
    /\ Search(Head(todo).name, {Head(todo).type})
    /\ pc' = "todo"
    /\ UNCHANGED <<parseVars, replyVars, callVars>>

\* Mutant: the place in tmpbuf is not moved on.
AddNextKeepingPlace ==
    /\ pc = "todo" /\ hit # 0
    /\ tmp' = Written(b, Head(todo).text)
    /\ AddHeader(RowFound, "tmp", b)
    /\ todo' = Tail(todo)
    /\ pc' = Room("add")
    /\ UNCHANGED <<parseVars, b, used, trn, ret, seq, callVars, set, types, lookupVars>>

\* add_header_str, add_header_int and process_header_public: the text goes to tmpbuf.
AddNext ==
    /\ pc = "todo" /\ hit # 0
    /\ Fits(Head(todo).text)
    /\ tmp' = Written(b, Head(todo).text)
    /\ MoveBehind(Head(todo).text)
    /\ AddHeader(RowFound, "tmp", b)
    /\ todo' = Tail(todo)
    /\ pc' = Room("add")
    /\ UNCHANGED <<parseVars, trn, ret, seq, callVars, set, types, lookupVars>>

\* sprintf writes past the end of tmpbuf.
TmpOverrun ==
    /\ \/ At(";") /\ trn.i > 1 /\ trn.sign /\ ~Fits(Value)
       \/ At("=") /\ ~Fits(Value)
       \/ Scanned /\ used + AnswerSize > TBuf
       \/ pc = "todo" /\ hit # 0 /\ ~Fits(Head(todo).text)
    /\ pc' = "wild"
    /\ UNCHANGED <<parseVars, replyVars, callVars, set, types, lookupVars>>

\* create_response_message follows the pointers.
Pointed(field) ==
    IF field.in = "tmp" THEN tmp[field.at + 1] ELSE Text(msg.headers[field.at])

\* The bytes of the message: the status line with OK or Not Acceptable, a line for
\* each header, the empty line, the entity and the NUL behind it all.
StatusSize == IF res.status = 406 THEN 29 ELSE 17
EntitySize == CASE res.entity = "none" -> 0
                [] res.entity = "type" -> 15
                [] res.entity = "sdp" -> 22
LineSize(field) == TextSize(<<field.name>>) + TextSize(Pointed(field)) + 4
ResponseSize ==
    LET upTo[k \in 0 .. Len(res.fields)] ==
            IF k = 0 THEN StatusSize + 2 + EntitySize + 1 ELSE upTo[k - 1] + LineSize(res.fields[k])
    IN upTo[Len(res.fields)]

\* sprintf writes past the end of resbuf.
ResponseOverrun ==
    /\ pc = "add" /\ todo = <<>>
    /\ ResponseSize > RBuf
    /\ pc' = "wild"
    /\ UNCHANGED <<parseVars, replyVars, callVars, set, types, lookupVars>>

Respond ==
    /\ pc = "add" /\ todo = <<>>
    /\ ResponseSize <= RBuf
    /\ res' = [res EXCEPT !.version = "RTSP/1.0"]
    /\ out' = [status |-> res.status, entity |-> res.entity,
               fields |-> [k \in 1 .. Len(res.fields) |->
                   [name |-> res.fields[k].name, text |-> Pointed(res.fields[k])]]]
    /\ served' = served + 1
    /\ pc' = "idle"
    /\ UNCHANGED <<parseVars, tmp, b, used, trn, todo, ret, seq, set, types, lookupVars>>

Transport == TransportWord \/ TransportProtocol \/ TransportCast \/ TransportParameter
             \/ TransportKey \/ TransportComma \/ TransportAnswer

Step ==
    \/ ParseLine \/ ParseLineCut \/ ParseLineShort \/ ParseHeader \/ ParseHeaderCut \/ Parsed
    \/ Compare \/ NextSet \/ TakeField \/ TakeFieldAstray \/ TakeStatus
    \/ ProcessHeader \/ HandleDefault \/ HandleUnknown \/ HandleCSeq \/ HandleAccept
    \/ HandleTransport \/ Transport \/ TmpOverrun
    \/ HandleAstray \/ Method \/ NextHeader \/ AddNext \/ ResponseOverrun \/ Respond

Next == Receive \/ Step

NoResponse == [version |-> "", status |-> 0, entity |-> "none", fields |-> <<>>]

Init ==
    /\ LookupInit /\ key = 200
    /\ pc = "idle" /\ msg \in Requests /\ n = 1 /\ fields = <<>>
    /\ res = NoResponse /\ tmp = <<>> /\ b = 0 /\ used = 0 /\ trn = NoScan /\ todo = <<>>
    /\ ret = 0 /\ seq = "none" /\ set = 1 /\ types = {} /\ served = 0
    /\ out = [status |-> 0, entity |-> "none", fields |-> <<>>]

Spec == Init /\ [][Next]_vars

\* The calls return: the caller is not kept from taking steps.
FairSpec == Spec /\ WF_vars(Step)

(***************************************************************************)
(* Properties                                                              *)
(***************************************************************************)
\* What the headers of a name say, and what the answer's headers of a name say.
Said(m, name) == FlattenSeq([k \in 1 .. Len(m.headers) |->
    IF m.headers[k].name = name THEN <<m.headers[k].says>> ELSE <<>>])
AnswersOf(name) == FlattenSeq([k \in 1 .. Len(out.fields) |->
    IF out.fields[k].name = name THEN <<out.fields[k].text>> ELSE <<>>])
Answered == pc = "idle" /\ served > 0 /\ Whole(msg)

InTables(name, wanted) == \E i \in 1 .. Len(h_set) :
    h_set[i].type \in wanted /\ \E j \in 1 .. Len(h_set[i].headers) : h_set[i].headers[j] = name

\* An answer has one more header for each CSeq and Transport, and what its method adds.
MostAnswers(m) == Len(Said(m, "CSeq")) + Len(Said(m, "Transport")) + 3

\* What process_header_transport does not meet with an assertion.
Understood(offer) ==
    /\ offer.proto \in {"RTP/AVP", "RTP/AVP/UDP", "RTP/AVP/TCP"}
    /\ offer.cast \in {"unicast", "multicast"}

\* And that many texts go to tmpbuf.
MostTexts(m) == 2 * Len(Said(m, "Transport")) + 3

\* A whole request, whose request line, headers and answers fit the buffers.  Its
\* headers stand in the tables, but for the one that is not found there (see
\* EveryRowFound).
Servable(m) ==
    /\ Whole(m)
    /\ ~NumOverwritten(m)
    /\ Len(m.headers) <= HBuf /\ MostAnswers(m) <= HBuf
    /\ \A k \in 1 .. Len(m.headers) : m.headers[k].name \in {"CSeq", "Transport"} =>
           TextSize(Text(m.headers[k])) <= Longest
    /\ MostTexts(m) * (Longest + ServerPortsSize + 1) <= TBuf
    /\ 54 + MostAnswers(m) * (2 * Longest + ServerPortsSize + 4) <= RBuf
    /\ \A k \in 1 .. Len(m.headers) : LET header == m.headers[k] IN
        /\ InTables(header.name, REQ) /\ header.name # "Conference"
        /\ header.name = "Transport" => \A i \in 1 .. Len(header.says) : Understood(header.says[i])

\* Such a request is answered: it runs into no assertion, null pointer or full
\* buffer, and while the program runs no header_buffer holds more than it has room
\* for (server.c 26-61, header.c).
RequestsServed ==
    /\ pc \in Ends => ~Servable(msg)
    /\ pc \notin Ends => Len(fields) <= HBuf /\ Len(res.fields) <= HBuf

\* A row of the tables is found by its name: the comment of rtsp.h:70 says that
\* they are in dictionary order, which is what _get_header relies on.
EveryRowFound ==
    pc = "crashed" =>
        \E k \in 1 .. Len(fields) : ~InTables(msg.headers[k].name, REQ)

Meant(name) ==
    CASE name = "Session" -> <<"session">>
      [] name = "Date" -> <<"date">>
      [] name = "RTP-Info" -> <<"seq", seq>>
      [] name = "Public" -> supported_methods
      [] name = "Content-Type" -> <<"application/sdp">>
      [] name = "Content-Length" -> <<EntityLength>>

\* When the message is written every pointer still leads to what its header was
\* given: the texts share tmpbuf (header.c 5, 18-28), and the answers to CSeq
\* point into the request.
ValuesKept ==
    /\ \A k \in 1 .. Len(res.fields) : res.fields[k].in = "tmp" => res.fields[k].at < b
    /\ Answered =>
        /\ \A k \in 1 .. Len(out.fields) : LET f == out.fields[k] IN
               f.name \notin {"CSeq", "Transport"} => f.text = Meant(f.name)
        /\ AnswersOf("CSeq") = Said(msg, "CSeq")

\* The one offer that is answered: the first that is not multicast.
OfferTaken(offers) == CHOOSE k \in 1 .. Len(offers) :
    offers[k].cast = "unicast" /\ \A j \in 1 .. k - 1 : offers[j].cast # "unicast"

\* Of the transports offered, if any, the first unicast one is confirmed, with the server's
\* ports if it named the client's, and none if all are multicast, provided that
\* something follows the word unicast or multicast in each (header.c 120-196).
TransportAnswered ==
    Answered /\ Len(Said(msg, "Transport")) = 1 =>
        LET offers == Said(msg, "Transport")[1]
            answers == AnswersOf("Transport")
        IN Len(offers) > 0 /\ (\A k \in 1 .. Len(offers) : offers[k].param # "none") =>
           IF \E k \in 1 .. Len(offers) : offers[k].cast = "unicast"
           THEN LET offer == offers[OfferTaken(offers)] IN
                /\ Len(answers) = 1
                /\ answers[1] = OfferText(offer) \o
                       (IF offer.param \in {"ports", "both"} THEN <<";", "server_port">> ELSE <<>>)
           ELSE answers = <<>>

\* DESCRIBE with a list of types: a description comes with its type and length if
\* the list has application/sdp, and the request is refused without a body
\* otherwise (header.c 61-83, method.c 25-49).
DescribeAnswered ==
    Answered /\ msg.method = "DESCRIBE" /\ Len(Said(msg, "Accept")) = 1 =>
        LET media == Said(msg, "Accept")[1]
            wanted == \E k \in 1 .. Len(media) : media[k].type = "application/sdp"
            body == IF wanted THEN 1 ELSE 0
        IN /\ out.status = IF wanted THEN 200 ELSE 406
           /\ out.entity = IF wanted THEN "sdp" ELSE "none"
           /\ Len(AnswersOf("Content-Type")) = body
           /\ Len(AnswersOf("Content-Length")) = body

\* The headers that offer a choice are answered by one of what they offer.
ChoicesAnswered == TransportAnswered /\ DescribeAnswered

\* Every call comes back, whatever the searches and scans meet (rtsp.c 17-58,
\* header.c 120-196).
EveryRequestEnds == [](pc # "idle" => <>(pc \in {"idle"} \cup Ends))

===========================================================================
