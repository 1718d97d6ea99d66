-------------------------- MODULE RtspServerProofs --------------------------
(***************************************************************************)
(* The RTSP server, for every set of requests: its searches are calls of   *)
(* the binary search, which is right for every table that is in order,     *)
(* every pointer of a response still leads to what its header was given,   *)
(* the requests that can be served are, and what a request leaves to       *)
(* choose is chosen as it should be.                                       *)
(***************************************************************************)
EXTENDS RtspServer, SequenceFacts

\* Half way between two places lies between them.
LEMMA MiddleInside ==
    ASSUME LookupTypeOK, s < g
    PROVE  Middle \in s .. g - 1
<1>1. s \in Nat /\ g \in Nat
    BY LookupAssumption DEF LookupTypeOK
<1>2. s <= (s + g) \div 2 /\ (s + g) \div 2 <= g - 1
    BY <1>1, s < g
<1> QED BY <1>1, <1>2 DEF Middle

\* Everything before s is smaller than the key, everything from g on is larger.
Enclosed ==
    Sorted(table) =>
        \A i \in 1 .. Len(table) : /\ i <= s => table[i] < key
                                   /\ i > g => table[i] > key

HitIsKey == hit # 0 => table[hit] = key

LookupInv == LookupTypeOK /\ Enclosed /\ HitIsKey

\* The tables and keys are of integers.
LEMMA IntegerTables ==
    ASSUME LookupTypeOK
    PROVE  /\ table \in Seq(Int)
           /\ key \in Int
           /\ \A i \in 1 .. Len(table) : table[i] \in Int
<1>1. table \in Seq(Int) /\ key \in Int
  <2>1. << >> \in Seq(Int)
      OBVIOUS
  <2> QED BY <2>1, LookupAssumption DEF LookupTypeOK
<1>2. \A i \in 1 .. Len(table) : table[i] \in Int
    BY <1>1
<1> QED BY <1>1, <1>2

\* A new call has everything still to search.
LEMMA Started ==
    ASSUME NEW t \in LookupTables, NEW k \in LookupKeys, Start(t, k)
    PROVE  LookupInv'
<1>1. t \in Seq(Int)
    BY LookupAssumption
<1>2. Len(t) \in Nat
    BY <1>1
<1>3. LookupTypeOK'
    BY <1>2 DEF Start, LookupTypeOK
<1>4. Enclosed'
    BY <1>2 DEF Start, Enclosed, Sorted
<1>5. HitIsKey'
    BY DEF Start, HitIsKey
<1> QED BY <1>3, <1>4, <1>5 DEF LookupInv

LEMMA LookupInvInit == LookupInit => LookupInv
<1> SUFFICES ASSUME LookupInit PROVE LookupInv
    OBVIOUS
<1>1. table = << >> /\ Len(table) = 0 /\ s = 0 /\ g = 0 /\ hit = 0
    BY DEF LookupInit
<1>2. LookupTypeOK
    BY <1>1 DEF LookupInit, LookupTypeOK
<1>3. Enclosed /\ HitIsKey
    BY <1>1 DEF LookupInit, Enclosed, HitIsKey
<1> QED BY <1>2, <1>3 DEF LookupInv

LEMMA LookupInvNext == LookupInv /\ [LookupNext]_lookupVars => LookupInv'
<1> SUFFICES ASSUME LookupInv, [LookupNext]_lookupVars PROVE LookupInv'
    OBVIOUS
<1> USE DEF LookupInv
<1>0. /\ table \in Seq(Int) /\ key \in Int /\ Len(table) \in Nat
      /\ \A i \in 1 .. Len(table) : table[i] \in Int
      /\ s \in 0 .. Len(table) /\ g \in 0 .. Len(table)
    BY IntegerTables DEF LookupTypeOK
<1>1. CASE GoLeft
  <2>1. s < g /\ Middle \in s .. g - 1
      BY <1>1, MiddleInside DEF GoLeft, Searching
  <2>2. Middle \in Nat /\ Middle + 1 \in 1 .. Len(table)
      BY <2>1, <1>0
  <2>3. LookupTypeOK'
      BY <1>1, <1>0, <2>1, <2>2 DEF GoLeft, LookupTypeOK
  <2>4. Enclosed'
    <3> SUFFICES ASSUME Sorted(table), NEW i \in 1 .. Len(table)
                 PROVE  /\ i <= s => table[i] < key
                        /\ i > Middle => table[i] > key
        BY <1>1 DEF GoLeft, Enclosed, Sorted
    <3>1. i <= s => table[i] < key
        BY DEF Enclosed
    <3>2. CASE i = Middle + 1
        BY <3>1, <3>2, <1>0, <1>1, <2>1 DEF GoLeft, Entry
    <3>3. CASE i > Middle + 1
      <4>1. table[Middle + 1] < table[i]
          BY <3>3, <2>2 DEF Sorted
      <4>2. key < table[Middle + 1]
          BY <1>1 DEF GoLeft, Entry
      <4> QED BY <3>1, <4>1, <4>2, <1>0, <2>2
    <3> QED BY <3>1, <3>2, <3>3, <2>2
  <2>5. HitIsKey'
      BY <1>1 DEF GoLeft, HitIsKey
  <2> QED BY <2>3, <2>4, <2>5
<1>2. CASE GoRight
  <2>1. s < g /\ Middle \in s .. g - 1
      BY <1>2, MiddleInside DEF GoRight, Searching
  <2>2. Middle \in Nat /\ Middle + 1 \in 1 .. Len(table)
      BY <2>1, <1>0
  <2>3. LookupTypeOK'
      BY <1>2, <1>0, <2>1, <2>2 DEF GoRight, LookupTypeOK
  <2>4. Enclosed'
    <3> SUFFICES ASSUME Sorted(table), NEW i \in 1 .. Len(table)
                 PROVE  /\ i <= Middle + 1 => table[i] < key
                        /\ i > g => table[i] > key
        BY <1>2 DEF GoRight, Enclosed, Sorted
    <3>1. i > g => table[i] > key
        BY DEF Enclosed
    <3>2. CASE i = Middle + 1
        BY <3>1, <3>2, <1>0, <1>2, <2>1 DEF GoRight, Entry
    <3>3. CASE i < Middle + 1
      <4>1. table[i] < table[Middle + 1]
          BY <3>3, <2>2 DEF Sorted
      <4>2. table[Middle + 1] < key
          BY <1>2, <1>0, <2>2 DEF GoRight, Entry
      <4> QED BY <3>1, <4>1, <4>2, <1>0, <2>2
    <3> QED BY <3>1, <3>2, <3>3, <2>2
  <2>5. HitIsKey'
      BY <1>2 DEF GoRight, HitIsKey
  <2> QED BY <2>3, <2>4, <2>5
<1>3. CASE Hit
  <2>1. s < g /\ Middle \in s .. g - 1
      BY <1>3, MiddleInside DEF Hit, Searching
  <2>2. Middle + 1 \in 1 .. Len(table)
      BY <2>1, <1>0
  <2>3. LookupTypeOK'
      BY <1>3, <1>0, <2>2 DEF Hit, LookupTypeOK
  <2>4. Enclosed' /\ HitIsKey'
      BY <1>3 DEF Hit, Enclosed, HitIsKey, Entry, Sorted
  <2> QED BY <2>3, <2>4
<1>4. CASE Call
    BY <1>4, Started DEF Call
<1>5. CASE UNCHANGED lookupVars
    BY <1>5 DEF lookupVars, LookupTypeOK, Enclosed, HitIsKey, Sorted
<1> QED BY <1>1, <1>2, <1>3, <1>4, <1>5 DEF LookupNext, Look

\* When nothing is left to search and nothing was found, nothing is there.
LEMMA LookupInvImplies == LookupInv => FoundWhereSorted
<1> SUFFICES ASSUME LookupInv PROVE FoundWhereSorted
    OBVIOUS
<1>1. hit # 0 => table[hit] = key
    BY DEF LookupInv, HitIsKey
<1>2. ASSUME Done, hit = 0, Sorted(table), NEW i \in 1 .. Len(table)
      PROVE  table[i] # key
  <2>1. s \in Nat /\ g \in Nat /\ s >= g
      BY <1>2 DEF Done, Searching, LookupInv, LookupTypeOK
  <2>2. i <= s \/ i > g
      BY <2>1
  <2>3. table[i] \in Int /\ key \in Int
      BY IntegerTables DEF LookupInv
  <2>4. table[i] < key \/ table[i] > key
      BY <1>2, <2>2 DEF LookupInv, Enclosed
  <2> QED BY <2>3, <2>4
<1> QED BY <1>1, <1>2 DEF FoundWhereSorted

\* Whatever tables and keys _get_header and get_status (rtsp.c 17-58) are called
\* with, one call after the other: what they find is what was asked for, and in a
\* table in dictionary order they find everything that is there.
THEOREM LookupRight == LookupSpec => []FoundWhereSorted
<1>1. LookupSpec => []LookupInv
    BY LookupInvInit, LookupInvNext, PTL DEF LookupSpec
<1> QED BY <1>1, LookupInvImplies, PTL

(***************************************************************************)
(* The tables                                                              *)
(***************************************************************************)
Sets == 1 .. Len(h_set)

\* The sets and what they hold, seen from outside.
LEMMA SetsFacts ==
    /\ Sets = 1 .. 5
    /\ h_set[1].type = "general" /\ h_set[3].type = "response"
    /\ h_set[4].type = "entity" /\ h_set[5].type = "extension"
<1>1. Len(h_set) = 5
    BY DEF h_set
<1>2. /\ h_set[1].type = "general" /\ h_set[3].type = "response"
      /\ h_set[4].type = "entity" /\ h_set[5].type = "extension"
    BY DEF h_set
<1> QED BY <1>1, <1>2 DEF Sets

\* A name is told by its place.
LEMMA PlaceOfName ==
    ASSUME NEW x \in Names
    PROVE  /\ Place(x) \in 1 .. Len(Dictionary)
           /\ Dictionary[Place(x)] = x
<1>1. \E i \in 1 .. Len(Dictionary) : Dictionary[i] = x
    BY DEF Names
<1> QED BY <1>1, Zenon DEF Place

LEMMA RowsAreNames ==
    ASSUME NEW i \in Sets, NEW j \in 1 .. Len(h_set[i].headers)
    PROVE  h_set[i].headers[j] \in Names
<1>1. Len(Dictionary) = 45 /\ \A k \in 1 .. 45 : Dictionary[k] \in Names
  <2>1. Len(Dictionary) = 45
      BY DEF Dictionary
  <2> QED BY <2>1 DEF Names
<1>2. CASE i = 1
  <2>1. h_set[1].headers = general_headers /\ Len(general_headers) = 4
      BY DEF h_set, general_headers
  <2>2. \A k \in 1 .. 4 : general_headers[k] \in {
          "Cache-Control", "Connection", "Date", "Via" }
      BY DEF general_headers
  <2>3.
        /\ Dictionary[9] = "Cache-Control" /\ Dictionary[11] = "Connection"
        /\ Dictionary[18] = "Date" /\ Dictionary[43] = "Via"
      BY DEF Dictionary
  <2> QED BY <1>1, <1>2, <2>1, <2>2, <2>3
<1>3. CASE i = 2
  <2>1. h_set[2].headers = request_headers /\ Len(request_headers) = 9
      BY DEF h_set, request_headers
  <2>2. \A k \in 1 .. 9 : request_headers[k] \in {
          "Accept", "Accept-Encoding", "Accept-Language", "Authorization", "From",
          "If-Modified-Since", "Range", "Referer", "User-Agent" }
      BY DEF request_headers
  <2>3.
        /\ Dictionary[1] = "Accept" /\ Dictionary[2] = "Accept-Encoding"
        /\ Dictionary[3] = "Accept-Language" /\ Dictionary[5] = "Authorization"
        /\ Dictionary[20] = "From" /\ Dictionary[23] = "If-Modified-Since"
        /\ Dictionary[30] = "Range" /\ Dictionary[31] = "Referer"
        /\ Dictionary[41] = "User-Agent"
      BY DEF Dictionary
  <2> QED BY <1>1, <1>3, <2>1, <2>2, <2>3
<1>4. CASE i = 3
  <2>1. h_set[3].headers = response_headers /\ Len(response_headers) = 7
      BY DEF h_set, response_headers
  <2>2. \A k \in 1 .. 7 : response_headers[k] \in {
          "Location", "Proxy-Authenticate", "Public", "Retry-After", "Server", "Vary",
          "WWW-Authenticate" }
      BY DEF response_headers
  <2>3.
        /\ Dictionary[25] = "Location" /\ Dictionary[26] = "Proxy-Authenticate"
        /\ Dictionary[28] = "Public" /\ Dictionary[33] = "Retry-After"
        /\ Dictionary[35] = "Server" /\ Dictionary[42] = "Vary"
        /\ Dictionary[44] = "WWW-Authenticate"
      BY DEF Dictionary
  <2> QED BY <1>1, <1>4, <2>1, <2>2, <2>3
<1>5. CASE i = 4
  <2>1. h_set[4].headers = entity_headers /\ Len(entity_headers) = 9
      BY DEF h_set, entity_headers
  <2>2. \A k \in 1 .. 9 : entity_headers[k] \in {
          "Allow", "Content-Base", "Content-Encoding", "Content-Language",
          "Content-Length", "Content-Location", "Content-Type", "Expires", "Last-Modified" }
      BY DEF entity_headers
  <2>3.
        /\ Dictionary[4] = "Allow" /\ Dictionary[12] = "Content-Base"
        /\ Dictionary[13] = "Content-Encoding" /\ Dictionary[14] = "Content-Language"
        /\ Dictionary[15] = "Content-Length" /\ Dictionary[16] = "Content-Location"
        /\ Dictionary[17] = "Content-Type" /\ Dictionary[19] = "Expires"
        /\ Dictionary[24] = "Last-Modified"
      BY DEF Dictionary
  <2> QED BY <1>1, <1>5, <2>1, <2>2, <2>3
<1>6. CASE i = 5
  <2>1. h_set[5].headers = extension_headers /\ Len(extension_headers) = 15
      BY DEF h_set, extension_headers
  <2>2. \A k \in 1 .. 15 : extension_headers[k] \in {
          "Bandwidth", "Blocksize", "Conference", "CSeq", "Host", "If-Match",
          "Proxy-Require", "RTP-Info", "Require", "Scale", "Session", "Speed",
          "Timestamp", "Transport", "Unsupported" }
      BY SMTT(30) DEF extension_headers
  <2>3.
        /\ Dictionary[6] = "Bandwidth" /\ Dictionary[7] = "Blocksize"
        /\ Dictionary[10] = "Conference" /\ Dictionary[8] = "CSeq"
        /\ Dictionary[21] = "Host" /\ Dictionary[22] = "If-Match"
        /\ Dictionary[27] = "Proxy-Require" /\ Dictionary[29] = "RTP-Info"
        /\ Dictionary[32] = "Require" /\ Dictionary[34] = "Scale"
        /\ Dictionary[36] = "Session" /\ Dictionary[37] = "Speed"
        /\ Dictionary[38] = "Timestamp" /\ Dictionary[39] = "Transport"
        /\ Dictionary[40] = "Unsupported"
      BY DEF Dictionary
  <2> QED BY <1>1, <1>6, <2>1, <2>2, <2>3
<1> QED BY <1>2, <1>3, <1>4, <1>5, <1>6, SetsFacts

\* What is found in a set has the name that was looked for.
LEMMA RowIsWanted ==
    ASSUME NEW i \in Sets, NEW x \in Names, NEW j \in 1 .. Len(h_set[i].headers),
           Places(h_set[i].headers)[j] = Place(x)
    PROVE  h_set[i].headers[j] = x
<1> DEFINE y == h_set[i].headers[j]
<1>1. y \in Names
    BY RowsAreNames
<1>2. Place(y) = Place(x)
    BY DEF Places
<1> HIDE DEF y
<1>3. Dictionary[Place(y)] = y /\ Dictionary[Place(x)] = x
    BY <1>1, PlaceOfName
<1>4. y = x
    BY <1>2, <1>3
<1> QED BY <1>4 DEF y

LEMMA SetSizes ==
    ASSUME NEW i \in Sets
    PROVE  Len(h_set[i].headers) \in Nat /\ Len(Places(h_set[i].headers)) = Len(h_set[i].headers)
<1>1. Len(h_set[i].headers) \in Nat
  <2>1. Len(general_headers) \in Nat /\ Len(request_headers) \in Nat
      BY DEF general_headers, request_headers
  <2>2. Len(response_headers) \in Nat /\ Len(entity_headers) \in Nat
      BY DEF response_headers, entity_headers
  <2>3. Len(extension_headers) \in Nat
      BY DEF extension_headers
  <2> QED BY <2>1, <2>2, <2>3, SetsFacts DEF h_set
<1>2. Len(Places(h_set[i].headers)) = Len(h_set[i].headers)
  <2> DEFINE m == Len(h_set[i].headers)
             f == Places(h_set[i].headers)
  <2>1. m \in Nat
      BY <1>1
  <2>2. f = [k \in 1 .. m |-> Place(h_set[i].headers[k])]
      BY DEF Places
  <2> HIDE DEF m, f
  <2>3. f \in [1 .. m -> {f[k] : k \in 1 .. m}]
      BY <2>2
  <2>4. Len(f) = m
      BY <2>1, <2>3, FunctionIsSequence
  <2> QED BY <2>4 DEF m, f
<1> QED BY <1>1, <1>2

LEMMA SixAreNames ==
    ASSUME NEW x \in {"Session", "Date", "RTP-Info", "Public", "Content-Type", "Content-Length"}
    PROVE  x \in Names
<1>1. Len(Dictionary) = 45 /\ \A k \in 1 .. 45 : Dictionary[k] \in Names
  <2>1. Len(Dictionary) = 45
      BY DEF Dictionary
  <2> QED BY <2>1 DEF Names
<1>2. /\ Dictionary[36] = "Session" /\ Dictionary[18] = "Date" /\ Dictionary[29] = "RTP-Info"
      /\ Dictionary[28] = "Public" /\ Dictionary[17] = "Content-Type"
      /\ Dictionary[15] = "Content-Length"
    BY DEF Dictionary
<1> QED BY <1>1, <1>2

\* get_header's next set: one of those wanted, if any is left.
LEMMA FirstSetIs ==
    ASSUME NEW from \in 1 .. 5, NEW wanted, \E i \in from .. Len(h_set) : h_set[i].type \in wanted
    PROVE  /\ FirstSet(from, wanted) \in Sets /\ h_set[FirstSet(from, wanted)].type \in wanted
           /\ from <= FirstSet(from, wanted)
           /\ \A j \in from .. FirstSet(from, wanted) - 1 : h_set[j].type \notin wanted
<1> DEFINE P(i) == h_set[i].type \in wanted
           First(i) == P(i) /\ \A j \in from .. i - 1 : ~P(j)
<1>0. Len(h_set) = 5 /\ Sets = 1 .. 5
    BY SetsFacts DEF h_set
<1>1. \E i \in from .. 5 : P(i)
    BY <1>0
<1> HIDE DEF P
<1>2. \E i \in from .. 5 : First(i)
    BY <1>1
<1>3. PICK i \in from .. 5 : First(i) /\ i = CHOOSE j \in from .. 5 : First(j)
    BY <1>2
<1>4. FirstSet(from, wanted) = i
    BY <1>0, <1>3 DEF FirstSet, P
<1> QED BY <1>0, <1>3, <1>4 DEF P

(***************************************************************************)
(* What is known about a request while it is parsed and answered           *)
(***************************************************************************)
Answering == pc \in {"status", "handle", "transport", "add", "todo"}
Parsing == pc \in {"headers", "field"}

\* The rows that were found so far belong to the first headers of the message.
FieldsInv ==
    /\ msg \in Requests
    /\ fields \in Seq(Names \cup {"NULL"}) /\ n \in Nat
    /\ pc = "line" => fields = <<>>
    /\ Parsing => n = Len(fields) + 1 /\ Len(fields) <= Len(msg.headers)
    /\ pc = "field" => n <= Len(msg.headers)
    /\ pc = "process" \/ Answering => Len(fields) = Len(msg.headers)
    /\ Parsing \/ pc = "process" \/ Answering =>
        \A k \in 1 .. Len(fields) : fields[k] \in {"NULL", msg.headers[k].name}
    /\ Answering => n \in 1 .. Len(fields) + 1
    /\ pc \in {"add", "todo"} => n = Len(fields) + 1
    /\ pc = "transport" => n <= Len(fields) /\ fields[n] = "Transport"

\* What methods add, and where it stands.
Six == {"Session", "Date", "RTP-Info", "Public", "Content-Type", "Content-Length"}
Kinds == {"general", "response", "entity", "extension"}
Additions == {Header(x, t, Meant(x)) : x \in Six, t \in Kinds}

TodoInv ==
    /\ pc \in {"add", "todo"} => todo \in Seq(Additions)
    /\ pc = "todo" => todo # <<>>

\* The search that is under way is the one that was asked for.
SearchInv ==
    /\ LookupInv
    /\ pc \notin {"field", "todo", "status"} => Done
    /\ pc \in {"field", "todo"} => set \in Sets /\ table = Places(h_set[set].headers)
    /\ pc = "field" => key = Place(msg.headers[n].name)
    /\ pc = "todo" => key = Place(Head(todo).name)
    /\ pc = "status" => table = response_status

\* A message's headers have names.
LEMMA MessageFacts ==
    ASSUME msg \in Requests
    PROVE  /\ Len(msg.headers) \in Nat
           /\ \A k \in 1 .. Len(msg.headers) : msg.headers[k].name \in Names
BY RequestsAssumption

\* A request line with three words has a version, whatever the words overwrite.
LEMMA WholeHasVersion ==
    ASSUME NEW m \in Requests, Whole(m)
    PROVE  ~VersionEmpty(m)
<1>1. Len(m.words) = 3 /\ m.words[3] \in Nat \ {0}
  <2>1. m.words \in Seq(Nat \ {0}) /\ Len(m.words) = 3
      BY WordsAssumption DEF Whole
  <2> QED BY <2>1
<1>2. WordAt[3] = 55
    BY DEF WordAt
<1>3. WordAt[3] \in WordAt[3] .. WordAt[3] + m.words[3] - 1
    BY <1>1, <1>2
<1>4. \A j \in 3 + 1 .. Len(m.words) : WordAt[3] # WordAt[j] + m.words[j]
    BY <1>1
<1> QED BY <1>1, <1>3, <1>4 DEF VersionEmpty, InLine

\* The steps that leave their buffer.
Failing == TakeFieldAstray \/ TmpOverrun \/ HandleAstray \/ ResponseOverrun

LEMMA FailingStops ==
    ASSUME Failing
    PROVE  /\ pc' = "wild" /\ pc \in {"field", "transport", "todo", "handle", "add"}
           /\ pc \in {"field", "todo"} => Done
           /\ UNCHANGED <<parseVars, replyVars, callVars, set, types, lookupVars>>
<1>1. CASE TakeFieldAstray
    BY <1>1 DEF TakeFieldAstray, FieldSearched, Missed, Done, Searching
<1>2. CASE TmpOverrun
    BY <1>2 DEF TmpOverrun, At, Scanning, Scanned, Done, Searching
<1>3. CASE HandleAstray
    BY <1>3 DEF HandleAstray
<1>4. CASE ResponseOverrun
    BY <1>4 DEF ResponseOverrun
<1> QED BY <1>1, <1>2, <1>3, <1>4 DEF Failing

\* What get_header has found has the name of the header.
LEMMA FieldFound ==
    ASSUME FieldsInv, SearchInv, pc = "field"
    PROVE  RowFound \in {"NULL", msg.headers[n].name} /\ RowFound \in Names \cup {"NULL"}
<1>1. n \in 1 .. Len(msg.headers) /\ msg.headers[n].name \in Names
    BY MessageFacts DEF FieldsInv, Parsing
<1>2. CASE hit # 0
  <2>1. set \in Sets /\ table = Places(h_set[set].headers) /\ key = Place(msg.headers[n].name)
      BY DEF SearchInv
  <2>2. hit \in 0 .. Len(table) /\ table[hit] = key
      BY <1>2 DEF SearchInv, LookupInv, LookupTypeOK, HitIsKey
  <2>3. Len(table) = Len(h_set[set].headers)
      BY <2>1, SetSizes DEF Places
  <2>4. hit \in 1 .. Len(h_set[set].headers)
      BY <1>2, <2>2, <2>3, <2>1, SetSizes
  <2>5. h_set[set].headers[hit] = msg.headers[n].name
      BY <1>1, <2>1, <2>2, <2>4, RowIsWanted
  <2> QED BY <1>1, <1>2, <2>5 DEF RowFound
<1>3. CASE hit = 0
    BY <1>3 DEF RowFound
<1> QED BY <1>2, <1>3

\* And what is found of a header to be added.
LEMMA AdditionFound ==
    ASSUME TodoInv, SearchInv, pc = "todo", hit # 0
    PROVE  /\ Head(todo) \in Additions
           /\ RowFound = Head(todo).name
           /\ RowFound \in Six /\ Head(todo).text = Meant(RowFound)
<1>1. todo \in Seq(Additions) /\ todo # <<>>
    BY DEF TodoInv
<1>2. Head(todo) \in Additions
    BY <1>1
<1>3. PICK x \in Six, t \in Kinds : Head(todo) = Header(x, t, Meant(x))
    BY <1>2 DEF Additions
<1>4. Head(todo).name = x /\ Head(todo).text = Meant(x)
    BY <1>3 DEF Header
<1>5. x \in Names
    BY SixAreNames DEF Six
<1>6. set \in Sets /\ table = Places(h_set[set].headers) /\ key = Place(x)
    BY <1>4 DEF SearchInv
<1>7. hit \in 0 .. Len(table) /\ table[hit] = key
    BY DEF SearchInv, LookupInv, LookupTypeOK, HitIsKey
<1>8. hit \in 1 .. Len(h_set[set].headers)
  <2>1. Len(table) = Len(h_set[set].headers)
      BY <1>6, SetSizes DEF Places
  <2> QED BY <1>6, <1>7, <2>1, SetSizes
<1>9. h_set[set].headers[hit] = x
    BY <1>5, <1>6, <1>7, <1>8, RowIsWanted
<1> QED BY <1>2, <1>4, <1>9 DEF RowFound

LEMMA FieldsStep ==
    ASSUME FieldsInv, SearchInv, [Next]_vars
    PROVE  FieldsInv'
<1>0. /\ Len(msg.headers) \in Nat /\ Len(fields) \in Nat /\ n \in Nat
      /\ fields \in Seq(Names \cup {"NULL"})
    BY MessageFacts DEF FieldsInv
<1>1. CASE Receive
  <2>1. << >> \in Seq(Names \cup {"NULL"})
      OBVIOUS
  <2> QED BY <1>1, <1>0, <2>1 DEF Receive, FieldsInv, Parsing, Answering
<1>2. CASE ParseLine
  <2>1. fields = << >> /\ Len(fields) = 0
      BY <1>2 DEF ParseLine, FieldsInv
  <2> QED BY <1>2, <1>0, <2>1 DEF ParseLine, FieldsInv, Parsing, Answering
<1>3. CASE Failing
    BY <1>3, <1>0, FailingStops DEF FieldsInv, Parsing, Answering, parseVars
<1>21. CASE ParseLineShort
  <2>1. fields = << >> /\ Len(fields) = 0 /\ Len(msg.words) < 3 /\ pc' = "process" /\ UNCHANGED parseVars
      BY <1>21 DEF ParseLineShort, FieldsInv
  <2>2. msg.headers = << >>
      BY <2>1, WordsAssumption DEF FieldsInv
  <2> QED BY <2>1, <2>2, <1>0 DEF FieldsInv, Parsing, Answering, parseVars
<1>22. CASE ParseLineCut \/ ParseHeaderCut \/ HandleUnknown
    BY <1>22, <1>0 DEF ParseLineCut, ParseHeaderCut, HandleUnknown, FieldsInv, Parsing, Answering, parseVars
<1>4. CASE ParseHeader
    BY <1>4, <1>0 DEF ParseHeader, FieldsInv, Parsing, Answering, parseVars
<1>5. CASE Parsed
  <2>1. pc = "headers" /\ pc' = "process" /\ n = Len(msg.headers) + 1 /\ UNCHANGED parseVars
      BY <1>5 DEF Parsed
  <2>2. Len(fields) = Len(msg.headers)
      BY <1>0, <2>1 DEF FieldsInv, Parsing
  <2> QED BY <2>1, <2>2, <1>0 DEF FieldsInv, Parsing, Answering, parseVars
<1>6. CASE Compare \/ NextSet
    BY <1>6, <1>0 DEF Compare, NextSet, FieldsInv, Parsing, Answering, parseVars
<1>7. CASE TakeField
  <2>1. RowFound \in {"NULL", msg.headers[n].name} /\ RowFound \in Names \cup {"NULL"}
      BY <1>7, FieldFound DEF TakeField, FieldSearched
  <2>2. fields' = Append(fields, RowFound) /\ n' = n + 1 /\ msg' = msg
        /\ pc' \in {"wild", "headers"} /\ pc = "field"
      BY <1>7 DEF TakeField, FieldSearched
  <2> HIDE DEF RowFound
  <2>3. n = Len(fields) + 1 /\ n <= Len(msg.headers)
      BY <2>2 DEF FieldsInv, Parsing
  <2>4. fields' \in Seq(Names \cup {"NULL"}) /\ Len(fields') = n
      BY <2>1, <2>2, <2>3, <1>0
  <2>5. \A k \in 1 .. Len(fields') : fields'[k] \in {"NULL", msg.headers[k].name}
    <3> SUFFICES ASSUME NEW k \in 1 .. n PROVE fields'[k] \in {"NULL", msg.headers[k].name}
        BY <2>4
    <3>1. CASE k = n
        BY <3>1, <2>1, <2>2, <2>3, <1>0
    <3>2. CASE k # n
      <4>1. k \in 1 .. Len(fields) /\ fields'[k] = fields[k]
          BY <3>2, <2>2, <2>3, <1>0
      <4> QED BY <4>1, <2>2 DEF FieldsInv, Parsing
    <3> QED BY <3>1, <3>2
  <2> QED BY <1>0, <2>2, <2>3, <2>4, <2>5 DEF FieldsInv, Parsing, Answering
<1>8. CASE TakeStatus
    BY <1>8, <1>0 DEF TakeStatus, FieldsInv, Parsing, Answering, parseVars
<1>9. CASE ProcessHeader
  <2>1. /\ pc = "process" /\ pc' \in {"status", "aborted"} /\ msg' = msg /\ fields' = fields
        /\ pc' = "status" => n' = 1
        /\ n' \in {n, 1}
      BY <1>9 DEF ProcessHeader
  <2> QED BY <2>1, <1>0 DEF FieldsInv, Parsing, Answering
<1>10. CASE HandleDefault
    BY <1>10, <1>0 DEF HandleDefault, Handled, FieldsInv, Parsing, Answering
<1>11. CASE HandleCSeq
    BY <1>11, <1>0 DEF HandleCSeq, Handling, Handled, Room, FieldsInv, Parsing, Answering
<1>12. CASE HandleAccept
    BY <1>12, <1>0 DEF HandleAccept, Handling, Handled, FieldsInv, Parsing, Answering
<1>13. CASE HandleTransport
    BY <1>13, <1>0 DEF HandleTransport, Handling, Handled, FieldsInv, Parsing, Answering, parseVars
<1>14. CASE TransportWord \/ TransportProtocol \/ TransportCast \/ TransportParameter
            \/ TransportKey \/ TransportComma
  <2>1. UNCHANGED parseVars /\ pc = "transport" /\ pc' \in {"transport", "aborted"}
      BY <1>14 DEF TransportWord, TransportProtocol, TransportCast, TransportParameter,
            TransportKey, TransportComma, At, Scanning, ScanRest
  <2> QED BY <2>1, <1>0 DEF FieldsInv, Parsing, Answering, parseVars
<1>15. CASE TransportAnswer
  <2>1. pc = "transport" /\ pc' \in {"handle", "aborted"} /\ n' = n + 1 /\ msg' = msg /\ fields' = fields
      BY <1>15 DEF TransportAnswer, Scanned, Room
  <2> QED BY <2>1, <1>0 DEF FieldsInv, Parsing, Answering
<1>16. CASE Method
    BY <1>16, <1>0 DEF Method, Handled, FieldsInv, Parsing, Answering, parseVars
<1>17. CASE NextHeader
    BY <1>17, <1>0 DEF NextHeader, FieldsInv, Parsing, Answering, parseVars
<1>18. CASE AddNext
    BY <1>18, <1>0 DEF AddNext, Room, FieldsInv, Parsing, Answering, parseVars
<1>19. CASE Respond
    BY <1>19, <1>0 DEF Respond, FieldsInv, Parsing, Answering, parseVars
<1>20. CASE UNCHANGED vars
    BY <1>20, <1>0 DEF vars, parseVars, FieldsInv, Parsing, Answering
<1> QED BY <1>1, <1>2, <1>3, <1>4, <1>5, <1>6, <1>7, <1>8, <1>9, <1>10, <1>11, <1>12, <1>13,
           <1>14, <1>15, <1>16, <1>17, <1>18, <1>19, <1>20, <1>21, <1>22
       DEF Next, Step, Transport, Failing

LEMMA TwoAndOne ==
    ASSUME NEW x, NEW y, NEW z
    PROVE  <<x, y>> \o <<z>> = <<x, y, z>>
<1> DEFINE S == {x, y, z}
<1>1. <<x, y>> \in Seq(S) /\ <<z>> \in Seq(S) /\ <<x, y, z>> \in Seq(S)
    OBVIOUS
<1>2. Len(<<x, y>> \o <<z>>) = 3 /\ Len(<<x, y, z>>) = 3 /\ <<x, y>> \o <<z>> \in Seq(S)
    BY <1>1
<1>3. \A i \in 1 .. 3 : (<<x, y>> \o <<z>>)[i] = <<x, y, z>>[i]
  <2>1. (<<x, y>> \o <<z>>)[1] = x
      OBVIOUS
  <2>2. (<<x, y>> \o <<z>>)[2] = y
      OBVIOUS
  <2>3. (<<x, y>> \o <<z>>)[3] = z
      OBVIOUS
  <2> QED BY <2>1, <2>2, <2>3
<1> QED BY <1>1, <1>2, <1>3, SeqEqual

\* The headers a method adds are of the six, and say what they are meant to.
LEMMA MethodAdds ==
    ASSUME Method
    PROVE  todo' \in Seq(Additions')
<1> DEFINE A == Additions'
           type == Header("Content-Type", "entity", <<"application/sdp">>)
           length == Header("Content-Length", "entity", <<EntityLength>>)
           public == Header("Public", "response", supported_methods)
           session == Header("Session", "extension", <<"session">>)
           date == Header("Date", "general", <<"date">>)
           info == Header("RTP-Info", "extension", <<"seq", seq'>>)
<1>1. type \in A
    BY DEF Additions, Six, Kinds, Meant, Header
<1>2. length \in A
    BY DEF Additions, Six, Kinds, Meant, Header
<1>3. public \in A
    BY DEF Additions, Six, Kinds, Meant, Header
<1>4. session \in A
    BY DEF Additions, Six, Kinds, Meant, Header
<1>5. date \in A
    BY DEF Additions, Six, Kinds, Meant, Header
<1>6. info \in A
    BY DEF Additions, Six, Kinds, Meant, Header
<1>7. todo' \in {process_method_describe, process_method_options, process_method_play(seq'),
                 process_method_setup, << >>}
    BY DEF Method
<1>8. /\ process_method_describe = <<type, length>>
      /\ process_method_options = <<public>>
      /\ process_method_setup = <<session, date>>
    BY DEF process_method_describe, process_method_options, process_method_setup
<1>9. process_method_play(seq') = <<session, date, info>>
  <2>1. process_method_play(seq') = process_method_setup \o <<info>>
      BY DEF process_method_play
  <2> HIDE DEF session, date, info
  <2>2. <<session, date>> \o <<info>> = <<session, date, info>>
      BY TwoAndOne
  <2> QED BY <1>8, <2>1, <2>2
<1> HIDE DEF A, type, length, public, session, date, info
<1>10. /\ <<type, length>> \in Seq(A) /\ <<public>> \in Seq(A) /\ <<session, date>> \in Seq(A)
       /\ <<session, date, info>> \in Seq(A) /\ << >> \in Seq(A)
    BY <1>1, <1>2, <1>3, <1>4, <1>5, <1>6
<1> QED BY <1>7, <1>8, <1>9, <1>10 DEF A

LEMMA TodoStep ==
    ASSUME TodoInv, [Next]_vars
    PROVE  TodoInv'
<1>1. CASE Method
    BY <1>1, MethodAdds DEF TodoInv, Method
<1>2. CASE NextHeader
  <2>1. pc = "add" /\ todo # << >> /\ todo' = todo /\ seq' = seq
      BY <1>2 DEF NextHeader, replyVars
  <2>2. Additions' = Additions
      BY <2>1 DEF Additions, Meant
  <2> QED BY <2>1, <2>2 DEF TodoInv
<1>3. CASE AddNext
  <2>1. pc = "todo" /\ pc' \in {"add", "aborted"} /\ todo' = Tail(todo) /\ seq' = seq
      BY <1>3 DEF AddNext, Room
  <2>2. Additions' = Additions
      BY <2>1 DEF Additions, Meant
  <2>3. todo \in Seq(Additions) /\ todo # << >>
      BY <2>1 DEF TodoInv
  <2>4. Tail(todo) \in Seq(Additions)
      BY <2>3
  <2> QED BY <2>1, <2>2, <2>4 DEF TodoInv
<1>4. CASE Compare \/ NextSet \/ UNCHANGED vars
  <2>1. pc' = pc /\ todo' = todo /\ seq' = seq
      BY <1>4 DEF Compare, NextSet, vars, replyVars
  <2>2. Additions' = Additions
      BY <2>1 DEF Additions, Meant
  <2> QED BY <2>1, <2>2 DEF TodoInv
<1>5. ASSUME pc' \notin {"add", "todo"} PROVE TodoInv'
    BY <1>5 DEF TodoInv
<1>10. CASE Failing
    BY <1>5, <1>10, FailingStops
<1>6. CASE Receive \/ ParseLine \/ ParseLineCut \/ ParseLineShort \/ ParseHeader \/ ParseHeaderCut \/ Parsed
    BY <1>5, <1>6 DEF Receive, ParseLine, ParseLineCut, ParseLineShort, ParseHeader, ParseHeaderCut, Parsed
<1>7. CASE TakeField \/ TakeStatus \/ ProcessHeader \/ HandleDefault \/ HandleUnknown \/ HandleCSeq
    BY <1>5, <1>7, ZenonT(60)
       DEF TakeField, TakeStatus, ProcessHeader, HandleDefault, HandleUnknown, HandleCSeq, Room
<1>8. CASE HandleAccept \/ HandleTransport \/ Respond
    BY <1>5, <1>8 DEF HandleAccept, HandleTransport, Handling, Respond
<1>9. CASE Transport
    BY <1>5, <1>9, ZenonT(60) DEF Transport, TransportWord, TransportProtocol, TransportCast,
        TransportParameter, TransportKey, TransportComma, TransportAnswer, At, Scanning, Scanned, Room
<1> QED BY <1>1, <1>2, <1>3, <1>4, <1>6, <1>7, <1>8, <1>9, <1>10 DEF Next, Step, Failing

(***************************************************************************)
(* The searches                                                            *)
(***************************************************************************)
\* A set's table and a header's name may be searched for.
LEMMA MayBeSearched ==
    ASSUME NEW i \in Sets, NEW x \in Names
    PROVE  Places(h_set[i].headers) \in LookupTables /\ Place(x) \in LookupKeys
BY TablesAssumption DEF Sets

LEMMA SearchStarts ==
    ASSUME NEW wanted, NEW x \in Names, Done, \E i \in Sets : h_set[i].type \in wanted,
           Search(x, wanted)
    PROVE  /\ set' \in Sets /\ table' = Places(h_set[set'].headers) /\ key' = Place(x)
           /\ Call
<1>1. set' = FirstSet(1, wanted) /\ Start(Places(h_set[set'].headers), Place(x))
    BY DEF Search
<1>2. set' \in Sets
    BY <1>1, FirstSetIs DEF Sets
<1>3. table' = Places(h_set[set'].headers) /\ key' = Place(x)
    BY <1>1 DEF Start
<1>4. Places(h_set[set'].headers) \in LookupTables /\ Place(x) \in LookupKeys
    BY <1>2, MayBeSearched
<1> QED BY <1>1, <1>2, <1>3, <1>4 DEF Call

\* Every step of the server is a step of the search, or none.
LEMMA SearchStep ==
    ASSUME FieldsInv, TodoInv, SearchInv, [Next]_vars
    PROVE  [LookupNext]_lookupVars /\ SearchInv'
<1>0. LookupInv /\ Len(msg.headers) \in Nat
    BY MessageFacts DEF SearchInv, FieldsInv
<1>a. ASSUME [LookupNext]_lookupVars PROVE LookupInv'
    BY <1>0, <1>a, LookupInvNext
<1>1. CASE ParseHeader
  <2>1. Done /\ Search(msg.headers[n].name, REQ) /\ pc' = "field" /\ msg' = msg /\ n' = n
      BY <1>1 DEF ParseHeader, SearchInv, parseVars
  <2>2. msg.headers[n].name \in Names
    <3>1. n \in 1 .. Len(msg.headers)
        BY <1>1, <1>0 DEF ParseHeader, FieldsInv, Parsing
    <3> QED BY <3>1, MessageFacts DEF FieldsInv
  <2>3. 1 \in Sets /\ h_set[1].type \in REQ
      BY SetsFacts DEF REQ
  <2>4. /\ set' \in Sets /\ table' = Places(h_set[set'].headers)
        /\ key' = Place(msg.headers[n].name) /\ Call
      BY <2>1, <2>2, <2>3, SearchStarts
  <2>5. LookupInv'
      BY <2>4, <1>a DEF LookupNext
  <2> QED BY <2>1, <2>4, <2>5 DEF SearchInv, LookupNext
<1>2. CASE NextHeader
  <2>1. Done /\ Search(Head(todo).name, {Head(todo).type}) /\ pc' = "todo" /\ todo' = todo
      BY <1>2 DEF NextHeader, SearchInv, replyVars
  <2>2. Head(todo) \in Additions
    <3>1. todo \in Seq(Additions) /\ todo # << >>
        BY <1>2 DEF NextHeader, TodoInv
    <3> QED BY <3>1
  <2>3. PICK x \in Six, t \in Kinds : Head(todo) = Header(x, t, Meant(x))
      BY <2>2 DEF Additions
  <2>4. Head(todo).name = x /\ Head(todo).type = t
      BY <2>3 DEF Header
  <2>5. x \in Names
      BY SixAreNames DEF Six
  <2>6. \E i \in Sets : h_set[i].type \in {t}
      BY SetsFacts DEF Kinds
  <2>7. Search(x, {t})
      BY <2>1, <2>4
  <2>8. /\ set' \in Sets /\ table' = Places(h_set[set'].headers)
        /\ key' = Place(x) /\ Call
      BY <2>1, <2>5, <2>6, <2>7, SearchStarts
  <2>9. LookupInv'
      BY <2>8, <1>a DEF LookupNext
  <2> QED BY <2>1, <2>4, <2>8, <2>9 DEF SearchInv, LookupNext
<1>3. CASE NextSet
  <2>1. /\ Done /\ pc \in {"field", "todo"} /\ UNCHANGED <<pc, msg, n, todo>>
        /\ set' = FirstSet(set + 1, types) /\ Start(Places(h_set[set'].headers), key)
        /\ MoreSets
      BY <1>3 DEF NextSet, Missed, parseVars, replyVars
  <2>2. set' \in Sets
    <3>1. set \in Sets
        BY <2>1 DEF SearchInv
    <3>2. Sets = 1 .. 5 /\ Len(h_set) = 5
        BY SetsFacts DEF h_set
    <3>3. set + 1 \in 1 .. 5
        BY <2>1, <3>1, <3>2 DEF MoreSets
    <3> QED BY <2>1, <3>3, FirstSetIs DEF MoreSets
  <2>3. table' = Places(h_set[set'].headers) /\ key' = key
      BY <2>1 DEF Start
  <2>4. Call
    <3>1. Places(h_set[set'].headers) \in LookupTables
        BY <2>2, TablesAssumption DEF Sets
    <3>2. key \in LookupKeys
        BY <1>0 DEF LookupInv, LookupTypeOK
    <3> QED BY <2>1, <3>1, <3>2 DEF Call
  <2>5. LookupInv'
      BY <2>4, <1>a DEF LookupNext
  <2> QED BY <2>1, <2>2, <2>3, <2>4, <2>5 DEF SearchInv, LookupNext
<1>4. CASE ProcessHeader
  <2>1. Done /\ pc' \in {"status", "aborted"}
      BY <1>4 DEF ProcessHeader, SearchInv
  <2>2. CASE res.version = "" /\ ~VersionEmpty(msg)
    <3>1. Start(response_status, 200) /\ pc' = "status"
        BY <1>4, <2>2 DEF ProcessHeader
    <3>2. Call
        BY <2>1, <3>1, TablesAssumption DEF Call
    <3>3. LookupInv'
        BY <3>2, <1>a DEF LookupNext
    <3> QED BY <3>1, <3>2, <3>3 DEF SearchInv, LookupNext, Start
  <2>3. CASE ~(res.version = "" /\ ~VersionEmpty(msg))
    <3>1. UNCHANGED lookupVars /\ pc' = "aborted"
        BY <1>4, <2>3 DEF ProcessHeader
    <3>2. LookupInv'
        BY <3>1, <1>a
    <3> QED BY <2>1, <3>1, <3>2 DEF SearchInv, lookupVars, Done, Searching
  <2> QED BY <2>2, <2>3
<1>5. CASE HandleAccept
  <2>1. Done /\ pc = "handle"
      BY <1>5 DEF HandleAccept, Handling, SearchInv
  <2>2. CASE AcceptScan(Words)
    <3>1. UNCHANGED lookupVars /\ pc' = pc
        BY <1>5, <2>2 DEF HandleAccept
    <3>2. LookupInv'
        BY <3>1, <1>a
    <3> QED BY <2>1, <3>1, <3>2 DEF SearchInv, lookupVars, Done, Searching
  <2>3. CASE ~AcceptScan(Words)
    <3>1. Start(response_status, 406) /\ pc' = "status"
        BY <1>5, <2>3 DEF HandleAccept
    <3>2. Call
        BY <2>1, <3>1, TablesAssumption DEF Call
    <3>3. LookupInv'
        BY <3>2, <1>a DEF LookupNext
    <3> QED BY <3>1, <3>2, <3>3 DEF SearchInv, LookupNext, Start
  <2> QED BY <2>2, <2>3
<1>6. CASE Compare
  <2>1. pc \in {"field", "todo", "status"} /\ Look /\ UNCHANGED <<pc, msg, n, todo, set>>
      BY <1>6 DEF Compare, parseVars, replyVars
  <2>2. LookupInv'
      BY <2>1, <1>a DEF LookupNext
  <2>3. table' = table /\ key' = key
      BY <2>1 DEF Look, GoLeft, GoRight, Hit
  <2> QED BY <2>1, <2>2, <2>3 DEF SearchInv, LookupNext
<1>7. ASSUME UNCHANGED lookupVars, pc' \notin {"field", "todo", "status"},
             pc \in {"field", "todo", "status"} => Done
      PROVE  [LookupNext]_lookupVars /\ SearchInv'
  <2>1. LookupInv'
      BY <1>7, <1>a
  <2>2. Done
      BY <1>7 DEF SearchInv
  <2>3. Done'
      BY <1>7, <2>2 DEF lookupVars, Done, Searching
  <2> QED BY <1>7, <2>1, <2>3 DEF SearchInv
<1>14. CASE Failing
    BY <1>7, <1>14, FailingStops
<1>8. CASE Receive \/ ParseLine \/ ParseLineCut \/ ParseLineShort \/ ParseHeaderCut \/ Parsed
    BY <1>7, <1>8 DEF Receive, ParseLine, ParseLineCut, ParseLineShort, ParseHeaderCut, Parsed
<1>9. CASE TakeField \/ TakeStatus
    BY <1>7, <1>9 DEF TakeField, FieldSearched, TakeStatus, Missed, Done, Searching
<1>10. CASE HandleDefault \/ HandleUnknown \/ HandleCSeq \/ HandleTransport \/ Method \/ Respond
    BY <1>7, <1>10, SMTT(60)
       DEF HandleDefault, HandleUnknown, HandleCSeq, HandleTransport, Handling, Room, Method, Respond
<1>11. CASE Transport
    BY <1>7, <1>11, ZenonT(60) DEF Transport, TransportWord, TransportProtocol, TransportCast,
        TransportParameter, TransportKey, TransportComma, TransportAnswer, At, Scanning, Scanned, Room,
        ScanRest
<1>12. CASE AddNext
  <2>1. pc' \in {"add", "aborted"} /\ UNCHANGED lookupVars /\ hit # 0
      BY <1>12 DEF AddNext, Room
  <2> QED BY <1>7, <2>1 DEF Done, Searching
<1>13. CASE UNCHANGED vars
  <2>1. UNCHANGED lookupVars /\ UNCHANGED <<pc, msg, n, todo, set>>
      BY <1>13 DEF vars, parseVars, replyVars
  <2>2. LookupInv'
      BY <2>1, <1>a
  <2> QED BY <2>1, <2>2 DEF SearchInv, lookupVars, Done, Searching
<1> QED BY <1>1, <1>2, <1>3, <1>4, <1>5, <1>6, <1>8, <1>9, <1>10, <1>11, <1>12, <1>13, <1>14
       DEF Next, Step, Failing

(***************************************************************************)
(* The response and the buffer its values are in                           *)
(***************************************************************************)
Field == [name : Names, in : {"req", "tmp"}, at : Nat]
Response == [version : {"", "RTSP/1.0"}, status : Int, entity : {"none", "type", "sdp"},
             fields : Seq(Field)]

\* Every pointer into tmpbuf leads to what has been written.
ResInv ==
    /\ res \in Response
    /\ \E S : tmp \in Seq(S)
    /\ b \in 0 .. Len(tmp)
    /\ pc = "process" => res.version = ""
    /\ \A k \in 1 .. Len(res.fields) : res.fields[k].in = "tmp" => res.fields[k].at < b

\* t with a text in a place, which may be the next free one.
Put(t, place, text) ==
    IF place < Len(t) THEN [t EXCEPT ![place + 1] = text] ELSE Append(t, text)

LEMMA PutText ==
    ASSUME NEW S, NEW t \in Seq(S), NEW place \in 0 .. Len(t), NEW text
    PROVE  /\ Put(t, place, text) \in Seq(S \cup {text})
           /\ Len(t) <= Len(Put(t, place, text))
           /\ place + 1 <= Len(Put(t, place, text))
           /\ Put(t, place, text)[place + 1] = text
           /\ \A i \in 1 .. Len(t) : i # place + 1 => Put(t, place, text)[i] = t[i]
<1> DEFINE T == S \cup {text}
<1>1. t \in Seq(T) /\ text \in T /\ Len(t) \in Nat
    OBVIOUS
<1> HIDE DEF T
<1>2. CASE place < Len(t)
  <2>1. [t EXCEPT ![place + 1] = text] \in Seq(T) /\ Len([t EXCEPT ![place + 1] = text]) = Len(t)
      BY <1>1, <1>2, ExceptSeq
  <2>2. place + 1 \in 1 .. Len(t)
      BY <1>1, <1>2
  <2> QED BY <1>1, <1>2, <2>1, <2>2 DEF Put, T
<1>3. CASE ~(place < Len(t))
  <2>1. place = Len(t)
      BY <1>1, <1>3
  <2>2. /\ Append(t, text) \in Seq(T) /\ Len(Append(t, text)) = Len(t) + 1
        /\ Append(t, text)[Len(t) + 1] = text
        /\ \A i \in 1 .. Len(t) : Append(t, text)[i] = t[i]
      BY <1>1, AppendProperties
  <2> QED BY <1>1, <1>3, <2>1, <2>2 DEF Put, T
<1> QED BY <1>2, <1>3

\* Behind a text written at b the buffer still holds what lies before it.
LEMMA TextWritten ==
    ASSUME ResInv, NEW text, tmp' = Written(b, text), b' \in {b, b + 1}
    PROVE  /\ \E S : tmp' \in Seq(S)
           /\ b' \in 0 .. Len(tmp')
           /\ tmp'[b + 1] = text
           /\ \A i \in 1 .. b : tmp'[i] = tmp[i]
<1>1. PICK S : tmp \in Seq(S)
    BY DEF ResInv
<1>2. b \in 0 .. Len(tmp) /\ Len(tmp) \in Nat
  <2>1. b \in 0 .. Len(tmp)
      BY DEF ResInv
  <2>2. Len(tmp) \in Nat
      BY <1>1
  <2> QED BY <2>1, <2>2
<1>3. tmp' = Put(tmp, b, text)
    BY DEF Written, Put
<1>4. /\ tmp' \in Seq(S \cup {text}) /\ Len(tmp) <= Len(tmp') /\ b + 1 <= Len(tmp')
      /\ tmp'[b + 1] = text
      /\ \A i \in 1 .. Len(tmp) : i # b + 1 => tmp'[i] = tmp[i]
  <2>1. b \in 0 .. Len(tmp)
      BY <1>2
  <2>2. /\ Put(tmp, b, text) \in Seq(S \cup {text})
        /\ Len(tmp) <= Len(Put(tmp, b, text))
        /\ b + 1 <= Len(Put(tmp, b, text))
        /\ Put(tmp, b, text)[b + 1] = text
        /\ \A i \in 1 .. Len(tmp) : i # b + 1 => Put(tmp, b, text)[i] = tmp[i]
      BY <1>1, <2>1, PutText
  <2> QED BY <1>3, <2>2
<1>5. Len(tmp') \in Nat
    BY <1>4
<1> QED BY <1>2, <1>4, <1>5

\* A response with one header more.
LEMMA FieldAdded ==
    ASSUME res \in Response, NEW name \in Names, NEW memory \in {"req", "tmp"}, NEW place \in Nat,
           AddHeader(name, memory, place)
    PROVE  /\ res' \in Response /\ res'.version = res.version
           /\ Len(res'.fields) = Len(res.fields) + 1 /\ Len(res.fields) \in Nat
           /\ \A k \in 1 .. Len(res.fields) : res'.fields[k] = res.fields[k]
           /\ res'.fields[Len(res.fields) + 1].name = name
           /\ res'.fields[Len(res.fields) + 1].in = memory
           /\ res'.fields[Len(res.fields) + 1].at = place
           /\ res'.fields = Append(res.fields, [name |-> name, in |-> memory, at |-> place])
<1> DEFINE f == [name |-> name, in |-> memory, at |-> place]
<1>1. f \in Field /\ f.name = name /\ f.in = memory /\ f.at = place
    BY DEF Field
<1>2. res' = [res EXCEPT !.fields = Append(res.fields, f)]
    BY DEF AddHeader
<1> HIDE DEF f
<1>3. res.fields \in Seq(Field)
    BY DEF Response
<1>4. Append(res.fields, f) \in Seq(Field)
    BY <1>1, <1>3
<1>5. res' \in Response /\ res'.version = res.version /\ res'.fields = Append(res.fields, f)
    BY <1>2, <1>4 DEF Response
<1>6. /\ Len(res'.fields) = Len(res.fields) + 1 /\ Len(res.fields) \in Nat
      /\ res'.fields[Len(res.fields) + 1] = f
      /\ \A k \in 1 .. Len(res.fields) : res'.fields[k] = res.fields[k]
    BY <1>1, <1>3, <1>5
<1> QED BY <1>1, <1>5, <1>6 DEF f

LEMMA HandledNames == "CSeq" \in Names /\ "Transport" \in Names
<1>1. Len(Dictionary) = 45 /\ \A k \in 1 .. 45 : Dictionary[k] \in Names
  <2>1. Len(Dictionary) = 45
      BY DEF Dictionary
  <2> QED BY <2>1 DEF Names
<1>2. Dictionary[8] = "CSeq" /\ Dictionary[39] = "Transport"
    BY DEF Dictionary
<1> QED BY <1>1, <1>2

\* What the answer to a transport does to the response and the buffer.
LEMMA AnswerWritten ==
    ASSUME ResInv, TransportAnswer
    PROVE  /\ \E S : tmp' \in Seq(S)
           /\ b' \in 0 .. Len(tmp') /\ b <= b'
           /\ \/ UNCHANGED res
              \/ \E place \in Nat : place < b' /\ AddHeader("Transport", "tmp", place)
           /\ \A i \in 1 .. b : tmp'[i] = tmp[i]
           /\ trn.allowed => \E place \in Nat : /\ AddHeader("Transport", "tmp", place)
                                               /\ tmp'[place + 1] = OfferRepeated
           /\ b' = (IF trn.sign THEN b + 1 ELSE b) + (IF trn.allowed THEN 1 ELSE 0)
<1> DEFINE offer == OfferRepeated
           value == LastValue
           copied == IF trn.sign THEN Written(b, value) ELSE tmp
           place == IF trn.sign THEN b + 1 ELSE b
<1>1. PICK S : tmp \in Seq(S)
    BY DEF ResInv
<1>2. b \in 0 .. Len(tmp) /\ Len(tmp) \in Nat
  <2>1. b \in 0 .. Len(tmp)
      BY DEF ResInv
  <2>2. Len(tmp) \in Nat
      BY <1>1
  <2> QED BY <2>1, <2>2
<1>3. /\ trn.allowed => /\ tmp' = Put(copied, place, offer) /\ b' = place + 1
                        /\ AddHeader("Transport", "tmp", place)
      /\ ~trn.allowed => tmp' = copied /\ b' = place /\ res' = res
    BY DEF TransportAnswer, Put
<1> HIDE DEF offer, value
<1>4. /\ copied \in Seq(S \cup {value}) /\ place \in 0 .. Len(copied) /\ b <= place /\ place \in Nat
      /\ \A i \in 1 .. b : copied[i] = tmp[i]
  <2>1. CASE trn.sign
    <3>1. copied = Put(tmp, b, value) /\ place = b + 1
        BY <2>1 DEF Put, Written
    <3> HIDE DEF copied, place
    <3>a. b \in 0 .. Len(tmp)
        BY <1>2
    <3>2. /\ Put(tmp, b, value) \in Seq(S \cup {value})
          /\ Len(tmp) <= Len(Put(tmp, b, value))
          /\ b + 1 <= Len(Put(tmp, b, value))
          /\ Put(tmp, b, value)[b + 1] = value
          /\ \A i \in 1 .. Len(tmp) : i # b + 1 => Put(tmp, b, value)[i] = tmp[i]
        BY <1>1, <3>a, PutText
    <3>3. /\ copied \in Seq(S \cup {value}) /\ b + 1 <= Len(copied)
          /\ \A i \in 1 .. Len(tmp) : i # b + 1 => copied[i] = tmp[i]
        BY <3>1, <3>2
    <3>4. Len(copied) \in Nat
      <4>1. copied \in Seq(S \cup {value})
          BY <3>3
      <4> QED BY <4>1
    <3>5. \A i \in 1 .. b : i \in 1 .. Len(tmp) /\ i # b + 1
        BY <1>2
    <3> QED BY <1>2, <3>1, <3>3, <3>4, <3>5
  <2>2. CASE ~trn.sign
    <3>1. copied = tmp /\ place = b
        BY <2>2
    <3>2. tmp \in Seq(S \cup {value})
        BY <1>1
    <3> HIDE DEF copied, place
    <3> QED BY <3>1, <3>2, <1>2
  <2> QED BY <2>1, <2>2
<1> HIDE DEF copied, place
<1>5. CASE trn.allowed
  <2>1. /\ tmp' \in Seq((S \cup {value}) \cup {offer}) /\ place + 1 <= Len(tmp')
        /\ tmp'[place + 1] = offer
        /\ \A i \in 1 .. Len(copied) : i # place + 1 => tmp'[i] = copied[i]
    <3>0. PICK c, o, i0 : c = copied /\ o = offer /\ i0 = place
        OBVIOUS
    <3>1. PICK V : V = S \cup {value} /\ c \in Seq(V)
        BY <1>4, <3>0
    <3>2. i0 \in 0 .. Len(c)
        BY <1>4, <3>0
    <3>3. /\ Put(c, i0, o) \in Seq(V \cup {o})
          /\ Len(c) <= Len(Put(c, i0, o))
          /\ i0 + 1 <= Len(Put(c, i0, o))
          /\ Put(c, i0, o)[i0 + 1] = o
          /\ \A i \in 1 .. Len(c) : i # i0 + 1 => Put(c, i0, o)[i] = c[i]
        BY <3>1, <3>2, PutText
    <3>4. tmp' = Put(c, i0, o)
        BY <1>3, <1>5, <3>0
    <3> QED BY <3>0, <3>1, <3>3, <3>4
  <2>2. Len(tmp') \in Nat /\ Len(copied) \in Nat
    <3>1. tmp' \in Seq((S \cup {value}) \cup {offer}) /\ copied \in Seq(S \cup {value})
        BY <1>4, <2>1
    <3> QED BY <3>1
  <2>3. ASSUME NEW i \in 1 .. b PROVE tmp'[i] = tmp[i]
    <3>1. i \in 1 .. Len(copied) /\ i # place + 1
        BY <1>2, <1>4, <2>2
    <3> QED BY <1>4, <2>1, <3>1
  <2>4. place < b' /\ b' = place + 1
      BY <1>3, <1>4, <1>5
  <2> QED BY <1>2, <1>3, <1>4, <1>5, <2>1, <2>2, <2>3, <2>4 DEF offer, place
<1>6. CASE ~trn.allowed
  <2>1. b' = place /\ place = place + 0
      BY <1>3, <1>4, <1>6
  <2> QED BY <1>3, <1>4, <1>6, <2>1 DEF place
<1> QED BY <1>5, <1>6

LEMMA FieldFacts ==
    ASSUME NEW q \in Seq(Field), NEW k \in 1 .. Len(q)
    PROVE  q[k].at \in Nat /\ q[k].name \in Names
<1>1. q[k] \in Field
    OBVIOUS
<1>2. \A f \in Field : f.at \in Nat /\ f.name \in Names
    BY DEF Field
<1> QED BY <1>1, <1>2

LEMMA SameResponse ==
    ASSUME ResInv, UNCHANGED res, pc' # "process",
           \E S : tmp' \in Seq(S), b' \in 0 .. Len(tmp'), b <= b'
    PROVE  ResInv'
<1>1. res.fields \in Seq(Field)
    BY DEF ResInv, Response
<1>2. b \in Int /\ b' \in Int
  <2>1. b \in 0 .. Len(tmp)
      BY DEF ResInv
  <2> QED BY <2>1
<1>3. ASSUME NEW k \in 1 .. Len(res.fields), res.fields[k].in = "tmp"
      PROVE  res.fields[k].at < b'
  <2>1. res.fields[k].at < b
      BY <1>3 DEF ResInv
  <2>2. res.fields[k].at \in Nat
      BY <1>1, FieldFacts
  <2> QED BY <1>2, <2>1, <2>2
<1> QED BY <1>3 DEF ResInv

\* A response without a new header, and one with.
LEMMA SameFields ==
    ASSUME ResInv, res' \in Response, res'.fields = res.fields, UNCHANGED <<tmp, b>>,
           pc' = "process" => res'.version = ""
    PROVE  ResInv'
BY DEF ResInv

LEMMA OneFieldMore ==
    ASSUME ResInv, NEW name \in Names, NEW memory \in {"req", "tmp"}, NEW place \in Nat,
           AddHeader(name, memory, place), pc' # "process",
           \E S : tmp' \in Seq(S), b' \in 0 .. Len(tmp'), b <= b',
           memory = "tmp" => place < b'
    PROVE  ResInv'
<1>1. /\ res' \in Response
      /\ Len(res'.fields) = Len(res.fields) + 1 /\ Len(res.fields) \in Nat
      /\ \A k \in 1 .. Len(res.fields) : res'.fields[k] = res.fields[k]
      /\ res'.fields[Len(res.fields) + 1].in = memory
      /\ res'.fields[Len(res.fields) + 1].at = place
    BY FieldAdded, ZenonT(40) DEF ResInv
<1>2. ASSUME NEW k \in 1 .. Len(res'.fields), res'.fields[k].in = "tmp"
      PROVE  res'.fields[k].at < b'
  <2>1. CASE k = Len(res.fields) + 1
      BY <1>1, <1>2, <2>1
  <2>2. CASE k # Len(res.fields) + 1
    <3>1. k \in 1 .. Len(res.fields) /\ res'.fields[k] = res.fields[k]
        BY <1>1, <2>2
    <3>2. res.fields[k].at < b
        BY <3>1, <1>2 DEF ResInv
    <3>3. res.fields \in Seq(Field)
        BY DEF ResInv, Response
    <3>4. res.fields[k].at \in Nat
        BY <3>1, <3>3, FieldFacts
    <3>5. b \in Int /\ b' \in Int
      <4>1. b \in 0 .. Len(tmp)
          BY DEF ResInv
      <4> QED BY <4>1
    <3> QED BY <3>1, <3>2, <3>4, <3>5
  <2> QED BY <2>1, <2>2
<1> QED BY <1>1, <1>2 DEF ResInv

LEMMA ResStep ==
    ASSUME FieldsInv, TodoInv, SearchInv, ResInv, [Next]_vars
    PROVE  ResInv'
<1>0. /\ res \in Response /\ res.fields \in Seq(Field) /\ n \in Nat
      /\ b \in 0 .. Len(tmp) /\ \E S : tmp \in Seq(S)
    BY DEF ResInv, Response, FieldsInv
<1>b. b \in Nat /\ b + 1 \in Nat
    BY <1>0
<1>s. ASSUME UNCHANGED <<res, tmp, b>>, pc' # "process" PROVE ResInv'
    BY <1>s, <1>0, SameFields
<1>17. CASE Failing
    BY <1>17, <1>s, FailingStops DEF replyVars
<1>1. CASE Receive \/ ParseLine \/ ParseLineCut \/ ParseHeader \/ ParseHeaderCut \/ TakeField
    BY <1>1, <1>s DEF Receive, ParseLine, ParseLineCut, ParseHeader, ParseHeaderCut, TakeField,
        replyVars
<1>2. CASE Compare \/ NextSet
    BY <1>2, <1>s DEF Compare, NextSet, replyVars
<1>3. CASE HandleDefault \/ HandleUnknown \/ HandleTransport \/ NextHeader
    BY <1>3, <1>s DEF HandleDefault, HandleUnknown, Handling, HandleTransport, NextHeader, replyVars
<1>4. CASE TransportWord \/ TransportProtocol \/ TransportCast \/ TransportComma
    BY <1>4, <1>s DEF TransportWord, TransportProtocol, TransportCast, TransportComma, At, Scanning,
        ScanRest
<1>5. CASE Parsed \/ ParseLineShort
  <2>1. res' = [res EXCEPT !.version = ""] /\ UNCHANGED <<tmp, b>>
      BY <1>5 DEF Parsed, ParseLineShort
  <2>2. res' \in Response /\ res'.fields = res.fields /\ res'.version = ""
      BY <2>1, <1>0 DEF Response
  <2> QED BY <2>1, <2>2, SameFields
<1>6. CASE TakeStatus
  <2>1. /\ res' = [res EXCEPT !.status = IF hit # 0 THEN response_status[hit] ELSE 0]
        /\ UNCHANGED <<tmp, b>> /\ pc = "status" /\ pc' = "handle"
      BY <1>6 DEF TakeStatus
  <2>2. (IF hit # 0 THEN response_status[hit] ELSE 0) \in Int
    <3>1. table = response_status /\ hit \in 0 .. Len(table)
        BY <2>1 DEF SearchInv, LookupInv, LookupTypeOK
    <3>2. \A i \in 1 .. Len(table) : table[i] \in Int
        BY IntegerTables DEF SearchInv, LookupInv
    <3> QED BY <3>1, <3>2
  <2>3. res' \in Response /\ res'.fields = res.fields
      BY <2>1, <2>2, <1>0 DEF Response
  <2> QED BY <2>1, <2>3, SameFields
<1>7. CASE ProcessHeader
  <2>0. CASE VersionEmpty(msg)
      BY <1>7, <2>0, <1>s DEF ProcessHeader
  <2>1. CASE ~VersionEmpty(msg)
    <3>1. b' = 0 /\ tmp' = tmp /\ pc = "process" /\ pc' # "process" /\ res.version = ""
        BY <1>7, <2>1 DEF ProcessHeader, ResInv
    <3>2. res' = [res EXCEPT !.fields = <<>>, !.entity = "none"]
        BY <1>7, <2>1, <3>1 DEF ProcessHeader
    <3>3. res' \in Response /\ res'.fields = << >>
      <4>1. << >> \in Seq(Field)
          OBVIOUS
      <4> QED BY <3>2, <4>1, <1>0 DEF Response
    <3>4. Len(tmp) \in Nat /\ 0 \in 0 .. Len(tmp)
        BY <1>0
    <3>5. Len(res'.fields) = 0 /\ b' \in 0 .. Len(tmp') /\ \E S : tmp' \in Seq(S)
        BY <3>1, <3>3, <3>4, <1>0
    <3>6. ASSUME NEW k \in 1 .. Len(res'.fields) PROVE FALSE
        BY <3>5
    <3>7. res' \in Response /\ pc' # "process"
        BY <3>1, <3>3
    <3> QED BY <3>5, <3>6, <3>7 DEF ResInv
  <2> QED BY <2>0, <2>1
<1>8. CASE HandleCSeq
  <2>1. AddHeader("CSeq", "req", n) /\ UNCHANGED <<tmp, b>> /\ pc' # "process"
      BY <1>8 DEF HandleCSeq, Room
  <2> QED BY <2>1, <1>0, HandledNames, OneFieldMore
<1>9. CASE HandleAccept
  <2>1. UNCHANGED <<tmp, b>> /\ pc' # "process" /\ (res' = res \/ res' = [res EXCEPT !.entity = "type"])
      BY <1>9 DEF HandleAccept, Handling
  <2>2. res' \in Response /\ res'.fields = res.fields
      BY <2>1, <1>0 DEF Response
  <2> QED BY <2>1, <2>2, SameFields
<1>10. CASE TransportParameter
  <2>1. res' = res /\ pc' = "transport"
      BY <1>10 DEF TransportParameter, At, Scanning, ScanRest
  <2>2. CASE trn.sign
    <3>1. tmp' = Written(b, Value) /\ b' = b + 1
        BY <1>10, <2>2 DEF TransportParameter, MoveBehind
    <3>2. (\E S : tmp' \in Seq(S)) /\ b' \in 0 .. Len(tmp')
        BY <3>1, TextWritten
    <3> QED BY <2>1, <3>1, <3>2, <1>b, SameResponse
  <2>3. CASE ~trn.sign
      BY <1>10, <2>1, <2>3, <1>s DEF TransportParameter
  <2> QED BY <2>2, <2>3
<1>11. CASE TransportKey
  <2>1. res' = res /\ pc' = "transport" /\ tmp' = Written(b, Value) /\ b' = b
      BY <1>11 DEF TransportKey, At, Scanning, ScanRest
  <2>2. (\E S : tmp' \in Seq(S)) /\ b' \in 0 .. Len(tmp')
      BY <2>1, TextWritten
  <2> QED BY <2>1, <2>2, <1>0 DEF ResInv
<1>12. CASE TransportAnswer
  <2>1. /\ \E S : tmp' \in Seq(S)
        /\ b' \in 0 .. Len(tmp') /\ b <= b'
        /\ \/ UNCHANGED res
           \/ \E place \in Nat : place < b' /\ AddHeader("Transport", "tmp", place)
      BY <1>12, AnswerWritten
  <2>2. pc' # "process"
      BY <1>12 DEF TransportAnswer, Room
  <2>3. CASE UNCHANGED res
      BY <2>1, <2>2, <2>3, SameResponse
  <2>4. CASE \E place \in Nat : place < b' /\ AddHeader("Transport", "tmp", place)
    <3>1. PICK place \in Nat : place < b' /\ AddHeader("Transport", "tmp", place)
        BY <2>4
    <3> QED BY <2>1, <2>2, <3>1, HandledNames, OneFieldMore
  <2> QED BY <2>1, <2>3, <2>4
<1>13. CASE Method
  <2>1. /\ UNCHANGED <<tmp, b>> /\ pc' = "add"
        /\ res' = [res EXCEPT !.entity =
                      IF msg.method = "DESCRIBE" /\ @ # "none" THEN "sdp" ELSE @]
      BY <1>13 DEF Method
  <2>2. res' \in Response /\ res'.fields = res.fields
      BY <2>1, <1>0 DEF Response
  <2> QED BY <2>1, <2>2, SameFields
<1>14. CASE AddNext
  <2>1. /\ tmp' = Written(b, Head(todo).text) /\ b' = b + 1
        /\ AddHeader(RowFound, "tmp", b) /\ pc' # "process" /\ pc = "todo" /\ hit # 0
      BY <1>14 DEF AddNext, MoveBehind, Room
  <2>2. RowFound \in Names
      BY <2>1, AdditionFound, SixAreNames DEF Six
  <2>3. (\E S : tmp' \in Seq(S)) /\ b' \in 0 .. Len(tmp')
      BY <2>1, TextWritten
  <2>4. b \in Nat /\ b < b' /\ b <= b'
      BY <2>1, <1>0
  <2> QED BY <2>1, <2>2, <2>3, <2>4, OneFieldMore
<1>15. CASE Respond
  <2>1. res' = [res EXCEPT !.version = "RTSP/1.0"] /\ UNCHANGED <<tmp, b>> /\ pc' = "idle"
      BY <1>15 DEF Respond
  <2>2. res' \in Response /\ res'.fields = res.fields
      BY <2>1, <1>0 DEF Response
  <2> QED BY <2>1, <2>2, SameFields
<1>16. CASE UNCHANGED vars
    BY <1>16 DEF vars, replyVars, ResInv
<1> QED BY <1>1, <1>2, <1>3, <1>4, <1>5, <1>6, <1>7, <1>8, <1>9, <1>10, <1>11, <1>12, <1>13,
           <1>14, <1>15, <1>16, <1>17 DEF Next, Step, Transport, Failing

(***************************************************************************)
(* What the response says                                                  *)
(***************************************************************************)
\* What header k of the message says, if it has the name, and what a header of the
\* answer says of a CSeq.
Item(name, k) == IF msg.headers[k].name = name THEN <<msg.headers[k].says>> ELSE << >>
Asked(name, m) == [k \in 1 .. m |-> Item(name, k)]
GivenItem(f) == IF f.name = "CSeq" THEN <<msg.headers[f.at].says>> ELSE << >>
Given == [k \in 1 .. Len(res.fields) |-> GivenItem(res.fields[k])]

RightCSeq(f) ==
    f.name = "CSeq" => /\ f.in = "req" /\ f.at \in 1 .. Len(msg.headers)
                       /\ msg.headers[f.at].name = "CSeq"
RightText(f) ==
    f.name \notin {"CSeq", "Transport"} =>
        pc \in {"add", "todo"} /\ f.in = "tmp" /\ tmp[f.at + 1] = Meant(f.name)

\* The answer has as many CSeqs as the headers before n, in their order, and each
\* other text is where its header points to.
AnswerInv ==
    Answering =>
        /\ \A k \in 1 .. Len(res.fields) : RightCSeq(res.fields[k]) /\ RightText(res.fields[k])
        /\ FlattenSeq(Given) = FlattenSeq(Asked("CSeq", n - 1))

Says == {msg.headers[k].says : k \in 1 .. Len(msg.headers)}

LEMMA AskedIsSeq ==
    ASSUME FieldsInv, NEW name, NEW m \in 0 .. Len(msg.headers)
    PROVE  Asked(name, m) \in Seq(Seq(Says)) /\ Len(Asked(name, m)) = m
<1>1. m \in Nat /\ Len(msg.headers) \in Nat
    BY MessageFacts DEF FieldsInv
<1>2. \A k \in 1 .. m : Item(name, k) \in Seq(Says)
  <2> SUFFICES ASSUME NEW k \in 1 .. m PROVE Item(name, k) \in Seq(Says)
      OBVIOUS
  <2>1. k \in 1 .. Len(msg.headers)
      BY <1>1
  <2>2. msg.headers[k].says \in Says
      BY <2>1 DEF Says
  <2> QED BY <2>2 DEF Item
<1>3. Asked(name, m) \in [1 .. m -> Seq(Says)]
    BY <1>2 DEF Asked
<1> QED BY <1>1, <1>3, FunctionIsSequence

LEMMA AskedMore ==
    ASSUME FieldsInv, NEW name, NEW m \in 1 .. Len(msg.headers)
    PROVE  FlattenSeq(Asked(name, m)) = FlattenSeq(Asked(name, m - 1)) \o Item(name, m)
<1>1. Len(msg.headers) \in Nat
    BY MessageFacts DEF FieldsInv
<1>2. m \in 0 .. Len(msg.headers) /\ m - 1 \in 0 .. Len(msg.headers)
    BY <1>1
<1>3. /\ Asked(name, m) \in Seq(Seq(Says)) /\ Len(Asked(name, m)) = m
      /\ Asked(name, m - 1) \in Seq(Seq(Says)) /\ Len(Asked(name, m - 1)) = m - 1
    BY <1>2, AskedIsSeq
<1>4. Item(name, m) \in Seq(Says)
  <2>1. msg.headers[m].says \in Says
      BY DEF Says
  <2> QED BY <2>1 DEF Item
<1>5. Asked(name, m) = Append(Asked(name, m - 1), Item(name, m))
  <2>1. /\ \A k \in 1 .. m : Asked(name, m)[k] = Item(name, k)
        /\ \A k \in 1 .. m - 1 : Asked(name, m - 1)[k] = Item(name, k)
      BY DEF Asked
  <2> DEFINE p == Asked(name, m - 1)
             q == Asked(name, m)
             last == Item(name, m)
  <2>2. p \in Seq(Seq(Says)) /\ Len(p) = m - 1 /\ q \in Seq(Seq(Says)) /\ Len(q) = m
      BY <1>3
  <2>3. q[m] = last /\ \A k \in 1 .. m - 1 : q[k] = p[k]
      BY <1>1, <2>1
  <2>4. last \in Seq(Says)
      BY <1>4
  <2> HIDE DEF p, q, last
  <2>5. Append(p, last) \in Seq(Seq(Says)) /\ Len(Append(p, last)) = m
      BY <2>2, <2>4, <1>1
  <2>6. \A k \in 1 .. m : Append(p, last)[k] = q[k]
      BY <2>2, <2>3, <1>1
  <2>7. q = Append(p, last)
      BY <2>2, <2>5, <2>6, SeqEqual
  <2> QED BY <2>7 DEF p, q, last
<1> QED BY <1>3, <1>4, <1>5, FlattenAppend

LEMMA GivenIsSeq ==
    ASSUME ResInv, AnswerInv, Answering
    PROVE  Given \in Seq(Seq(Says)) /\ Len(Given) = Len(res.fields) /\ Len(res.fields) \in Nat
<1>1. Len(res.fields) \in Nat
  <2>1. res.fields \in Seq(Field)
      BY DEF ResInv, Response
  <2> QED BY <2>1
<1>2. \A k \in 1 .. Len(res.fields) : GivenItem(res.fields[k]) \in Seq(Says)
  <2> SUFFICES ASSUME NEW k \in 1 .. Len(res.fields) PROVE GivenItem(res.fields[k]) \in Seq(Says)
      OBVIOUS
  <2> DEFINE f == res.fields[k]
  <2>1. f.name = "CSeq" => f.at \in 1 .. Len(msg.headers)
      BY DEF AnswerInv, RightCSeq
  <2> HIDE DEF f
  <2>2. f.name = "CSeq" => msg.headers[f.at].says \in Says
      BY <2>1 DEF Says
  <2>3. GivenItem(f) \in Seq(Says)
      BY <2>2 DEF GivenItem
  <2> QED BY <2>3 DEF f
<1>3. Given \in [1 .. Len(res.fields) -> Seq(Says)]
    BY <1>2 DEF Given
<1> QED BY <1>1, <1>3, FunctionIsSequence

\* No header more: the answer is as good as before, if the next header of the
\* message asks for none.
LEMMA NoFieldMore ==
    ASSUME FieldsInv, ResInv, AnswerInv, Answering, msg' = msg, res'.fields = res.fields,
           n' = n \/ (n' = n + 1 /\ n <= Len(fields) /\ msg.headers[n].name # "CSeq"),
           pc \notin {"add", "todo"} \/ (pc' \in {"add", "todo"} /\ tmp' = tmp /\ seq' = seq)
    PROVE  AnswerInv'
<1>1. \A k \in 1 .. Len(res.fields) : RightCSeq(res.fields[k])' /\ RightText(res.fields[k])'
    BY ZenonT(40) DEF AnswerInv, RightCSeq, RightText, Meant
<1>2. Given' = Given
    BY DEF Given, GivenItem
<1>3. FlattenSeq(Asked("CSeq", n' - 1)) = FlattenSeq(Asked("CSeq", n - 1))
  <2>1. CASE n' = n
      BY <2>1
  <2>2. CASE n' = n + 1 /\ n <= Len(fields) /\ msg.headers[n].name # "CSeq"
    <3>1. Len(fields) = Len(msg.headers) /\ Len(fields) \in Nat /\ n \in 1 .. Len(fields) + 1
        BY MessageFacts DEF FieldsInv
    <3>2. n \in 1 .. Len(msg.headers) /\ n' - 1 = n /\ n - 1 \in 0 .. Len(msg.headers)
        BY <2>2, <3>1
    <3>3. FlattenSeq(Asked("CSeq", n)) = FlattenSeq(Asked("CSeq", n - 1)) \o Item("CSeq", n)
        BY <3>2, AskedMore
    <3>4. Item("CSeq", n) = << >>
        BY <2>2 DEF Item
    <3>5. FlattenSeq(Asked("CSeq", n - 1)) \in Seq(Says)
        BY <3>2, AskedIsSeq, FlattenIsSeq
    <3> QED BY <3>2, <3>3, <3>4, <3>5, ConcatEmptySeq
  <2> QED BY <2>1, <2>2
<1>4. Asked("CSeq", n - 1)' = Asked("CSeq", n' - 1)
    BY DEF Asked, Item
<1> QED BY <1>1, <1>2, <1>3, <1>4 DEF AnswerInv

\* One header more, which says what is asked.
LEMMA OneMoreSaid ==
    ASSUME FieldsInv, ResInv, AnswerInv, Answering, msg' = msg,
           NEW name \in Names, NEW memory \in {"req", "tmp"}, NEW place \in Nat,
           AddHeader(name, memory, place),
           FlattenSeq(Asked("CSeq", n' - 1)) =
               FlattenSeq(Asked("CSeq", n - 1)) \o GivenItem([name |-> name, in |-> memory, at |-> place]),
           name = "CSeq" => memory = "req" /\ place \in 1 .. Len(msg.headers)
                            /\ msg.headers[place].name = "CSeq",
           name \notin {"CSeq", "Transport"} =>
               pc' \in {"add", "todo"} /\ memory = "tmp" /\ tmp'[place + 1] = Meant(name)',
           pc \notin {"add", "todo"} \/
               (pc' \in {"add", "todo"} /\ seq' = seq /\ \A i \in 1 .. b : tmp'[i] = tmp[i])
    PROVE  AnswerInv'
<1> DEFINE f == [name |-> name, in |-> memory, at |-> place]
<1>1. /\ Len(res'.fields) = Len(res.fields) + 1 /\ Len(res.fields) \in Nat
      /\ \A k \in 1 .. Len(res.fields) : res'.fields[k] = res.fields[k]
      /\ res'.fields = Append(res.fields, f)
    BY FieldAdded, ZenonT(40) DEF ResInv
<1>2. res'.fields[Len(res.fields) + 1] = f
  <2>1. res.fields \in Seq(Field)
      BY DEF ResInv, Response
  <2> HIDE DEF f
  <2> QED BY <1>1, <2>1
<1>3. RightCSeq(f)' /\ RightText(f)'
    BY DEF RightCSeq, RightText
<1>4. ASSUME NEW k \in 1 .. Len(res.fields)
      PROVE  RightCSeq(res.fields[k])' /\ RightText(res.fields[k])'
  <2>1. RightCSeq(res.fields[k]) /\ RightText(res.fields[k])
      BY DEF AnswerInv
  <2>2. PICK h : h = res.fields[k]
      OBVIOUS
  <2>3. h.in = "tmp" => h.at < b
      BY <2>2 DEF ResInv
  <2>4. h.at \in Nat
    <3>1. res.fields \in Seq(Field)
        BY DEF ResInv, Response
    <3> QED BY <2>2, <3>1, FieldFacts
  <2>5. b \in Nat
    <3>1. b \in 0 .. Len(tmp)
        BY DEF ResInv
    <3> QED BY <3>1
  <2>6. RightCSeq(h)'
      BY <2>1, <2>2 DEF RightCSeq
  <2>7. h.name \notin {"CSeq", "Transport"} =>
            pc' \in {"add", "todo"} /\ h.in = "tmp" /\ tmp'[h.at + 1] = Meant(h.name)'
    <3> SUFFICES ASSUME h.name \notin {"CSeq", "Transport"}
                 PROVE  pc' \in {"add", "todo"} /\ h.in = "tmp" /\ tmp'[h.at + 1] = Meant(h.name)'
        OBVIOUS
    <3>1. pc \in {"add", "todo"} /\ h.in = "tmp" /\ tmp[h.at + 1] = Meant(h.name)
        BY <2>1, <2>2 DEF RightText
    <3>2. pc' \in {"add", "todo"} /\ seq' = seq /\ \A i \in 1 .. b : tmp'[i] = tmp[i]
        BY <3>1
    <3>3. h.at + 1 \in 1 .. b
        BY <2>3, <2>4, <2>5, <3>1
    <3>4. Meant(h.name)' = Meant(h.name)
        BY <3>2 DEF Meant
    <3> QED BY <3>1, <3>2, <3>3, <3>4
  <2>8. RightText(h)'
      BY <2>7 DEF RightText
  <2>9. res'.fields[k] = h
      BY <1>1, <2>2
  <2> QED BY <2>6, <2>8, <2>9
<1>5. ASSUME NEW k \in 1 .. Len(res'.fields)
      PROVE  (RightCSeq(res.fields[k]) /\ RightText(res.fields[k]))'
  <2>1. CASE k = Len(res.fields) + 1
    <3>1. res'.fields[k] = f
        BY <1>2, <2>1
    <3> HIDE DEF f
    <3> QED BY <1>3, <3>1
  <2>2. CASE k # Len(res.fields) + 1
    <3>1. k \in 1 .. Len(res.fields) /\ res'.fields[k] = res.fields[k]
        BY <1>1, <2>2
    <3> QED BY <1>4, <3>1
  <2> QED BY <2>1, <2>2
<1>6. Given' = Append(Given, GivenItem(f))
  <2> DEFINE p == Given
             q == Given'
             last == GivenItem(f)
             m == Len(res.fields)
  <2>1. p \in Seq(Seq(Says)) /\ Len(p) = m /\ m \in Nat
      BY GivenIsSeq
  <2>2. last \in Seq(Says)
    <3>1. name = "CSeq" => msg.headers[place].says \in Says
        BY DEF Says
    <3> QED BY <3>1 DEF GivenItem
  <2>3. q = [k \in 1 .. m + 1 |-> GivenItem(res'.fields[k])]
      BY <1>1 DEF Given, GivenItem
  <2>4. q[m + 1] = last
      BY <1>2, <2>1, <2>3
  <2>5. \A k \in 1 .. m : q[k] = p[k]
    <3> SUFFICES ASSUME NEW k \in 1 .. m PROVE q[k] = p[k]
        OBVIOUS
    <3>1. p[k] = GivenItem(res.fields[k])
        BY DEF Given
    <3>2. k \in 1 .. m + 1
        BY <2>1
    <3>3. q[k] = GivenItem(res'.fields[k])
        BY <2>3, <3>2
    <3>4. res'.fields[k] = res.fields[k]
        BY <1>1
    <3> QED BY <3>1, <3>3, <3>4
  <2>6. DOMAIN q = 1 .. m + 1 /\ q = [k \in DOMAIN q |-> q[k]]
      BY <2>3
  <2> HIDE DEF p, q, last, m
  <2>7. q = Append(p, last)
      BY ONLY <2>1, <2>2, <2>4, <2>5, <2>6, AppendByPlaces
  <2> QED BY <2>7 DEF p, q, last
<1>7. GivenItem(f) \in Seq(Says)
  <2>1. name = "CSeq" => msg.headers[place].says \in Says
      BY DEF Says
  <2> QED BY <2>1 DEF GivenItem
<1>8. FlattenSeq(Given') = FlattenSeq(Given) \o GivenItem(f)
    BY <1>6, <1>7, GivenIsSeq, FlattenAppend
<1>9. Asked("CSeq", n - 1)' = Asked("CSeq", n' - 1)
    BY DEF Asked, Item
<1>10. FlattenSeq(Given) = FlattenSeq(Asked("CSeq", n - 1))
    BY DEF AnswerInv
<1> QED BY <1>5, <1>8, <1>9, <1>10 DEF AnswerInv

LEMMA AnswerStep ==
    ASSUME FieldsInv, TodoInv, SearchInv, ResInv, AnswerInv, [Next]_vars
    PROVE  AnswerInv'
<1>0. /\ Len(msg.headers) \in Nat /\ Len(fields) \in Nat /\ n \in Nat
    BY MessageFacts DEF FieldsInv
<1>n. ASSUME pc' \notin {"status", "handle", "transport", "add", "todo"} PROVE AnswerInv'
    BY <1>n DEF AnswerInv, Answering
<1>11. CASE Failing
    BY <1>11, <1>n, FailingStops
<1>1. CASE Receive \/ ParseLine \/ ParseLineCut \/ ParseLineShort \/ ParseHeader \/ ParseHeaderCut
           \/ Parsed \/ TakeField
    BY <1>1, <1>n DEF Receive, ParseLine, ParseLineCut, ParseLineShort, ParseHeader, ParseHeaderCut, Parsed, TakeField
<1>2. CASE HandleUnknown \/ Respond
    BY <1>2, <1>n DEF HandleUnknown, Respond
<1>3. CASE Compare \/ NextSet \/ NextHeader \/ UNCHANGED vars
  <2>1. msg' = msg /\ res' = res /\ n' = n /\ tmp' = tmp /\ seq' = seq
      BY <1>3 DEF Compare, NextSet, NextHeader, vars, parseVars, replyVars
  <2>2. pc' = pc \/ (pc = "add" /\ pc' = "todo")
      BY <1>3 DEF Compare, NextSet, NextHeader, vars
  <2>3. CASE Answering
      BY <2>1, <2>2, <2>3, NoFieldMore
  <2>4. CASE ~Answering
      BY <2>2, <2>4 DEF AnswerInv, Answering
  <2> QED BY <2>3, <2>4
<1>4. CASE TakeStatus \/ HandleTransport \/ Method
  <2>1. msg' = msg /\ n' = n /\ pc \in {"status", "handle"}
      BY <1>4 DEF TakeStatus, HandleTransport, Handling, Method, parseVars
  <2>2. res'.fields = res.fields
    <3>1. CASE TakeStatus
        BY <3>1 DEF TakeStatus, ResInv, Response
    <3>2. CASE HandleTransport
        BY <3>2 DEF HandleTransport
    <3>3. CASE Method
        BY <3>3 DEF Method, ResInv, Response
    <3> QED BY <1>4, <3>1, <3>2, <3>3
  <2> QED BY <2>1, <2>2, NoFieldMore DEF Answering
<1>5. CASE TransportWord \/ TransportProtocol \/ TransportCast \/ TransportParameter
           \/ TransportKey \/ TransportComma
  <2>1. msg' = msg /\ res' = res /\ n' = n /\ pc = "transport"
      BY <1>5 DEF TransportWord, TransportProtocol, TransportCast, TransportParameter,
            TransportKey, TransportComma, At, Scanning, ScanRest, parseVars
  <2> QED BY <2>1, NoFieldMore DEF Answering
<1>6. CASE HandleDefault \/ HandleAccept
  <2>1. msg' = msg /\ n' = n + 1 /\ n <= Len(fields) /\ pc = "handle"
      BY <1>6, <1>0 DEF HandleDefault, HandleAccept, Handling, Handled
  <2>2. res'.fields = res.fields
    <3>1. CASE HandleDefault
        BY <3>1 DEF HandleDefault, replyVars
    <3>2. CASE HandleAccept
        BY <3>2 DEF HandleAccept, ResInv, Response
    <3> QED BY <1>6, <3>1, <3>2
  <2>3. fields[n] \notin {"NULL", "CSeq"}
      BY <1>6 DEF HandleDefault, HandleAccept, Handling
  <2>4. fields[n] \in {"NULL", msg.headers[n].name}
      BY <2>1, <1>0 DEF FieldsInv, Answering
  <2> QED BY <2>1, <2>2, <2>3, <2>4, NoFieldMore DEF Answering
<1>7. CASE ProcessHeader
  <2>1. CASE VersionEmpty(msg)
      BY <1>7, <2>1, <1>n DEF ProcessHeader
  <2>2. CASE ~VersionEmpty(msg)
    <3>1. pc = "process" /\ res.version = ""
        BY <1>7 DEF ProcessHeader, ResInv
    <3>2. res' = [res EXCEPT !.fields = <<>>, !.entity = "none"] /\ n' = 1
        BY <1>7, <2>2, <3>1 DEF ProcessHeader
    <3>3. res'.fields = << >> /\ Len(res'.fields) = 0
        BY <3>2 DEF ResInv, Response
    <3>4. Given' = [k \in 1 .. 0 |-> GivenItem(res.fields[k])']
        BY <3>3 DEF Given
    <3>5. Asked("CSeq", n - 1)' = [k \in 1 .. 0 |-> Item("CSeq", k)']
        BY <3>2 DEF Asked
    <3>6. [k \in 1 .. 0 |-> GivenItem(res.fields[k])'] = [k \in 1 .. 0 |-> Item("CSeq", k)']
        OBVIOUS
    <3>7. ASSUME NEW k \in 1 .. Len(res'.fields) PROVE FALSE
        BY <3>3
    <3> QED BY <3>4, <3>5, <3>6, <3>7 DEF AnswerInv
  <2> QED BY <2>1, <2>2
<1>8. CASE HandleCSeq
  <2>1. AddHeader("CSeq", "req", n) /\ msg' = msg /\ n' = n + 1 /\ n <= Len(fields)
        /\ pc = "handle" /\ fields[n] = "CSeq"
      BY <1>8, <1>0 DEF HandleCSeq, Handling, Handled
  <2>2. n \in 1 .. Len(msg.headers) /\ msg.headers[n].name = "CSeq"
    <3>1. n \in 1 .. Len(fields) /\ Len(fields) = Len(msg.headers)
        BY <2>1, <1>0 DEF FieldsInv, Answering
    <3>2. fields[n] \in {"NULL", msg.headers[n].name}
        BY <2>1, <3>1 DEF FieldsInv, Answering
    <3> QED BY <2>1, <3>1, <3>2
  <2>3. FlattenSeq(Asked("CSeq", n' - 1)) =
            FlattenSeq(Asked("CSeq", n - 1)) \o GivenItem([name |-> "CSeq", in |-> "req", at |-> n])
    <3>1. FlattenSeq(Asked("CSeq", n)) = FlattenSeq(Asked("CSeq", n - 1)) \o Item("CSeq", n)
        BY <2>2, AskedMore
    <3>2. Item("CSeq", n) = GivenItem([name |-> "CSeq", in |-> "req", at |-> n])
        BY <2>2 DEF Item, GivenItem
    <3>3. n' - 1 = n
        BY <2>1, <1>0
    <3> QED BY <3>1, <3>2, <3>3
  <2>4. Answering /\ pc \notin {"add", "todo"}
      BY <2>1 DEF Answering
  <2> QED BY <2>1, <2>2, <2>3, <2>4, <1>0, HandledNames, OneMoreSaid
<1>9. CASE TransportAnswer
  <2>1. msg' = msg /\ n' = n + 1 /\ pc = "transport" /\ Answering
      BY <1>9 DEF TransportAnswer, Scanned, Answering
  <2>2. n <= Len(fields) /\ fields[n] = "Transport" /\ n \in 1 .. Len(fields) + 1
        /\ Len(fields) = Len(msg.headers)
      BY <2>1 DEF FieldsInv
  <2>3. n \in 1 .. Len(fields) /\ n \in 1 .. Len(msg.headers) /\ n' - 1 = n
      BY <2>1, <2>2, <1>0
  <2>4. msg.headers[n].name = "Transport"
    <3>1. fields[n] \in {"NULL", msg.headers[n].name}
        BY <2>1, <2>3 DEF FieldsInv
    <3> QED BY <2>2, <3>1
  <2>5. UNCHANGED res \/ \E place \in Nat : place < b' /\ AddHeader("Transport", "tmp", place)
      BY <1>9, AnswerWritten
  <2>6. CASE UNCHANGED res
      BY <2>1, <2>2, <2>4, <2>6, NoFieldMore
  <2>7. ASSUME NEW place \in Nat, AddHeader("Transport", "tmp", place) PROVE AnswerInv'
    <3>1. FlattenSeq(Asked("CSeq", n)) = FlattenSeq(Asked("CSeq", n - 1)) \o Item("CSeq", n)
        BY <2>3, AskedMore
    <3>2. Item("CSeq", n) = GivenItem([name |-> "Transport", in |-> "tmp", at |-> place])
        BY <2>4 DEF Item, GivenItem
    <3>3. FlattenSeq(Asked("CSeq", n' - 1)) = FlattenSeq(Asked("CSeq", n - 1))
              \o GivenItem([name |-> "Transport", in |-> "tmp", at |-> place])
        BY <2>3, <3>1, <3>2
    <3> QED BY <2>1, <2>7, <3>3, HandledNames, OneMoreSaid
  <2> QED BY <2>5, <2>6, <2>7
<1>10. CASE AddNext
  <2>1. /\ tmp' = Written(b, Head(todo).text) /\ b' = b + 1 /\ AddHeader(RowFound, "tmp", b)
        /\ pc = "todo" /\ pc' \in {"add", "aborted"} /\ hit # 0
        /\ msg' = msg /\ n' = n /\ seq' = seq
      BY <1>10 DEF AddNext, MoveBehind, Room, parseVars
  <2>2. PICK name : name = RowFound
      OBVIOUS
  <2>3. name \in Six /\ Head(todo).text = Meant(name)
      BY <2>1, <2>2, AdditionFound
  <2>4. name \in Names /\ name \notin {"CSeq", "Transport"}
      BY <2>3, SixAreNames DEF Six
  <2>5. tmp'[b + 1] = Meant(name) /\ \A i \in 1 .. b : tmp'[i] = tmp[i]
      BY <2>1, <2>3, TextWritten
  <2>6. b \in Nat
    <3>1. b \in 0 .. Len(tmp)
        BY DEF ResInv
    <3> QED BY <3>1
  <2>7. Meant(name)' = Meant(name)
      BY <2>1 DEF Meant
  <2>8. FlattenSeq(Asked("CSeq", n' - 1)) = FlattenSeq(Asked("CSeq", n - 1))
            \o GivenItem([name |-> name, in |-> "tmp", at |-> b])
    <3>1. GivenItem([name |-> name, in |-> "tmp", at |-> b]) = << >>
        BY <2>4 DEF GivenItem
    <3>2. n - 1 \in 0 .. Len(msg.headers)
        BY <2>1, <1>0 DEF FieldsInv, Answering
    <3>3. FlattenSeq(Asked("CSeq", n - 1)) \in Seq(Says)
        BY <3>2, AskedIsSeq, FlattenIsSeq
    <3> QED BY <2>1, <3>1, <3>3, ConcatEmptySeq
  <2>9. CASE pc' = "add"
    <3>1. AddHeader(name, "tmp", b)
        BY <2>1, <2>2
    <3>2. Answering /\ pc' \in {"add", "todo"}
        BY <2>1, <2>9 DEF Answering
    <3>3. tmp'[b + 1] = Meant(name)'
        BY <2>5, <2>7
    <3> QED BY <2>1, <2>4, <2>5, <2>6, <2>8, <3>1, <3>2, <3>3, OneMoreSaid
  <2>10. CASE pc' = "aborted"
      BY <2>10, <1>n
  <2> QED BY <2>1, <2>9, <2>10
<1> QED BY <1>1, <1>2, <1>3, <1>4, <1>5, <1>6, <1>7, <1>8, <1>9, <1>10, <1>11
       DEF Next, Step, Transport, Failing

\* The last answer: its texts are those meant, and its CSeqs those of the request.
AnsweredInv ==
    Answered =>
        /\ \A k \in 1 .. Len(out.fields) : LET f == out.fields[k] IN
               f.name \notin {"CSeq", "Transport"} => f.text = Meant(f.name)
        /\ AnswersOf("CSeq") = Said(msg, "CSeq")

\* The message is written by following the pointers.
LEMMA RespondSays ==
    ASSUME FieldsInv, ResInv, AnswerInv, Respond
    PROVE  AnsweredInv'
<1>1. /\ pc = "add" /\ Answering /\ msg' = msg /\ seq' = seq
      /\ out'.fields = [k \in 1 .. Len(res.fields) |->
                          [name |-> res.fields[k].name, text |-> Pointed(res.fields[k])]]
    BY DEF Respond, Answering, parseVars
<1>2. res.fields \in Seq(Field) /\ Len(res.fields) \in Nat
  <2>1. res.fields \in Seq(Field)
      BY DEF ResInv, Response
  <2> QED BY <2>1
<1> DEFINE m == Len(res.fields)
<1>o. PICK o : o = out'.fields
    OBVIOUS
<1>3. Len(o) = m
  <2>1. o = [k \in 1 .. m |-> [name |-> res.fields[k].name, text |-> Pointed(res.fields[k])]]
      BY <1>1, <1>o
  <2> HIDE DEF m
  <2>2. o \in [1 .. m -> {o[k] : k \in 1 .. m}]
      BY <2>1
  <2>3. m \in Nat
      BY <1>2 DEF m
  <2> QED BY <2>2, <2>3, FunctionIsSequence
<1>4. ASSUME NEW k \in 1 .. m
      PROVE  o[k].name = res.fields[k].name /\ o[k].text = Pointed(res.fields[k])
    BY <1>1, <1>o
<1>5. ASSUME NEW k \in 1 .. m
      PROVE  /\ RightCSeq(res.fields[k]) /\ RightText(res.fields[k])
    BY <1>1 DEF AnswerInv
<1> HIDE DEF m
<1>6. ASSUME NEW k \in 1 .. m, o[k].name \notin {"CSeq", "Transport"}
      PROVE  o[k].text = Meant(o[k].name)'
  <2>1. PICK f : f = res.fields[k]
      OBVIOUS
  <2>2. f.in = "tmp" /\ tmp[f.at + 1] = Meant(f.name) /\ f.name = o[k].name
      BY <1>4, <1>5, <1>6, <2>1 DEF RightText
  <2>3. Pointed(f) = Meant(f.name)
      BY <2>2 DEF Pointed
  <2>4. Meant(f.name)' = Meant(f.name)
      BY <1>1 DEF Meant
  <2>5. o[k].text = Meant(f.name)'
      BY <1>4, <2>1, <2>3, <2>4
  <2> QED BY <2>2, <2>5
<1>7. ASSUME NEW k \in 1 .. m
      PROVE  (IF o[k].name = "CSeq" THEN <<o[k].text>> ELSE << >>) = GivenItem(res.fields[k])
  <2>1. PICK f : f = res.fields[k]
      OBVIOUS
  <2>2. o[k].name = f.name /\ o[k].text = Pointed(f) /\ RightCSeq(f)
      BY <1>4, <1>5, <2>1
  <2>3. CASE f.name = "CSeq"
    <3>1. f.in = "req" /\ msg.headers[f.at].name = "CSeq"
        BY <2>2, <2>3 DEF RightCSeq
    <3>2. Pointed(f) = msg.headers[f.at].says
        BY <3>1 DEF Pointed, Text
    <3> QED BY <2>1, <2>2, <2>3, <3>2 DEF GivenItem
  <2>4. CASE f.name # "CSeq"
      BY <2>1, <2>2, <2>4 DEF GivenItem
  <2> QED BY <2>3, <2>4
<1>8. AnswersOf("CSeq")' = FlattenSeq(Given)
  <2>1. AnswersOf("CSeq")' =
            FlattenSeq([k \in 1 .. m |-> IF o[k].name = "CSeq" THEN <<o[k].text>> ELSE << >>])
      BY <1>3, <1>o DEF AnswersOf
  <2>2. [k \in 1 .. m |-> IF o[k].name = "CSeq" THEN <<o[k].text>> ELSE << >>] = Given
      BY <1>7 DEF Given, m
  <2> QED BY <2>1, <2>2
<1>9. FlattenSeq(Given) = FlattenSeq(Asked("CSeq", Len(msg.headers)))
  <2>1. n = Len(fields) + 1 /\ Len(fields) = Len(msg.headers) /\ Len(msg.headers) \in Nat
      BY <1>1, MessageFacts DEF FieldsInv
  <2>2. n - 1 = Len(msg.headers)
      BY <2>1
  <2> QED BY <1>1, <2>2 DEF AnswerInv
<1>10. Said(msg, "CSeq") = FlattenSeq(Asked("CSeq", Len(msg.headers)))
    BY DEF Said, Asked, Item
<1>11. Said(msg, "CSeq")' = Said(msg, "CSeq")
    BY <1>1 DEF Said
<1> QED BY <1>3, <1>6, <1>8, <1>9, <1>10, <1>11, <1>o DEF AnsweredInv

LEMMA AnsweredStep ==
    ASSUME FieldsInv, ResInv, AnswerInv, AnsweredInv, [Next]_vars
    PROVE  AnsweredInv'
<1>1. CASE Respond
    BY <1>1, RespondSays
<1>3. CASE UNCHANGED vars
    BY <1>3 DEF vars, parseVars, replyVars, callVars, AnsweredInv, Answered, Whole, AnswersOf, Said, Meant
<1>4. ASSUME pc' # "idle" PROVE AnsweredInv'
    BY <1>4 DEF AnsweredInv, Answered
<1>2. CASE Failing
    BY <1>4, <1>2, FailingStops
<1>5. CASE Receive \/ ParseLine \/ ParseLineCut \/ ParseLineShort \/ ParseHeader \/ ParseHeaderCut \/ Parsed
    BY <1>4, <1>5 DEF Receive, ParseLine, ParseLineCut, ParseLineShort, ParseHeader, ParseHeaderCut, Parsed
<1>6. CASE Compare \/ NextSet \/ TakeField \/ TakeStatus \/ ProcessHeader \/ HandleDefault
    BY <1>4, <1>6 DEF Compare, NextSet, TakeField, TakeStatus, ProcessHeader, HandleDefault
<1>7. CASE HandleUnknown \/ HandleCSeq \/ HandleAccept \/ HandleTransport \/ Method \/ NextHeader \/ AddNext
    BY <1>4, <1>7 DEF HandleUnknown, HandleCSeq, HandleAccept, HandleTransport, Handling, Method,
        NextHeader, AddNext, Room
<1>8. CASE Transport
    BY <1>4, <1>8, ZenonT(60) DEF Transport, TransportWord, TransportProtocol, TransportCast,
        TransportParameter, TransportKey, TransportComma, TransportAnswer, At, Scanning, Room
<1> QED BY <1>1, <1>2, <1>3, <1>5, <1>6, <1>7, <1>8 DEF Next, Step, Failing

(***************************************************************************)
(* The theorems                                                            *)
(***************************************************************************)
ServerInv == FieldsInv /\ TodoInv /\ SearchInv /\ ResInv /\ AnswerInv /\ AnsweredInv

LEMMA EmptyResponse == NoResponse \in Response /\ NoResponse.fields = << >>
<1>1. << >> \in Seq(Field)
    OBVIOUS
<1>2. NoResponse = [version |-> "", status |-> 0, entity |-> "none", fields |-> << >>]
    BY DEF NoResponse
<1>3. 0 \in Int
    OBVIOUS
<1> QED BY <1>1, <1>2, <1>3 DEF Response

LEMMA ServerInvInit == Init => ServerInv
<1> SUFFICES ASSUME Init PROVE ServerInv
    OBVIOUS
<1> USE DEF Init
<1>1. FieldsInv
  <2>1. << >> \in Seq(Names \cup {"NULL"})
      OBVIOUS
  <2> QED BY <2>1 DEF FieldsInv, Parsing, Answering
<1>2. TodoInv
    BY DEF TodoInv
<1>3. SearchInv
  <2>1. LookupInv
      BY LookupInvInit
  <2>2. Done
      BY DEF LookupInit, Done, Searching
  <2> QED BY <2>1, <2>2 DEF SearchInv
<1>4. ResInv
  <2>1. << >> \in Seq(Field) /\ << >> \in Seq({}) /\ Len(<< >>) = 0
      OBVIOUS
  <2>2. NoResponse \in Response /\ NoResponse.fields = << >>
      BY EmptyResponse
  <2>3. res \in Response /\ res.fields = << >>
      BY <2>2
  <2>4. ~ (pc = "process") /\ b \in 0 .. Len(tmp)
      BY <2>1
  <2> QED BY <2>1, <2>3, <2>4 DEF ResInv
<1>5. AnswerInv /\ AnsweredInv
    BY DEF AnswerInv, Answering, AnsweredInv, Answered
<1> QED BY <1>1, <1>2, <1>3, <1>4, <1>5 DEF ServerInv

LEMMA ServerInvNext == ServerInv /\ [Next]_vars => ServerInv' /\ [LookupNext]_lookupVars
BY FieldsStep, TodoStep, SearchStep, ResStep, AnswerStep, AnsweredStep DEF ServerInv

\* What holds between the steps of the server, for every set of requests.
THEOREM ServerInvariant == Spec => []ServerInv
BY ServerInvInit, ServerInvNext, PTL DEF Spec

\* get_header and get_status (rtsp.c 17-78) only ever search as the binary search
\* does: one call after the other, each in one of the tables, the next when the
\* last has returned.
THEOREM SearchesAreLookups == Spec => LookupSpec
<1>1. Init => LookupInit
    BY DEF Init
<1>2. Spec => []ServerInv
    BY ServerInvariant
<1> QED BY <1>1, <1>2, ServerInvNext, PTL DEF Spec, LookupSpec

\* So the server's searches find what they are asked for, and in every table that
\* is in dictionary order everything that is there.
THEOREM ServerFinds == Spec => []FoundWhereSorted
BY SearchesAreLookups, LookupRight, PTL

\* When a message is written every pointer still leads to what its header was given,
\* whatever the requests and however many headers they have (header.c 5, 18-28).
THEOREM PointersKeepTheirTexts == Spec => []ValuesKept
<1>1. ServerInv => ValuesKept
    BY DEF ServerInv, ResInv, AnsweredInv, ValuesKept
<1> QED BY <1>1, ServerInvariant, PTL

(***************************************************************************)
(* Which rows the searches find                                            *)
(***************************************************************************)
\* Entry j of a table is in order: all before it are smaller, all behind it larger.
Pivot(t, j) == \A i \in 1 .. Len(t) : /\ i < j => t[i] < t[j]
                                      /\ i > j => t[j] < t[i]

\* The search has not passed by the entry that it looks for if that one is in order.
\* CSeq is not, in the extension headers, but stands where the search looks before
\* it can go wrong.
NotPassed ==
    /\ \A j \in 1 .. Len(table) : table[j] = key /\ Pivot(table, j) => s < j /\ j <= g
    /\ table = Places(extension_headers) /\ key = Place("CSeq") => s = 0 /\ g \in {7, 15}

\* A header of this name may get no row.
Missing(name) == ~InTables(name, REQ) \/ name = "Conference"

InSet(name, i) == \E j \in 1 .. Len(h_set[i].headers) : h_set[i].headers[j] = name

\* The sets that were searched in vain do not have the header.
FoundInv ==
    /\ NotPassed
    /\ pc = "field" => /\ types = REQ
                       /\ \A i \in 1 .. set - 1 : h_set[i].type \in REQ /\ InSet(msg.headers[n].name, i) =>
                              msg.headers[n].name = "Conference"
    /\ \A k \in 1 .. Len(fields) : fields[k] = "NULL" => Missing(msg.headers[k].name)

\* How many headers before n have the name; the answer has no more headers than that
\* calls for, and what the method adds.
SoFar(name) == Len(FlattenSeq(Asked(name, n - 1)))

BufferInv ==
    /\ pc \notin Ends => Len(fields) <= HBuf /\ Len(res.fields) <= HBuf
    /\ pc \in {"status", "handle", "transport"} => Len(res.fields) <= SoFar("CSeq") + SoFar("Transport")
    /\ pc \in {"add", "todo"} => Len(res.fields) + Len(todo) <= SoFar("CSeq") + SoFar("Transport") + 3

\* The program ends only at a message that cannot be served.
EndInv == pc \in Ends => ~Servable(msg)

\* The dictionary has every name once.
LEMMA PlaceIs ==
    ASSUME NEW i \in 1 .. 45
    PROVE  Place(Dictionary[i]) = i
<1>1. Len(Dictionary) = 45
    BY DEF Dictionary
<1>2. \A j, k \in 1 .. 45 : Dictionary[j] = Dictionary[k] => j = k
    BY SMTT(60) DEF Dictionary
<1>3. Dictionary[i] \in Names
    BY <1>1 DEF Names
<1>4. Place(Dictionary[i]) \in 1 .. 45 /\ Dictionary[Place(Dictionary[i])] = Dictionary[i]
    BY <1>1, <1>3, PlaceOfName
<1> QED BY <1>2, <1>4

\* Where the rows of the tables stand in the dictionary.
LEMMA GeneralRows ==
    /\ Len(h_set[1].headers) = 4 /\ Places(h_set[1].headers)[1] = 9
    /\ Places(h_set[1].headers)[2] = 11 /\ Places(h_set[1].headers)[3] = 18
    /\ Places(h_set[1].headers)[4] = 43
<1>1. h_set[1].headers = general_headers /\ Len(general_headers) = 4
    BY DEF h_set, general_headers
<1>2. /\ general_headers[1] = Dictionary[9] /\ general_headers[2] = Dictionary[11]
      /\ general_headers[3] = Dictionary[18] /\ general_headers[4] = Dictionary[43]
    BY DEF general_headers, Dictionary
<1>3. /\ Place(general_headers[1]) = 9 /\ Place(general_headers[2]) = 11
      /\ Place(general_headers[3]) = 18 /\ Place(general_headers[4]) = 43
    BY <1>2, PlaceIs
<1> QED BY <1>1, <1>3 DEF Places

LEMMA RequestRows ==
    /\ Len(h_set[2].headers) = 9 /\ Places(h_set[2].headers)[1] = 1
    /\ Places(h_set[2].headers)[2] = 2 /\ Places(h_set[2].headers)[3] = 3
    /\ Places(h_set[2].headers)[4] = 5 /\ Places(h_set[2].headers)[5] = 20
    /\ Places(h_set[2].headers)[6] = 23 /\ Places(h_set[2].headers)[7] = 30
    /\ Places(h_set[2].headers)[8] = 31 /\ Places(h_set[2].headers)[9] = 41
<1>1. h_set[2].headers = request_headers /\ Len(request_headers) = 9
    BY DEF h_set, request_headers
<1>2. /\ request_headers[1] = Dictionary[1] /\ request_headers[2] = Dictionary[2]
      /\ request_headers[3] = Dictionary[3] /\ request_headers[4] = Dictionary[5]
      /\ request_headers[5] = Dictionary[20] /\ request_headers[6] = Dictionary[23]
      /\ request_headers[7] = Dictionary[30] /\ request_headers[8] = Dictionary[31]
      /\ request_headers[9] = Dictionary[41]
    BY DEF request_headers, Dictionary
<1>3. /\ Place(request_headers[1]) = 1 /\ Place(request_headers[2]) = 2
      /\ Place(request_headers[3]) = 3 /\ Place(request_headers[4]) = 5
      /\ Place(request_headers[5]) = 20 /\ Place(request_headers[6]) = 23
      /\ Place(request_headers[7]) = 30 /\ Place(request_headers[8]) = 31
      /\ Place(request_headers[9]) = 41
    BY <1>2, PlaceIs
<1> QED BY <1>1, <1>3 DEF Places

LEMMA ResponseRows ==
    /\ Len(h_set[3].headers) = 7 /\ Places(h_set[3].headers)[1] = 25
    /\ Places(h_set[3].headers)[2] = 26 /\ Places(h_set[3].headers)[3] = 28
    /\ Places(h_set[3].headers)[4] = 33 /\ Places(h_set[3].headers)[5] = 35
    /\ Places(h_set[3].headers)[6] = 42 /\ Places(h_set[3].headers)[7] = 44
<1>1. h_set[3].headers = response_headers /\ Len(response_headers) = 7
    BY DEF h_set, response_headers
<1>2. /\ response_headers[1] = Dictionary[25] /\ response_headers[2] = Dictionary[26]
      /\ response_headers[3] = Dictionary[28] /\ response_headers[4] = Dictionary[33]
      /\ response_headers[5] = Dictionary[35] /\ response_headers[6] = Dictionary[42]
      /\ response_headers[7] = Dictionary[44]
    BY DEF response_headers, Dictionary
<1>3. /\ Place(response_headers[1]) = 25 /\ Place(response_headers[2]) = 26
      /\ Place(response_headers[3]) = 28 /\ Place(response_headers[4]) = 33
      /\ Place(response_headers[5]) = 35 /\ Place(response_headers[6]) = 42
      /\ Place(response_headers[7]) = 44
    BY <1>2, PlaceIs
<1> QED BY <1>1, <1>3 DEF Places

LEMMA EntityRows ==
    /\ Len(h_set[4].headers) = 9 /\ Places(h_set[4].headers)[1] = 4
    /\ Places(h_set[4].headers)[2] = 12 /\ Places(h_set[4].headers)[3] = 13
    /\ Places(h_set[4].headers)[4] = 14 /\ Places(h_set[4].headers)[5] = 15
    /\ Places(h_set[4].headers)[6] = 16 /\ Places(h_set[4].headers)[7] = 17
    /\ Places(h_set[4].headers)[8] = 19 /\ Places(h_set[4].headers)[9] = 24
<1>1. h_set[4].headers = entity_headers /\ Len(entity_headers) = 9
    BY DEF h_set, entity_headers
<1>2. /\ entity_headers[1] = Dictionary[4] /\ entity_headers[2] = Dictionary[12]
      /\ entity_headers[3] = Dictionary[13] /\ entity_headers[4] = Dictionary[14]
      /\ entity_headers[5] = Dictionary[15] /\ entity_headers[6] = Dictionary[16]
      /\ entity_headers[7] = Dictionary[17] /\ entity_headers[8] = Dictionary[19]
      /\ entity_headers[9] = Dictionary[24]
    BY DEF entity_headers, Dictionary
<1>3. /\ Place(entity_headers[1]) = 4 /\ Place(entity_headers[2]) = 12
      /\ Place(entity_headers[3]) = 13 /\ Place(entity_headers[4]) = 14
      /\ Place(entity_headers[5]) = 15 /\ Place(entity_headers[6]) = 16
      /\ Place(entity_headers[7]) = 17 /\ Place(entity_headers[8]) = 19
      /\ Place(entity_headers[9]) = 24
    BY <1>2, PlaceIs
<1> QED BY <1>1, <1>3 DEF Places

LEMMA ExtensionRows ==
    /\ Len(h_set[5].headers) = 15 /\ Places(h_set[5].headers)[1] = 6
    /\ Places(h_set[5].headers)[2] = 7 /\ Places(h_set[5].headers)[3] = 10
    /\ Places(h_set[5].headers)[4] = 8 /\ Places(h_set[5].headers)[5] = 21
    /\ Places(h_set[5].headers)[6] = 22 /\ Places(h_set[5].headers)[7] = 27
    /\ Places(h_set[5].headers)[8] = 29 /\ Places(h_set[5].headers)[9] = 32
    /\ Places(h_set[5].headers)[10] = 34 /\ Places(h_set[5].headers)[11] = 36
    /\ Places(h_set[5].headers)[12] = 37 /\ Places(h_set[5].headers)[13] = 38
    /\ Places(h_set[5].headers)[14] = 39 /\ Places(h_set[5].headers)[15] = 40
<1>1. h_set[5].headers = extension_headers /\ Len(extension_headers) = 15
    BY DEF h_set, extension_headers
<1>2. /\ extension_headers[1] = Dictionary[6] /\ extension_headers[2] = Dictionary[7]
      /\ extension_headers[3] = Dictionary[10] /\ extension_headers[4] = Dictionary[8]
      /\ extension_headers[5] = Dictionary[21] /\ extension_headers[6] = Dictionary[22]
      /\ extension_headers[7] = Dictionary[27] /\ extension_headers[8] = Dictionary[29]
      /\ extension_headers[9] = Dictionary[32] /\ extension_headers[10] = Dictionary[34]
      /\ extension_headers[11] = Dictionary[36] /\ extension_headers[12] = Dictionary[37]
      /\ extension_headers[13] = Dictionary[38] /\ extension_headers[14] = Dictionary[39]
      /\ extension_headers[15] = Dictionary[40]
    BY DEF extension_headers, Dictionary
<1>3. /\ Place(extension_headers[1]) = 6 /\ Place(extension_headers[2]) = 7
      /\ Place(extension_headers[3]) = 10 /\ Place(extension_headers[4]) = 8
      /\ Place(extension_headers[5]) = 21 /\ Place(extension_headers[6]) = 22
      /\ Place(extension_headers[7]) = 27 /\ Place(extension_headers[8]) = 29
      /\ Place(extension_headers[9]) = 32 /\ Place(extension_headers[10]) = 34
      /\ Place(extension_headers[11]) = 36 /\ Place(extension_headers[12]) = 37
      /\ Place(extension_headers[13]) = 38 /\ Place(extension_headers[14]) = 39
      /\ Place(extension_headers[15]) = 40
    BY <1>2, PlaceIs
<1> QED BY <1>1, <1>3 DEF Places

\* A row that is in order is never passed over; all but Conference and CSeq are.
LEMMA RowsArePivots ==
    ASSUME NEW i \in Sets, NEW j \in 1 .. Len(h_set[i].headers),
           h_set[i].headers[j] \notin {"Conference", "CSeq"}
    PROVE  Pivot(Places(h_set[i].headers), j)
<1>1. i \in {1, 2, 3, 4, 5} /\ Len(Places(h_set[i].headers)) = Len(h_set[i].headers)
    BY SetsFacts, SetSizes
<1> DEFINE t == Places(h_set[i].headers)
           m == Len(h_set[i].headers)
<1>2. \A k \in 1 .. m : (k < j => t[k] < t[j]) /\ (k > j => t[j] < t[k])
  <2>1. CASE i = 1
      BY <2>1, GeneralRows
  <2>2. CASE i = 2
      BY <2>2, RequestRows
  <2>3. CASE i = 3
      BY <2>3, ResponseRows
  <2>4. CASE i = 4
      BY <2>4, EntityRows
  <2>5. CASE i = 5
    <3>1. extension_headers[3] = "Conference" /\ extension_headers[4] = "CSeq"
        BY DEF extension_headers
    <3>2. h_set[5].headers = extension_headers
        BY DEF h_set
    <3>3. j \notin {3, 4}
        BY <2>5, <3>1, <3>2
    <3> QED BY <2>5, <3>3, ExtensionRows, SMTT(60)
  <2> QED BY <1>1, <2>1, <2>2, <2>3, <2>4, <2>5
<1> QED BY <1>1, <1>2 DEF Pivot

\* CSeq stands in one table only, in the middle of its first half.
LEMMA CSeqStands ==
    /\ Place("CSeq") = 8
    /\ \A i \in Sets : \A j \in 1 .. Len(h_set[i].headers) :
           h_set[i].headers[j] = "CSeq" => i = 5 /\ j = 4
<1>1. Place("CSeq") = 8
  <2>1. Dictionary[8] = "CSeq"
      BY DEF Dictionary
  <2> QED BY <2>1, PlaceIs
<1>2. ASSUME NEW i \in Sets, NEW j \in 1 .. Len(h_set[i].headers), h_set[i].headers[j] = "CSeq"
      PROVE  i = 5 /\ j = 4
  <2>1. i \in {1, 2, 3, 4, 5} /\ Places(h_set[i].headers)[j] = 8
      BY <1>1, <1>2, SetsFacts DEF Places
  <2>2. CASE i = 1
      BY <2>1, <2>2, GeneralRows
  <2>3. CASE i = 2
      BY <2>1, <2>3, RequestRows
  <2>4. CASE i = 3
      BY <2>1, <2>4, ResponseRows
  <2>5. CASE i = 4
      BY <2>1, <2>5, EntityRows
  <2>6. CASE i = 5
      BY <2>1, <2>6, ExtensionRows
  <2> QED BY <2>1, <2>2, <2>3, <2>4, <2>5, <2>6
<1> QED BY <1>1, <1>2

\* The search halves the way to what it looks for.
LEMMA NotPassedStep ==
    ASSUME LookupInv, NotPassed, Look
    PROVE  NotPassed'
<1>0. /\ table \in Seq(Int) /\ key \in Int /\ Len(table) \in Nat
      /\ \A i \in 1 .. Len(table) : table[i] \in Int
      /\ s \in 0 .. Len(table) /\ g \in 0 .. Len(table)
    BY IntegerTables DEF LookupInv, LookupTypeOK
<1>1. table' = table /\ key' = key
    BY DEF Look, GoLeft, GoRight, Hit
<1>2. s < g /\ hit = 0 /\ Middle \in s .. g - 1 /\ Middle \in Nat /\ Middle + 1 \in 1 .. Len(table)
  <2>1. s < g /\ hit = 0
      BY DEF Look, GoLeft, GoRight, Hit, Searching
  <2>2. Middle \in s .. g - 1
      BY <2>1, MiddleInside DEF LookupInv
  <2> QED BY <2>1, <2>2, <1>0
<1>3. ASSUME NEW j \in 1 .. Len(table), table[j] = key, Pivot(table, j)
      PROVE  s' < j /\ j <= g'
  <2>1. s < j /\ j <= g
      BY <1>3 DEF NotPassed
  <2>2. CASE GoLeft
    <3>1. key < table[Middle + 1] /\ g' = Middle /\ s' = s
        BY <2>2 DEF GoLeft, Entry
    <3>2. ~ (Middle + 1 <= j)
        BY <1>0, <1>2, <1>3, <3>1 DEF Pivot
    <3> QED BY <1>2, <2>1, <3>1, <3>2
  <2>3. CASE GoRight
    <3>1. key > table[Middle + 1] /\ s' = Middle + 1 /\ g' = g
        BY <2>3 DEF GoRight, Entry
    <3>2. ~ (j <= Middle + 1)
        BY <1>0, <1>2, <1>3, <3>1 DEF Pivot
    <3> QED BY <1>2, <2>1, <3>1, <3>2
  <2>4. CASE Hit
      BY <2>1, <2>4 DEF Hit
  <2> QED BY <2>2, <2>3, <2>4 DEF Look
<1>4. ASSUME table = Places(extension_headers), key = Place("CSeq")
      PROVE  s' = 0 /\ g' \in {7, 15}
  <2>1. s = 0 /\ g \in {7, 15}
      BY <1>4 DEF NotPassed
  <2>2. key = 8 /\ table[8] = 29 /\ table[4] = 8
    <3>1. h_set[5].headers = extension_headers
        BY DEF h_set
    <3> QED BY <1>4, <3>1, CSeqStands, ExtensionRows
  <2>3. CASE g = 15
    <3>1. Middle = 7 /\ Entry = 29
        BY <2>1, <2>2, <2>3 DEF Middle, Entry
    <3> QED BY <2>1, <2>2, <2>3, <3>1 DEF Look, GoLeft, GoRight, Hit
  <2>4. CASE g = 7
    <3>1. Middle = 3 /\ Entry = 8
        BY <2>1, <2>2, <2>4 DEF Middle, Entry
    <3> QED BY <2>1, <2>2, <2>4, <3>1 DEF Look, GoLeft, GoRight, Hit
  <2> QED BY <2>1, <2>3, <2>4
<1> QED BY <1>1, <1>3, <1>4 DEF NotPassed

\* A search that begins has passed by nothing.
LEMMA NotPassedAtStart ==
    ASSUME NEW t \in LookupTables, NEW k, Start(t, k)
    PROVE  NotPassed'
<1>1. Len(t) \in Nat
    BY LookupAssumption
<1>2. t = Places(extension_headers) => Len(t) = 15
  <2>1. 5 \in Sets /\ h_set[5].headers = extension_headers
      BY SetsFacts DEF h_set
  <2>2. Len(Places(extension_headers)) = 15
      BY <2>1, SetSizes, ExtensionRows
  <2> QED BY <2>2
<1> QED BY <1>1, <1>2 DEF Start, NotPassed

\* A search that is over has found the row, but for Conference.
LEMMA RowIsFound ==
    ASSUME SearchInv, NotPassed, Done, NEW x, x # "Conference",
           set \in Sets, table = Places(h_set[set].headers), key = Place(x), InSet(x, set)
    PROVE  hit # 0
<1>1. PICK j \in 1 .. Len(h_set[set].headers) : h_set[set].headers[j] = x
    BY DEF InSet
<1>2. table[j] = key /\ Len(table) = Len(h_set[set].headers)
    BY <1>1, SetSizes DEF Places
<1>3. s \in Nat /\ g \in Nat
    BY IntegerTables DEF SearchInv, LookupInv, LookupTypeOK
<1>4. s < g
  <2>1. CASE x = "CSeq"
    <3>1. set = 5
        BY <1>1, <2>1, CSeqStands
    <3>2. table = Places(extension_headers)
        BY <3>1 DEF h_set
    <3>3. s = 0 /\ g \in {7, 15}
        BY <2>1, <3>2 DEF NotPassed
    <3> QED BY <3>3
  <2>2. CASE x # "CSeq"
    <3>1. Pivot(table, j)
        BY <1>1, <2>2, RowsArePivots
    <3>2. s < j /\ j <= g
        BY <1>2, <3>1 DEF NotPassed
    <3> QED BY <3>2, <1>3, <1>1
  <2> QED BY <2>1, <2>2
<1> QED BY <1>4 DEF Done, Searching

\* What lies before m lies up to k or behind it.
LEMMA RangeCut ==
    ASSUME NEW k \in Int, NEW m \in Int
    PROVE  \A i \in 1 .. m - 1 : i \in 1 .. k \/ i \in k + 1 .. m - 1
OBVIOUS

\* No header is called as the row of none is.
LEMMA NullIsNoName == "NULL" \notin Names
<1>1. Len(Dictionary) = 45 /\ \A i \in 1 .. 45 : Dictionary[i] # "NULL"
    BY DEF Dictionary
<1> QED BY <1>1 DEF Names

\* A header that no set has left to find is in none of them.
LEMMA NothingLeft ==
    ASSUME FieldsInv, SearchInv, FoundInv, pc = "field", Missed
    PROVE  \A i \in 1 .. set : h_set[i].type \in REQ /\ InSet(msg.headers[n].name, i) =>
               msg.headers[n].name = "Conference"
<1> DEFINE x == msg.headers[n].name
<1>1. /\ Done /\ hit = 0 /\ set \in Sets /\ NotPassed
      /\ table = Places(h_set[set].headers) /\ key = Place(x)
    BY DEF Missed, SearchInv, FoundInv
<1>2. InSet(x, set) => x = "Conference"
    BY <1>1, RowIsFound
<1>3. \A i \in 1 .. set - 1 : h_set[i].type \in REQ /\ InSet(x, i) => x = "Conference"
    BY DEF FoundInv
<1>4. set \in Nat
    BY <1>1, SetsFacts
<1> QED BY <1>2, <1>3, <1>4

\* What was searched in vain stays without the header.
LEMMA FoundStep ==
    ASSUME FieldsInv, TodoInv, SearchInv, FoundInv, [Next]_vars
    PROVE  FoundInv'
<1>0. /\ Len(msg.headers) \in Nat /\ Len(fields) \in Nat /\ n \in Nat /\ NotPassed /\ LookupInv
      /\ fields \in Seq(Names \cup {"NULL"})
    BY MessageFacts DEF FieldsInv, FoundInv, SearchInv
<1>f. Sets = 1 .. 5 /\ Len(h_set) = 5
    BY SetsFacts DEF h_set
<1>n. ASSUME UNCHANGED lookupVars PROVE NotPassed'
    BY <1>0, <1>n DEF lookupVars, NotPassed, Pivot
<1>s. ASSUME NEW t \in LookupTables, NEW k, Start(t, k) PROVE NotPassed'
    BY <1>s, NotPassedAtStart
<1>u. ASSUME UNCHANGED <<msg, fields>>, NotPassed', pc' # "field" PROVE FoundInv'
    BY <1>u DEF FoundInv, Missing
<1>1. CASE Receive
  <2>1. pc' = "line" /\ fields' = << >> /\ Len(fields') = 0 /\ NotPassed'
      BY <1>1, <1>n DEF Receive
  <2> QED BY <2>1 DEF FoundInv
<1>2. CASE ParseHeader
  <2>1. /\ pc' = "field" /\ UNCHANGED <<msg, n, fields>> /\ types' = REQ /\ set' = FirstSet(1, REQ)
        /\ Start(Places(h_set[set'].headers), Place(msg.headers[n].name))
      BY <1>2 DEF ParseHeader, Search, parseVars
  <2>2. 1 \in Sets /\ h_set[1].type \in REQ
      BY SetsFacts DEF REQ
  <2>3. set' \in Sets /\ \A i \in 1 .. set' - 1 : h_set[i].type \notin REQ
      BY <2>1, <2>2, <1>f, FirstSetIs
  <2>4. NotPassed'
    <3>1. Places(h_set[set'].headers) \in LookupTables
        BY <2>3, TablesAssumption DEF Sets
    <3> QED BY <2>1, <3>1, <1>s
  <2> QED BY <2>1, <2>3, <2>4 DEF FoundInv, Missing
<1>3. CASE NextSet
  <2>1. /\ Missed /\ MoreSets /\ set' = FirstSet(set + 1, types) /\ UNCHANGED <<pc, msg, n, fields, types>>
        /\ Start(Places(h_set[set'].headers), key) /\ pc \in {"field", "todo"}
      BY <1>3 DEF NextSet, parseVars
  <2>2. set \in Sets /\ set + 1 \in 1 .. 5
    <3>1. set \in Sets
        BY <2>1 DEF SearchInv
    <3> QED BY <2>1, <3>1, <1>f DEF MoreSets
  <2>3. /\ set' \in Sets /\ set + 1 <= set'
        /\ \A i \in set + 1 .. set' - 1 : h_set[i].type \notin types
      BY <2>1, <2>2, FirstSetIs DEF MoreSets
  <2>4. NotPassed'
    <3>1. Places(h_set[set'].headers) \in LookupTables
        BY <2>3, TablesAssumption DEF Sets
    <3> QED BY <2>1, <3>1, <1>s
  <2>5. ASSUME pc = "field"
        PROVE  \A i \in 1 .. set' - 1 : h_set[i].type \in REQ /\ InSet(msg.headers[n].name, i) =>
                   msg.headers[n].name = "Conference"
    <3>1. types = REQ
        BY <2>5 DEF FoundInv
    <3>2. \A i \in 1 .. set : h_set[i].type \in REQ /\ InSet(msg.headers[n].name, i) =>
              msg.headers[n].name = "Conference"
        BY <2>1, <2>5, NothingLeft
    <3>3. \A i \in 1 .. set' - 1 : i \in 1 .. set \/ i \in set + 1 .. set' - 1
      <4>1. set \in Int /\ set' \in Int
          BY <2>2, <2>3, <1>f
      <4> QED BY <4>1, RangeCut, Zenon
    <3> QED BY <2>3, <3>1, <3>2, <3>3
  <2>6. pc = "field" => types = REQ
      BY DEF FoundInv
  <2>7. pc' = "field" =>
            /\ types' = REQ
            /\ \A i \in 1 .. set' - 1 : h_set[i].type \in REQ /\ InSet(msg'.headers[n'].name, i) =>
                   msg'.headers[n'].name = "Conference"
      BY <2>1, <2>5, <2>6
  <2>8. \A k \in 1 .. Len(fields') : fields'[k] = "NULL" => Missing(msg'.headers[k].name)
      BY <2>1 DEF FoundInv
  <2> QED BY <2>4, <2>7, <2>8, Zenon DEF FoundInv, InSet, Missing
<1>4. CASE TakeField
  <2>1. /\ pc = "field" /\ fields' = Append(fields, RowFound) /\ msg' = msg /\ UNCHANGED lookupVars
        /\ pc' # "field" /\ (hit # 0 \/ (Missed /\ ~MoreSets))
      BY <1>4 DEF TakeField, FieldSearched
  <2>2. n = Len(fields) + 1 /\ n \in 1 .. Len(msg.headers)
      BY <2>1, <1>0 DEF FieldsInv, Parsing
  <2>3. RowFound \in Names \cup {"NULL"}
      BY <2>1, FieldFound
  <2>4. ASSUME RowFound = "NULL" PROVE Missing(msg.headers[n].name)
    <3>1. CASE hit # 0
      <4>1. set \in Sets /\ table = Places(h_set[set].headers) /\ hit \in 0 .. Len(table)
          BY <2>1 DEF SearchInv, LookupInv, LookupTypeOK
      <4>2. Len(table) = Len(h_set[set].headers)
          BY <4>1, SetSizes
      <4>3. Len(h_set[set].headers) \in Nat
          BY <4>1, SetSizes
      <4>4. hit \in 1 .. Len(h_set[set].headers)
          BY <3>1, <4>1, <4>2, <4>3
      <4>5. RowFound \in Names
          BY <3>1, <4>1, <4>4, RowsAreNames DEF RowFound
      <4> QED BY <2>4, <4>5, NullIsNoName
    <3>2. CASE hit = 0
      <4>1. Missed /\ ~MoreSets
          BY <2>1, <3>2
      <4>2. types = REQ /\ set \in Sets
          BY <2>1 DEF FoundInv, SearchInv
      <4>3. \A i \in 1 .. set : h_set[i].type \in REQ /\ InSet(msg.headers[n].name, i) =>
                msg.headers[n].name = "Conference"
          BY <2>1, <4>1, NothingLeft
      <4>4. \A i \in set + 1 .. 5 : h_set[i].type \notin REQ
          BY <4>1, <4>2, <1>f DEF MoreSets
      <4>5. \A i \in 1 .. 5 : h_set[i].type \in REQ /\ InSet(msg.headers[n].name, i) =>
                msg.headers[n].name = "Conference"
        <5>1. \A i \in 1 .. 5 : i \in 1 .. set \/ i \in set + 1 .. 5
            BY <4>2, <1>f
        <5> QED BY <4>3, <4>4, <5>1
      <4> QED BY <4>5, <1>f DEF Missing, InTables, InSet
    <3> QED BY <3>1, <3>2
  <2>5. ASSUME NEW k \in 1 .. Len(fields'), fields'[k] = "NULL"
        PROVE  Missing(msg.headers[k].name)
    <3>1. CASE k \in 1 .. Len(fields)
      <4>1. fields[k] = "NULL"
          BY <2>1, <2>3, <2>5, <3>1, <1>0
      <4> QED BY <3>1, <4>1 DEF FoundInv
    <3>2. CASE k \notin 1 .. Len(fields)
      <4>1. k = Len(fields) + 1 /\ fields'[k] = RowFound
          BY <2>1, <2>3, <3>2, <1>0
      <4> QED BY <2>2, <2>4, <2>5, <4>1
    <3> QED BY <3>1, <3>2
  <2>6. NotPassed'
      BY <2>1, <1>n
  <2>7. \A k \in 1 .. Len(fields') : fields'[k] = "NULL" => Missing(msg'.headers[k].name)
      BY <2>1, <2>5
  <2> QED BY <2>1, <2>6, <2>7 DEF FoundInv, Missing
<1>5. CASE Compare
  <2>1. Look /\ UNCHANGED <<pc, msg, n, fields, set, types>>
      BY <1>5 DEF Compare, parseVars
  <2>2. NotPassed'
      BY <2>1, <1>0, NotPassedStep
  <2> QED BY <2>1, <2>2 DEF FoundInv, InSet, Missing
<1>6. CASE ProcessHeader
  <2>1. UNCHANGED <<msg, fields>> /\ pc' # "field"
        /\ (UNCHANGED lookupVars \/ Start(response_status, 200))
      BY <1>6, Zenon DEF ProcessHeader
  <2> QED BY <2>1, <1>n, <1>s, <1>u, TablesAssumption
<1>7. CASE HandleAccept
  <2>1. UNCHANGED <<msg, fields>> /\ pc' # "field"
        /\ (UNCHANGED lookupVars \/ Start(response_status, 406))
      BY <1>7 DEF HandleAccept, Handling
  <2> QED BY <2>1, <1>n, <1>s, <1>u, TablesAssumption
<1>8. CASE NextHeader
  <2>1. /\ pc' = "todo" /\ UNCHANGED <<msg, fields>> /\ set' = FirstSet(1, {Head(todo).type})
        /\ Start(Places(h_set[set'].headers), Place(Head(todo).name))
      BY <1>8 DEF NextHeader, Search, parseVars
  <2>2. SearchInv'
      BY SearchStep
  <2>3. Places(h_set[set'].headers) \in LookupTables
      BY <2>1, <2>2, TablesAssumption DEF SearchInv, Sets
  <2> QED BY <2>1, <2>3, <1>s, <1>u
<1>9. ASSUME UNCHANGED <<msg, fields, lookupVars>>, pc' # "field" PROVE FoundInv'
    BY <1>9, <1>n, <1>u
<1>15. CASE Failing
    BY <1>15, <1>9, FailingStops DEF parseVars
<1>10. CASE ParseLine \/ ParseLineCut \/ ParseLineShort \/ ParseHeaderCut \/ Parsed
    BY <1>10, <1>9, Zenon DEF ParseLine, ParseLineCut, ParseLineShort, ParseHeaderCut, Parsed, parseVars
<1>11. CASE TakeStatus \/ HandleDefault \/ HandleUnknown \/ HandleCSeq \/ HandleTransport
    BY <1>11, <1>9 DEF TakeStatus, HandleDefault, HandleUnknown, HandleCSeq, HandleTransport,
        Handling, Room, parseVars
<1>12. CASE Transport
    BY <1>12, <1>9, ZenonT(60) DEF Transport, TransportWord, TransportProtocol, TransportCast,
        TransportParameter, TransportKey, TransportComma, TransportAnswer, At, Scanning, Room, ScanRest,
        parseVars
<1>13. CASE Method \/ AddNext \/ Respond
    BY <1>13, <1>9 DEF Method, AddNext, Respond, Room, parseVars
<1>14. CASE UNCHANGED vars
    BY <1>14, <1>n, Zenon DEF vars, parseVars, FoundInv, InSet, Missing
<1> QED BY <1>1, <1>2, <1>3, <1>4, <1>5, <1>6, <1>7, <1>8, <1>10, <1>11, <1>12, <1>13, <1>14,
           <1>15 DEF Next, Step, Failing

\* So many headers of the message have the name, and no more come before n.
LEMMA SoFarCounts ==
    ASSUME FieldsInv, NEW name, n \in 1 .. Len(msg.headers) + 1
    PROVE  /\ SoFar(name) \in Nat /\ Len(Said(msg, name)) \in Nat
           /\ SoFar(name) <= Len(Said(msg, name))
           /\ n \in 1 .. Len(msg.headers) =>
                Len(FlattenSeq(Asked(name, n))) =
                    SoFar(name) + (IF msg.headers[n].name = name THEN 1 ELSE 0)
<1> DEFINE m == Len(msg.headers)
           all == Asked(name, m)
<1>1. m \in Nat /\ n - 1 \in 0 .. m /\ m \in 0 .. m
    BY MessageFacts DEF FieldsInv
<1>2. all \in Seq(Seq(Says)) /\ Len(all) = m
    BY <1>1, AskedIsSeq
<1>3. Asked(name, n - 1) \in Seq(Seq(Says)) /\ Len(Asked(name, n - 1)) = n - 1
    BY <1>1, AskedIsSeq
<1>4. SubSeq(all, 1, n - 1) = Asked(name, n - 1)
  <2>1. SubSeq(all, 1, n - 1) \in Seq(Seq(Says)) /\ Len(SubSeq(all, 1, n - 1)) = n - 1
      BY <1>1, <1>2
  <2>2. ASSUME NEW k \in 1 .. n - 1 PROVE SubSeq(all, 1, n - 1)[k] = Asked(name, n - 1)[k]
    <3>1. k \in 1 .. m /\ all[k] = Item(name, k) /\ Asked(name, n - 1)[k] = Item(name, k)
        BY <1>1 DEF Asked
    <3>2. SubSeq(all, 1, n - 1)[k] = all[k]
        BY <1>1, <1>2
    <3> QED BY <3>1, <3>2
  <2> QED BY <2>1, <2>2, <1>3, SeqEqual
<1>5. Said(msg, name) = FlattenSeq(all)
    BY DEF Said, Asked, Item
<1> HIDE DEF all
<1>6. /\ FlattenSeq(Asked(name, n - 1)) \in Seq(Says) /\ FlattenSeq(all) \in Seq(Says)
      /\ Len(FlattenSeq(Asked(name, n - 1))) <= Len(FlattenSeq(all))
    BY <1>1, <1>2, <1>4, FlattenBegins
<1>7. ASSUME n \in 1 .. m
      PROVE  Len(FlattenSeq(Asked(name, n))) =
                 SoFar(name) + (IF msg.headers[n].name = name THEN 1 ELSE 0)
  <2>1. FlattenSeq(Asked(name, n)) = FlattenSeq(Asked(name, n - 1)) \o Item(name, n)
      BY <1>7, AskedMore
  <2>2. msg.headers[n].says \in Says
      BY <1>7 DEF Says
  <2>3. Item(name, n) \in Seq(Says)
        /\ Len(Item(name, n)) = IF msg.headers[n].name = name THEN 1 ELSE 0
      BY <2>2 DEF Item
  <2> DEFINE item == Item(name, n)
             before == FlattenSeq(Asked(name, n - 1))
  <2>4. item \in Seq(Says) /\ before \in Seq(Says) /\ FlattenSeq(Asked(name, n)) = before \o item
      BY <2>1, <2>3, <1>6
  <2> HIDE DEF item, before
  <2>5. Len(before \o item) = Len(before) + Len(item)
      BY <2>4
  <2> QED BY <2>3, <2>4, <2>5 DEF SoFar, item, before
<1> QED BY <1>5, <1>6, <1>7 DEF SoFar

\* The next header counts for its own name, and the count stays with n.
LEMMA SoFarStep ==
    ASSUME FieldsInv, NEW name, n \in 1 .. Len(msg.headers) + 1, msg' = msg
    PROVE  /\ n' = n => SoFar(name)' = SoFar(name)
           /\ n \in 1 .. Len(msg.headers) /\ n' = n + 1 =>
                SoFar(name)' = SoFar(name) + (IF msg.headers[n].name = name THEN 1 ELSE 0)
<1>1. SoFar(name)' = Len(FlattenSeq(Asked(name, n' - 1)))
    BY DEF SoFar, Asked, Item
<1>2. n' = n + 1 => n' - 1 = n
  <2>1. n \in Int
      BY MessageFacts DEF FieldsInv
  <2> QED BY <2>1
<1> QED BY <1>1, <1>2, SoFarCounts DEF SoFar

\* An answer has a number of headers.
LEMMA AnswersAreFields ==
    ASSUME ResInv
    PROVE  Len(res.fields) \in Nat
<1> DEFINE q == res.fields
<1>1. q \in Seq(Field)
    BY DEF ResInv, Response
<1> HIDE DEF q
<1>2. Len(q) \in Nat
    BY <1>1
<1> QED BY <1>2 DEF q

\* The first half of the room: a header more or less to go.
LEMMA SoFarGrows ==
    ASSUME FieldsInv, Answering, msg' = msg,
           n' = n \/ (n \in 1 .. Len(msg.headers) /\ n' = n + 1)
    PROVE  /\ SoFar("CSeq") \in Nat /\ SoFar("Transport") \in Nat
           /\ SoFar("CSeq")' \in Nat /\ SoFar("Transport")' \in Nat
           /\ SoFar("CSeq") <= SoFar("CSeq")' /\ SoFar("Transport") <= SoFar("Transport")'
<1>1. Len(msg.headers) \in Nat /\ n \in 1 .. Len(msg.headers) + 1
    BY MessageFacts DEF FieldsInv
<1>2. SoFar("CSeq") \in Nat /\ SoFar("Transport") \in Nat
    BY <1>1, SoFarCounts
<1>3. ASSUME n' = n
      PROVE  SoFar("CSeq")' = SoFar("CSeq") /\ SoFar("Transport")' = SoFar("Transport")
    BY <1>1, <1>3, SoFarStep
<1>4. ASSUME n \in 1 .. Len(msg.headers), n' = n + 1
      PROVE  /\ SoFar("CSeq")' = SoFar("CSeq") + (IF msg.headers[n].name = "CSeq" THEN 1 ELSE 0)
             /\ SoFar("Transport")' = SoFar("Transport") + (IF msg.headers[n].name = "Transport" THEN 1 ELSE 0)
    BY <1>1, <1>4, SoFarStep
<1> QED BY <1>2, <1>3, <1>4

\* Without a new header there is as much room as before.
LEMMA SameRoom ==
    ASSUME FieldsInv, ResInv, BufferInv, Answering, msg' = msg, fields' = fields,
           Len(res'.fields) = Len(res.fields),
           n' = n \/ (n \in 1 .. Len(msg.headers) /\ n' = n + 1),
           \/ pc' \notin {"status", "handle", "transport", "add", "todo"}
           \/ pc \notin {"add", "todo"} /\ pc' \in {"status", "handle", "transport"}
           \/ pc \in {"add", "todo"} /\ pc' \in {"add", "todo"} /\ todo' = todo
    PROVE  BufferInv'
<1>1. /\ SoFar("CSeq") \in Nat /\ SoFar("Transport") \in Nat
      /\ SoFar("CSeq")' \in Nat /\ SoFar("Transport")' \in Nat
      /\ SoFar("CSeq") <= SoFar("CSeq")' /\ SoFar("Transport") <= SoFar("Transport")'
    BY SoFarGrows
<1>2. Len(res.fields) \in Nat
    BY AnswersAreFields
<1>3. pc \notin Ends
    BY DEF Answering, Ends
<1> DEFINE has == Len(res.fields)
           room == SoFar("CSeq") + SoFar("Transport")
<1>4. room \in Nat /\ room' \in Nat /\ room <= room'
    BY <1>1
<1>5. /\ Len(fields) <= HBuf /\ has <= HBuf
      /\ pc \in {"status", "handle", "transport"} => has <= room
      /\ pc \in {"add", "todo"} => has + Len(todo) <= room + 3
    BY <1>3 DEF BufferInv
<1>6. pc \in {"add", "todo"} \/ pc \in {"status", "handle", "transport"}
    BY DEF Answering
<1>7. pc' \in {"status", "handle", "transport"} => has <= room'
    BY <1>2, <1>4, <1>5, <1>6
<1>8. CASE pc' \in {"add", "todo"}
  <2>1. n' = n
    <3>1. n = Len(fields) + 1 /\ Len(fields) = Len(msg.headers) /\ Len(msg.headers) \in Nat
        BY <1>8, MessageFacts DEF FieldsInv, Answering
    <3> QED BY <3>1
  <2>2. room' = room
      BY <2>1 DEF SoFar, Asked, Item
  <2>3. has + Len(todo') <= room' + 3
      BY <1>5, <1>8, <2>2
  <2> QED BY <1>5, <1>8, <2>3 DEF BufferInv
<1>9. CASE pc' \notin {"add", "todo"}
    BY <1>5, <1>7, <1>9 DEF BufferInv
<1> QED BY <1>8, <1>9

\* With a new header for a header of the message, there is still room or the assertion fails.
LEMMA RoomForAnswer ==
    ASSUME FieldsInv, ResInv, BufferInv, pc \in {"handle", "transport"}, msg' = msg, fields' = fields,
           Len(res'.fields) = Len(res.fields) + 1, pc' = Room("handle"),
           n \in 1 .. Len(msg.headers), n' = n + 1, msg.headers[n].name \in {"CSeq", "Transport"}
    PROVE  BufferInv'
<1>1. Len(msg.headers) \in Nat /\ n \in 1 .. Len(msg.headers) + 1
    BY MessageFacts DEF FieldsInv
<1>2. /\ SoFar("CSeq") \in Nat /\ SoFar("Transport") \in Nat
      /\ SoFar("CSeq")' + SoFar("Transport")' = SoFar("CSeq") + SoFar("Transport") + 1
    BY <1>1, SoFarCounts, SoFarStep
<1>3. Len(res.fields) \in Nat
    BY AnswersAreFields
<1>4. pc \notin Ends /\ pc' \in {"handle", "aborted"} /\ (pc' = "handle" => Len(res.fields) # HBuf)
    BY DEF Ends, Room
<1>5. HBuf \in Nat
    BY RequestsAssumption
<1> QED BY <1>2, <1>3, <1>4, <1>5 DEF BufferInv, Ends

\* What the method adds fits behind them: three headers at most.
LEMMA MethodAddsThree ==
    ASSUME Method
    PROVE  Len(todo') \in 0 .. 3
<1>1. todo' \in {process_method_describe, process_method_options, process_method_play(seq'),
                 process_method_setup, << >>}
    BY DEF Method
<1>2. /\ Len(process_method_describe) = 2 /\ Len(process_method_options) = 1
      /\ Len(process_method_setup) = 2 /\ Len(<< >>) = 0
    BY DEF process_method_describe, process_method_options, process_method_setup
<1>3. Len(process_method_play(seq')) = 3
  <2> DEFINE session == Header("Session", "extension", <<"session">>)
             date == Header("Date", "general", <<"date">>)
             info == Header("RTP-Info", "extension", <<"seq", seq'>>)
  <2>1. process_method_setup = <<session, date>> /\ process_method_play(seq') = process_method_setup \o <<info>>
      BY DEF process_method_setup, process_method_play
  <2> HIDE DEF session, date, info
  <2>2. <<session, date>> \o <<info>> = <<session, date, info>>
      BY TwoAndOne
  <2>3. Len(<<session, date, info>>) = 3
      OBVIOUS
  <2> QED BY <2>1, <2>2, <2>3
<1> QED BY <1>1, <1>2, <1>3

\* Neither buffer outgrows its room without the program ending.
LEMMA BufferStep ==
    ASSUME FieldsInv, TodoInv, SearchInv, ResInv, BufferInv, [Next]_vars
    PROVE  BufferInv'
<1>0. /\ Len(msg.headers) \in Nat /\ Len(fields) \in Nat /\ n \in Nat /\ HBuf \in Nat
    BY MessageFacts, RequestsAssumption DEF FieldsInv
<1>r. Len(res.fields) \in Nat
    BY AnswersAreFields, Zenon
<1>e. Ends \cap {"idle", "line", "headers", "field", "process", "status", "handle", "transport", "add", "todo"} = {}
    BY DEF Ends
<1>w. ASSUME pc' \in Ends PROVE BufferInv'
    BY <1>w DEF BufferInv, Ends
<1>p. ASSUME pc \notin Ends, UNCHANGED <<fields, res>>,
             pc' \notin {"status", "handle", "transport", "add", "todo"}
      PROVE  BufferInv'
    BY <1>p DEF BufferInv
<1>h. ASSUME pc \in {"status", "handle", "transport"}, UNCHANGED <<msg, fields>>, res'.fields = res.fields,
             pc' \in {"status", "handle", "transport"},
             n' = n \/ (n \in 1 .. Len(msg.headers) /\ n' = n + 1)
      PROVE  BufferInv'
  <2>1. Answering /\ pc \notin {"add", "todo"} /\ Len(res'.fields) = Len(res.fields)
      BY <1>h DEF Answering
  <2> QED BY <1>h, <2>1, SameRoom
<1>1. CASE Receive
  <2>1. pc = "idle" /\ pc' = "line" /\ fields' = << >> /\ Len(fields') = 0 /\ res' = res
      BY <1>1 DEF Receive, replyVars
  <2>2. Len(res.fields) <= HBuf
      BY <1>e, <2>1 DEF BufferInv
  <2> QED BY <1>0, <2>1, <2>2 DEF BufferInv
<1>2. CASE ParseLine \/ ParseLineCut \/ ParseHeader \/ ParseHeaderCut
  <2>1. UNCHANGED <<fields, res>> /\ pc \in {"line", "headers"}
        /\ pc' \in {"headers", "field", "wild", "idle", "aborted"}
      BY <1>2 DEF ParseLine, ParseLineCut, ParseHeader, ParseHeaderCut, parseVars, replyVars
  <2> QED BY <1>e, <1>p, <2>1
<1>16. CASE Failing
    BY <1>16, <1>w, FailingStops DEF Ends
<1>3. CASE ParseLineShort \/ Parsed \/ Respond
  <2>1. fields' = fields /\ res'.fields = res.fields /\ pc \in {"line", "headers", "add"}
        /\ pc' \in {"process", "idle"}
    <3>1. res \in Response
        BY DEF ResInv
    <3> QED BY <1>3, <3>1 DEF ParseLineShort, Parsed, Respond, parseVars, Response
  <2>2. Len(fields) <= HBuf /\ Len(res.fields) <= HBuf
      BY <1>e, <2>1 DEF BufferInv
  <2> QED BY <2>1, <2>2 DEF BufferInv
<1>4. CASE TakeField
  <2>1. /\ pc = "field" /\ fields' = Append(fields, RowFound) /\ res' = res
        /\ pc' = IF Len(fields) = HBuf THEN "wild" ELSE "headers"
      BY <1>4 DEF TakeField, FieldSearched, replyVars
  <2>2. Len(fields') = Len(fields) + 1
    <3>1. RowFound \in Names \cup {"NULL"} /\ fields \in Seq(Names \cup {"NULL"})
        BY <2>1, FieldFound DEF FieldsInv
    <3> HIDE DEF RowFound
    <3> QED BY <2>1, <3>1
  <2>3. Len(fields) <= HBuf /\ Len(res.fields) <= HBuf
      BY <1>e, <2>1 DEF BufferInv
  <2> QED BY <1>0, <1>w, <2>1, <2>2, <2>3 DEF BufferInv, Ends
<1>5. CASE Compare \/ NextSet \/ UNCHANGED vars
    BY <1>5 DEF Compare, NextSet, vars, parseVars, replyVars, BufferInv, SoFar, Asked, Item
<1>6. CASE TakeStatus
  <2>1. UNCHANGED <<msg, n, fields>> /\ pc = "status" /\ pc' = "handle" /\ res'.fields = res.fields
    <3>1. res \in Response
        BY DEF ResInv
    <3> QED BY <1>6, <3>1 DEF TakeStatus, parseVars, Response
  <2> QED BY <1>h, <2>1
<1>7. CASE ProcessHeader
  <2>a. SUFFICES ASSUME ~VersionEmpty(msg) PROVE BufferInv'
    <3>1. CASE VersionEmpty(msg)
        BY <1>7, <1>w, <3>1 DEF ProcessHeader, Ends
    <3> QED BY <3>1
  <2>1. pc = "process" /\ UNCHANGED <<msg, fields>>
      BY <1>7 DEF ProcessHeader
  <2>2. n' = 1 /\ pc' = "status"
      BY <1>7, <2>a DEF ProcessHeader, ResInv
  <2>3. Len(res'.fields) = 0
    <3>1. res \in Response /\ res' = [res EXCEPT !.fields = <<>>, !.entity = "none"]
        BY <1>7, <2>a DEF ProcessHeader, ResInv
    <3>2. res'.fields = << >>
        BY <3>1 DEF Response
    <3> QED BY <3>2
  <2>4. ASSUME NEW name PROVE SoFar(name)' \in Nat
    <3>1. SoFar(name)' = Len(FlattenSeq(Asked(name, n' - 1)))
        BY <2>1 DEF SoFar, Asked, Item
    <3>2. n' - 1 = 0 /\ 0 \in 0 .. Len(msg.headers)
        BY <1>0, <2>2
    <3>3. Asked(name, 0) \in Seq(Seq(Says))
        BY <3>2, AskedIsSeq DEF FieldsInv
    <3>4. FlattenSeq(Asked(name, 0)) \in Seq(Says)
        BY <3>3, FlattenIsSeq
    <3>5. Len(FlattenSeq(Asked(name, 0))) \in Nat
        BY <3>4
    <3> QED BY <3>1, <3>2, <3>5
  <2>6. SoFar("CSeq")' \in Nat /\ SoFar("Transport")' \in Nat
      BY <2>4
  <2>7. Len(fields) <= HBuf
      BY <1>e, <2>1 DEF BufferInv
  <2> DEFINE has == Len(res.fields)
             room == SoFar("CSeq") + SoFar("Transport")
  <2>8. has' <= HBuf /\ has' <= room'
    <3>1. has' = 0
        BY <2>3
    <3>2. room' \in Nat
        BY <2>6
    <3> HIDE DEF has, room
    <3> QED BY <1>0, <3>1, <3>2
  <2> QED BY <2>1, <2>2, <2>7, <2>8 DEF BufferInv
<1>8. CASE HandleDefault \/ HandleAccept \/ HandleTransport
  <2>1. /\ UNCHANGED <<msg, fields>> /\ pc = "handle" /\ pc' \in {"handle", "status", "transport"}
        /\ n' \in {n, n + 1} /\ n <= Len(fields)
        /\ res' = res \/ res' = [res EXCEPT !.entity = "type"]
      BY <1>0, <1>8 DEF HandleDefault, HandleAccept, HandleTransport, Handling, Handled, parseVars, replyVars
  <2>2. n \in 1 .. Len(msg.headers)
      BY <1>0, <2>1 DEF FieldsInv, Answering
  <2>3. res'.fields = res.fields
    <3>1. res \in Response
        BY DEF ResInv
    <3> QED BY <2>1, <3>1 DEF Response
  <2> QED BY <1>h, <2>1, <2>2, <2>3
<1>9. CASE HandleUnknown
    BY <1>9, <1>w DEF HandleUnknown, Ends
<1>10. CASE HandleCSeq
  <2>1. /\ pc = "handle" /\ fields[n] = "CSeq" /\ n <= Len(fields) /\ AddHeader("CSeq", "req", n)
        /\ n' = n + 1 /\ pc' = Room("handle") /\ UNCHANGED <<msg, fields>>
      BY <1>0, <1>10 DEF HandleCSeq, Handling, Handled
  <2>2. n \in 1 .. Len(msg.headers) /\ msg.headers[n].name = "CSeq"
      BY <1>0, <2>1 DEF FieldsInv, Answering
  <2>3. Len(res'.fields) = Len(res.fields) + 1
      BY <1>0, <2>1, FieldAdded, HandledNames DEF ResInv
  <2> QED BY <2>1, <2>2, <2>3, RoomForAnswer
<1>11. CASE TransportWord \/ TransportProtocol \/ TransportCast \/ TransportParameter
            \/ TransportKey \/ TransportComma
  <2>1. UNCHANGED <<msg, n, fields, res>> /\ pc = "transport" /\ pc' \in {"transport", "aborted"}
      BY <1>11 DEF TransportWord, TransportProtocol, TransportCast, TransportParameter,
            TransportKey, TransportComma, At, Scanning, ScanRest, parseVars
  <2> QED BY <1>h, <1>w, <2>1 DEF Ends
<1>12. CASE TransportAnswer
  <2>1. pc = "transport" /\ n' = n + 1 /\ UNCHANGED <<msg, fields>>
      BY <1>12 DEF TransportAnswer, Scanned
  <2>2. n \in 1 .. Len(msg.headers) /\ msg.headers[n].name = "Transport"
      BY <1>0, <2>1 DEF FieldsInv, Answering
  <2>3. CASE trn.allowed
    <3>1. pc' = Room("handle") /\ \E place : AddHeader("Transport", "tmp", place)
        BY <1>12, <2>3 DEF TransportAnswer
    <3>2. Len(res'.fields) = Len(res.fields) + 1
      <4> DEFINE q == res.fields
      <4>1. res \in Response /\ q \in Seq(Field)
          BY DEF ResInv, Response
      <4>2. \E f : res' = [res EXCEPT !.fields = Append(q, f)]
          BY <3>1 DEF AddHeader
      <4>3. \E f : res'.fields = Append(q, f)
          BY <4>1, <4>2 DEF Response
      <4> HIDE DEF q
      <4>4. \A f : Len(Append(q, f)) = Len(q) + 1
          BY <4>1
      <4> QED BY <4>3, <4>4, Zenon DEF q
    <3> QED BY <2>1, <2>2, <3>1, <3>2, RoomForAnswer
  <2>4. CASE ~trn.allowed
    <3>1. pc' = "handle" /\ res' = res
        BY <1>12, <2>4 DEF TransportAnswer
    <3> QED BY <1>h, <2>1, <2>2, <3>1
  <2> QED BY <2>3, <2>4
<1>13. CASE Method
  <2>1. /\ pc = "handle" /\ pc' = "add" /\ UNCHANGED <<msg, n, fields>>
        /\ res' = [res EXCEPT !.entity =
                      IF msg.method = "DESCRIBE" /\ @ # "none" THEN "sdp" ELSE @]
      BY <1>13 DEF Method, parseVars
  <2>2. res'.fields = res.fields
    <3>1. res \in Response
        BY DEF ResInv
    <3> QED BY <2>1, <3>1 DEF Response
  <2>3. n \in 1 .. Len(msg.headers) + 1
      BY <1>0, <2>1 DEF FieldsInv, Answering
  <2> DEFINE room == SoFar("CSeq") + SoFar("Transport")
  <2>4. SoFar("CSeq") \in Nat /\ SoFar("Transport") \in Nat
      BY <2>3, SoFarCounts
  <2>5. room' = room
      BY <2>1 DEF SoFar, Asked, Item
  <2>6. Len(fields) <= HBuf /\ Len(res.fields) <= HBuf /\ Len(res.fields) <= room
      BY <1>e, <2>1 DEF BufferInv
  <2>7. Len(todo') \in 0 .. 3
      BY <1>13, MethodAddsThree
  <2>8. Len(res'.fields) + Len(todo') <= room' + 3
    <3> DEFINE has == Len(res.fields)
    <3>1. has \in Nat /\ has <= room /\ has' = has
        BY <1>r, <2>2, <2>6
    <3>2. room \in Nat
        BY <2>4
    <3> HIDE DEF has, room
    <3>3. has + Len(todo') <= room + 3
      <4>1. \A a, r \in Nat, t \in 0 .. 3 : a <= r => a + t <= r + 3
          OBVIOUS
      <4> QED BY <2>7, <3>1, <3>2, <4>1
    <3>4. has' = Len(res'.fields)
        BY Zenon DEF has
    <3> QED BY <2>5, <3>1, <3>3, <3>4, Zenon DEF room
  <2> QED BY <2>1, <2>2, <2>6, <2>8 DEF BufferInv
<1>14. CASE NextHeader
  <2>1. UNCHANGED <<msg, n, fields, res, todo>> /\ pc = "add" /\ pc' = "todo"
      BY <1>14 DEF NextHeader, parseVars, replyVars
  <2> QED BY <2>1, SameRoom DEF Answering
<1>15. CASE AddNext
  <2>1. /\ pc = "todo" /\ UNCHANGED <<msg, n, fields>> /\ pc' = Room("add") /\ todo' = Tail(todo)
        /\ hit # 0 /\ AddHeader(RowFound, "tmp", b)
      BY <1>15 DEF AddNext, parseVars
  <2>2. Len(todo') = Len(todo) - 1 /\ Len(todo) \in Nat
    <3>1. todo \in Seq(Additions) /\ todo # << >>
        BY <2>1 DEF TodoInv
    <3> QED BY <2>1, <3>1
  <2>3. Len(res'.fields) = Len(res.fields) + 1
    <3>1. RowFound \in Names
        BY <2>1, AdditionFound, SixAreNames DEF Six
    <3>2. b \in Nat /\ res \in Response
      <4>1. b \in 0 .. Len(tmp) /\ res \in Response
          BY DEF ResInv
      <4> QED BY <4>1
    <3> QED BY <2>1, <3>1, <3>2, FieldAdded, Zenon
  <2>4. n \in 1 .. Len(msg.headers) + 1
      BY <1>0, <2>1 DEF FieldsInv, Answering
  <2> DEFINE room == SoFar("CSeq") + SoFar("Transport")
  <2>5. SoFar("CSeq") \in Nat /\ SoFar("Transport") \in Nat
      BY <2>4, SoFarCounts
  <2>6. room' = room
      BY <2>1 DEF SoFar, Asked, Item
  <2>7. /\ Len(fields) <= HBuf /\ Len(res.fields) <= HBuf
        /\ Len(res.fields) + Len(todo) <= room + 3
      BY <1>e, <2>1 DEF BufferInv
  <2>8. CASE Len(res.fields) = HBuf
      BY <1>w, <2>1, <2>8 DEF Room, Ends
  <2>9. CASE Len(res.fields) # HBuf
    <3>1. pc' = "add" /\ Len(res'.fields) <= HBuf
        BY <1>0, <2>1, <2>3, <2>7, <2>9 DEF Room
    <3>2. Len(res'.fields) + Len(todo') <= room' + 3
        BY <1>0, <2>2, <2>3, <2>5, <2>6, <2>7
    <3> QED BY <2>1, <2>7, <3>1, <3>2 DEF BufferInv
  <2> QED BY <2>8, <2>9
<1> QED BY <1>1, <1>2, <1>3, <1>4, <1>5, <1>6, <1>7, <1>8, <1>9, <1>10, <1>11, <1>12, <1>13,
           <1>14, <1>15, <1>16 DEF Next, Step, Transport, Failing

(***************************************************************************)
(* Reading the offers of a transport                                       *)
(***************************************************************************)
\* The texts of a list with the same between any two, and where the k-th begins.
Between == <<",", " ">>
Separated(parts, sep) == [i \in 1 .. Len(parts) |-> IF i = 1 THEN parts[i] ELSE sep \o parts[i]]
BeginWith(parts, sep, k) == Len(FlattenSeq(SubSeq(Separated(parts, sep), 1, k - 1))) + (IF k = 1 THEN 1 ELSE 3)
BeginOf(parts, k) == BeginWith(parts, Between, k)
\* The separators by their names.
Comma == ","
Blank == " "
Semicolon == ";"
Equals == "="
\* The words that an offer is written in, and whether it is passed over.
WordsOf(offer) == {offer.proto, offer.cast, offer.ports, "client_port", "mode", "play", Semicolon, Equals}
OfferTexts(offers) == [i \in 1 .. Len(offers) |-> OfferText(offers[i])]
Offers0 == msg.headers[n].says
Begin(k) == BeginOf(OfferTexts(Offers0), k)
Passed(offer) == offer.cast = "multicast" /\ offer.param # "none"

\* p words of an offer have been read.
InOffer(offer, begin, p) ==
    /\ trn.c = begin + p
    /\ trn.trans = begin
    /\ trn.value = begin + 2 * (p \div 2)
    /\ trn.allowed
    /\ trn.i = IF p < 2 THEN 0 ELSE IF p < 4 THEN 1 ELSE IF p < 8 THEN 2 ELSE 3
    /\ trn.sign = (p \in {6, 7} /\ offer.param \in {"ports", "both"})
    /\ trn.ports = (p >= 8)
    /\ p >= 4 => offer.cast = "unicast"
    /\ trn.end # 0 => trn.end = trn.c /\ p = Len(OfferText(offer))

Scans == [c : Int, value : Int, trans : Int, i : Int, allowed : BOOLEAN,
          sign : BOOLEAN, ports : BOOLEAN, end : Int]

\* An offer that is not taken is passed over up to its end.
Over(offer, begin) ==
    /\ Passed(offer)
    /\ trn.c = begin + Len(OfferText(offer))
    /\ trn.i = 0 /\ ~trn.allowed /\ ~trn.sign /\ ~trn.ports /\ trn.end = 0

\* The offers before the one that is being read were passed over.
ScanInv == pc = "transport" =>
    /\ trn \in Scans
    /\ \/ Len(Offers0) = 0 /\ trn = NoScan
       \/ \E k \in 1 .. Len(Offers0) :
            /\ \A j \in 1 .. k - 1 : Passed(Offers0[j])
            /\ \/ \E p \in 0 .. Len(OfferText(Offers0[k])) : InOffer(Offers0[k], Begin(k), p)
               \/ Over(Offers0[k], Begin(k))

\* Two words in front of a sequence.
LEMMA BehindTwo ==
    ASSUME NEW S, NEW two \in Seq(S), NEW q \in Seq(S)
    PROVE  Len(two) = 2 =>
               /\ two \o q \in Seq(S) /\ Len(two \o q) = 2 + Len(q)
               /\ (two \o q)[1] = two[1] /\ (two \o q)[2] = two[2]
               /\ \A i \in 1 .. Len(q) : (two \o q)[2 + i] = q[i]
<1> DEFINE r == two \o q
<1>1. /\ r \in Seq(S) /\ Len(r) = Len(two) + Len(q)
      /\ \A i \in 1 .. Len(two) : r[i] = two[i]
      /\ \A i \in 1 .. Len(q) : r[Len(two) + i] = q[i]
    BY ConcatAt
<1> HIDE DEF r
<1>2. 1 \in 1 .. 2 /\ 2 \in 1 .. 2
    OBVIOUS
<1>3. Len(two) = 2 => Len(r) = 2 + Len(q) /\ r[1] = two[1] /\ r[2] = two[2] /\ \A i \in 1 .. Len(q) : r[2 + i] = q[i]
    BY <1>1, <1>2
<1> QED BY <1>1, <1>3, Zenon DEF r

\* The parts of a list one after the other, with a comma and a blank between them.
LEMMA SeparatedParts ==
    ASSUME NEW S, NEW sep \in Seq(S), Len(sep) = 2, NEW parts \in Seq(Seq(S))
    PROVE  LET w == FlattenSeq(Separated(parts, sep))
               at(k) == BeginWith(parts, sep, k)
           IN  /\ w \in Seq(S)
               /\ Len(parts) = 0 => Len(w) = 0
               /\ Len(parts) > 0 => at(1) = 1
               /\ \A k \in 1 .. Len(parts) :
                    /\ at(k) \in Nat /\ at(k) >= 1
                    /\ at(k) + Len(parts[k]) - 1 <= Len(w)
                    /\ \A i \in 1 .. Len(parts[k]) : w[at(k) + i - 1] = parts[k][i]
                    /\ k = Len(parts) => Len(w) = at(k) + Len(parts[k]) - 1
                    /\ k < Len(parts) =>
                         /\ at(k + 1) = at(k) + Len(parts[k]) + 2
                         /\ at(k) + Len(parts[k]) + 2 <= Len(w) + 1
                         /\ w[at(k) + Len(parts[k])] = sep[1]
                         /\ w[at(k) + Len(parts[k]) + 1] = sep[2]
<1> DEFINE w == FlattenSeq(Separated(parts, sep))
           it == Separated(parts, sep)
           m == Len(parts)
           H(k) == FlattenSeq(SubSeq(it, 1, k))
           at(k) == BeginWith(parts, sep, k)
<1>0. m \in Nat /\ \A k \in 1 .. m : parts[k] \in Seq(S) /\ Len(parts[k]) \in Nat
    OBVIOUS
<1>1. it \in Seq(Seq(S)) /\ Len(it) = m
      /\ \A k \in 1 .. m : it[k] = IF k = 1 THEN parts[k] ELSE sep \o parts[k]
  <2>1. \A k \in 1 .. m : (IF k = 1 THEN parts[k] ELSE sep \o parts[k]) \in Seq(S)
      BY <1>0
  <2>2. it \in [1 .. m -> Seq(S)]
      BY <2>1 DEF Separated
  <2> QED BY <1>0, <2>2, FunctionIsSequence DEF Separated
<1>2. w = FlattenSeq(it)
    BY DEF it
<1>3. \A k \in 1 .. m : at(k) = Len(H(k - 1)) + (IF k = 1 THEN 1 ELSE 3)
    BY DEF BeginWith
<1> HIDE DEF w, it, at
<1>4. /\ H(0) = << >> /\ w = H(m)
      /\ \A k \in 0 .. m : H(k) \in Seq(S)
      /\ \A k \in 1 .. m : H(k) = H(k - 1) \o it[k]
    BY <1>1, <1>2, FlattenPrefix
<1>5. \A k \in 0 .. m : /\ Len(H(k)) \in Nat /\ Len(H(k)) <= Len(w) /\ w \in Seq(S)
                        /\ \A i \in 1 .. Len(H(k)) : w[i] = H(k)[i]
  <2> SUFFICES ASSUME NEW k \in 0 .. m
               PROVE  /\ Len(H(k)) \in Nat /\ Len(H(k)) <= Len(w) /\ w \in Seq(S)
                      /\ \A i \in 1 .. Len(H(k)) : w[i] = H(k)[i]
      OBVIOUS
  <2>1. H(k) \in Seq(S)
      BY <1>4
  <2>2. Len(H(k)) \in Nat
      BY <2>1
  <2> QED BY <1>1, <1>2, <2>2, FlattenBegins
<1>w. w \in Seq(S) /\ Len(w) \in Nat /\ Len(H(0)) = 0
  <2>1. 0 \in 0 .. m
      BY <1>0
  <2>2. w \in Seq(S)
      BY <1>5, <2>1
  <2> QED BY <1>4, <2>2
<1> HIDE DEF H
<1>6. ASSUME NEW k \in 1 .. m
      PROVE  /\ at(k) \in Nat /\ at(k) >= 1
             /\ Len(H(k)) = at(k) + Len(parts[k]) - 1
             /\ \A i \in 1 .. Len(parts[k]) : w[at(k) + i - 1] = parts[k][i]
             /\ k > 1 => w[Len(H(k - 1)) + 1] = sep[1] /\ w[Len(H(k - 1)) + 2] = sep[2]
                         /\ Len(H(k - 1)) + 2 <= Len(w)
  <2> DEFINE p == H(k - 1)
             q == parts[k]
  <2>1. k \in 0 .. m /\ k - 1 \in 0 .. m
      BY <1>0
  <2>2. p \in Seq(S) /\ q \in Seq(S) /\ H(k) = p \o it[k] /\ it[k] \in Seq(S)
        /\ Len(p) \in Nat /\ Len(q) \in Nat
    <3>1. p \in Seq(S) /\ H(k) = p \o it[k] /\ Len(p) \in Nat
        BY <1>4, <1>5, <2>1
    <3>2. q \in Seq(S) /\ Len(q) \in Nat
        BY <1>0
    <3>3. it[k] \in Seq(S)
        BY <1>1
    <3> QED BY <3>1, <3>2, <3>3
  <2>3. \A i \in 1 .. Len(H(k)) : w[i] = H(k)[i]
      BY <1>5, <2>1
  <2>0. Len(H(k)) <= Len(w)
      BY <1>5, <2>1
  <2>4. CASE k = 1
    <3>1. it[k] = q /\ Len(p) = 0 /\ at(k) = 1
        BY <1>0, <1>1, <1>3, <1>w, <2>4
    <3> HIDE DEF p, q
    <3>2. Len(p \o q) = Len(p) + Len(q) /\ \A i \in 1 .. Len(q) : (p \o q)[Len(p) + i] = q[i]
      <4>1. q \in Seq(S) /\ sep \in Seq(S)
          BY <2>2
      <4> HIDE DEF q
      <4> QED BY <4>1, ConcatAt
    <3>3. Len(H(k)) = Len(q) /\ \A i \in 1 .. Len(q) : w[i] = q[i]
        BY <2>2, <2>3, <3>1, <3>2
    <3>4. \A i \in 1 .. Len(q) : 1 + i - 1 = i
        BY <2>2
    <3> QED BY <2>2, <2>4, <3>1, <3>3, <3>4 DEF q
  <2>5. CASE k # 1
    <3>1. it[k] = sep \o q /\ at(k) = Len(p) + 3 
        BY <1>0, <1>1, <1>3, <2>5
    <3> HIDE DEF p, q
    <3> DEFINE r == sep \o q
    <3>3. r \in Seq(S) /\ Len(r) = 2 + Len(q) /\ r[1] = sep[1] /\ r[2] = sep[2]
          /\ \A i \in 1 .. Len(q) : r[2 + i] = q[i]
      <4>1. q \in Seq(S)
          BY <2>2
      <4> QED BY <4>1, BehindTwo
    <3>4. H(k) = p \o r
        BY <2>2, <3>1
    <3> HIDE DEF r
    <3>5a. p \in Seq(S) /\ r \in Seq(S)
        BY <2>2, <3>3
    <3>5. Len(p \o r) = Len(p) + Len(r) /\ \A i \in 1 .. Len(r) : (p \o r)[Len(p) + i] = r[i]
        BY <3>5a, ConcatAt
    <3>6. Len(H(k)) = Len(p) + 2 + Len(q) /\ \A i \in 1 .. Len(r) : w[Len(p) + i] = r[i]
      <4>1. Len(H(k)) = Len(p) + Len(r) /\ Len(r) = 2 + Len(q)
          BY <3>3, <3>4, <3>5
      <4>2. ASSUME NEW i \in 1 .. Len(r) PROVE w[Len(p) + i] = r[i]
        <5>1. Len(p) + i \in 1 .. Len(H(k))
            BY <2>2, <4>1
        <5>2. H(k)[Len(p) + i] = r[i]
            BY <3>4, <3>5, Zenon
        <5> QED BY <2>3, <5>1, <5>2, Zenon
      <4>3. Len(H(k)) = Len(p) + 2 + Len(q)
          BY <2>2, <4>1
      <4> QED BY <4>2, <4>3
    <3>7. ASSUME NEW i \in 1 .. Len(q) PROVE w[at(k) + i - 1] = q[i]
      <4>1. 2 + i \in 1 .. Len(r) /\ at(k) + i - 1 = Len(p) + (2 + i)
          BY <2>2, <3>1, <3>3
      <4> QED BY <3>3, <3>6, <4>1
    <3>8. 1 \in 1 .. Len(r) /\ 2 \in 1 .. Len(r)
        BY <2>2, <3>3
    <3>9. w[Len(p) + 1] = sep[1] /\ w[Len(p) + 2] = sep[2]
        BY <3>3, <3>6, <3>8
    <3>10. Len(p) + 2 <= Len(w)
      <4>1. Len(p) + 2 + Len(q) <= Len(w)
          BY <2>0, <3>6
      <4> QED BY <1>w, <2>2, <4>1
    <3>11. at(k) \in Nat /\ at(k) >= 1 /\ Len(H(k)) = at(k) + Len(q) - 1
      <4>1. \A a, l \in Nat : a + 3 \in Nat /\ a + 3 >= 1 /\ a + 2 + l = (a + 3) + l - 1
          OBVIOUS
      <4> QED BY <2>2, <3>1, <3>6, <4>1
    <3> QED BY <3>7, <3>9, <3>10, <3>11, Zenon DEF p, q
  <2> QED BY <2>4, <2>5
<1>7. ASSUME NEW k \in 1 .. m, k < m
      PROVE  /\ at(k + 1) = at(k) + Len(parts[k]) + 2
             /\ at(k) + Len(parts[k]) + 2 <= Len(w) + 1
             /\ w[at(k) + Len(parts[k])] = sep[1]
             /\ w[at(k) + Len(parts[k]) + 1] = sep[2]
  <2>1. k + 1 \in 1 .. m /\ k + 1 > 1 /\ (k + 1) - 1 = k /\ k + 1 # 1
      BY <1>0, <1>7
  <2>2. Len(H(k)) = at(k) + Len(parts[k]) - 1 /\ at(k) \in Nat /\ Len(parts[k]) \in Nat
      BY <1>0, <1>6
  <2>3. at(k + 1) = Len(H(k)) + 3
      BY <1>3, <2>1, Zenon
  <2>4. w[Len(H(k)) + 1] = sep[1] /\ w[Len(H(k)) + 2] = sep[2] /\ Len(H(k)) + 2 <= Len(w)
      BY <1>6, <2>1
  <2>5. /\ Len(H(k)) + 1 = at(k) + Len(parts[k]) /\ Len(H(k)) + 2 = at(k) + Len(parts[k]) + 1
        /\ Len(H(k)) + 3 = at(k) + Len(parts[k]) + 2
    <3>1. \A a, l \in Nat : \A h : h = a + l - 1 => h + 1 = a + l /\ h + 2 = a + l + 1 /\ h + 3 = a + l + 2
        OBVIOUS
    <3> QED BY <2>2, <3>1, Zenon
  <2>6. at(k) + Len(parts[k]) + 2 <= Len(w) + 1
    <3>1. \A a, l, h \in Nat : (a + l - 1) + 2 <= h => a + l + 2 <= h + 1
        OBVIOUS
    <3> QED BY <1>w, <2>2, <2>4, <3>1
  <2> QED BY <2>3, <2>4, <2>5, <2>6, Zenon
<1>8. ASSUME NEW k \in 1 .. m
      PROVE  at(k) + Len(parts[k]) - 1 <= Len(w) /\ (k = m => Len(w) = at(k) + Len(parts[k]) - 1)
  <2>1. k \in 0 .. m
      BY <1>0
  <2> QED BY <1>4, <1>5, <1>6, <2>1
<1>9. m = 0 => Len(w) = 0
    BY <1>4, <1>w
<1>10. m > 0 => at(1) = 1
  <2>1. m > 0 => 1 \in 1 .. m
      BY <1>0
  <2>2. 1 - 1 = 0
      OBVIOUS
  <2>3. m > 0 => at(1) = Len(H(0)) + 1
      BY <1>3, <2>1, <2>2
  <2> QED BY <1>w, <2>3
<1> QED BY <1>w, <1>6, <1>7, <1>8, <1>9, <1>10 DEF w, at

\* Three words in front of a sequence.
LEMMA ThreeBefore ==
    ASSUME NEW S, NEW x \in S, NEW y \in S, NEW z \in S, NEW q \in Seq(S)
    PROVE  /\ <<x, y, z>> \o q \in Seq(S) /\ Len(<<x, y, z>> \o q) = 3 + Len(q)
           /\ (<<x, y, z>> \o q)[1] = x /\ (<<x, y, z>> \o q)[2] = y /\ (<<x, y, z>> \o q)[3] = z
           /\ \A i \in 1 .. Len(q) : (<<x, y, z>> \o q)[3 + i] = q[i]
<1> DEFINE p == <<x, y, z>>
           r == p \o q
<1>1. p \in Seq(S) /\ Len(p) = 3 /\ p[1] = x /\ p[2] = y /\ p[3] = z
    OBVIOUS
<1> HIDE DEF p
<1>2. /\ r \in Seq(S) /\ Len(r) = Len(p) + Len(q)
      /\ \A i \in 1 .. Len(p) : r[i] = p[i]
      /\ \A i \in 1 .. Len(q) : r[Len(p) + i] = q[i]
  <2>1. p \in Seq(S)
      BY <1>1
  <2> QED BY <2>1, ConcatAt
<1> HIDE DEF r
<1>3. 1 \in 1 .. 3 /\ 2 \in 1 .. 3 /\ 3 \in 1 .. 3
    OBVIOUS
<1>4. /\ Len(r) = 3 + Len(q) /\ r[1] = x /\ r[2] = y /\ r[3] = z
      /\ \A i \in 1 .. Len(q) : r[3 + i] = q[i]
    BY <1>1, <1>2, <1>3
<1> QED BY <1>2, <1>4, Zenon DEF r, p

\* How an offer is written: the protocol, the cast and at most two parameters.
LEMMA OfferWords ==
    ASSUME NEW offer, offer.param \in {"ports", "mode", "both", "none"}
    PROVE  LET t == OfferText(offer) IN
           /\ t \in Seq(WordsOf(offer))
           /\ t[1] = offer.proto /\ t[2] = Semicolon /\ t[3] = offer.cast
           /\ offer.param = "none" => Len(t) = 3
           /\ offer.param # "none" =>
                /\ t[4] = Semicolon /\ t[6] = Equals
                /\ t[5] = IF offer.param = "mode" THEN "mode" ELSE "client_port"
                /\ t[7] = IF offer.param = "mode" THEN "play" ELSE offer.ports
           /\ offer.param \in {"ports", "mode"} => Len(t) = 7
           /\ offer.param = "both" =>
                /\ Len(t) = 11
                /\ t[8] = Semicolon /\ t[9] = "mode" /\ t[10] = Equals /\ t[11] = "play"
<1> DEFINE t == OfferText(offer)
           S == WordsOf(offer)
           rest == CASE offer.param = "ports" -> <<Semicolon, "client_port", Equals, offer.ports>>
                     [] offer.param = "mode" -> <<Semicolon, "mode", Equals, "play">>
                     [] offer.param = "both" ->
                          <<Semicolon, "client_port", Equals, offer.ports, Semicolon, "mode", Equals, "play">>
                     [] offer.param = "none" -> << >>
<1>1. t = <<offer.proto, Semicolon, offer.cast>> \o rest
    BY Zenon DEF OfferText, Semicolon, Equals
<1>2. /\ offer.proto \in S /\ offer.cast \in S /\ offer.ports \in S /\ Semicolon \in S
      /\ Equals \in S /\ "client_port" \in S /\ "mode" \in S /\ "play" \in S
    BY DEF WordsOf
<1> HIDE DEF S, t
<1>3. /\ rest \in Seq(S)
      /\ offer.param = "none" => Len(rest) = 0
      /\ offer.param # "none" =>
           /\ rest[1] = Semicolon /\ rest[3] = Equals
           /\ rest[2] = IF offer.param = "mode" THEN "mode" ELSE "client_port"
           /\ rest[4] = IF offer.param = "mode" THEN "play" ELSE offer.ports
      /\ offer.param \in {"ports", "mode"} => Len(rest) = 4
      /\ offer.param = "both" =>
           /\ Len(rest) = 8
           /\ rest[5] = Semicolon /\ rest[6] = "mode" /\ rest[7] = Equals /\ rest[8] = "play"
  <2>1. CASE offer.param = "ports"
    <3>1. rest = <<Semicolon, "client_port", Equals, offer.ports>>
        BY <2>1
    <3> HIDE DEF rest
    <3> QED BY <1>2, <2>1, <3>1
  <2>2. CASE offer.param = "mode"
    <3>1. rest = <<Semicolon, "mode", Equals, "play">>
        BY <2>2
    <3> HIDE DEF rest
    <3> QED BY <1>2, <2>2, <3>1
  <2>3. CASE offer.param = "both"
    <3>1. rest = <<Semicolon, "client_port", Equals, offer.ports, Semicolon, "mode", Equals, "play">>
        BY <2>3
    <3> HIDE DEF rest
    <3> QED BY <1>2, <2>3, <3>1
  <2>4. CASE offer.param = "none"
    <3>1. rest = << >>
        BY <2>4
    <3> HIDE DEF rest
    <3> QED BY <1>2, <2>4, <3>1
  <2> QED BY <2>1, <2>2, <2>3, <2>4
<1> HIDE DEF rest
<1>4. /\ t \in Seq(S) /\ Len(t) = 3 + Len(rest)
      /\ t[1] = offer.proto /\ t[2] = Semicolon /\ t[3] = offer.cast
      /\ \A i \in 1 .. Len(rest) : t[3 + i] = rest[i]
  <2>1. rest \in Seq(S)
      BY <1>3
  <2> QED BY <1>1, <1>2, <2>1, ThreeBefore
<1>5. CASE offer.param = "none"
    BY <1>3, <1>4, <1>5 DEF t, S
<1>6. CASE offer.param \in {"ports", "mode"}
  <2>1. Len(rest) = 4 /\ 1 \in 1 .. 4 /\ 2 \in 1 .. 4 /\ 3 \in 1 .. 4 /\ 4 \in 1 .. 4
      BY <1>3, <1>6
  <2>2. t[4] = rest[1] /\ t[5] = rest[2] /\ t[6] = rest[3] /\ t[7] = rest[4]
      BY <1>4, <2>1
  <2> QED BY <1>3, <1>4, <1>6, <2>1, <2>2 DEF t, S
<1>7. CASE offer.param = "both"
  <2>1. Len(rest) = 8 /\ 1 \in 1 .. 8 /\ 2 \in 1 .. 8 /\ 3 \in 1 .. 8 /\ 4 \in 1 .. 8
        /\ 5 \in 1 .. 8 /\ 6 \in 1 .. 8 /\ 7 \in 1 .. 8 /\ 8 \in 1 .. 8
      BY <1>3, <1>7
  <2>2. /\ t[4] = rest[1] /\ t[5] = rest[2] /\ t[6] = rest[3] /\ t[7] = rest[4]
        /\ t[8] = rest[5] /\ t[9] = rest[6] /\ t[10] = rest[7] /\ t[11] = rest[8]
      BY <1>4, <2>1
  <2> QED BY <1>3, <1>4, <1>7, <2>1, <2>2 DEF t, S
<1> QED BY <1>5, <1>6, <1>7

\* The parameters that an offer may have.
Params == {"ports", "mode", "both", "none"}

\* The words of an offer are none of the separators.
LEMMA OfferWordAt ==
    ASSUME NEW offer, offer.param \in Params,
           offer.proto \notin Separators, offer.cast \notin Separators, offer.ports \notin Separators,
           NEW p \in 0 .. Len(OfferText(offer)) - 1
    PROVE  /\ p \in 0 .. 10
           /\ p \in {1, 3, 7} => OfferText(offer)[p + 1] = Semicolon
           /\ p \in {5, 9} => OfferText(offer)[p + 1] = Equals
           /\ p \notin {1, 3, 5, 7, 9} => OfferText(offer)[p + 1] \notin Separators
<1> DEFINE t == OfferText(offer)
<1>1. /\ t[1] = offer.proto /\ t[2] = Semicolon /\ t[3] = offer.cast
      /\ offer.param = "none" => Len(t) = 3
      /\ offer.param # "none" =>
           /\ t[4] = Semicolon /\ t[6] = Equals
           /\ t[5] \in {"mode", "client_port"}
           /\ t[7] \in {"play", offer.ports}
      /\ offer.param \in {"ports", "mode"} => Len(t) = 7
      /\ offer.param = "both" =>
           /\ Len(t) = 11
           /\ t[8] = Semicolon /\ t[9] = "mode" /\ t[10] = Equals /\ t[11] = "play"
    BY OfferWords DEF Params
<1>2. /\ offer.proto \notin Separators /\ offer.cast \notin Separators /\ offer.ports \notin Separators
      /\ "mode" \notin Separators /\ "client_port" \notin Separators /\ "play" \notin Separators
  <2>1. "mode" \notin Separators /\ "client_port" \notin Separators /\ "play" \notin Separators
      BY Zenon DEF Separators
  <2> QED BY <2>1
<1>3. p \in 0 .. Len(t) - 1
    OBVIOUS
<1> HIDE DEF t
<1> SUFFICES /\ p \in 0 .. 10
             /\ p \in {1, 3, 7} => t[p + 1] = Semicolon
             /\ p \in {5, 9} => t[p + 1] = Equals
             /\ p \notin {1, 3, 5, 7, 9} => t[p + 1] \notin Separators
    BY DEF t
<1>4. CASE offer.param = "none"
  <2>1. p \in {0, 1, 2}
    <3>1. Len(t) = 3
        BY <1>1, <1>4
    <3>2. p \in 0 .. 2
        BY <1>3, <3>1
    <3> QED BY <3>2
  <2>2. t[p + 1] = IF p = 0 THEN offer.proto ELSE IF p = 1 THEN Semicolon ELSE offer.cast
      BY <1>1, <2>1
  <2> QED BY <1>2, <2>1, <2>2
<1>5. CASE offer.param \in {"ports", "mode"}
  <2>1. p \in {0, 1, 2, 3, 4, 5, 6}
    <3>1. Len(t) = 7
        BY <1>1, <1>5
    <3>2. p \in 0 .. 6
        BY <1>3, <3>1
    <3> QED BY <3>2
  <2>2. /\ p = 0 => t[p + 1] = offer.proto
        /\ p \in {1, 3} => t[p + 1] = Semicolon
        /\ p = 2 => t[p + 1] = offer.cast
        /\ p = 4 => t[p + 1] \in {"mode", "client_port"}
        /\ p = 5 => t[p + 1] = Equals
        /\ p = 6 => t[p + 1] \in {"play", offer.ports}
      BY <1>1, <1>5, <2>1
  <2> QED BY <1>2, <2>1, <2>2
<1>6. CASE offer.param = "both"
  <2>1. p \in {0, 1, 2, 3, 4, 5, 6, 7, 8, 9, 10}
    <3>1. Len(t) = 11
        BY <1>1, <1>6
    <3>2. p \in 0 .. 10
        BY <1>3, <3>1
    <3> QED BY <3>2
  <2>2. /\ p = 0 => t[p + 1] = offer.proto
        /\ p \in {1, 3, 7} => t[p + 1] = Semicolon
        /\ p = 2 => t[p + 1] = offer.cast
        /\ p \in {4, 8} => t[p + 1] \in {"mode", "client_port"}
        /\ p \in {5, 9} => t[p + 1] = Equals
        /\ p \in {6, 10} => t[p + 1] \in {"play", offer.ports}
      BY <1>1, <1>6, <2>1
  <2> QED BY <1>2, <2>1, <2>2
<1> QED BY <1>4, <1>5, <1>6 DEF Params

\* What is known of the offers of a message.
LEMMA OffersFacts ==
    ASSUME msg \in Requests, NEW j \in 1 .. Len(msg.headers), msg.headers[j].name = "Transport"
    PROVE  /\ Len(msg.headers[j].says) \in Nat
           /\ \A k \in 1 .. Len(msg.headers[j].says) : LET offer == msg.headers[j].says[k] IN
                /\ offer.param \in Params
                /\ offer.proto \notin Separators /\ offer.cast \notin Separators
                /\ offer.ports \notin Separators
                /\ Len(OfferText(offer)) \in {3, 7, 11}
<1>1. /\ Len(msg.headers[j].says) \in Nat
      /\ \A k \in 1 .. Len(msg.headers[j].says) : LET offer == msg.headers[j].says[k] IN
            /\ offer.param \in Params
            /\ offer.proto \notin Separators /\ offer.cast \notin Separators
            /\ offer.ports \notin Separators
    BY RequestsAssumption DEF Params
<1>2. \A offer : offer.param \in Params => Len(OfferText(offer)) \in {3, 7, 11}
    BY OfferWords DEF Params
<1> QED BY <1>1, <1>2

\* Where the offers stand in the text of their header.
LEMMA OffersPlaces ==
    ASSUME msg \in Requests, NEW j \in 1 .. Len(msg.headers), msg.headers[j].name = "Transport"
    PROVE  LET offers == msg.headers[j].says
               w == Text(msg.headers[j])
               at(k) == BeginOf(OfferTexts(offers), k)
               l(k) == Len(OfferText(offers[k]))
           IN  /\ \E S : w \in Seq(S)
               /\ Len(w) \in Nat
               /\ Len(offers) = 0 => Len(w) = 0
               /\ Len(offers) > 0 => at(1) = 1
               /\ \A k \in 1 .. Len(offers) :
                    /\ at(k) \in Nat /\ at(k) >= 1 /\ l(k) \in Nat
                    /\ at(k) + l(k) - 1 <= Len(w)
                    /\ \A i \in 1 .. l(k) : w[at(k) + i - 1] = OfferText(offers[k])[i]
                    /\ k = Len(offers) => Len(w) = at(k) + l(k) - 1
                    /\ k < Len(offers) =>
                         /\ at(k + 1) = at(k) + l(k) + 2
                         /\ at(k) + l(k) + 2 <= Len(w) + 1
                         /\ w[at(k) + l(k)] = Comma
                         /\ w[at(k) + l(k) + 1] = Blank
<1> DEFINE offers == msg.headers[j].says
           m == Len(offers)
           parts == OfferTexts(offers)
           A == UNION {WordsOf(offers[k]) : k \in 1 .. m}
           S == A \cup {Comma, Blank}
           w == Text(msg.headers[j])
<1>1. m \in Nat /\ \A k \in 1 .. m : offers[k].param \in Params /\ Len(OfferText(offers[k])) \in {3, 7, 11}
    BY OffersFacts
<1>2. \A k \in 1 .. m : OfferText(offers[k]) \in Seq(S)
  <2> SUFFICES ASSUME NEW k \in 1 .. m PROVE OfferText(offers[k]) \in Seq(S)
      OBVIOUS
  <2>1. OfferText(offers[k]) \in Seq(WordsOf(offers[k]))
      BY <1>1, OfferWords DEF Params
  <2>2. WordsOf(offers[k]) \subseteq S
      OBVIOUS
  <2> HIDE DEF S, offers
  <2>3. \A V, W, q : q \in Seq(V) /\ V \subseteq W => q \in Seq(W)
      OBVIOUS
  <2> QED BY <2>1, <2>2, <2>3
<1>3. parts \in Seq(Seq(S)) /\ Len(parts) = m /\ \A k \in 1 .. m : parts[k] = OfferText(offers[k])
  <2>1. parts = [k \in 1 .. m |-> OfferText(offers[k])]
      BY DEF OfferTexts
  <2> HIDE DEF parts, S, offers, m
  <2>2. parts \in [1 .. m -> Seq(S)] /\ \A k \in 1 .. m : parts[k] = OfferText(offers[k])
      BY <1>2, <2>1
  <2> QED BY <1>1, <2>2, FunctionIsSequence
<1> HIDE DEF A
<1>4. Comma \in S /\ Blank \in S
    OBVIOUS
<1>5. Between = <<Comma, Blank>>
    BY Zenon DEF Between, Comma, Blank
<1> HIDE DEF S
<1>6. Between \in Seq(S) /\ Len(Between) = 2 /\ Between[1] = Comma /\ Between[2] = Blank
    BY <1>4, <1>5
<1>7. w = FlattenSeq(Separated(parts, Between))
  <2>1. w = Joined(parts)
    <3>1. CASE msg.headers[j].name = "Transport"
        BY <3>1, Zenon DEF Text, OfferTexts
    <3> QED BY <3>1
  <2> QED BY <2>1, Zenon DEF Joined, Separated, Between
<1> HIDE DEF w, parts, offers
<1>8. /\ w \in Seq(S)
      /\ m = 0 => Len(w) = 0
      /\ m > 0 => BeginOf(parts, 1) = 1
      /\ \A k \in 1 .. m :
           /\ BeginOf(parts, k) \in Nat /\ BeginOf(parts, k) >= 1
           /\ BeginOf(parts, k) + Len(parts[k]) - 1 <= Len(w)
           /\ \A i \in 1 .. Len(parts[k]) : w[BeginOf(parts, k) + i - 1] = parts[k][i]
           /\ k = m => Len(w) = BeginOf(parts, k) + Len(parts[k]) - 1
           /\ k < m =>
                /\ BeginOf(parts, k + 1) = BeginOf(parts, k) + Len(parts[k]) + 2
                /\ BeginOf(parts, k) + Len(parts[k]) + 2 <= Len(w) + 1
                /\ w[BeginOf(parts, k) + Len(parts[k])] = Comma
                /\ w[BeginOf(parts, k) + Len(parts[k]) + 1] = Blank
  <2> DEFINE at(k) == BeginWith(parts, Between, k)
             v == FlattenSeq(Separated(parts, Between))
  <2>1. parts \in Seq(Seq(S)) /\ Between \in Seq(S) /\ Len(Between) = 2
      BY <1>3, <1>6
  <2>2. /\ v \in Seq(S)
        /\ Len(parts) = 0 => Len(v) = 0
        /\ Len(parts) > 0 => at(1) = 1
        /\ \A k \in 1 .. Len(parts) :
             /\ at(k) \in Nat /\ at(k) >= 1
             /\ at(k) + Len(parts[k]) - 1 <= Len(v)
             /\ \A i \in 1 .. Len(parts[k]) : v[at(k) + i - 1] = parts[k][i]
             /\ k = Len(parts) => Len(v) = at(k) + Len(parts[k]) - 1
             /\ k < Len(parts) =>
                  /\ at(k + 1) = at(k) + Len(parts[k]) + 2
                  /\ at(k) + Len(parts[k]) + 2 <= Len(v) + 1
                  /\ v[at(k) + Len(parts[k])] = Between[1]
                  /\ v[at(k) + Len(parts[k]) + 1] = Between[2]
      BY <2>1, SeparatedParts
  <2> QED BY <1>3, <1>6, <1>7, <2>2, Zenon DEF BeginOf
<1>9. Len(w) \in Nat
    BY <1>8
<1>10. \A k \in 1 .. m : Len(OfferText(offers[k])) \in Nat
    BY <1>1
<1> QED BY <1>3, <1>8, <1>9, <1>10, Zenon DEF w, parts, offers

\* While a transport is read, n is its header.
LEMMA AtTransport ==
    ASSUME FieldsInv, pc = "transport"
    PROVE  msg \in Requests /\ n \in 1 .. Len(msg.headers) /\ msg.headers[n].name = "Transport"
<1>1. Len(msg.headers) \in Nat /\ n \in Nat /\ msg \in Requests
    BY MessageFacts DEF FieldsInv
<1>2. Len(fields) = Len(msg.headers) /\ n \in 1 .. Len(fields) + 1 /\ n <= Len(fields) /\ fields[n] = "Transport"
    BY DEF FieldsInv, Answering
<1>3. n \in 1 .. Len(fields)
    BY <1>1, <1>2
<1>4. fields[n] \in {"NULL", msg.headers[n].name}
    BY <1>3 DEF FieldsInv, Answering
<1> QED BY <1>1, <1>2, <1>3, <1>4

\* A part of one place has the word that stands there.
LEMMA OneWord ==
    ASSUME NEW S, NEW w \in Seq(S), NEW i \in 1 .. Len(w)
    PROVE  SubSeq(w, i, i) = <<w[i]>>
<1>1. i \in i .. Len(w) /\ i \in i .. i
    OBVIOUS
<1>2. SubSeq(w, i, i) \in Seq(S) /\ Len(SubSeq(w, i, i)) = 1
    OBVIOUS
<1>3. Head(SubSeq(w, i, i)) = w[i]
    BY <1>1, HeadTailOfSubSeq
<1>4. \A q \in Seq(S) : Len(q) = 1 => q = <<Head(q)>>
  <2> SUFFICES ASSUME NEW q \in Seq(S), Len(q) = 1 PROVE q = <<Head(q)>>
      OBVIOUS
  <2>1. q # << >>
    <3>1. Len(<< >>) = 0
        OBVIOUS
    <3>2. 0 # 1
        OBVIOUS
    <3> QED BY <3>1, <3>2, Zenon
  <2>2. Head(q) \in S /\ Head(q) = q[1]
      BY <2>1
  <2>3. <<Head(q)>> \in Seq(S) /\ Len(<<Head(q)>>) = 1 /\ <<Head(q)>>[1] = Head(q)
      BY <2>2
  <2> QED BY <2>2, <2>3, SeqEqual
<1> QED BY <1>2, <1>3, <1>4

\* The k-th offer, where it begins, and that the ones before it are passed over.
ScanOf(k, offer, at) ==
    /\ offer = Offers0[k] /\ at = Begin(k) /\ at \in Nat
    /\ \A j \in 1 .. k - 1 : Passed(Offers0[j])

\* A word that is read stands in an offer, or it is the comma behind one.
LEMMA ScanPlace ==
    ASSUME FieldsInv, ScanInv, Scanning
    PROVE  \E k, offer, at :
             /\ k \in 1 .. Len(Offers0)
             /\ ScanOf(k, offer, at)
             /\ offer.param \in Params /\ Len(OfferText(offer)) \in {3, 7, 11}
             /\ offer.proto \notin Separators /\ offer.cast \notin Separators /\ offer.ports \notin Separators
             /\ \/ \E p \in 0 .. Len(OfferText(offer)) - 1 :
                     InOffer(offer, at, p) /\ Words[at + p] = OfferText(offer)[p + 1]
                \/ /\ k < Len(Offers0) /\ Words[trn.c] = Comma /\ trn.c = at + Len(OfferText(offer))
                   /\ InOffer(offer, at, Len(OfferText(offer))) \/ Over(offer, at)
<1>0. /\ msg \in Requests /\ n \in 1 .. Len(msg.headers) /\ msg.headers[n].name = "Transport"
    BY AtTransport DEF Scanning
<1>1. trn.c <= Len(Words) /\ trn.end = 0 /\ pc = "transport" /\ Offers0 = msg.headers[n].says
      /\ Words = Text(msg.headers[n])
    BY DEF Scanning, Words, Offers0
<1>2. Len(Words) \in Nat /\ (Len(Offers0) = 0 => Len(Words) = 0) /\ Len(Offers0) \in Nat
    BY <1>0, <1>1, OffersPlaces, OffersFacts
<1>3. ~(Len(Offers0) = 0 /\ trn = NoScan)
  <2>1. trn = NoScan => trn.c = 1
      BY DEF NoScan
  <2> QED BY <1>1, <1>2, <2>1
<1>4. PICK k \in 1 .. Len(Offers0) :
        /\ \A j \in 1 .. k - 1 : Passed(Offers0[j])
        /\ \/ \E p \in 0 .. Len(OfferText(Offers0[k])) : InOffer(Offers0[k], Begin(k), p)
           \/ Over(Offers0[k], Begin(k))
    BY <1>1, <1>3 DEF ScanInv
<1>5. PICK offer, at : offer = Offers0[k] /\ at = Begin(k)
    OBVIOUS
<1> DEFINE l == Len(OfferText(offer))
           w == Words
<1>6. /\ offer.param \in Params /\ l \in {3, 7, 11}
      /\ offer.proto \notin Separators /\ offer.cast \notin Separators /\ offer.ports \notin Separators
    BY <1>0, <1>1, <1>5, OffersFacts
<1>7. /\ at \in Nat
      /\ \A i \in 1 .. l : w[at + i - 1] = OfferText(offer)[i]
      /\ k = Len(Offers0) => Len(w) = at + l - 1
      /\ k < Len(Offers0) => w[at + l] = Comma
    BY <1>0, <1>1, <1>5, OffersPlaces DEF Begin
<1>8. ScanOf(k, offer, at)
    BY <1>4, <1>5, <1>7 DEF ScanOf
<1>9. ASSUME trn.c = at + l, InOffer(offer, at, l) \/ Over(offer, at)
      PROVE  k < Len(Offers0) /\ w[trn.c] = Comma
  <2>1. k # Len(Offers0)
      BY <1>1, <1>6, <1>7, <1>9
  <2> QED BY <1>2, <1>7, <1>9, <2>1
<1>10. CASE Over(offer, at)
  <2>1. trn.c = at + l
      BY <1>10 DEF Over
  <2> QED BY <1>6, <1>8, <1>9, <1>10, <2>1
<1>11. CASE \E p \in 0 .. l : InOffer(offer, at, p)
  <2>1. PICK p \in 0 .. l : InOffer(offer, at, p)
      BY <1>11
  <2>2. trn.c = at + p
      BY <2>1 DEF InOffer
  <2>3. CASE p = l
      BY <1>6, <1>8, <1>9, <2>1, <2>2, <2>3
  <2>4. CASE p # l
    <3>1. p \in 0 .. l - 1 /\ p + 1 \in 1 .. l /\ at + (p + 1) - 1 = at + p
        BY <1>6, <1>7, <2>4
    <3>2. w[at + p] = OfferText(offer)[p + 1]
        BY <1>7, <3>1
    <3> QED BY <1>6, <1>8, <2>1, <3>1, <3>2
  <2> QED BY <2>3, <2>4
<1> QED BY <1>4, <1>5, <1>10, <1>11

\* Between two separators stands one word of the offer.
LEMMA ScanValue ==
    ASSUME FieldsInv, pc = "transport", NEW k \in 1 .. Len(Offers0), NEW offer, NEW at,
           ScanOf(k, offer, at), NEW p \in {1, 3, 5, 7, 9}, p <= Len(OfferText(offer)), InOffer(offer, at, p)
    PROVE  Value = <<OfferText(offer)[p]>>
<1>0. /\ msg \in Requests /\ n \in 1 .. Len(msg.headers) /\ msg.headers[n].name = "Transport"
      /\ Offers0 = msg.headers[n].says /\ Words = Text(msg.headers[n])
    BY AtTransport DEF Words, Offers0
<1> DEFINE l == Len(OfferText(offer))
           w == Words
<1>1. offer = Offers0[k] /\ at = Begin(k) /\ at \in Nat
    BY DEF ScanOf
<1>2. /\ \E S : w \in Seq(S)
      /\ Len(w) \in Nat /\ l \in Nat /\ at >= 1
      /\ at + l - 1 <= Len(w)
      /\ \A i \in 1 .. l : w[at + i - 1] = OfferText(offer)[i]
    BY <1>0, <1>1, OffersPlaces DEF Begin
<1>3. p \in 1 .. l /\ at + p - 1 \in 1 .. Len(w)
    BY <1>1, <1>2
<1>4. trn.value = at + p - 1 /\ trn.c - 1 = at + p - 1
  <2>1. trn.c = at + p /\ trn.value = at + 2 * (p \div 2)
      BY DEF InOffer
  <2>2. 2 * (p \div 2) = p - 1
      OBVIOUS
  <2> QED BY <1>1, <2>1, <2>2
<1>5. PICK S : w \in Seq(S)
    BY <1>2
<1>6. SubSeq(w, at + p - 1, at + p - 1) = <<w[at + p - 1]>>
    BY <1>3, <1>5, OneWord
<1> QED BY <1>2, <1>3, <1>4, <1>6 DEF Value

\* The scan goes on in the same offer, or in the next.
LEMMA ScanMoves ==
    ASSUME pc = "transport", UNCHANGED <<msg, n>>, NEW k \in 1 .. Len(Offers0), NEW offer, NEW at,
           ScanOf(k, offer, at), trn' \in Scans,
           \/ \E p \in 0 .. Len(OfferText(offer)) : InOffer(offer, at, p)'
           \/ Over(offer, at)'
    PROVE  ScanInv'
<1>1. Offers0' = Offers0
    BY DEF Offers0
<1>2. Begin(k)' = Begin(k)
    BY <1>1 DEF Begin
<1>3. offer = Offers0'[k] /\ at = Begin(k)' /\ \A j \in 1 .. k - 1 : Passed(Offers0'[j])
    BY <1>1, <1>2 DEF ScanOf
<1>4. k \in 1 .. Len(Offers0')
    BY <1>1
<1>5. (/\ \A j \in 1 .. k - 1 : Passed(Offers0[j])
       /\ \/ \E p \in 0 .. Len(OfferText(Offers0[k])) : InOffer(Offers0[k], Begin(k), p)
          \/ Over(Offers0[k], Begin(k)))'
    BY <1>3, Zenon DEF InOffer, Over
<1> QED BY <1>4, <1>5, Zenon DEF ScanInv

\* The separators by their names are told apart.
LEMMA SeparatorsDiffer ==
    /\ Comma # Semicolon /\ Comma # Equals /\ Semicolon # Equals
    /\ Comma \in Separators /\ Semicolon \in Separators /\ Equals \in Separators
<1>1. "," # ";" /\ "," # "=" /\ ";" # "="
    BY Zenon
<1> QED BY <1>1, Zenon DEF Comma, Semicolon, Equals, Separators

\* What is read says where in the offer it stands.
LEMMA ScanRead ==
    ASSUME FieldsInv, ScanInv, Scanning
    PROVE  \E k, offer, at :
             /\ k \in 1 .. Len(Offers0)
             /\ ScanOf(k, offer, at)
             /\ offer.param \in Params /\ Len(OfferText(offer)) \in {3, 7, 11}
             /\ \/ /\ k < Len(Offers0) /\ Words[trn.c] = Comma /\ trn.c = at + Len(OfferText(offer))
                   /\ InOffer(offer, at, Len(OfferText(offer))) \/ Over(offer, at)
                \/ \E p \in 0 .. Len(OfferText(offer)) - 1 :
                    /\ InOffer(offer, at, p) /\ Words[trn.c] # Comma
                    /\ \/ Words[trn.c] = Semicolon /\ p \in {1, 3, 7}
                       \/ Words[trn.c] = Equals /\ p \in {5, 9}
                       \/ /\ Words[trn.c] # Semicolon /\ Words[trn.c] # Equals
                          /\ p \in {0, 2, 4, 6, 8, 10}
<1>1. PICK k, offer, at :
        /\ k \in 1 .. Len(Offers0)
        /\ ScanOf(k, offer, at)
        /\ offer.param \in Params /\ Len(OfferText(offer)) \in {3, 7, 11}
        /\ offer.proto \notin Separators /\ offer.cast \notin Separators /\ offer.ports \notin Separators
        /\ \/ \E p \in 0 .. Len(OfferText(offer)) - 1 :
                InOffer(offer, at, p) /\ Words[at + p] = OfferText(offer)[p + 1]
           \/ /\ k < Len(Offers0) /\ Words[trn.c] = Comma /\ trn.c = at + Len(OfferText(offer))
              /\ InOffer(offer, at, Len(OfferText(offer))) \/ Over(offer, at)
    BY ScanPlace
<1> k \in 1 .. Len(Offers0)
    BY <1>1
<1>2. CASE \E p \in 0 .. Len(OfferText(offer)) - 1 :
                InOffer(offer, at, p) /\ Words[at + p] = OfferText(offer)[p + 1]
  <2>1. PICK p \in 0 .. Len(OfferText(offer)) - 1 :
            InOffer(offer, at, p) /\ Words[at + p] = OfferText(offer)[p + 1]
      BY <1>2
  <2>2. trn.c = at + p
      BY <2>1 DEF InOffer
  <2>3. /\ p \in 0 .. 10
        /\ p \in {1, 3, 7} => Words[trn.c] = Semicolon
        /\ p \in {5, 9} => Words[trn.c] = Equals
        /\ p \notin {1, 3, 5, 7, 9} => Words[trn.c] \notin Separators
      BY <1>1, <2>1, <2>2, OfferWordAt
  <2>4. /\ Words[trn.c] # Comma
        /\ \/ Words[trn.c] = Semicolon /\ p \in {1, 3, 7}
           \/ Words[trn.c] = Equals /\ p \in {5, 9}
           \/ /\ Words[trn.c] # Semicolon /\ Words[trn.c] # Equals
              /\ p \in {0, 2, 4, 6, 8, 10}
      BY <2>3, SeparatorsDiffer
  <2> QED BY <1>1, <2>1, <2>4
<1> QED BY <1>1, <1>2

\* The variables of the scan are numbers and truth values.
LEMMA ScanTypes ==
    ASSUME NEW t \in Scans
    PROVE  /\ t.c \in Int /\ t.c + 1 \in Int /\ t.i \in Int /\ t.i + 1 \in Int
           /\ t.sign \in BOOLEAN /\ t.ports \in BOOLEAN
           /\ 0 \in Int /\ 1 \in Int /\ 2 \in Int
BY DEF Scans

\* A word of an offer is read: the scan goes on in the offer.
LEMMA WordRead ==
    ASSUME FieldsInv, ScanInv, TransportWord
    PROVE  ScanInv'
<1>1. /\ Scanning /\ pc = "transport" /\ UNCHANGED <<msg, n>>
      /\ trn' = [trn EXCEPT !.c = @ + 1]
    BY Zenon DEF TransportWord, Scanning, ScanRest, parseVars
<1>2. Words[trn.c] # Comma /\ Words[trn.c] # Semicolon /\ Words[trn.c] # Equals
    BY Zenon DEF TransportWord, Comma, Semicolon, Equals
<1>3. trn \in Scans /\ trn.end = 0
    BY <1>1 DEF ScanInv, Scanning
<1>4. PICK k, offer, at :
        /\ k \in 1 .. Len(Offers0)
        /\ ScanOf(k, offer, at) /\ Len(OfferText(offer)) \in {3, 7, 11}
        /\ \E p \in 0 .. Len(OfferText(offer)) - 1 :
             InOffer(offer, at, p) /\ p \in {0, 2, 4, 6, 8, 10}
    BY <1>1, <1>2, ScanRead
<1> k \in 1 .. Len(Offers0)
    BY <1>4
<1>5. PICK p \in 0 .. Len(OfferText(offer)) - 1 :
        InOffer(offer, at, p) /\ p \in {0, 2, 4, 6, 8, 10}
    BY <1>4
<1>6. at \in Nat
    BY <1>4 DEF ScanOf
<1>8. /\ trn' \in Scans /\ trn'.c = trn.c + 1 /\ trn'.value = trn.value /\ trn'.trans = trn.trans
      /\ trn'.i = trn.i /\ trn'.allowed = trn.allowed /\ trn'.sign = trn.sign
      /\ trn'.ports = trn.ports /\ trn'.end = trn.end
    BY <1>1, <1>3 DEF Scans
<1>9. InOffer(offer, at, p + 1)'
  <2>1. /\ 2 * ((p + 1) \div 2) = 2 * (p \div 2)
        /\ (p + 1 < 2) = (p < 2) /\ (p + 1 < 4) = (p < 4) /\ (p + 1 < 8) = (p < 8)
        /\ (p + 1 \in {6, 7}) = (p \in {6, 7}) /\ (p + 1 >= 8) = (p >= 8)
        /\ (p + 1 >= 4) = (p >= 4)
      BY <1>5
  <2> QED BY <1>3, <1>5, <1>6, <1>8, <2>1 DEF InOffer
<1>10. p + 1 \in 0 .. Len(OfferText(offer))
    BY <1>4, <1>5
<1> QED BY <1>1, <1>4, <1>8, <1>9, <1>10, ScanMoves

\* The first semicolon ends the protocol.
LEMMA ProtocolRead ==
    ASSUME FieldsInv, ScanInv, TransportProtocol
    PROVE  ScanInv' /\ \E k \in 1 .. Len(Offers0) : pc' = pc \/
               Offers0[k].proto \notin {"RTP/AVP", "RTP/AVP/UDP", "RTP/AVP/TCP"}
<1>0. trn' = [trn EXCEPT !.c = @ + 1, !.value = trn.c + 1, !.i = 1]
    BY DEF TransportProtocol
<1>1. /\ Scanning /\ pc = "transport" /\ UNCHANGED <<msg, n>> /\ trn.i = 0
      /\ pc' = IF Value \in {<<"RTP/AVP">>, <<"RTP/AVP/UDP">>, <<"RTP/AVP/TCP">>} THEN pc ELSE "aborted"
    BY Zenon DEF TransportProtocol, At, Scanning, ScanRest, parseVars
<1>2. Words[trn.c] = Semicolon
    BY Zenon DEF TransportProtocol, At, Semicolon
<1>3. trn \in Scans /\ trn.end = 0
    BY <1>1 DEF ScanInv, Scanning
<1>4. PICK k, offer, at :
        /\ k \in 1 .. Len(Offers0)
        /\ ScanOf(k, offer, at) /\ Len(OfferText(offer)) \in {3, 7, 11} /\ offer.param \in Params
        /\ \E p \in 0 .. Len(OfferText(offer)) - 1 :
             InOffer(offer, at, p) /\ p \in {1, 3, 7}
    BY <1>1, <1>2, ScanRead, SeparatorsDiffer
<1> k \in 1 .. Len(Offers0)
    BY <1>4
<1>5. PICK p \in 0 .. Len(OfferText(offer)) - 1 : InOffer(offer, at, p) /\ p \in {1, 3, 7}
    BY <1>4
<1>6. at \in Nat /\ offer = Offers0[k]
    BY <1>4 DEF ScanOf
<1>7. /\ trn' \in Scans /\ trn'.c = trn.c + 1 /\ trn'.value = trn.c + 1 /\ trn'.trans = trn.trans
      /\ trn'.i = 1 /\ trn'.allowed = trn.allowed /\ trn'.sign = trn.sign
      /\ trn'.ports = trn.ports /\ trn'.end = trn.end
  <2>1. trn.c + 1 \in Int /\ 1 \in Int
      BY <1>3, ScanTypes
  <2>2. trn' \in Scans
      BY <1>0, <1>3, <2>1, Zenon DEF Scans
  <2>3. /\ trn'.c = trn.c + 1 /\ trn'.value = trn.c + 1 /\ trn'.trans = trn.trans /\ trn'.i = 1
        /\ trn'.allowed = trn.allowed /\ trn'.sign = trn.sign
      BY <1>0, <1>3 DEF Scans
  <2>4. trn'.ports = trn.ports /\ trn'.end = trn.end
      BY <1>0, <1>3 DEF Scans
  <2> QED BY <2>2, <2>3, <2>4
<1>8. p = 1
    BY <1>1, <1>5 DEF InOffer
<1>9. ScanInv'
  <2>1. InOffer(offer, at, p + 1)'
    <3>1. 2 * ((p + 1) \div 2) = p + 1
        BY <1>8
    <3> QED BY <1>3, <1>5, <1>6, <1>7, <1>8, <3>1 DEF InOffer
  <2>2. p + 1 \in 0 .. Len(OfferText(offer))
      BY <1>4, <1>5
  <2> QED BY <1>1, <1>4, <1>7, <2>1, <2>2, ScanMoves
<1>10. Value = <<offer.proto>>
  <2>1. Value = <<OfferText(offer)[1]>>
    <3>1. p \in {1, 3, 5, 7, 9} /\ p <= Len(OfferText(offer))
        BY <1>4, <1>5
    <3> QED BY <1>1, <1>4, <1>5, <1>8, <3>1, ScanValue
  <2>2. OfferText(offer)[1] = offer.proto
      BY <1>4, OfferWords DEF Params
  <2> QED BY <2>1, <2>2
<1>11. pc' = pc \/ offer.proto \notin {"RTP/AVP", "RTP/AVP/UDP", "RTP/AVP/TCP"}
    BY <1>1, <1>10
<1> QED BY <1>6, <1>9, <1>11

\* Where the next comma stands.
LEMMA NextCommaIs ==
    ASSUME Len(Words) \in Nat, NEW i \in Nat, NEW j \in i .. Len(Words) + 1,
           j > Len(Words) \/ Words[j] = Comma, \A k \in i .. j - 1 : Words[k] # Comma
    PROVE  NextComma(i) = j
<1> DEFINE l == Len(Words)
           Ends0(m) == (m > l \/ Words[m] = Comma) /\ \A k \in i .. m - 1 : Words[k] # Comma
<1>1. NextComma(i) = CHOOSE m \in i .. l + 1 : Ends0(m)
    BY Zenon DEF NextComma, Comma
<1>2. j \in i .. l + 1 /\ Ends0(j)
    OBVIOUS
<1>3. ASSUME NEW m \in i .. l + 1, Ends0(m) PROVE m = j
  <2>1. CASE m < j
    <3>1. m \in i .. j - 1 /\ ~(m > l)
        BY <1>2, <2>1
    <3> QED BY <1>2, <1>3, <3>1
  <2>2. CASE j < m
    <3>1. j \in i .. m - 1 /\ ~(j > l)
        BY <1>2, <1>3, <2>2
    <3> QED BY <1>2, <1>3, <3>1
  <2> QED BY <2>1, <2>2
<1> HIDE DEF Ends0
<1> QED BY <1>1, <1>2, <1>3, Zenon

\* The first semicolon ends the word that says how it is sent.
LEMMA CastRead ==
    ASSUME FieldsInv, ScanInv, TransportCast
    PROVE  ScanInv' /\ \E k \in 1 .. Len(Offers0) : pc' = pc \/
               Offers0[k].cast \notin {"unicast", "multicast"}
<1>1. Scanning /\ pc = "transport" /\ UNCHANGED <<msg, n>> /\ trn.i = 1
    BY Zenon DEF TransportCast, At, Scanning, ScanRest, parseVars
<1>2. Words[trn.c] = Semicolon
    BY Zenon DEF TransportCast, At, Semicolon
<1>3. trn \in Scans /\ trn.end = 0
    BY <1>1 DEF ScanInv, Scanning
<1>4. PICK k, offer, at :
        /\ k \in 1 .. Len(Offers0)
        /\ ScanOf(k, offer, at) /\ Len(OfferText(offer)) \in {3, 7, 11} /\ offer.param \in Params
        /\ \E p \in 0 .. Len(OfferText(offer)) - 1 :
             InOffer(offer, at, p) /\ p \in {1, 3, 7}
    BY <1>1, <1>2, ScanRead, SeparatorsDiffer
<1> k \in 1 .. Len(Offers0)
    BY <1>4
<1>5. PICK p \in 0 .. Len(OfferText(offer)) - 1 : InOffer(offer, at, p) /\ p \in {1, 3, 7}
    BY <1>4
<1>6. at \in Nat /\ offer = Offers0[k] /\ at = Begin(k)
    BY <1>4 DEF ScanOf
<1>7. p = 3
    BY <1>1, <1>5 DEF InOffer
<1>8. Value = <<offer.cast>>
  <2>1. Value = <<OfferText(offer)[3]>>
    <3>1. p \in {1, 3, 5, 7, 9} /\ p <= Len(OfferText(offer))
        BY <1>4, <1>5
    <3> QED BY <1>1, <1>4, <1>5, <1>7, <3>1, ScanValue
  <2>2. OfferText(offer)[3] = offer.cast
      BY <1>4, OfferWords DEF Params
  <2> QED BY <2>1, <2>2
<1>9. CASE offer.cast = "multicast"
  <2>1. /\ pc' = pc
        /\ trn' = [trn EXCEPT !.c = NextComma(trn.c + 1), !.i = 0, !.allowed = FALSE]
      BY <1>8, <1>9 DEF TransportCast
  <2>2. trn.c = at + 3 /\ trn.c + 1 = at + 4
      BY <1>5, <1>6, <1>7 DEF InOffer
  <2>3. Len(OfferText(offer)) \in {7, 11}
    <3>1. \A l \in {3, 7, 11} : 3 \in 0 .. l - 1 => l \in {7, 11}
        OBVIOUS
    <3> QED BY <1>4, <1>5, <1>7, <3>1
  <2>4. NextComma(trn.c + 1) = at + Len(OfferText(offer))
    <3> DEFINE l == Len(OfferText(offer))
    <3>0. /\ msg \in Requests /\ n \in 1 .. Len(msg.headers) /\ msg.headers[n].name = "Transport"
          /\ Offers0 = msg.headers[n].says /\ Words = Text(msg.headers[n])
        BY <1>1, AtTransport DEF Words, Offers0
    <3>1. /\ offer.param \in Params
          /\ offer.proto \notin Separators /\ offer.cast \notin Separators /\ offer.ports \notin Separators
        BY <1>6, <3>0, OffersFacts
    <3>2. /\ Len(Words) \in Nat
          /\ at + l - 1 <= Len(Words)
          /\ \A i \in 1 .. l : Words[at + i - 1] = OfferText(offer)[i]
          /\ k = Len(Offers0) => Len(Words) = at + l - 1
          /\ k < Len(Offers0) => Words[at + l] = Comma
        BY <1>6, <3>0, OffersPlaces DEF Begin
    <3>3. ASSUME NEW q \in 4 .. l - 1 PROVE Words[at + q] # Comma
      <4>1. q \in 0 .. l - 1 /\ q + 1 \in 1 .. l /\ at + (q + 1) - 1 = at + q
          BY <1>6, <2>3
      <4>2. Words[at + q] = OfferText(offer)[q + 1]
          BY <3>2, <4>1
      <4>3. /\ q \in 0 .. 10
            /\ q \in {1, 3, 7} => OfferText(offer)[q + 1] = Semicolon
            /\ q \in {5, 9} => OfferText(offer)[q + 1] = Equals
            /\ q \notin {1, 3, 5, 7, 9} => OfferText(offer)[q + 1] \notin Separators
          BY <3>1, <4>1, OfferWordAt
      <4> QED BY <4>2, <4>3, SeparatorsDiffer
    <3>4. k = Len(Offers0) \/ k < Len(Offers0)
      <4>1. Len(Offers0) \in Nat
          BY <3>0, OffersFacts
      <4> QED BY <4>1
    <3> HIDE DEF l
    <3>5. l \in {7, 11}
        BY <2>3 DEF l
    <3>6. at + l > Len(Words) \/ Words[at + l] = Comma
        BY <1>6, <3>2, <3>4, <3>5
    <3>7. ASSUME NEW i, NEW j, i = at + 4, j = at + l PROVE \A q \in i .. j - 1 : Words[q] # Comma
      <4> SUFFICES ASSUME NEW q \in i .. j - 1 PROVE Words[q] # Comma
          OBVIOUS
      <4>1. q - at \in 4 .. l - 1 /\ at + (q - at) = q
          BY <1>6, <3>5, <3>7
      <4> QED BY <3>3, <4>1
    <3>8. at + 4 \in Nat /\ at + l \in at + 4 .. Len(Words) + 1
      <4>1. \A a, w \in Nat, x \in {7, 11} :
               a + x - 1 <= w => a + 4 \in Nat /\ a + x \in a + 4 .. w + 1
          OBVIOUS
      <4> QED BY <1>6, <3>2, <3>5, <4>1
    <3>9. NextComma(at + 4) = at + l
      <4>1. PICK i, j : i = at + 4 /\ j = at + l
          OBVIOUS
      <4>2. i \in Nat /\ j \in i .. Len(Words) + 1
          BY <3>8, <4>1, Zenon
      <4>3. j > Len(Words) \/ Words[j] = Comma
          BY <3>6, <4>1, Zenon
      <4>4. \A q \in i .. j - 1 : Words[q] # Comma
          BY <3>7, <4>1, Zenon
      <4>5. Len(Words) \in Nat
          BY <3>2
      <4>6. NextComma(i) = j
          BY <4>2, <4>3, <4>4, <4>5, NextCommaIs
      <4> QED BY <4>1, <4>6, Zenon
    <3> QED BY <2>2, <3>9 DEF l
  <2>5. at + Len(OfferText(offer)) \in Int
      BY <1>6, <2>3
  <2>6. trn' = [trn EXCEPT !.c = at + Len(OfferText(offer)), !.i = 0, !.allowed = FALSE]
      BY <2>1, <2>4, Zenon
  <2>7. trn' \in Scans
    <3>1. 0 \in Int /\ FALSE \in BOOLEAN
        BY <1>3, ScanTypes
    <3> QED BY <1>3, <2>5, <2>6, <3>1, Zenon DEF Scans
  <2>8. Over(offer, at)'
    <3>1. Passed(offer)
      <4>1. offer.param = "none" => Len(OfferText(offer)) = 3
          BY <1>4, OfferWords DEF Params
      <4>2. \A x \in {7, 11} : x # 3
          OBVIOUS
      <4> QED BY <1>9, <2>3, <4>1, <4>2, Zenon DEF Passed
    <3>2. ~trn.sign /\ ~trn.ports
      <4>1. p \notin {6, 7} /\ ~(p >= 8)
          BY <1>7
      <4>2. trn.sign = (p \in {6, 7} /\ offer.param \in {"ports", "both"}) /\ trn.ports = (p >= 8)
          BY <1>5, Zenon DEF InOffer
      <4>3. (p >= 8) = FALSE /\ (p \in {6, 7}) = FALSE
          BY <4>1
      <4> QED BY <4>2, <4>3, Zenon
    <3>3. /\ trn'.c = at + Len(OfferText(offer)) /\ trn'.i = 0 /\ ~trn'.allowed /\ trn'.sign = trn.sign
          /\ trn'.ports = trn.ports /\ trn'.end = trn.end
        BY <1>3, <2>6 DEF Scans
    <3> QED BY <1>3, <3>1, <3>2, <3>3 DEF Over
  <2>9. ScanInv'
      BY <1>1, <1>4, <2>7, <2>8, ScanMoves
  <2> QED BY <2>1, <2>9
<1>10. CASE offer.cast = "unicast"
  <2>0. Value = <<"unicast">> /\ Value # <<"multicast">>
      BY <1>8, <1>10
  <2>1. pc' = pc /\ trn' = [trn EXCEPT !.c = @ + 1, !.value = trn.c + 1, !.i = 2]
      BY <2>0 DEF TransportCast
  <2>2. trn' \in Scans
    <3>1. trn.c + 1 \in Int /\ 2 \in Int
        BY <1>3, ScanTypes
    <3> QED BY <1>3, <2>1, <3>1, Zenon DEF Scans
  <2>3. /\ trn'.c = trn.c + 1 /\ trn'.value = trn.c + 1 /\ trn'.trans = trn.trans /\ trn'.i = 2
        /\ trn'.allowed = trn.allowed /\ trn'.sign = trn.sign
      BY <1>3, <2>1 DEF Scans
  <2>4. trn'.ports = trn.ports /\ trn'.end = trn.end
      BY <1>3, <2>1 DEF Scans
  <2>5. InOffer(offer, at, p + 1)'
    <3>1. 2 * ((p + 1) \div 2) = p + 1
        BY <1>7
    <3> QED BY <1>3, <1>5, <1>6, <1>7, <1>10, <2>2, <2>3, <2>4, <3>1 DEF InOffer
  <2>6. p + 1 \in 0 .. Len(OfferText(offer))
      BY <1>4, <1>5
  <2>7. ScanInv'
      BY <1>1, <1>4, <2>2, <2>5, <2>6, ScanMoves
  <2> QED BY <2>1, <2>7
<1>11. CASE offer.cast \notin {"unicast", "multicast"}
  <2>1. Value # <<"unicast">> /\ Value # <<"multicast">>
      BY <1>8, <1>11
  <2>2. pc' = "aborted"
      BY <2>1 DEF TransportCast
  <2> QED BY <1>6, <1>11, <2>2 DEF ScanInv
<1> QED BY <1>9, <1>10, <1>11

\* A semicolon behind the cast ends a parameter.
LEMMA ParameterRead ==
    ASSUME FieldsInv, ScanInv, TransportParameter
    PROVE  ScanInv'
<1>0. trn' = [trn EXCEPT !.c = @ + 1, !.value = trn.c + 1, !.i = @ + 1,
                         !.sign = FALSE, !.ports = @ \/ trn.sign]
    BY DEF TransportParameter
<1>1. Scanning /\ pc = "transport" /\ UNCHANGED <<msg, n>> /\ trn.i > 1
    BY Zenon DEF TransportParameter, At, Scanning, ScanRest, parseVars
<1>2. Words[trn.c] = Semicolon
    BY Zenon DEF TransportParameter, At, Semicolon
<1>3. trn \in Scans /\ trn.end = 0
    BY <1>1 DEF ScanInv, Scanning
<1>4. PICK k, offer, at :
        /\ k \in 1 .. Len(Offers0)
        /\ ScanOf(k, offer, at) /\ Len(OfferText(offer)) \in {3, 7, 11} /\ offer.param \in Params
        /\ \E p \in 0 .. Len(OfferText(offer)) - 1 :
             InOffer(offer, at, p) /\ p \in {1, 3, 7}
    BY <1>1, <1>2, ScanRead, SeparatorsDiffer
<1> k \in 1 .. Len(Offers0)
    BY <1>4
<1>5. PICK p \in 0 .. Len(OfferText(offer)) - 1 : InOffer(offer, at, p) /\ p \in {1, 3, 7}
    BY <1>4
<1>6. at \in Nat
    BY <1>4 DEF ScanOf
<1>7. p = 7
    BY <1>1, <1>5 DEF InOffer
<1>8. trn.sign
  <2>1. Len(OfferText(offer)) = 11
    <3>1. \A l \in {3, 7, 11} : 7 \in 0 .. l - 1 => l = 11
        OBVIOUS
    <3> QED BY <1>4, <1>5, <1>7, <3>1
  <2>2. offer.param = "both"
    <3>1. /\ offer.param = "none" => Len(OfferText(offer)) = 3
          /\ offer.param \in {"ports", "mode"} => Len(OfferText(offer)) = 7
        BY <1>4, OfferWords DEF Params
    <3>2. 3 # 11 /\ 7 # 11
        OBVIOUS
    <3> QED BY <1>4, <2>1, <3>1, <3>2, Zenon DEF Params
  <2>3. trn.sign = (p \in {6, 7} /\ offer.param \in {"ports", "both"})
      BY <1>5, Zenon DEF InOffer
  <2> QED BY <1>7, <2>2, <2>3
<1>9. trn' \in Scans
  <2>1. trn.c + 1 \in Int /\ trn.i + 1 \in Int /\ (trn.ports \/ trn.sign) \in BOOLEAN /\ FALSE \in BOOLEAN
      BY <1>3, ScanTypes
  <2> QED BY <1>0, <1>3, <2>1, Zenon DEF Scans
<1>10. /\ trn'.c = trn.c + 1 /\ trn'.value = trn.c + 1 /\ trn'.trans = trn.trans
       /\ trn'.i = trn.i + 1 /\ trn'.end = trn.end
    BY <1>0, <1>3 DEF Scans
<1>11. trn'.allowed = trn.allowed /\ trn'.sign = FALSE /\ trn'.ports = (trn.ports \/ trn.sign)
    BY <1>0, <1>3 DEF Scans
<1>12. InOffer(offer, at, p + 1)'
  <2>1. 2 * ((p + 1) \div 2) = p + 1 /\ p + 1 = 8
      BY <1>7
  <2>2. trn'.sign = (p + 1 \in {6, 7} /\ offer.param \in {"ports", "both"})
    <3>1. (p + 1 \in {6, 7}) = FALSE
        BY <2>1
    <3> QED BY <1>11, <3>1, Zenon
  <2>3. trn'.ports = (p + 1 >= 8)
    <3>1. (p + 1 >= 8) = TRUE /\ (trn.ports \/ trn.sign) = TRUE
        BY <1>8, <2>1
    <3> QED BY <1>11, <3>1, Zenon
  <2> QED BY <1>3, <1>5, <1>6, <1>7, <1>10, <1>11, <2>1, <2>2, <2>3 DEF InOffer
<1>13. p + 1 \in 0 .. Len(OfferText(offer))
    BY <1>4, <1>5
<1> QED BY <1>1, <1>4, <1>9, <1>12, <1>13, ScanMoves

\* An equals sign ends the name of a parameter.
LEMMA KeyRead ==
    ASSUME FieldsInv, ScanInv, TransportKey
    PROVE  ScanInv'
<1>0. trn' = [trn EXCEPT !.c = @ + 1, !.value = trn.c + 1, !.sign = @ \/ Value = <<"client_port">>]
    BY DEF TransportKey
<1>1. Scanning /\ pc = "transport" /\ UNCHANGED <<msg, n>>
    BY Zenon DEF TransportKey, At, Scanning, ScanRest, parseVars
<1>2. Words[trn.c] = Equals
    BY Zenon DEF TransportKey, At, Equals
<1>3. trn \in Scans /\ trn.end = 0
    BY <1>1 DEF ScanInv, Scanning
<1>4. PICK k, offer, at :
        /\ k \in 1 .. Len(Offers0)
        /\ ScanOf(k, offer, at) /\ Len(OfferText(offer)) \in {3, 7, 11} /\ offer.param \in Params
        /\ \E p \in 0 .. Len(OfferText(offer)) - 1 :
             InOffer(offer, at, p) /\ p \in {5, 9}
    BY <1>1, <1>2, ScanRead, SeparatorsDiffer
<1> k \in 1 .. Len(Offers0)
    BY <1>4
<1>5. PICK p \in 0 .. Len(OfferText(offer)) - 1 : InOffer(offer, at, p) /\ p \in {5, 9}
    BY <1>4
<1>6. at \in Nat
    BY <1>4 DEF ScanOf
<1>7. Value = <<OfferText(offer)[p]>>
  <2>1. p \in {1, 3, 5, 7, 9} /\ p <= Len(OfferText(offer))
      BY <1>4, <1>5
  <2> QED BY <1>1, <1>4, <1>5, <2>1, ScanValue
<1>8. (Value = <<"client_port">>) = (p = 5 /\ offer.param \in {"ports", "both"})
  <2>1. (Value = <<"client_port">>) = (OfferText(offer)[p] = "client_port")
      BY <1>7
  <2>2. CASE p = 5
    <3>1. offer.param # "none"
      <4>1. offer.param = "none" => Len(OfferText(offer)) = 3
          BY <1>4, OfferWords DEF Params
      <4>2. ~(5 \in 0 .. 3 - 1)
          OBVIOUS
      <4> QED BY <1>5, <2>2, <4>1, <4>2
    <3>2. OfferText(offer)[5] = IF offer.param = "mode" THEN "mode" ELSE "client_port"
        BY <1>4, <3>1, OfferWords DEF Params
    <3> QED BY <1>4, <2>1, <2>2, <3>1, <3>2 DEF Params
  <2>3. CASE p = 9
    <3>1. offer.param = "both"
      <4>1. /\ offer.param = "none" => Len(OfferText(offer)) = 3
            /\ offer.param \in {"ports", "mode"} => Len(OfferText(offer)) = 7
          BY <1>4, OfferWords DEF Params
      <4>2. ~(9 \in 0 .. 3 - 1) /\ ~(9 \in 0 .. 7 - 1)
          OBVIOUS
      <4> QED BY <1>4, <1>5, <2>3, <4>1, <4>2 DEF Params
    <3>2. OfferText(offer)[9] = "mode"
        BY <3>1, OfferWords
    <3> QED BY <2>1, <2>3, <3>2
  <2> QED BY <1>5, <2>2, <2>3
<1>9. trn' \in Scans
  <2>1. trn.c + 1 \in Int /\ (trn.sign \/ Value = <<"client_port">>) \in BOOLEAN
    <3>1. trn.c + 1 \in Int
        BY <1>3, ScanTypes
    <3>2. (trn.sign \/ Value = <<"client_port">>) \in BOOLEAN
        OBVIOUS
    <3> QED BY <3>1, <3>2
  <2> QED BY <1>0, <1>3, <2>1, Zenon DEF Scans
<1>10. /\ trn'.c = trn.c + 1 /\ trn'.value = trn.c + 1 /\ trn'.trans = trn.trans
       /\ trn'.i = trn.i /\ trn'.end = trn.end
    BY <1>0, <1>3 DEF Scans
<1>11. /\ trn'.allowed = trn.allowed /\ trn'.ports = trn.ports
       /\ trn'.sign = (trn.sign \/ Value = <<"client_port">>)
    BY <1>0, <1>3 DEF Scans
<1>12. InOffer(offer, at, p + 1)'
  <2>1. 2 * ((p + 1) \div 2) = p + 1 /\ p \notin {6, 7} /\ p + 1 \in {6, 10}
        /\ (p + 1 >= 8) = (p >= 8) /\ (p + 1 < 8) = (p < 8)
      BY <1>5
  <2>2. trn'.sign = (p + 1 \in {6, 7} /\ offer.param \in {"ports", "both"})
    <3>1. ~trn.sign
      <4>1. trn.sign = (p \in {6, 7} /\ offer.param \in {"ports", "both"})
          BY <1>5, Zenon DEF InOffer
      <4> QED BY <2>1, <4>1
    <3>2. (p + 1 \in {6, 7}) = (p = 5)
        BY <1>5
    <3> QED BY <1>8, <1>11, <3>1, <3>2
  <2> QED BY <1>3, <1>5, <1>6, <1>10, <1>11, <2>1, <2>2 DEF InOffer
<1>13. p + 1 \in 0 .. Len(OfferText(offer))
    BY <1>4, <1>5
<1> QED BY <1>1, <1>4, <1>9, <1>12, <1>13, ScanMoves

\* Where the next word stands behind blanks.
NextWord(i) == CHOOSE j \in i .. Len(Words) + 1 :
    (j > Len(Words) \/ Words[j] # Blank) /\ \A k \in i .. j - 1 : Words[k] = Blank

\* It is the one behind a single blank.
LEMMA NextWordIs ==
    ASSUME Len(Words) \in Nat, NEW i \in Nat, i + 1 <= Len(Words), Words[i] = Blank, Words[i + 1] # Blank
    PROVE  NextWord(i) = i + 1
<1> DEFINE l == Len(Words)
           Next0(m) == (m > l \/ Words[m] # Blank) /\ \A k \in i .. m - 1 : Words[k] = Blank
<1>1. NextWord(i) = CHOOSE m \in i .. l + 1 : Next0(m)
    BY Zenon DEF NextWord
<1>2. i + 1 \in i .. l + 1 /\ Next0(i + 1)
  <2>1. i + 1 \in i .. l + 1 /\ i + 1 - 1 = i
      OBVIOUS
  <2>2. \A k \in i .. i + 1 - 1 : Words[k] = Blank
    <3>1. \A k \in i .. i + 1 - 1 : k = i
        OBVIOUS
    <3> QED BY <3>1
  <2> QED BY <2>1, <2>2
<1>3. ASSUME NEW m \in i .. l + 1, Next0(m) PROVE m = i + 1
  <2>1. m # i
    <3>1. m = i => ~(m > l)
        OBVIOUS
    <3> QED BY <1>3, <3>1
  <2>2. CASE i + 1 < m
    <3>1. i + 1 \in i .. m - 1
        BY <2>2
    <3> QED BY <1>3, <3>1
  <2> QED BY <2>1, <2>2
<1> HIDE DEF Next0
<1> QED BY <1>1, <1>2, <1>3, Zenon

\* A comma ends the offer that is read, or the one that was passed over.
LEMMA CommaRead ==
    ASSUME FieldsInv, ScanInv, TransportComma
    PROVE  ScanInv'
<1>1. Scanning /\ pc = "transport" /\ UNCHANGED <<msg, n>>
    BY Zenon DEF TransportComma, At, Scanning, ScanRest, parseVars
<1>2. Words[trn.c] = Comma
    BY Zenon DEF TransportComma, At, Comma
<1>3. trn \in Scans /\ trn.end = 0
    BY <1>1 DEF ScanInv, Scanning
<1>4. /\ trn.allowed => trn' = [trn EXCEPT !.end = trn.c]
      /\ ~trn.allowed => trn' = [trn EXCEPT !.c = NextWord(trn.c + 1), !.value = NextWord(trn.c + 1),
                                            !.trans = NextWord(trn.c + 1), !.allowed = TRUE]
    BY Zenon DEF TransportComma, NextWord, Blank
<1>5. PICK k, offer, at :
        /\ k \in 1 .. Len(Offers0)
        /\ ScanOf(k, offer, at) /\ Len(OfferText(offer)) \in {3, 7, 11} /\ offer.param \in Params
        /\ k < Len(Offers0) /\ trn.c = at + Len(OfferText(offer))
        /\ InOffer(offer, at, Len(OfferText(offer))) \/ Over(offer, at)
    BY <1>1, <1>2, ScanRead, SeparatorsDiffer
<1> k \in 1 .. Len(Offers0)
    BY <1>5
<1>6. at \in Nat /\ offer = Offers0[k] /\ at = Begin(k) /\ \A j \in 1 .. k - 1 : Passed(Offers0[j])
    BY <1>5 DEF ScanOf
<1> DEFINE l == Len(OfferText(offer))
<1>7. CASE trn.allowed
  <2>1. InOffer(offer, at, l)
      BY <1>5, <1>7 DEF Over
  <2>2. trn' = [trn EXCEPT !.end = trn.c]
      BY <1>4, <1>7
  <2>3. trn' \in Scans
    <3>1. trn.c \in Int
        BY <1>3, ScanTypes
    <3> QED BY <1>3, <2>2, <3>1, Zenon DEF Scans
  <2>4. /\ trn'.c = trn.c /\ trn'.value = trn.value /\ trn'.trans = trn.trans
        /\ trn'.i = trn.i /\ trn'.end = trn.c
      BY <1>3, <2>2 DEF Scans
  <2>5. trn'.allowed = trn.allowed /\ trn'.ports = trn.ports /\ trn'.sign = trn.sign
      BY <1>3, <2>2 DEF Scans
  <2>6. InOffer(offer, at, l)'
      BY <2>1, <2>4, <2>5, Zenon DEF InOffer
  <2>7. l \in 0 .. l
      BY <1>5
  <2> QED BY <1>1, <1>5, <2>3, <2>6, <2>7, ScanMoves
<1>8. CASE ~trn.allowed
  <2>1. Over(offer, at)
      BY <1>5, <1>8 DEF InOffer
  <2>0. /\ msg \in Requests /\ n \in 1 .. Len(msg.headers) /\ msg.headers[n].name = "Transport"
        /\ Offers0 = msg.headers[n].says /\ Words = Text(msg.headers[n])
      BY <1>1, AtTransport DEF Words, Offers0
  <2>2. k + 1 \in 1 .. Len(Offers0)
    <3>1. Len(Offers0) \in Nat
        BY <2>0, OffersFacts
    <3> QED BY <1>5, <3>1
  <2>3. PICK next, then : then = Offers0[k + 1] /\ next = Begin(k + 1)
      OBVIOUS
  <2>4. /\ Len(Words) \in Nat
        /\ next = at + l + 2 /\ next <= Len(Words) + 1
        /\ Words[at + l] = Comma /\ Words[at + l + 1] = Blank
      BY <1>5, <1>6, <2>0, <2>3, OffersPlaces DEF Begin
  <2>5. /\ next \in Nat /\ next + Len(OfferText(then)) - 1 <= Len(Words)
        /\ \A i \in 1 .. Len(OfferText(then)) : Words[next + i - 1] = OfferText(then)[i]
      BY <2>0, <2>2, <2>3, OffersPlaces DEF Begin
  <2>6. then.param \in Params /\ then.proto \notin Separators /\ Len(OfferText(then)) \in {3, 7, 11}
      BY <2>0, <2>2, <2>3, OffersFacts
  <2>7. next <= Len(Words) /\ Words[next] # Blank
    <3>1. OfferText(then)[1] = then.proto
        BY <2>6, OfferWords DEF Params
    <3>2. Words[next + 1 - 1] = OfferText(then)[1] /\ next + 1 - 1 = next
        BY <2>5, <2>6
    <3>3. Blank \in Separators
        BY Zenon DEF Blank, Separators
    <3>4. next <= Len(Words)
      <4>1. \A a, w \in Nat, x \in {3, 7, 11} : a + x - 1 <= w => a <= w
          OBVIOUS
      <4> QED BY <2>4, <2>5, <2>6, <4>1
    <3> QED BY <2>6, <3>1, <3>2, <3>3, <3>4
  <2>8. NextWord(trn.c + 1) = next
    <3>1. PICK i : i = at + l + 1
        OBVIOUS
    <3>2. i \in Nat /\ i + 1 = next /\ trn.c + 1 = i
        BY <1>5, <1>6, <2>4, <3>1
    <3>3. i + 1 <= Len(Words) /\ Words[i] = Blank /\ Words[i + 1] # Blank
        BY <2>4, <2>7, <3>1, <3>2
    <3> QED BY <2>4, <3>2, <3>3, NextWordIs
  <2>9. trn' = [trn EXCEPT !.c = next, !.value = next, !.trans = next, !.allowed = TRUE]
      BY <1>4, <1>8, <2>8, Zenon
  <2>10. trn' \in Scans
    <3>1. next \in Int /\ TRUE \in BOOLEAN
        BY <2>5
    <3> QED BY <1>3, <2>9, <3>1, Zenon DEF Scans
  <2>11. trn'.c = next /\ trn'.value = next /\ trn'.trans = next /\ trn'.i = trn.i /\ trn'.end = trn.end
      BY <1>3, <2>9 DEF Scans
  <2>12. trn'.allowed = TRUE /\ trn'.ports = trn.ports /\ trn'.sign = trn.sign
      BY <1>3, <2>9 DEF Scans
  <2>13. InOffer(then, next, 0)'
    <3>1. trn.i = 0 /\ ~trn.ports /\ ~trn.sign /\ trn.end = 0
        BY <2>1 DEF Over
    <3>2. PICK p : p = 0
        OBVIOUS
    <3>3. 2 * (p \div 2) = 0 /\ p \notin {6, 7} /\ ~(p >= 8) /\ p < 2 /\ ~(p >= 4) /\ next + p = next
        BY <2>5, <3>2
    <3>4. trn'.sign = (p \in {6, 7} /\ then.param \in {"ports", "both"})
        BY <1>3, <2>12, <3>1, <3>3 DEF Scans
    <3>5. trn'.ports = (p >= 8)
        BY <1>3, <2>12, <3>1, <3>3 DEF Scans
    <3>6. InOffer(then, next, p)'
        BY <2>5, <2>11, <2>12, <3>1, <3>3, <3>4, <3>5 DEF InOffer
    <3> QED BY <3>2, <3>6
  <2>14. ScanOf(k + 1, then, next)
    <3>1. Passed(Offers0[k])
        BY <1>6, <2>1 DEF Over
    <3>2. \A j \in 1 .. k + 1 - 1 : j \in 1 .. k - 1 \/ j = k
        OBVIOUS
    <3> QED BY <1>6, <2>3, <2>5, <3>1, <3>2 DEF ScanOf
  <2>15. 0 \in 0 .. Len(OfferText(then))
      BY <2>6
  <2> QED BY <1>1, <2>2, <2>10, <2>13, <2>14, <2>15, ScanMoves
<1> QED BY <1>7, <1>8

\* Every step of process_header_transport reads on in the same offer or goes to the next.
LEMMA ScanStep ==
    ASSUME FieldsInv, ScanInv, [Next]_vars
    PROVE  ScanInv'
<1>1. CASE TransportWord
    BY <1>1, WordRead
<1>2. CASE TransportProtocol
    BY <1>2, ProtocolRead
<1>3. CASE TransportCast
    BY <1>3, CastRead
<1>4. CASE TransportParameter
    BY <1>4, ParameterRead
<1>5. CASE TransportKey
    BY <1>5, KeyRead
<1>6. CASE TransportComma
    BY <1>6, CommaRead
<1>7. CASE HandleTransport
  <2>1. pc = "handle" /\ fields[n] = "Transport" /\ n <= Len(fields) /\ trn' = NoScan /\ UNCHANGED <<msg, n>>
    <3>1. n > Len(fields) \/ n <= Len(fields)
      <4>1. n \in Nat /\ Len(fields) \in Nat
          BY DEF FieldsInv
      <4> QED BY <4>1
    <3> QED BY <1>7, <3>1 DEF HandleTransport, Handling, Handled, parseVars
  <2>2. /\ msg \in Requests /\ n \in 1 .. Len(msg.headers) /\ msg.headers[n].name = "Transport"
    <3>1. Len(msg.headers) \in Nat /\ n \in Nat /\ msg \in Requests
        BY MessageFacts DEF FieldsInv
    <3>2. Len(fields) = Len(msg.headers) /\ n \in 1 .. Len(fields)
        BY <2>1, <3>1 DEF FieldsInv, Answering
    <3>3. fields[n] \in {"NULL", msg.headers[n].name}
        BY <2>1, <3>2 DEF FieldsInv, Answering
    <3> QED BY <2>1, <3>1, <3>2, <3>3
  <2>3. Offers0 = msg.headers[n].says /\ Offers0' = Offers0 /\ Begin(1)' = Begin(1)
      BY <2>1 DEF Offers0, Begin
  <2>4. Len(Offers0) \in Nat
      BY <2>2, <2>3, OffersFacts
  <2>5. /\ trn' \in Scans /\ trn'.c = 1 /\ trn'.value = 1 /\ trn'.trans = 1 /\ trn'.i = 0
        /\ trn'.allowed = TRUE /\ trn'.sign = FALSE /\ trn'.ports = FALSE /\ trn'.end = 0
      BY <2>1 DEF NoScan, Scans
  <2>6. CASE Len(Offers0) = 0
      BY <2>1, <2>3, <2>5, <2>6 DEF ScanInv
  <2>7. CASE Len(Offers0) > 0
    <3>1. PICK offer, at : offer = Offers0[1] /\ at = Begin(1)
        OBVIOUS
    <3>2. at = 1
        BY <2>2, <2>3, <2>7, <3>1, OffersPlaces DEF Begin
    <3>3. 1 \in 1 .. Len(Offers0) /\ Len(OfferText(offer)) \in {3, 7, 11}
      <4>1. 1 \in 1 .. Len(Offers0)
          BY <2>4, <2>7
      <4> QED BY <2>2, <2>3, <3>1, <4>1, OffersFacts
    <3>4. InOffer(offer, at, 0)'
      <4>1. PICK p : p = 0
          OBVIOUS
      <4>2. 2 * (p \div 2) = 0 /\ p \notin {6, 7} /\ ~(p >= 8) /\ p < 2 /\ ~(p >= 4) /\ at + p = 1
          BY <3>2, <4>1
      <4>3. trn'.sign = (p \in {6, 7} /\ offer.param \in {"ports", "both"})
          BY <2>5, <4>2
      <4>4. trn'.ports = (p >= 8)
        <5>1. (p >= 8) = FALSE
            BY <4>1
        <5> QED BY <2>5, <5>1, Zenon
      <4>5. InOffer(offer, at, p)'
          BY <2>5, <3>2, <4>2, <4>3, <4>4 DEF InOffer
      <4> QED BY <4>1, <4>5
    <3>5. 0 \in 0 .. Len(OfferText(offer))
        BY <3>3
    <3>6. (\A j \in 1 .. 1 - 1 : Passed(Offers0[j]))'
        OBVIOUS
    <3>7. (\E p \in 0 .. Len(OfferText(Offers0[1])) : InOffer(Offers0[1], Begin(1), p))'
        BY <2>3, <3>1, <3>4, <3>5, Zenon DEF InOffer
    <3> QED BY <2>3, <2>5, <3>3, <3>6, <3>7 DEF ScanInv
  <2> QED BY <2>4, <2>6, <2>7
<1>8. CASE TransportAnswer
  <2>1. pc' # "transport"
      BY <1>8 DEF TransportAnswer, Room
  <2> QED BY <2>1 DEF ScanInv
<1>11. CASE Failing
    BY <1>11, FailingStops DEF ScanInv
<1>9. CASE Receive \/ ParseLine \/ ParseLineCut \/ ParseLineShort \/ ParseHeader \/ ParseHeaderCut \/ Parsed
           \/ TakeField \/ TakeStatus \/ ProcessHeader \/ HandleDefault \/ HandleUnknown
           \/ HandleCSeq \/ HandleAccept \/ Method \/ NextHeader \/ AddNext \/ Respond
  <2>1. pc' # "transport"
      BY <1>9 DEF Receive, ParseLine, ParseLineCut, ParseLineShort, ParseHeader, ParseHeaderCut, Parsed,
           TakeField, TakeStatus, ProcessHeader, HandleDefault, HandleUnknown,
           HandleCSeq, HandleAccept, Method, NextHeader, AddNext, Respond, Handling, Room
  <2> QED BY <2>1 DEF ScanInv
<1>10. CASE Compare \/ NextSet \/ UNCHANGED vars
  <2>1. pc' # "transport" \/ UNCHANGED <<pc, msg, n, trn>>
      BY <1>10 DEF Compare, NextSet, vars, parseVars, replyVars
  <2> QED BY <2>1 DEF ScanInv, Offers0, Begin, InOffer, Over
<1> QED BY <1>1, <1>2, <1>3, <1>4, <1>5, <1>6, <1>7, <1>8, <1>9, <1>10, <1>11
       DEF Next, Step, Transport, Failing

(***************************************************************************)
(* The room in tmpbuf and in resbuf                                        *)
(***************************************************************************)
\* What a text takes of tmpbuf, and a header of resbuf, at most.
OneText == Longest + ServerPortsSize + 1
OneLine == 2 * Longest + ServerPortsSize + 4

\* What is to be written into the message is no longer than it may be.
TextsShort == \A k \in 1 .. Len(res.fields) :
    TextSize(Pointed(res.fields[k])) \in 0 .. Longest + ServerPortsSize

\* A transport leaves two texts in tmpbuf, the method three.
PlacesFew ==
    /\ pc \in {"status", "handle"} => b <= 2 * SoFar("Transport")
    /\ pc = "transport" => b <= 2 * SoFar("Transport") + (IF trn.ports THEN 1 ELSE 0)
    /\ pc \in {"add", "todo"} => /\ b + Len(todo) <= 2 * SoFar("Transport") + 3
                                 /\ \A k \in 1 .. Len(todo) : todo[k].text \in MethodTexts

\* The texts take no more of tmpbuf than there are of them.
SizeInv == Servable(msg) /\ Answering =>
    used \in Nat /\ used <= b * OneText /\ TextsShort /\ PlacesFew

LEMMA SizesFacts ==
    /\ Longest \in Nat /\ TBuf \in Nat /\ RBuf \in Nat /\ ServerPortsSize = 22
    /\ OneText \in Nat /\ OneLine \in Nat
    /\ \A text \in MethodTexts : TextSize(text) \in 0 .. Longest
    /\ \A name \in Names : TextSize(<<name>>) \in 0 .. Longest
<1>1. Longest \in Nat /\ TBuf \in Nat /\ RBuf \in Nat
    BY SizesAssumption, Zenon
<1>2. ServerPortsSize = 22
    BY DEF ServerPortsSize
<1>3. OneText \in Nat /\ OneLine \in Nat
    BY <1>1, <1>2 DEF OneText, OneLine
<1>4. /\ \A text \in MethodTexts : TextSize(text) \in 0 .. Longest
      /\ \A name \in Names : TextSize(<<name>>) \in 0 .. Longest
    BY SizesAssumption, Zenon
<1> QED BY <1>1, <1>2, <1>3, <1>4

\* More times as much is no less.
LEMMA Multiples ==
    ASSUME NEW w \in Nat, NEW a \in Nat, NEW c \in Nat
    PROVE  /\ a * w \in Nat /\ (a + 1) * w = a * w + w /\ (a + 2) * w = a * w + w + w
           /\ a <= c => a * w <= c * w
<1>1. a * w \in Nat /\ (a + 1) * w = a * w + w /\ (a + 2) * w = a * w + w + w
    OBVIOUS
<1>2. ASSUME a <= c PROVE a * w <= c * w
  <2>1. PICK d \in Nat : c = a + d
    <3>1. c - a \in Nat /\ c = a + (c - a)
        BY <1>2
    <3> QED BY <3>1
  <2>2. (a + d) * w = a * w + d * w /\ d * w \in Nat
      OBVIOUS
  <2> QED BY <1>1, <2>1, <2>2
<1> QED BY <1>1, <1>2

\* A part of a transport's text is no longer than a servable message's texts may be.
LEMMA PartSizes ==
    ASSUME FieldsInv, Servable(msg), pc = "transport",
           NEW i \in 1 .. Len(Words) + 1, NEW j \in 0 .. Len(Words)
    PROVE  /\ TextSize(SubSeq(Words, i, j)) \in 0 .. Longest
           /\ TextSize(SubSeq(Words, i, j) \o ServerPorts) \in 0 .. Longest + ServerPortsSize
<1>1. msg \in Requests /\ n \in 1 .. Len(msg.headers) /\ msg.headers[n].name = "Transport"
    BY AtTransport
<1> DEFINE text == Words
<1>2. text = Text(msg.headers[n])
    BY DEF Words
<1>3. TextSize(text) \in Nat /\ TextSize(text) <= Longest
  <2>1. TextSize(Text(msg.headers[n])) \in Nat
      BY <1>1, SizesAssumption, Zenon
  <2>2. TextSize(Text(msg.headers[n])) <= Longest
      BY <1>1, Zenon DEF Servable
  <2> QED BY <1>2, <2>1, <2>2
<1>4. /\ TextSize(SubSeq(text, i, j)) \in 0 .. TextSize(text)
      /\ TextSize(SubSeq(text, i, j) \o ServerPorts) = TextSize(SubSeq(text, i, j)) + ServerPortsSize
  <2>1. \A x \in 1 .. Len(Text(msg.headers[n])) + 1, y \in 0 .. Len(Text(msg.headers[n])) :
            /\ TextSize(SubSeq(Text(msg.headers[n]), x, y)) \in 0 .. TextSize(Text(msg.headers[n]))
            /\ TextSize(SubSeq(Text(msg.headers[n]), x, y) \o ServerPorts) =
                   TextSize(SubSeq(Text(msg.headers[n]), x, y)) + ServerPortsSize
      BY <1>1, SizesAssumption, Zenon
  <2> QED BY <1>2, <2>1, Zenon
<1> HIDE DEF text
<1>5. PICK p, q, l : p = TextSize(SubSeq(text, i, j)) /\ q = TextSize(SubSeq(text, i, j) \o ServerPorts)
                     /\ l = TextSize(text)
    OBVIOUS
<1>6. p \in 0 .. l /\ q = p + ServerPortsSize /\ l \in Nat /\ l <= Longest /\ Longest \in Nat
      /\ ServerPortsSize = 22
    BY <1>3, <1>4, <1>5, SizesFacts
<1>7. p \in 0 .. Longest /\ q \in 0 .. Longest + ServerPortsSize
    BY ONLY <1>6
<1> QED BY <1>5, <1>7, Zenon DEF text

\* What the scan has read of an offer lies inside the text.
LEMMA ScanParts ==
    ASSUME FieldsInv, ScanInv, pc = "transport"
    PROVE  /\ Len(Words) \in Nat /\ trn \in Scans
           /\ trn.sign => trn.allowed /\ ~trn.ports
           /\ trn.allowed => /\ trn.value \in 1 .. Len(Words) + 1 /\ trn.trans \in 1 .. Len(Words) + 1
                             /\ trn.c \in 1 .. Len(Words) + 1
           /\ trn.end # 0 => trn.end - 1 \in 0 .. Len(Words)
<1>1. /\ msg \in Requests /\ n \in 1 .. Len(msg.headers) /\ msg.headers[n].name = "Transport"
      /\ Offers0 = msg.headers[n].says /\ Words = Text(msg.headers[n])
    BY AtTransport DEF Words, Offers0
<1>2. Len(Words) \in Nat /\ trn \in Scans
    BY <1>1, OffersPlaces DEF ScanInv
<1>3. CASE Len(Offers0) = 0 /\ trn = NoScan
    BY <1>2, <1>3 DEF NoScan
<1>4. ASSUME NEW k \in 1 .. Len(Offers0), Over(Offers0[k], Begin(k))
      PROVE  ~trn.allowed /\ ~trn.sign /\ trn.end = 0
    BY <1>4 DEF Over
<1>5. ASSUME NEW k \in 1 .. Len(Offers0), NEW p \in 0 .. Len(OfferText(Offers0[k])),
             InOffer(Offers0[k], Begin(k), p)
      PROVE  /\ trn.sign => trn.allowed /\ ~trn.ports
             /\ trn.value \in 1 .. Len(Words) + 1 /\ trn.trans \in 1 .. Len(Words) + 1
             /\ trn.c \in 1 .. Len(Words) + 1
             /\ trn.end # 0 => trn.end - 1 \in 0 .. Len(Words)
  <2>1. PICK offer, at, l : offer = Offers0[k] /\ at = Begin(k) /\ l = Len(OfferText(offer))
      OBVIOUS
  <2>2. at \in Nat /\ at >= 1 /\ l \in Nat /\ at + l - 1 <= Len(Words) /\ p \in 0 .. l
      BY <1>1, <2>1, OffersPlaces DEF Begin
  <2>3. /\ trn.c = at + p /\ trn.trans = at /\ trn.value = at + 2 * (p \div 2) /\ trn.allowed
        /\ trn.sign = (p \in {6, 7} /\ offer.param \in {"ports", "both"})
        /\ trn.ports = (p >= 8) /\ (trn.end # 0 => trn.end = trn.c)
      BY <1>5, <2>1, Zenon DEF InOffer
  <2>4. 2 * (p \div 2) \in 0 .. p
      BY <2>2
  <2>5. trn.sign => trn.allowed /\ ~trn.ports
    <3> SUFFICES ASSUME trn.sign PROVE trn.allowed /\ ~trn.ports
        OBVIOUS
    <3>1. p \in {6, 7}
        BY <2>3, Zenon
    <3>2. (p >= 8) = FALSE
        BY <3>1
    <3>3. trn.ports = FALSE
        BY <2>3, <3>2, Zenon
    <3> QED BY <2>3, <3>3, Zenon
  <2> HIDE DEF Words
  <2> QED BY <1>2, <2>2, <2>3, <2>4, <2>5
<1> QED BY <1>2, <1>3, <1>4, <1>5 DEF ScanInv

\* Where the texts are few enough there is room for one more.
LEMMA TextFits ==
    ASSUME FieldsInv, Servable(msg), Answering, NEW text, TextSize(text) \in 0 .. Longest + ServerPortsSize,
           used \in Nat, used <= b * OneText, b \in Nat, b + 1 <= 2 * SoFar("Transport") + 3
    PROVE  /\ Fits(text)
           /\ used + TextSize(text) + 1 \in Nat /\ used + TextSize(text) + 1 <= (b + 1) * OneText
<1>1. Len(msg.headers) \in Nat /\ n \in 1 .. Len(msg.headers) + 1
    BY MessageFacts DEF FieldsInv
<1>2. PICK soFar, said : soFar = SoFar("Transport") /\ said = Len(Said(msg, "Transport"))
    OBVIOUS
<1>3. soFar \in Nat /\ said \in Nat /\ soFar <= said
    BY <1>1, <1>2, SoFarCounts
<1>4. MostTexts(msg) * OneText <= TBuf /\ MostTexts(msg) = 2 * said + 3
    BY <1>2, Zenon DEF Servable, OneText, MostTexts
<1>5. PICK w, l : w = OneText /\ l = TextSize(text)
    OBVIOUS
<1>6. w \in Nat /\ l \in Nat /\ l + 1 <= w
    BY <1>5, SizesFacts DEF OneText
<1>7. b + 1 \in Nat /\ 2 * said + 3 \in Nat /\ b + 1 <= 2 * said + 3
    BY <1>2, <1>3
<1>8. (b + 1) * w = b * w + w /\ b * w \in Nat
    BY <1>6, Multiples
<1>9. (b + 1) * w <= (2 * said + 3) * w /\ (b + 1) * w \in Nat /\ (2 * said + 3) * w \in Nat
    BY <1>6, <1>7, Multiples
<1>10. (2 * said + 3) * w <= TBuf /\ TBuf \in Nat /\ used <= b * w
    BY <1>4, <1>5, SizesFacts
<1>11. PICK x, y, z : x = b * w /\ y = (b + 1) * w /\ z = (2 * said + 3) * w
    OBVIOUS
<1>12. /\ x \in Nat /\ y \in Nat /\ z \in Nat /\ y = x + w /\ y <= z /\ z <= TBuf /\ used <= x
       /\ l \in Nat /\ l + 1 <= w /\ w \in Nat /\ used \in Nat /\ TBuf \in Nat
    BY <1>6, <1>8, <1>9, <1>10, <1>11
<1>13. used + l + 1 <= TBuf /\ used + l + 1 \in Nat /\ used + l + 1 <= y
    BY ONLY <1>12
<1> QED BY <1>5, <1>11, <1>13 DEF Fits

\* What lies before b in tmpbuf stays, and with it what the response points to.
LEMMA TextsStayShort ==
    ASSUME ResInv, TextsShort, msg' = msg, \A i \in 1 .. b : tmp'[i] = tmp[i], res'.fields = res.fields
    PROVE  TextsShort'
<1>1. res.fields \in Seq(Field) /\ b \in Int
  <2>1. b \in 0 .. Len(tmp) /\ res.fields \in Seq(Field)
      BY DEF ResInv, Response
  <2> QED BY <2>1
<1> SUFFICES ASSUME NEW k \in 1 .. Len(res.fields)
             PROVE  Pointed(res.fields[k])' = Pointed(res.fields[k])
  <2>1. \A k \in 1 .. Len(res.fields) : Pointed(res.fields[k])' = Pointed(res.fields[k])
      BY Zenon
  <2> QED BY <2>1, Zenon DEF TextsShort
<1>2. CASE res.fields[k].in = "tmp"
  <2>1. res.fields[k].at \in Nat /\ res.fields[k].at < b
      BY <1>1, <1>2, FieldFacts DEF ResInv
  <2>2. res.fields[k].at + 1 \in 1 .. b
      BY <1>1, <2>1
  <2> QED BY <1>2, <2>2 DEF Pointed
<1>3. CASE res.fields[k].in # "tmp"
    BY <1>3, Zenon DEF Pointed
<1> QED BY <1>2, <1>3

\* A header more, with a short text.
LEMMA OneTextMore ==
    ASSUME ResInv, TextsShort, msg' = msg, \A i \in 1 .. b : tmp'[i] = tmp[i],
           NEW name \in Names, NEW memory \in {"req", "tmp"}, NEW place \in Nat,
           AddHeader(name, memory, place), NEW text,
           text = IF memory = "tmp" THEN tmp'[place + 1] ELSE Text(msg.headers[place]),
           TextSize(text) \in 0 .. Longest + ServerPortsSize
    PROVE  TextsShort'
<1> DEFINE Short(x) == x \in 0 .. Longest + ServerPortsSize
<1>0. PICK m : m = Len(res.fields)
    OBVIOUS
<1>1. /\ Len(res'.fields) = m + 1 /\ m \in Nat
      /\ \A k \in 1 .. m : res'.fields[k] = res.fields[k]
      /\ res'.fields[m + 1].in = memory /\ res'.fields[m + 1].at = place
    BY <1>0, FieldAdded, ZenonT(40) DEF ResInv
<1>2. res.fields \in Seq(Field) /\ b \in Int
  <2>1. b \in 0 .. Len(tmp) /\ res.fields \in Seq(Field)
      BY DEF ResInv, Response
  <2> QED BY <2>1
<1>3. ASSUME NEW k \in 1 .. m PROVE Pointed(res.fields[k])' = Pointed(res.fields[k])
  <2>0. res'.fields[k] = res.fields[k]
      BY <1>1
  <2>1. CASE res.fields[k].in = "tmp"
    <3>0. k \in 1 .. Len(res.fields)
        BY <1>0
    <3>1. res.fields[k].at \in Nat /\ res.fields[k].at < b
      <4>1. res.fields[k].at \in Nat
          BY <1>2, <3>0, FieldFacts
      <4>2. res.fields[k].at < b
          BY <2>1, <3>0, Zenon DEF ResInv
      <4> QED BY <4>1, <4>2
    <3>2. res.fields[k].at + 1 \in 1 .. b
        BY <1>2, <3>1
    <3> QED BY <2>0, <2>1, <3>2 DEF Pointed
  <2>2. CASE res.fields[k].in # "tmp"
      BY <2>0, <2>2, Zenon DEF Pointed
  <2> QED BY <2>1, <2>2
<1>4. Pointed(res.fields[m + 1])' = text
  <2>2. \A f : f.in = memory /\ f.at = place =>
            (IF f.in = "tmp" THEN tmp'[f.at + 1] ELSE Text(msg'.headers[f.at])) = text
      BY Zenon
  <2> QED BY <1>1, <2>2, Zenon DEF Pointed
<1>5. \A k \in 1 .. m : Short(TextSize(Pointed(res.fields[k])))
    BY <1>0, Zenon DEF TextsShort
<1>6. \A k \in 1 .. m : Short(TextSize(Pointed(res.fields[k])'))
    BY <1>3, <1>5, Zenon
<1>7. \A k \in 1 .. m + 1 : k \in 1 .. m \/ k = m + 1
    BY <1>1
<1>8. Short(TextSize(Pointed(res.fields[m + 1])'))
    BY <1>4, Zenon
<1> QED BY <1>1, <1>6, <1>7, <1>8, Zenon DEF TextsShort

\* What process_header_transport copies while it scans is a part of the text.
LEMMA ValueSize ==
    ASSUME FieldsInv, ScanInv, Servable(msg), Scanning, Words[trn.c] \in {Semicolon, Equals}
    PROVE  TextSize(Value) \in 0 .. Longest
<1>1. PICK k, offer, at :
         /\ k \in 1 .. Len(Offers0)
         /\ ScanOf(k, offer, at)
         /\ offer.param \in Params /\ Len(OfferText(offer)) \in {3, 7, 11}
         /\ \/ /\ k < Len(Offers0) /\ Words[trn.c] = Comma /\ trn.c = at + Len(OfferText(offer))
               /\ InOffer(offer, at, Len(OfferText(offer))) \/ Over(offer, at)
            \/ \E p \in 0 .. Len(OfferText(offer)) - 1 :
                /\ InOffer(offer, at, p) /\ Words[trn.c] # Comma
                /\ \/ Words[trn.c] = Semicolon /\ p \in {1, 3, 7}
                   \/ Words[trn.c] = Equals /\ p \in {5, 9}
                   \/ /\ Words[trn.c] # Semicolon /\ Words[trn.c] # Equals
                      /\ p \in {0, 2, 4, 6, 8, 10}
    BY ScanRead, Zenon
<1>2. trn.allowed
  <2>1. Words[trn.c] # Comma
      BY SeparatorsDiffer
  <2>2. PICK p : InOffer(offer, at, p)
      BY <1>1, <2>1, Zenon
  <2> QED BY <2>2, Zenon DEF InOffer
<1>3. pc = "transport"
    BY DEF Scanning
<1>4. trn.value \in 1 .. Len(Words) + 1 /\ trn.c \in 1 .. Len(Words) + 1 /\ Len(Words) \in Nat
    BY <1>2, <1>3, ScanParts, Zenon
<1> DEFINE from == trn.value
           to == trn.c - 1
           l == Len(Words)
<1>5. from \in 1 .. l + 1 /\ to \in 0 .. l
    BY <1>4
<1>6. Value = SubSeq(Words, from, to)
    BY DEF Value
<1> HIDE DEF from, to
<1>7. TextSize(SubSeq(Words, from, to)) \in 0 .. Longest
    BY <1>3, <1>5, PartSizes
<1> QED BY <1>6, <1>7, Zenon

\* And so is what it writes behind the loop, but for the server's ports.
LEMMA AnswerSizes ==
    ASSUME FieldsInv, ScanInv, Servable(msg), Scanned
    PROVE  /\ trn.sign => trn.allowed /\ ~trn.ports
           /\ trn.allowed => TextSize(OfferRepeated) \in 0 .. Longest + ServerPortsSize
           /\ AnswerSize \in Nat
           /\ ~trn.allowed => AnswerSize = 0
           /\ trn.allowed /\ ~trn.sign => AnswerSize <= OneText
           /\ trn.sign => AnswerSize <= OneText + OneText
<1>1. pc = "transport"
    BY DEF Scanned
<1>2. /\ Len(Words) \in Nat
      /\ trn.sign => trn.allowed /\ ~trn.ports
      /\ trn.allowed => trn.value \in 1 .. Len(Words) + 1 /\ trn.trans \in 1 .. Len(Words) + 1
      /\ trn.end # 0 => trn.end - 1 \in 0 .. Len(Words)
    BY <1>1, ScanParts, Zenon
<1>3. OfferEnd \in 0 .. Len(Words)
    BY <1>2 DEF OfferEnd
<1>4. \E S : Words \in Seq(S)
    BY <1>1, AtTransport, OffersPlaces DEF Words
<1>5. ASSUME trn.allowed
      PROVE  /\ TextSize(LastValue) \in 0 .. Longest
             /\ TextSize(OfferRepeated) \in 0 .. Longest + ServerPortsSize
  <2>1. TextSize(SubSeq(Words, trn.value, OfferEnd)) \in 0 .. Longest
      BY <1>1, <1>2, <1>3, <1>5, PartSizes
  <2> DEFINE part == SubSeq(Words, trn.trans, OfferEnd)
  <2>2. TextSize(part) \in 0 .. Longest /\ TextSize(part \o ServerPorts) \in 0 .. Longest + ServerPortsSize
      BY <1>1, <1>2, <1>3, <1>5, PartSizes
  <2>3. part \o << >> = part
    <3>1. PICK S : Words \in Seq(S)
        BY <1>4
    <3>2. PICK w, i, j : w = Words /\ i = trn.trans /\ j = OfferEnd
        OBVIOUS
    <3>3. w \in Seq(S) /\ i \in 1 .. Len(w) + 1 /\ j \in 0 .. Len(w) /\ Len(w) \in Nat
        BY <1>2, <1>3, <1>5, <3>1, <3>2
    <3>4. SubSeq(w, i, j) \in Seq(S)
        BY <3>3, SubSeqProperties
    <3>5. SubSeq(w, i, j) \o << >> = SubSeq(w, i, j)
        BY <3>4, ConcatEmptySeq
    <3> QED BY <3>2, <3>5, Zenon
  <2>4. OfferRepeated \in {part \o ServerPorts, part \o << >>}
      BY Zenon DEF OfferRepeated
  <2> HIDE DEF part
  <2>5. TextSize(part) \in 0 .. Longest + ServerPortsSize
      BY <2>2, SizesFacts
  <2>6. TextSize(OfferRepeated) \in 0 .. Longest + ServerPortsSize
      BY <2>2, <2>3, <2>4, <2>5, Zenon
  <2> QED BY <2>1, <2>6, Zenon DEF LastValue
<1>6. PICK v, r, a : v = TextSize(LastValue) /\ r = TextSize(OfferRepeated) /\ a = AnswerSize
    OBVIOUS
<1>7. a = (IF trn.sign THEN v + 1 ELSE 0) + (IF trn.allowed THEN r + 1 ELSE 0)
    BY <1>6, Zenon DEF AnswerSize
<1>8. trn.allowed => v \in 0 .. Longest /\ r \in 0 .. Longest + ServerPortsSize
    BY <1>5, <1>6
<1>9. Longest \in Nat /\ ServerPortsSize = 22 /\ OneText = Longest + ServerPortsSize + 1
    BY SizesFacts DEF OneText
<1>10. /\ a \in Nat
       /\ ~trn.allowed => a = 0
       /\ trn.allowed /\ ~trn.sign => a <= OneText
       /\ trn.sign => a <= OneText + OneText
    BY <1>2, <1>7, <1>8, <1>9
<1> QED BY <1>2, <1>5, <1>6, <1>10, Zenon

\* What the method adds is short.
LEMMA MethodAddsTexts ==
    ASSUME Method
    PROVE  \A k \in 1 .. Len(todo') : todo'[k].text \in MethodTexts
<1> DEFINE type == Header("Content-Type", "entity", <<"application/sdp">>)
           length == Header("Content-Length", "entity", <<EntityLength>>)
           public == Header("Public", "response", supported_methods)
           session == Header("Session", "extension", <<"session">>)
           date == Header("Date", "general", <<"date">>)
           info == Header("RTP-Info", "extension", <<"seq", seq'>>)
<1>1. /\ type.text \in MethodTexts /\ length.text \in MethodTexts /\ public.text \in MethodTexts
      /\ session.text \in MethodTexts /\ date.text \in MethodTexts
    BY Zenon DEF Header, MethodTexts
<1>2. seq' \in {"first", "second"} => info.text \in MethodTexts
    BY Zenon DEF Header, MethodTexts
<1>3. \/ todo' = process_method_play(seq') /\ seq' \in {"first", "second"}
      \/ todo' \in {process_method_describe, process_method_options, process_method_setup, << >>}
    BY DEF Method
<1>4. /\ process_method_describe = <<type, length>>
      /\ process_method_options = <<public>>
      /\ process_method_setup = <<session, date>>
    BY DEF process_method_describe, process_method_options, process_method_setup
<1>5. process_method_play(seq') = <<session, date, info>>
  <2>1. process_method_play(seq') = process_method_setup \o <<info>>
      BY DEF process_method_play
  <2> HIDE DEF session, date, info
  <2>2. <<session, date>> \o <<info>> = <<session, date, info>>
      BY TwoAndOne
  <2> QED BY <1>4, <2>1, <2>2
<1> HIDE DEF type, length, public, session, date, info
<1>6. ASSUME todo' = <<session, date, info>>, seq' \in {"first", "second"}
      PROVE  \A k \in 1 .. Len(todo') : todo'[k].text \in MethodTexts
  <2>1. Len(todo') = 3 /\ todo'[1] = session /\ todo'[2] = date /\ todo'[3] = info
      BY <1>6
  <2> QED BY <1>1, <1>2, <1>6, <2>1
<1>7. ASSUME NEW x, NEW y, todo' \in {<<x, y>>, <<x>>, << >>},
             x.text \in MethodTexts, y.text \in MethodTexts
      PROVE  \A k \in 1 .. Len(todo') : todo'[k].text \in MethodTexts
    BY <1>7
<1> QED BY <1>1, <1>3, <1>4, <1>5, <1>6, <1>7

\* The texts stay few and short.
LEMMA SizeStep ==
    ASSUME FieldsInv, TodoInv, SearchInv, ResInv, ScanInv, SizeInv, [Next]_vars
    PROVE  SizeInv'
<1>0. /\ Len(msg.headers) \in Nat /\ Len(fields) \in Nat /\ n \in Nat /\ msg \in Requests
    BY MessageFacts DEF FieldsInv
<1>r. res \in Response /\ b \in Nat
  <2>1. res \in Response /\ b \in 0 .. Len(tmp)
      BY DEF ResInv
  <2> QED BY <2>1
<1>g. ASSUME pc' \notin {"status", "handle", "transport", "add", "todo"} PROVE SizeInv'
    BY <1>g DEF SizeInv, Answering
<1>m. ASSUME msg' = msg,
             Servable(msg) => used' \in Nat /\ used' <= b' * OneText /\ TextsShort' /\ PlacesFew'
      PROVE  SizeInv'
    BY <1>m, Zenon DEF SizeInv
<1>i. ASSUME Servable(msg), Answering
      PROVE  used \in Nat /\ used <= b * OneText /\ TextsShort /\ PlacesFew
    BY <1>i, Zenon DEF SizeInv
<1>n. ASSUME Answering
      PROVE  n \in 1 .. Len(msg.headers) + 1 /\ SoFar("Transport") \in Nat
  <2>1. n \in 1 .. Len(msg.headers) + 1
      BY <1>0, <1>n DEF FieldsInv
  <2> QED BY <2>1, SoFarCounts
<1>s. ASSUME pc \in {"status", "handle", "transport"}, pc' \in {"status", "handle", "transport"},
             UNCHANGED <<msg, tmp, b, used>>, res'.fields = res.fields,
             n' = n \/ (n \in 1 .. Len(msg.headers) /\ n' = n + 1),
             pc = "transport" => pc' = "transport" /\ trn'.ports = trn.ports
      PROVE  SizeInv'
  <2>1. Answering
      BY <1>s DEF Answering
  <2>2. SUFFICES ASSUME Servable(msg)
                 PROVE  used' \in Nat /\ used' <= b' * OneText /\ TextsShort' /\ PlacesFew'
      BY <1>m, <1>s
  <2>3. used \in Nat /\ used <= b * OneText /\ TextsShort /\ PlacesFew
      BY <1>i, <2>1, <2>2
  <2>4. TextsShort'
      BY <1>s, <2>3, TextsStayShort
  <2>5. used' \in Nat /\ used' <= b' * OneText
      BY <1>s, <2>3, Zenon
  <2>6. SoFar("Transport") \in Nat /\ SoFar("Transport")' \in Nat /\ SoFar("Transport") <= SoFar("Transport")'
      BY <1>s, <2>1, SoFarGrows
  <2>7. PlacesFew'
      BY <1>r, <1>s, <2>3, <2>6 DEF PlacesFew
  <2> QED BY <2>4, <2>5, <2>7
<1>t. ASSUME pc \in {"add", "todo"}, pc' \in {"add", "todo"},
             UNCHANGED <<msg, n, tmp, b, used, todo>>, res'.fields = res.fields
      PROVE  SizeInv'
  <2>1. Answering
      BY <1>t DEF Answering
  <2>2. SUFFICES ASSUME Servable(msg)
                 PROVE  used' \in Nat /\ used' <= b' * OneText /\ TextsShort' /\ PlacesFew'
      BY <1>m, <1>t
  <2>3. used \in Nat /\ used <= b * OneText /\ TextsShort /\ PlacesFew
      BY <1>i, <2>1, <2>2
  <2>4. TextsShort'
      BY <1>t, <2>3, TextsStayShort
  <2>5. used' \in Nat /\ used' <= b' * OneText
      BY <1>t, <2>3, Zenon
  <2>6. SoFar("Transport")' = SoFar("Transport")
      BY <1>t DEF SoFar, Asked, Item
  <2>7. PlacesFew'
      BY <1>t, <2>3, <2>6 DEF PlacesFew
  <2> QED BY <2>4, <2>5, <2>7
<1>1. CASE Receive \/ ParseLine \/ ParseLineCut \/ ParseLineShort \/ ParseHeader \/ ParseHeaderCut
           \/ Parsed \/ TakeField \/ HandleUnknown \/ Respond
  <2>1. pc' \in {"line", "headers", "wild", "process", "field", "aborted", "crashed", "idle"}
      BY <1>1 DEF Receive, ParseLine, ParseLineCut, ParseLineShort, ParseHeader, ParseHeaderCut,
         Parsed, TakeField, HandleUnknown, Respond
  <2> QED BY <1>g, <2>1
<1>2. CASE Failing
    BY <1>2, <1>g, FailingStops
<1>3. CASE ProcessHeader
  <2>1. CASE res.version = "" /\ ~VersionEmpty(msg)
    <3>1. /\ msg' = msg /\ n' = 1 /\ pc' = "status" /\ b' = 0 /\ used' = 0
          /\ res' = [res EXCEPT !.fields = <<>>, !.entity = "none"]
        BY <1>3, <2>1 DEF ProcessHeader
    <3>2. Len(res'.fields) = 0
      <4>1. res'.fields = << >>
          BY <1>r, <3>1 DEF Response
      <4> QED BY <4>1
    <3>3. TextsShort'
        BY <3>2 DEF TextsShort
    <3>4. SoFar("Transport")' \in Nat
      <4>1. SoFar("Transport")' = Len(FlattenSeq(Asked("Transport", n' - 1)))
          BY <3>1 DEF SoFar, Asked, Item
      <4>2. n' - 1 = 0 /\ 0 \in 0 .. Len(msg.headers)
          BY <1>0, <3>1
      <4>3. Asked("Transport", 0) \in Seq(Seq(Says))
          BY <4>2, AskedIsSeq DEF FieldsInv
      <4>4. FlattenSeq(Asked("Transport", 0)) \in Seq(Says)
          BY <4>3, FlattenIsSeq
      <4>5. Len(FlattenSeq(Asked("Transport", 0))) \in Nat
          BY <4>4
      <4> QED BY <4>1, <4>2, <4>5
    <3>5. PlacesFew'
        BY <3>1, <3>4 DEF PlacesFew
    <3>6. used' \in Nat /\ used' <= b' * OneText
      <4>1. 0 <= 0 * OneText
          BY SizesFacts, Multiples
      <4> QED BY <3>1, <4>1
    <3> QED BY <1>m, <3>1, <3>3, <3>5, <3>6
  <2>2. CASE ~(res.version = "" /\ ~VersionEmpty(msg))
    <3>1. pc' = "aborted"
        BY <1>3, <2>2 DEF ProcessHeader
    <3> QED BY <1>g, <3>1
  <2> QED BY <2>1, <2>2
<1>4. CASE Compare \/ NextSet \/ UNCHANGED vars
  <2>1. UNCHANGED <<pc, msg, n, res, tmp, b, used, trn, todo>>
      BY <1>4 DEF Compare, NextSet, vars, parseVars, replyVars
  <2> QED BY <1>g, <1>s, <1>t, <2>1
<1>5. CASE TakeStatus \/ HandleDefault \/ HandleAccept \/ HandleTransport
  <2>1. /\ UNCHANGED <<msg, fields, tmp, b, used>> /\ pc \in {"status", "handle"}
        /\ pc' \in {"handle", "status", "transport"}
        /\ n' = n \/ (n' = n + 1 /\ pc = "handle" /\ n <= Len(fields))
        /\ \/ res' = res \/ res' = [res EXCEPT !.entity = "type"]
           \/ \E x : res' = [res EXCEPT !.status = x]
      BY <1>0, <1>5 DEF TakeStatus, HandleDefault, HandleAccept, HandleTransport, Handling, Handled,
         parseVars, replyVars
  <2>2. n' = n + 1 /\ pc = "handle" /\ n <= Len(fields) => n \in 1 .. Len(msg.headers)
      BY <1>0 DEF FieldsInv, Answering
  <2>3. res'.fields = res.fields
      BY <1>r, <2>1 DEF Response
  <2> QED BY <1>s, <2>1, <2>2, <2>3
<1>6. CASE HandleCSeq
  <2>1. /\ pc = "handle" /\ fields[n] = "CSeq" /\ n <= Len(fields) /\ AddHeader("CSeq", "req", n)
        /\ n' = n + 1 /\ pc' = Room("handle") /\ UNCHANGED <<msg, tmp, b, used>>
      BY <1>0, <1>6 DEF HandleCSeq, Handling, Handled
  <2>2. n \in 1 .. Len(msg.headers) /\ msg.headers[n].name = "CSeq"
      BY <1>0, <2>1 DEF FieldsInv, Answering
  <2>3. SUFFICES ASSUME Servable(msg), pc' = "handle"
                 PROVE  used' \in Nat /\ used' <= b' * OneText /\ TextsShort' /\ PlacesFew'
    <3>1. pc' \in {"handle", "aborted"}
        BY <2>1 DEF Room
    <3> QED BY <1>g, <1>m, <2>1, <3>1
  <2>4. used \in Nat /\ used <= b * OneText /\ TextsShort /\ PlacesFew
      BY <1>i, <2>1, <2>3 DEF Answering
  <2>5. TextsShort'
    <3>1. TextSize(Text(msg.headers[n])) \in Nat
        BY <1>0, <2>2, SizesAssumption, Zenon
    <3>2. TextSize(Text(msg.headers[n])) <= Longest
        BY <2>2, <2>3, Zenon DEF Servable
    <3>3. TextSize(Text(msg.headers[n])) \in 0 .. Longest + ServerPortsSize
      <4>1. PICK t : t = TextSize(Text(msg.headers[n]))
          OBVIOUS
      <4>2. t \in 0 .. Longest + ServerPortsSize
          BY <3>1, <3>2, <4>1, SizesFacts
      <4> QED BY <4>1, <4>2
    <3>4. \A i \in 1 .. b : tmp'[i] = tmp[i]
        BY <2>1
    <3>5. Text(msg.headers[n]) = IF "req" = "tmp" THEN tmp'[n + 1] ELSE Text(msg.headers[n])
        OBVIOUS
    <3> QED BY <1>0, <2>1, <2>4, <3>3, <3>4, <3>5, HandledNames, OneTextMore
  <2>6. SoFar("Transport")' = SoFar("Transport") /\ SoFar("Transport") \in Nat
      BY <1>n, <2>1, <2>2, SoFarStep DEF Answering
  <2>7. PlacesFew'
      BY <2>1, <2>3, <2>4, <2>6 DEF PlacesFew
  <2> QED BY <2>1, <2>4, <2>5, <2>7, Zenon
<1>7. CASE TransportWord \/ TransportProtocol \/ TransportCast \/ TransportComma
  <2>1. UNCHANGED <<msg, n, res, tmp, b, used>> /\ pc = "transport" /\ pc' \in {"transport", "aborted"}
      BY <1>7 DEF TransportWord, TransportProtocol, TransportCast, TransportComma,
         At, Scanning, ScanRest, parseVars
  <2>2. trn \in Scans
      BY <2>1 DEF ScanInv
  <2>3. trn'.ports = trn.ports
      BY <1>7, <2>2 DEF TransportWord, TransportProtocol, TransportCast, TransportComma, Scans
  <2> QED BY <1>g, <1>s, <2>1, <2>3
<1>8. CASE TransportParameter
  <2>1. Scanning /\ pc = "transport" /\ pc' = pc /\ UNCHANGED <<msg, n, res>> /\ Words[trn.c] = Semicolon
      BY <1>8, Zenon DEF TransportParameter, At, Scanning, ScanRest, parseVars, Semicolon
  <2>2. trn \in Scans
      BY <2>1 DEF ScanInv
  <2>3. trn'.ports = (trn.ports \/ trn.sign)
      BY <1>8, <2>2 DEF TransportParameter, Scans
  <2>4. CASE trn.sign
    <3>1. tmp' = Written(b, Value) /\ b' = b + 1 /\ used' = used + TextSize(Value) + 1
        BY <1>8, <2>4 DEF TransportParameter, MoveBehind
    <3>2. SUFFICES ASSUME Servable(msg)
                   PROVE  used' \in Nat /\ used' <= b' * OneText /\ TextsShort' /\ PlacesFew'
        BY <1>m, <2>1
    <3>3. used \in Nat /\ used <= b * OneText /\ TextsShort /\ PlacesFew /\ Answering
        BY <1>i, <2>1, <3>2 DEF Answering
    <3>4. trn.ports = FALSE
      <4>1. ~trn.ports
          BY <2>1, <2>4, ScanParts
      <4>2. trn.ports \in BOOLEAN
          BY <2>2, ScanTypes
      <4> QED BY <4>1, <4>2
    <3>5. b <= 2 * SoFar("Transport") /\ SoFar("Transport") \in Nat
        BY <1>n, <2>1, <3>3, <3>4 DEF PlacesFew
    <3>6. TextSize(Value) \in 0 .. Longest + ServerPortsSize
      <4>1. TextSize(Value) \in 0 .. Longest
          BY <2>1, <3>2, ValueSize
      <4> QED BY <4>1, SizesFacts
    <3>7. b + 1 <= 2 * SoFar("Transport") + 3
        BY <1>r, <3>5
    <3>8. used + TextSize(Value) + 1 \in Nat /\ used + TextSize(Value) + 1 <= (b + 1) * OneText
        BY <1>r, <3>2, <3>3, <3>6, <3>7, TextFits
    <3>9. used' \in Nat /\ used' <= b' * OneText
        BY <3>1, <3>8, Zenon
    <3>10. \A i \in 1 .. b : tmp'[i] = tmp[i]
        BY <3>1, TextWritten
    <3>11. TextsShort'
        BY <2>1, <3>3, <3>10, TextsStayShort
    <3>12. SoFar("Transport")' = SoFar("Transport")
        BY <2>1 DEF SoFar, Asked, Item
    <3>13. trn'.ports = TRUE
        BY <2>3, <2>4
    <3>14. PlacesFew'
        BY <1>r, <2>1, <3>1, <3>5, <3>12, <3>13 DEF PlacesFew
    <3> QED BY <3>9, <3>11, <3>14
  <2>5. CASE ~trn.sign
    <3>1. UNCHANGED <<tmp, b, used>>
        BY <1>8, <2>5 DEF TransportParameter
    <3>2. trn'.ports = trn.ports
      <4>1. trn.ports \in BOOLEAN
          BY <2>2, ScanTypes
      <4> QED BY <2>3, <2>5, <4>1
    <3> QED BY <1>s, <2>1, <3>1, <3>2
  <2> QED BY <2>4, <2>5
<1>9. CASE TransportKey
  <2>1. pc = "transport" /\ pc' = pc /\ UNCHANGED <<msg, n, res, b, used>> /\ tmp' = Written(b, Value)
      BY <1>9, Zenon DEF TransportKey, At, Scanning, ScanRest, parseVars
  <2>2. trn \in Scans
      BY <2>1 DEF ScanInv
  <2>3. trn'.ports = trn.ports
      BY <1>9, <2>2 DEF TransportKey, Scans
  <2>4. SUFFICES ASSUME Servable(msg)
                 PROVE  used' \in Nat /\ used' <= b' * OneText /\ TextsShort' /\ PlacesFew'
      BY <1>m, <2>1
  <2>5. used \in Nat /\ used <= b * OneText /\ TextsShort /\ PlacesFew
      BY <1>i, <2>1, <2>4 DEF Answering
  <2>6. \A i \in 1 .. b : tmp'[i] = tmp[i]
      BY <2>1, TextWritten
  <2>7. TextsShort'
      BY <2>1, <2>5, <2>6, TextsStayShort
  <2>8. SoFar("Transport")' = SoFar("Transport")
      BY <2>1 DEF SoFar, Asked, Item
  <2>9. PlacesFew'
      BY <2>1, <2>3, <2>5, <2>8 DEF PlacesFew
  <2> QED BY <2>1, <2>5, <2>7, <2>9, Zenon
<1>10. CASE TransportAnswer
  <2>1. /\ Scanned /\ pc = "transport" /\ msg' = msg /\ n' = n + 1 /\ used' = used + AnswerSize
        /\ pc' \in {"handle", "aborted"}
      BY <1>10 DEF TransportAnswer, Scanned, Room
  <2>2. SUFFICES ASSUME Servable(msg), pc' = "handle"
                 PROVE  used' \in Nat /\ used' <= b' * OneText /\ TextsShort' /\ PlacesFew'
      BY <1>g, <1>m, <2>1
  <2>3. used \in Nat /\ used <= b * OneText /\ TextsShort /\ PlacesFew /\ Answering
      BY <1>i, <2>1, <2>2 DEF Answering
  <2>4. /\ trn.sign => trn.allowed /\ ~trn.ports
        /\ trn.allowed => TextSize(OfferRepeated) \in 0 .. Longest + ServerPortsSize
        /\ AnswerSize \in Nat
        /\ ~trn.allowed => AnswerSize = 0
        /\ trn.allowed /\ ~trn.sign => AnswerSize <= OneText
        /\ trn.sign => AnswerSize <= OneText + OneText
      BY <2>1, <2>2, AnswerSizes
  <2>5. /\ \A i \in 1 .. b : tmp'[i] = tmp[i]
        /\ trn.allowed => \E place \in Nat : /\ AddHeader("Transport", "tmp", place)
                                            /\ tmp'[place + 1] = OfferRepeated
        /\ b' = (IF trn.sign THEN b + 1 ELSE b) + (IF trn.allowed THEN 1 ELSE 0)
      BY <1>10, AnswerWritten
  <2>6. TextsShort'
    <3>1. CASE trn.allowed
      <4>1. PICK place \in Nat : AddHeader("Transport", "tmp", place) /\ tmp'[place + 1] = OfferRepeated
          BY <2>5, <3>1
      <4>2. PICK text : text = OfferRepeated
          OBVIOUS
      <4>3. text = IF "tmp" = "tmp" THEN tmp'[place + 1] ELSE Text(msg.headers[place])
          BY <4>1, <4>2
      <4>4. TextSize(text) \in 0 .. Longest + ServerPortsSize
          BY <2>4, <3>1, <4>2
      <4> QED BY <2>1, <2>3, <2>5, <4>1, <4>3, <4>4, HandledNames, OneTextMore
    <3>2. CASE ~trn.allowed
      <4>1. res' = res
          BY <1>10, <3>2 DEF TransportAnswer
      <4> QED BY <2>1, <2>3, <2>5, <4>1, TextsStayShort
    <3> QED BY <3>1, <3>2
  <2>7. used' \in Nat /\ used' <= b' * OneText
    <3>1. PICK w, a, x, y, z : w = OneText /\ a = AnswerSize /\ x = b * w /\ y = (b + 1) * w /\ z = (b + 2) * w
        OBVIOUS
    <3>2. w \in Nat /\ x \in Nat /\ y = x + w /\ z = x + w + w
        BY <1>r, <3>1, SizesFacts, Multiples
    <3>3. used \in Nat /\ used <= x /\ a \in Nat /\ used' = used + a
        BY <2>1, <2>3, <2>4, <3>1
    <3>4. CASE trn.sign
      <4>1. a <= w + w /\ b' = b + 1 + 1
          BY <2>4, <2>5, <3>1, <3>4
      <4>2. used' \in Nat /\ used' <= z
          BY <3>2, <3>3, <4>1
      <4>3. b' = b + 2
          BY <1>r, <4>1
      <4> QED BY <3>1, <4>2, <4>3, Zenon
    <3>5. CASE ~trn.sign /\ trn.allowed
      <4>1. a <= w /\ b' = b + 1
          BY <2>4, <2>5, <3>1, <3>5
      <4>2. used' \in Nat /\ used' <= y
          BY <3>2, <3>3, <4>1
      <4> QED BY <3>1, <4>1, <4>2, Zenon
    <3>6. CASE ~trn.sign /\ ~trn.allowed
      <4>1. a = 0 /\ b' = b
          BY <1>r, <2>4, <2>5, <3>1, <3>6
      <4>2. used' \in Nat /\ used' <= x
          BY <3>2, <3>3, <4>1
      <4> QED BY <3>1, <4>1, <4>2, Zenon
    <3> QED BY <3>4, <3>5, <3>6
  <2>8. PlacesFew'
    <3>1. n \in 1 .. Len(msg.headers) /\ msg.headers[n].name = "Transport"
        BY <2>1, AtTransport
    <3>2. SoFar("Transport")' = SoFar("Transport") + 1 /\ SoFar("Transport") \in Nat
        BY <1>n, <2>1, <2>3, <3>1, SoFarStep
    <3>3. b' <= 2 * SoFar("Transport") + 2
      <4>1. b <= 2 * SoFar("Transport") + (IF trn.ports THEN 1 ELSE 0)
          BY <2>1, <2>3 DEF PlacesFew
      <4>2. b' = (IF trn.sign THEN b + 1 ELSE b) + (IF trn.allowed THEN 1 ELSE 0)
          BY <2>5
      <4>3. trn.sign => ~trn.ports
          BY <2>4
      <4> QED BY <1>r, <3>2, <4>1, <4>2, <4>3
    <3>4. b' <= 2 * SoFar("Transport")'
        BY <3>2, <3>3
    <3> QED BY <2>2, <3>4 DEF PlacesFew
  <2> QED BY <2>6, <2>7, <2>8
<1>11. CASE Method
  <2>1. /\ pc = "handle" /\ pc' = "add" /\ UNCHANGED <<msg, n, tmp, b, used>>
        /\ res' = [res EXCEPT !.entity =
                      IF msg.method = "DESCRIBE" /\ @ # "none" THEN "sdp" ELSE @]
      BY <1>11 DEF Method, parseVars
  <2>2. res'.fields = res.fields
      BY <1>r, <2>1 DEF Response
  <2>3. SUFFICES ASSUME Servable(msg)
                 PROVE  used' \in Nat /\ used' <= b' * OneText /\ TextsShort' /\ PlacesFew'
      BY <1>m, <2>1
  <2>4. used \in Nat /\ used <= b * OneText /\ TextsShort /\ PlacesFew /\ Answering
      BY <1>i, <2>1, <2>3 DEF Answering
  <2>5. TextsShort'
      BY <2>1, <2>2, <2>4, TextsStayShort
  <2>6. SoFar("Transport")' = SoFar("Transport") /\ SoFar("Transport") \in Nat
      BY <1>n, <2>1, <2>4 DEF SoFar, Asked, Item
  <2>7. Len(todo') \in 0 .. 3 /\ \A k \in 1 .. Len(todo') : todo'[k].text \in MethodTexts
      BY <1>11, MethodAddsThree, MethodAddsTexts
  <2>8. b' + Len(todo') <= 2 * SoFar("Transport")' + 3
    <3>1. b <= 2 * SoFar("Transport") /\ b' = b
        BY <2>1, <2>4 DEF PlacesFew
    <3> QED BY <1>r, <2>6, <2>7, <3>1
  <2>9. PlacesFew'
      BY <2>1, <2>7, <2>8 DEF PlacesFew
  <2> QED BY <2>1, <2>4, <2>5, <2>9, Zenon
<1>12. CASE NextHeader
  <2>1. UNCHANGED <<msg, n, res, tmp, b, used, todo>> /\ pc = "add" /\ pc' = "todo"
      BY <1>12 DEF NextHeader, parseVars, replyVars
  <2> QED BY <1>t, <2>1
<1>13. CASE AddNext
  <2>1. /\ pc = "todo" /\ UNCHANGED <<msg, n>> /\ pc' \in {"add", "aborted"} /\ todo' = Tail(todo)
        /\ hit # 0 /\ AddHeader(RowFound, "tmp", b) /\ tmp' = Written(b, Head(todo).text)
        /\ b' = b + 1 /\ used' = used + TextSize(Head(todo).text) + 1
      BY <1>13 DEF AddNext, parseVars, MoveBehind, Room
  <2>2. SUFFICES ASSUME Servable(msg), pc' = "add"
                 PROVE  used' \in Nat /\ used' <= b' * OneText /\ TextsShort' /\ PlacesFew'
      BY <1>g, <1>m, <2>1
  <2>3. used \in Nat /\ used <= b * OneText /\ TextsShort /\ PlacesFew /\ Answering
      BY <1>i, <2>1, <2>2 DEF Answering
  <2>4. /\ todo \in Seq(Additions) /\ Len(todo) \in Nat /\ Len(todo) >= 1 /\ Head(todo) = todo[1]
        /\ Len(todo') = Len(todo) - 1 /\ \A k \in 1 .. Len(todo') : todo'[k] = todo[k + 1]
    <3>1. todo \in Seq(Additions) /\ todo # << >>
        BY <2>1 DEF TodoInv
    <3> QED BY <2>1, <3>1
  <2>5. /\ b + Len(todo) <= 2 * SoFar("Transport") + 3 /\ SoFar("Transport") \in Nat
        /\ \A k \in 1 .. Len(todo) : todo[k].text \in MethodTexts
      BY <1>n, <2>1, <2>3 DEF PlacesFew
  <2>6. PICK text : text = Head(todo).text /\ text \in MethodTexts
      BY <2>4, <2>5
  <2>7. TextSize(text) \in 0 .. Longest + ServerPortsSize
    <3>1. TextSize(text) \in 0 .. Longest
        BY <2>6, SizesFacts
    <3> QED BY <3>1, SizesFacts
  <2>8. used' \in Nat /\ used' <= b' * OneText
    <3>1. b + 1 <= 2 * SoFar("Transport") + 3
        BY <1>r, <2>4, <2>5
    <3>2. used + TextSize(text) + 1 \in Nat /\ used + TextSize(text) + 1 <= (b + 1) * OneText
        BY <1>r, <2>2, <2>3, <2>7, <3>1, TextFits
    <3> QED BY <2>1, <2>6, <3>2, Zenon
  <2>9. tmp'[b + 1] = text /\ \A i \in 1 .. b : tmp'[i] = tmp[i]
      BY <2>1, <2>6, TextWritten
  <2>10. TextsShort'
    <3>1. RowFound \in Names
        BY <2>1, AdditionFound, SixAreNames DEF Six
    <3>2. text = IF "tmp" = "tmp" THEN tmp'[b + 1] ELSE Text(msg.headers[b])
        BY <2>9
    <3> HIDE DEF RowFound
    <3> QED BY <1>r, <2>1, <2>3, <2>7, <2>9, <3>1, <3>2, OneTextMore
  <2>11. SoFar("Transport")' = SoFar("Transport")
      BY <2>1 DEF SoFar, Asked, Item
  <2>12. b' + Len(todo') <= 2 * SoFar("Transport")' + 3
    <3>1. PICK soFar, l, x, y : soFar = SoFar("Transport") /\ l = Len(todo) /\ x = b' /\ y = Len(todo')
        OBVIOUS
    <3>2. b \in Nat /\ l \in Nat /\ soFar \in Nat /\ b + l <= 2 * soFar + 3 /\ x = b + 1 /\ y = l - 1
        BY <1>r, <2>1, <2>4, <2>5, <3>1
    <3>3. x + y <= 2 * soFar + 3
        BY ONLY <3>2
    <3> QED BY <2>11, <3>1, <3>3, Zenon
  <2>13. \A k \in 1 .. Len(todo') : todo'[k].text \in MethodTexts
    <3> SUFFICES ASSUME NEW k \in 1 .. Len(todo') PROVE todo'[k].text \in MethodTexts
        OBVIOUS
    <3>1. k + 1 \in 1 .. Len(todo) /\ todo'[k] = todo[k + 1]
        BY <2>4
    <3> QED BY <2>5, <3>1
  <2>14. PlacesFew'
      BY <2>2, <2>12, <2>13 DEF PlacesFew
  <2> QED BY <2>8, <2>10, <2>14
<1> QED BY <1>1, <1>2, <1>3, <1>4, <1>5, <1>6, <1>7, <1>8, <1>9, <1>10, <1>11, <1>12, <1>13
    DEF Next, Step, Transport, Failing

\* As many texts as there may be fit tmpbuf.
LEMMA TextsFit ==
    ASSUME FieldsInv, Servable(msg), Answering, NEW x \in Nat, x <= 2 * SoFar("Transport") + 3
    PROVE  x * OneText <= TBuf /\ x * OneText \in Nat
<1>1. Len(msg.headers) \in Nat /\ n \in 1 .. Len(msg.headers) + 1
    BY MessageFacts DEF FieldsInv
<1>2. PICK soFar, said, w : soFar = SoFar("Transport") /\ said = Len(Said(msg, "Transport")) /\ w = OneText
    OBVIOUS
<1>3. soFar \in Nat /\ said \in Nat /\ soFar <= said /\ w \in Nat
    BY <1>1, <1>2, SoFarCounts, SizesFacts
<1>4. (2 * said + 3) * w <= TBuf
    BY <1>2, Zenon DEF Servable, OneText, MostTexts
<1>5. 2 * said + 3 \in Nat /\ x <= 2 * said + 3
    BY <1>2, <1>3
<1>6. x * w <= (2 * said + 3) * w /\ x * w \in Nat /\ (2 * said + 3) * w \in Nat
    BY <1>3, <1>5, Multiples
<1>7. PICK y, z : y = x * w /\ z = (2 * said + 3) * w
    OBVIOUS
<1>8. y <= TBuf
    BY <1>4, <1>6, <1>7, SizesFacts
<1> QED BY <1>2, <1>6, <1>7, <1>8, Zenon

\* A servable request never fills tmpbuf.
LEMMA TmpFits ==
    ASSUME FieldsInv, TodoInv, ResInv, ScanInv, SizeInv, Servable(msg)
    PROVE  ~TmpOverrun
<1> SUFFICES ASSUME TmpOverrun PROVE FALSE
    OBVIOUS
<1>1. pc \in {"transport", "todo"}
    BY DEF TmpOverrun, At, Scanning, Scanned
<1>2. Answering /\ used \in Nat /\ used <= b * OneText /\ PlacesFew
    BY <1>1 DEF SizeInv, Answering
<1>3. b \in Nat
  <2>1. b \in 0 .. Len(tmp)
      BY DEF ResInv
  <2> QED BY <2>1
<1>4. SoFar("Transport") \in Nat
  <2>1. n \in 1 .. Len(msg.headers) + 1
      BY <1>2, MessageFacts DEF FieldsInv
  <2> QED BY <2>1, SoFarCounts
<1>5. CASE Scanning /\ Words[trn.c] \in {Semicolon, Equals} /\ ~Fits(Value)
  <2>1. TextSize(Value) \in 0 .. Longest + ServerPortsSize
    <3>1. TextSize(Value) \in 0 .. Longest
        BY <1>5, ValueSize
    <3> QED BY <3>1, SizesFacts
  <2>2. b <= 2 * SoFar("Transport") + (IF trn.ports THEN 1 ELSE 0)
      BY <1>2, <1>5 DEF PlacesFew, Scanning
  <2>3. b + 1 <= 2 * SoFar("Transport") + 3
      BY <1>3, <1>4, <2>2
  <2> QED BY <1>2, <1>3, <1>5, <2>1, <2>3, TextFits
<1>6. CASE Scanned /\ used + AnswerSize > TBuf
  <2>1. /\ trn.sign => trn.allowed /\ ~trn.ports
        /\ AnswerSize \in Nat
        /\ ~trn.allowed => AnswerSize = 0
        /\ trn.allowed /\ ~trn.sign => AnswerSize <= OneText
        /\ trn.sign => AnswerSize <= OneText + OneText
      BY <1>6, AnswerSizes
  <2>2. b <= 2 * SoFar("Transport") + (IF trn.ports THEN 1 ELSE 0)
      BY <1>2, <1>6 DEF PlacesFew, Scanned
  <2>3. b <= 2 * SoFar("Transport") + 1 /\ (trn.sign => b <= 2 * SoFar("Transport"))
      BY <1>3, <1>4, <2>1, <2>2
  <2>4. PICK w, a, x, y, z : w = OneText /\ a = AnswerSize /\ x = b * w /\ y = (b + 1) * w /\ z = (b + 2) * w
      OBVIOUS
  <2>5. w \in Nat /\ x \in Nat /\ y = x + w /\ z = x + w + w
      BY <1>3, <2>4, SizesFacts, Multiples
  <2>6. used \in Nat /\ used <= x /\ a \in Nat /\ used + a > TBuf /\ TBuf \in Nat
      BY <1>2, <1>6, <2>1, <2>4, SizesFacts
  <2>7. b + 1 \in Nat /\ b + 2 \in Nat /\ b + 1 <= 2 * SoFar("Transport") + 3
        /\ b + 2 <= 2 * SoFar("Transport") + 3
      BY <1>3, <1>4, <2>3
  <2>8. y <= TBuf /\ z <= TBuf
      BY <1>2, <2>4, <2>7, TextsFit
  <2>9. a <= w + w
      BY <2>1, <2>4, <2>5
  <2> QED BY <2>5, <2>6, <2>8, <2>9
<1>7. CASE pc = "todo" /\ hit # 0 /\ ~Fits(Head(todo).text)
  <2>1. /\ Len(todo) \in Nat /\ Len(todo) >= 1 /\ Head(todo) = todo[1]
    <3>1. todo \in Seq(Additions) /\ todo # << >>
        BY <1>7 DEF TodoInv
    <3> QED BY <3>1
  <2>2. /\ b + Len(todo) <= 2 * SoFar("Transport") + 3
        /\ \A k \in 1 .. Len(todo) : todo[k].text \in MethodTexts
      BY <1>2, <1>7 DEF PlacesFew
  <2>3. PICK text : text = Head(todo).text /\ text \in MethodTexts
      BY <2>1, <2>2
  <2>4. TextSize(text) \in 0 .. Longest + ServerPortsSize
    <3>1. TextSize(text) \in 0 .. Longest
        BY <2>3, SizesFacts
    <3> QED BY <3>1, SizesFacts
  <2>5. b + 1 <= 2 * SoFar("Transport") + 3
      BY <1>3, <1>4, <2>1, <2>2
  <2>6. Fits(text)
      BY <1>2, <1>3, <2>4, <2>5, TextFits
  <2> QED BY <1>7, <2>3, <2>6
<1> QED BY <1>5, <1>6, <1>7, Zenon DEF TmpOverrun, At, Semicolon, Equals

\* What is written into resbuf is no more than so many lines.
LEMMA ResponseBound ==
    ASSUME ResInv, TextsShort
    PROVE  ResponseSize \in Nat /\ ResponseSize <= 54 + Len(res.fields) * OneLine
<1> DEFINE Is(upTo, base, m) ==
        upTo = [k \in 0 .. m |-> IF k = 0 THEN base ELSE upTo[k - 1] + LineSize(res.fields[k])]
<1>1. PICK m, base : m = Len(res.fields) /\ base = StatusSize + 2 + EntitySize + 1
    OBVIOUS
<1>2. m \in Nat
    BY <1>1, AnswersAreFields
<1>3. base \in 0 .. 54
  <2>1. StatusSize \in {17, 29}
      BY DEF StatusSize
  <2>2. EntitySize \in {0, 15, 22}
    <3>1. res.entity \in {"none", "type", "sdp"}
        BY DEF ResInv, Response
    <3> QED BY <3>1 DEF EntitySize
  <2> QED BY <1>1, <2>1, <2>2
<1>4. \A k \in 1 .. m : LineSize(res.fields[k]) \in 0 .. OneLine
  <2> SUFFICES ASSUME NEW k \in 1 .. m PROVE LineSize(res.fields[k]) \in 0 .. OneLine
      OBVIOUS
  <2>1. res.fields[k].name \in Names
    <3>1. res.fields \in Seq(Field)
        BY DEF ResInv, Response
    <3> QED BY <1>1, <3>1, FieldFacts
  <2>2. PICK x, y : x = TextSize(<<res.fields[k].name>>) /\ y = TextSize(Pointed(res.fields[k]))
      OBVIOUS
  <2>3. x \in 0 .. Longest
      BY <2>1, <2>2, SizesFacts
  <2>4. y \in 0 .. Longest + ServerPortsSize
      BY <1>1, <2>2, Zenon DEF TextsShort
  <2>5. LineSize(res.fields[k]) = x + y + 4
      BY <2>2, Zenon DEF LineSize
  <2>6. x + y + 4 \in 0 .. OneLine
      BY <2>3, <2>4, SizesFacts DEF OneLine
  <2> QED BY <2>5, <2>6
<1>5. PICK line : line = [k \in 1 .. m |-> LineSize(res.fields[k])]
    OBVIOUS
<1>6. \A k \in 1 .. m : line[k] = LineSize(res.fields[k]) /\ line[k] \in Nat /\ line[k] <= OneLine
  <2> SUFFICES ASSUME NEW k \in 1 .. m
               PROVE  line[k] = LineSize(res.fields[k]) /\ line[k] \in Nat /\ line[k] <= OneLine
      OBVIOUS
  <2>1. line[k] = LineSize(res.fields[k])
      BY <1>5
  <2>2. LineSize(res.fields[k]) \in 0 .. OneLine
      BY <1>4
  <2> QED BY <2>1, <2>2
<1>7. \E f : Is(f, base, m)
  <2> DEFINE step == [k \in 1 .. m |-> [a \in Nat |-> a + line[k]]]
  <2>1. step \in [1 .. m -> [Nat -> Nat]] /\ base \in Nat
      BY <1>3, <1>6
  <2>2. PICK f : Iterates(f, m, Nat, base, step)
    <3> HIDE DEF step
    <3> QED BY <1>2, <2>1, PrefixRecursion, Zenon
  <2>3. f \in [0 .. m -> Nat] /\ f[0] = base
      BY <2>2 DEF Iterates
  <2>4. ASSUME NEW k \in 1 .. m PROVE f[k] = f[k - 1] + LineSize(res.fields[k])
    <3>1. k - 1 \in 0 .. m
        BY <1>2
    <3>2. f[k] = step[k][f[k - 1]] /\ f[k - 1] \in Nat
        BY <2>2, <2>3, <3>1 DEF Iterates
    <3>3. f[k] = f[k - 1] + line[k]
        BY <3>2
    <3> QED BY <1>6, <3>3
  <2>5. f = [k \in 0 .. m |-> IF k = 0 THEN base ELSE f[k - 1] + LineSize(res.fields[k])]
    <3>1. \A k \in 0 .. m : k = 0 \/ k \in 1 .. m
        BY <1>2
    <3> QED BY <2>3, <2>4, <3>1
  <2> QED BY <2>5
<1>8. ResponseSize = (CHOOSE f : Is(f, base, m))[m]
    BY <1>1 DEF ResponseSize
<1>9. PICK upTo : upTo = CHOOSE f : Is(f, base, m)
    OBVIOUS
<1>10. Is(upTo, base, m)
  <2> HIDE DEF Is
  <2> QED BY <1>7, <1>9
<1>11. /\ upTo[0] = base
       /\ \A k \in 0 .. m : k + 1 \in 1 .. m => upTo[k + 1] = upTo[k] + line[k + 1]
  <2>1. upTo[0] = base
      BY <1>2, <1>10
  <2>2. ASSUME NEW k \in 0 .. m, k + 1 \in 1 .. m PROVE upTo[k + 1] = upTo[k] + line[k + 1]
    <3>1. k + 1 \in 0 .. m /\ k + 1 # 0 /\ (k + 1) - 1 = k
        BY <2>2
    <3>2. upTo[k + 1] = upTo[(k + 1) - 1] + LineSize(res.fields[k + 1])
        BY <1>10, <3>1
    <3> QED BY <1>6, <2>2, <3>1, <3>2
  <2> QED BY <2>1, <2>2
<1>12. upTo[m] \in Nat /\ upTo[m] <= base + m * OneLine
  <2> DEFINE I == {k \in Nat : k <= m => upTo[k] \in Nat /\ upTo[k] <= base + k * OneLine}
  <2>1. 0 \in I
    <3>1. 0 * OneLine = 0
        BY SizesFacts
    <3> QED BY <1>3, <1>11, <3>1
  <2>2. ASSUME NEW k \in I PROVE k + 1 \in I
    <3>1. k \in Nat /\ k + 1 \in Nat
        OBVIOUS
    <3>2. ASSUME k + 1 <= m PROVE upTo[k + 1] \in Nat /\ upTo[k + 1] <= base + (k + 1) * OneLine
      <4>1. k \in 0 .. m /\ k + 1 \in 1 .. m
          BY <1>2, <3>1, <3>2
      <4>2. upTo[k] \in Nat /\ upTo[k] <= base + k * OneLine
          BY <4>1
      <4>3. upTo[k + 1] = upTo[k] + line[k + 1] /\ line[k + 1] \in Nat /\ line[k + 1] <= OneLine
          BY <1>6, <1>11, <4>1
      <4>4. PICK w, x, y, u, v, l : /\ w = OneLine /\ x = k * w /\ y = (k + 1) * w
                                    /\ u = upTo[k] /\ v = upTo[k + 1] /\ l = line[k + 1]
          OBVIOUS
      <4>5. w \in Nat /\ x \in Nat /\ y = x + w
          BY <3>1, <4>4, SizesFacts, Multiples
      <4>6. u \in Nat /\ u <= base + x /\ v = u + l /\ l \in Nat /\ l <= w
          BY <4>2, <4>3, <4>4
      <4>7. v \in Nat /\ v <= base + y
          BY <1>3, <4>5, <4>6
      <4> QED BY <4>4, <4>7
    <3> QED BY <3>1, <3>2
  <2>3. I = Nat
    <3>1. I \in SUBSET Nat
        OBVIOUS
    <3> HIDE DEF I
    <3> QED BY <2>1, <2>2, <3>1, SetInduction
  <2> QED BY <1>2, <2>3
<1>13. PICK x, z : x = m * OneLine /\ z = upTo[m]
    OBVIOUS
<1>14. x \in Nat
    BY <1>2, <1>13, SizesFacts, Multiples
<1>15. z \in Nat /\ z <= 54 + x
    BY <1>3, <1>12, <1>13, <1>14
<1> QED BY <1>1, <1>8, <1>9, <1>13, <1>15, Zenon

\* Nor does its answer fill resbuf.
LEMMA ResponseFits ==
    ASSUME FieldsInv, ResInv, BufferInv, SizeInv, Servable(msg)
    PROVE  ~ResponseOverrun
<1> SUFFICES ASSUME pc = "add", todo = <<>> PROVE ResponseSize <= RBuf
  <2>1. ResponseOverrun => pc = "add" /\ todo = <<>> /\ ResponseSize > RBuf
      BY DEF ResponseOverrun
  <2>2. ASSUME ResponseOverrun, ResponseSize <= RBuf PROVE FALSE
    <3>1. TextsShort
        BY <2>1, <2>2 DEF SizeInv, Answering
    <3>2. ResponseSize \in Nat
        BY <3>1, ResponseBound
    <3> QED BY <2>1, <2>2, <3>2, SizesFacts
  <2> QED BY <2>1, <2>2
<1>1. Answering /\ TextsShort
    BY DEF SizeInv, Answering
<1>2. n \in 1 .. Len(msg.headers) + 1
    BY <1>1, MessageFacts DEF FieldsInv
<1>3. PICK c, t, mc, mt, has :
        /\ c = SoFar("CSeq") /\ t = SoFar("Transport") /\ has = Len(res.fields)
        /\ mc = Len(Said(msg, "CSeq")) /\ mt = Len(Said(msg, "Transport"))
    OBVIOUS
<1>4. c \in Nat /\ mc \in Nat /\ c <= mc /\ t \in Nat /\ mt \in Nat /\ t <= mt
    BY <1>2, <1>3, SoFarCounts
<1>5. has \in Nat /\ has + Len(todo) <= c + t + 3 /\ Len(todo) = 0
  <2>1. has \in Nat
      BY <1>3, AnswersAreFields
  <2>2. has + Len(todo) <= c + t + 3
      BY <1>3 DEF BufferInv
  <2> QED BY <2>1, <2>2
<1>6. mc + mt + 3 \in Nat /\ has <= mc + mt + 3
    BY <1>4, <1>5
<1>7. 54 + (mc + mt + 3) * OneLine <= RBuf
    BY <1>3, Zenon DEF Servable, MostAnswers, OneLine
<1>8. PICK w, x, y : w = OneLine /\ x = has * w /\ y = (mc + mt + 3) * w
    OBVIOUS
<1>9. x \in Nat /\ y \in Nat /\ x <= y
    BY <1>5, <1>6, <1>8, SizesFacts, Multiples
<1>10. ResponseSize \in Nat /\ ResponseSize <= 54 + x
    BY <1>1, <1>3, <1>8, ResponseBound
<1> QED BY <1>7, <1>8, <1>9, <1>10, SizesFacts

(***************************************************************************)
(* Which requests are served                                               *)
(***************************************************************************)
\* What a servable message promises of its headers.
LEMMA ServableFacts ==
    ASSUME Servable(msg)
    PROVE  /\ Whole(msg) /\ ~NumOverwritten(msg)
           /\ msg.lines = Len(msg.headers) + 2
           /\ Len(msg.headers) <= HBuf
           /\ Len(Said(msg, "CSeq")) + Len(Said(msg, "Transport")) + 3 <= HBuf
           /\ \A k \in 1 .. Len(msg.headers) :
                /\ ~Missing(msg.headers[k].name)
                /\ msg.headers[k].name = "Transport" =>
                     \A i \in 1 .. Len(msg.headers[k].says) : Understood(msg.headers[k].says[i])
BY Zenon DEF Servable, Whole, MostAnswers, Missing

\* There is room for what the headers and the method have still to say.
LEMMA RoomWhenServable ==
    ASSUME FieldsInv, TodoInv, ResInv, BufferInv, Servable(msg)
    PROVE  /\ \A name \in {"CSeq", "Transport"} :
                pc \in {"handle", "transport"} /\ n \in 1 .. Len(msg.headers)
                    /\ msg.headers[n].name = name => Len(res.fields) # HBuf
           /\ pc = "todo" => Len(res.fields) # HBuf
<1> DEFINE c == SoFar("CSeq")
           t == SoFar("Transport")
           mc == Len(Said(msg, "CSeq"))
           mt == Len(Said(msg, "Transport"))
           has == Len(res.fields)
<1>0. /\ Len(msg.headers) \in Nat /\ n \in Nat /\ HBuf \in Nat
    BY MessageFacts, RequestsAssumption DEF FieldsInv
<1>1. has \in Nat
    BY AnswersAreFields, Zenon
<1>2. mc + mt + 3 <= HBuf
    BY ServableFacts
<1>3. ASSUME pc \in {"handle", "transport"}, n \in 1 .. Len(msg.headers), NEW name \in {"CSeq", "Transport"},
             msg.headers[n].name = name
      PROVE  has # HBuf
  <2>1. n \in 1 .. Len(msg.headers) + 1
      BY <1>0, <1>3
  <2>2. c \in Nat /\ mc \in Nat /\ c <= mc /\ t \in Nat /\ mt \in Nat /\ t <= mt
      BY <2>1, SoFarCounts
  <2>3. has <= c + t
      BY <1>3 DEF BufferInv
  <2> HIDE DEF c, t, mc, mt, has
  <2> QED BY <1>0, <1>1, <1>2, <2>2, <2>3
<1>4. ASSUME pc = "todo" PROVE has # HBuf
  <2>1. n \in 1 .. Len(msg.headers) + 1
      BY <1>0, <1>4 DEF FieldsInv, Answering
  <2>2. c \in Nat /\ mc \in Nat /\ c <= mc /\ t \in Nat /\ mt \in Nat /\ t <= mt
      BY <2>1, SoFarCounts
  <2>3. has + Len(todo) <= c + t + 3
      BY <1>4 DEF BufferInv
  <2>4. Len(todo) \in Nat /\ Len(todo) >= 1
    <3>1. todo \in Seq(Additions) /\ todo # << >>
        BY <1>4 DEF TodoInv
    <3> QED BY <3>1
  <2> HIDE DEF c, t, mc, mt, has
  <2> QED BY <1>0, <1>1, <1>2, <2>2, <2>3, <2>4
<1> QED BY <1>3, <1>4, Zenon DEF has

\* No servable request ends the program.
LEMMA EndStep ==
    ASSUME FieldsInv, TodoInv, SearchInv, ResInv, FoundInv, BufferInv, ScanInv, SizeInv, EndInv,
           [Next]_vars
    PROVE  EndInv'
<1>0. /\ Len(msg.headers) \in Nat /\ Len(fields) \in Nat /\ n \in Nat /\ HBuf \in Nat /\ msg \in Requests
    BY MessageFacts, RequestsAssumption DEF FieldsInv
<1>g. ASSUME pc' \notin Ends PROVE EndInv'
    BY <1>g DEF EndInv
<1>b. ASSUME msg' = msg, ~Servable(msg) PROVE EndInv'
    BY <1>b, Zenon DEF EndInv
<1>1. CASE Receive \/ ParseLine \/ ParseLineShort \/ ParseHeader \/ Parsed \/ TakeStatus \/ HandleDefault \/ HandleAccept
           \/ HandleTransport \/ Method \/ NextHeader \/ Respond
  <2>1. pc' \in {"line", "headers", "field", "process", "handle", "status", "transport", "add", "todo", "idle"}
      BY <1>1 DEF Receive, ParseLine, ParseLineShort, ParseHeader, Parsed, TakeStatus, HandleDefault, HandleAccept,
           HandleTransport, Method, NextHeader, Respond, Handling
  <2> QED BY <1>g, <2>1 DEF Ends
<1>2. CASE ParseLineCut
  <2>1. msg' = msg /\ msg.lines = 0
      BY <1>2 DEF ParseLineCut, parseVars
  <2>2. Servable(msg) => msg.lines = Len(msg.headers) + 2
      BY ServableFacts
  <2> QED BY <1>0, <1>b, <2>1, <2>2
<1>3. CASE ParseHeaderCut
  <2>1. msg' = msg /\ pc = "headers" /\ n + 1 > msg.lines
      BY <1>3 DEF ParseHeaderCut, parseVars
  <2>2. Servable(msg) => msg.lines = Len(msg.headers) + 2
      BY ServableFacts
  <2>3. n = Len(fields) + 1 /\ Len(fields) <= Len(msg.headers)
      BY <2>1 DEF FieldsInv, Parsing
  <2> QED BY <1>0, <1>b, <2>1, <2>2, <2>3
<1>4. CASE Compare \/ NextSet \/ UNCHANGED vars
  <2>1. UNCHANGED <<pc, msg>>
      BY <1>4 DEF Compare, NextSet, vars, parseVars
  <2> QED BY <2>1, Zenon DEF EndInv
<1>5. CASE TakeField
  <2>1. /\ msg' = msg /\ pc = "field"
        /\ pc' = IF Len(fields) = HBuf THEN "wild" ELSE "headers"
      BY <1>5 DEF TakeField, FieldSearched
  <2>2. CASE Len(fields) = HBuf
    <3>1. Servable(msg) => Len(msg.headers) <= HBuf
        BY ServableFacts
    <3>2. n = Len(fields) + 1 /\ n <= Len(msg.headers)
        BY <2>1 DEF FieldsInv, Parsing
    <3> QED BY <1>0, <1>b, <2>1, <2>2, <3>1, <3>2
  <2>3. CASE Len(fields) # HBuf
      BY <1>g, <2>1, <2>3 DEF Ends
  <2> QED BY <2>2, <2>3
<1>6. CASE ProcessHeader
  <2>1. pc = "process" /\ res.version = "" /\ msg' = msg
      BY <1>6 DEF ProcessHeader, ResInv
  <2>2. CASE ~VersionEmpty(msg)
    <3>1. pc' = "status"
        BY <1>6, <2>1, <2>2 DEF ProcessHeader
    <3> QED BY <1>g, <3>1 DEF Ends
  <2>3. CASE VersionEmpty(msg)
    <3>1. ~Servable(msg)
        BY <1>0, <2>3, ServableFacts, WholeHasVersion
    <3> QED BY <1>b, <2>1, <3>1
  <2> QED BY <2>2, <2>3
<1>7. CASE HandleUnknown
  <2>1. msg' = msg /\ pc = "handle" /\ n <= Len(fields) /\ fields[n] = "NULL"
      BY <1>0, <1>7 DEF HandleUnknown, Handling, Handled, parseVars
  <2>2. n \in 1 .. Len(fields) /\ Len(fields) = Len(msg.headers)
      BY <1>0, <2>1 DEF FieldsInv, Answering
  <2>3. Missing(msg.headers[n].name)
      BY <2>1, <2>2 DEF FoundInv
  <2>4. ~Servable(msg)
      BY <2>2, <2>3, ServableFacts
  <2> QED BY <1>b, <2>1, <2>4
<1>8. CASE HandleCSeq
  <2>1. /\ pc = "handle" /\ fields[n] = "CSeq" /\ n <= Len(fields) /\ pc' = Room("handle") /\ msg' = msg
      BY <1>0, <1>8 DEF HandleCSeq, Handling, Handled
  <2>2. n \in 1 .. Len(msg.headers) /\ msg.headers[n].name = "CSeq"
      BY <1>0, <2>1 DEF FieldsInv, Answering
  <2>3. Servable(msg) => Len(res.fields) # HBuf
      BY <2>1, <2>2, RoomWhenServable
  <2> QED BY <1>g, <1>b, <2>1, <2>3 DEF Room, Ends
<1>9. CASE TransportWord \/ TransportParameter \/ TransportKey \/ TransportComma
  <2>1. pc' = "transport"
      BY <1>9 DEF TransportWord, TransportParameter, TransportKey, TransportComma, At, Scanning
  <2> QED BY <1>g, <2>1 DEF Ends
<1>10. CASE TransportProtocol \/ TransportCast
  <2>1. pc = "transport" /\ msg' = msg /\ Scanning
      BY <1>10 DEF TransportProtocol, TransportCast, At, Scanning, ScanRest, parseVars
  <2>2. PICK k \in 1 .. Len(Offers0) : pc' = pc \/ ~Understood(Offers0[k])
    <3>1. \A offer : offer.proto \notin {"RTP/AVP", "RTP/AVP/UDP", "RTP/AVP/TCP"} => ~Understood(offer)
        BY Zenon DEF Understood
    <3>2. \A offer : offer.cast \notin {"unicast", "multicast"} => ~Understood(offer)
        BY Zenon DEF Understood
    <3> QED BY <1>10, <3>1, <3>2, ProtocolRead, CastRead
  <2>3. CASE pc' = pc
      BY <1>g, <2>1, <2>3 DEF Ends
  <2>4. CASE ~Understood(Offers0[k])
    <3>1. n \in 1 .. Len(msg.headers) /\ msg.headers[n].name = "Transport" /\ Offers0 = msg.headers[n].says
        BY <2>1, AtTransport DEF Offers0
    <3>2. ~Servable(msg)
        BY <2>4, <3>1, ServableFacts
    <3> QED BY <1>b, <2>1, <3>2
  <2> QED BY <2>2, <2>3, <2>4
<1>11. CASE TransportAnswer
  <2>1. pc = "transport" /\ msg' = msg /\ pc' \in {"handle", Room("handle")}
      BY <1>11 DEF TransportAnswer, Scanned
  <2>2. n \in 1 .. Len(msg.headers) /\ msg.headers[n].name = "Transport"
      BY <2>1, AtTransport
  <2>3. Servable(msg) => Len(res.fields) # HBuf
      BY <2>1, <2>2, RoomWhenServable
  <2> QED BY <1>g, <1>b, <2>1, <2>3 DEF Room, Ends
<1>12. CASE AddNext
  <2>1. pc = "todo" /\ msg' = msg /\ pc' = Room("add")
      BY <1>12 DEF AddNext, parseVars
  <2>2. Servable(msg) => Len(res.fields) # HBuf
      BY <2>1, RoomWhenServable
  <2> QED BY <1>g, <1>b, <2>1, <2>2 DEF Room, Ends
<1>13. CASE Failing
  <2>1. msg' = msg
      BY <1>13, FailingStops DEF parseVars
  <2>2. ASSUME Servable(msg) PROVE FALSE
    <3>1. ~TmpOverrun /\ ~ResponseOverrun
        BY <2>2, TmpFits, ResponseFits
    <3>2. ~NumOverwritten(msg)
        BY <2>2, ServableFacts
    <3> QED BY <1>13, <3>1, <3>2 DEF Failing, TakeFieldAstray, HandleAstray
  <2> QED BY <1>b, <2>1, <2>2
<1> QED BY <1>1, <1>2, <1>3, <1>4, <1>5, <1>6, <1>7, <1>8, <1>9, <1>10, <1>11, <1>12, <1>13
    DEF Next, Step, Transport, Failing

\* What keeps a servable request from the ends of the program.
ServedInv == FoundInv /\ BufferInv /\ ScanInv /\ SizeInv /\ EndInv

\* These hold before the first request.
LEMMA ServedInvInit == Init => ServedInv
<1> SUFFICES ASSUME Init PROVE ServedInv
    OBVIOUS
<1>1. pc = "idle" /\ fields = << >> /\ table = << >> /\ res = NoResponse
    BY DEF Init, LookupInit
<1>2. NotPassed
  <2>1. Len(table) = 0
      BY <1>1
  <2>2. Len(Places(extension_headers)) = 15
    <3>1. 5 \in Sets /\ h_set[5].headers = extension_headers
        BY SetsFacts DEF h_set
    <3> QED BY <3>1, SetSizes, ExtensionRows
  <2>3. 0 # 15
      OBVIOUS
  <2>4. table # Places(extension_headers)
      BY <2>1, <2>2, <2>3, Zenon
  <2> QED BY <2>1, <2>4 DEF NotPassed
<1>3. Len(fields) = 0
    BY <1>1
<1>4. Len(res.fields) = 0
  <2>1. res.fields = << >>
      BY <1>1, EmptyResponse
  <2> QED BY <2>1
<1>5. HBuf \in Nat
    BY RequestsAssumption
<1>6. FoundInv
    BY <1>1, <1>2, <1>3 DEF FoundInv
<1>7. BufferInv
    BY <1>1, <1>3, <1>4, <1>5 DEF BufferInv
<1>8. ScanInv /\ SizeInv /\ EndInv
    BY <1>1 DEF ScanInv, SizeInv, Answering, EndInv, Ends
<1> QED BY <1>6, <1>7, <1>8 DEF ServedInv

\* Each step keeps its part of the invariant.
LEMMA ServedInvNext == ServerInv /\ ServedInv /\ [Next]_vars => ServedInv'
BY FoundStep, BufferStep, ScanStep, SizeStep, EndStep DEF ServerInv, ServedInv

\* A whole request whose headers the tables hold, whose transports are understood and
\* whose answers fit is answered: no assertion fails, no null pointer is followed and
\* no buffer is written past its end, for every set of requests and every size of the
\* buffers (server.c 26-61, header.c).
THEOREM ServableRequestsAreServed == Spec => []RequestsServed
<1>1. ServedInv => RequestsServed
    BY DEF ServedInv, EndInv, BufferInv, RequestsServed
<1>2. Spec => []ServedInv
    BY ServedInvInit, ServedInvNext, ServerInvariant, PTL DEF Spec
<1> QED BY <1>1, <1>2, PTL

(***************************************************************************)
(* Which offer is confirmed                                                *)
(***************************************************************************)
\* How an offer is confirmed, and which one is.
Confirmation(offer) == OfferText(offer) \o
    (IF offer.param \in {"ports", "both"} THEN <<";", "server_port">> ELSE <<>>)
Taken(offers, k) ==
    /\ \A j \in 1 .. k - 1 : Passed(offers[j])
    /\ offers[k].cast = "unicast" \/ offers[k].param = "none"
\* Header j of the message is the only one of its name.
Only(name, j) == j \in 1 .. Len(msg.headers) /\ \A k \in 1 .. Len(msg.headers) : (msg.headers[k].name = name) = (k = j)
NoTransport == \A k \in 1 .. Len(res.fields) : res.fields[k].name # "Transport"

\* Header i of the answer confirms the k-th of the offers, and no other header does.
Confirming(offers, k, i) ==
    /\ Taken(offers, k)
    /\ res.fields[i].name = "Transport" /\ res.fields[i].in = "tmp"
    /\ tmp[res.fields[i].at + 1] = Confirmation(offers[k])
    /\ \A m \in 1 .. Len(res.fields) : m # i => res.fields[m].name # "Transport"

\* All offers were passed over, or one is confirmed.
Confirmed(offers) ==
    \/ NoTransport /\ \A k \in 1 .. Len(offers) : Passed(offers[k])
    \/ \E k \in 1 .. Len(offers), i \in 1 .. Len(res.fields) : Confirming(offers, k, i)

\* If one header has offers, it is answered when it has been handled and not before.
ConfirmInv == Answering => \A j \in 1 .. Len(msg.headers) : Only("Transport", j) =>
    /\ n <= j => NoTransport
    /\ n > j /\ Len(msg.headers[j].says) > 0 => Confirmed(msg.headers[j].says)

\* The texts of the buffer behind the answer to a transport.
LEMMA AnswerText ==
    ASSUME ResInv, TransportAnswer, trn.allowed, NEW last,
           last = IF trn.end # 0 THEN trn.end - 1 ELSE Len(Words)
    PROVE  \E place \in Nat :
             /\ AddHeader("Transport", "tmp", place)
             /\ tmp'[place + 1] = SubSeq(Words, trn.trans, last) \o
                    (IF trn.ports \/ trn.sign THEN <<";", "server_port">> ELSE <<>>)
<1>1. \E place \in Nat : AddHeader("Transport", "tmp", place) /\ tmp'[place + 1] = OfferRepeated
    BY AnswerWritten
<1>2. OfferRepeated = SubSeq(Words, trn.trans, last) \o
                    (IF trn.ports \/ trn.sign THEN <<";", "server_port">> ELSE <<>>)
    BY Zenon DEF OfferRepeated, OfferEnd, ServerPorts
<1> QED BY <1>1, <1>2, Zenon

\* How long an offer is says what its parameters are.
LEMMA OfferLengths ==
    ASSUME NEW offer, offer.param \in Params
    PROVE  LET l == Len(OfferText(offer)) IN
           /\ l \in {3, 7, 11}
           /\ l = 3 => offer.param = "none"
           /\ l = 7 => offer.param \in {"ports", "mode"}
           /\ l = 11 => offer.param = "both"
<1> DEFINE l == Len(OfferText(offer))
<1>1. /\ offer.param = "none" => l = 3
      /\ offer.param \in {"ports", "mode"} => l = 7
      /\ offer.param = "both" => l = 11
    BY OfferWords DEF Params
<1> HIDE DEF l
<1>2. /\ l \in {3, 7, 11}
      /\ l = 3 => offer.param = "none"
      /\ l = 7 => offer.param \in {"ports", "mode"}
      /\ l = 11 => offer.param = "both"
    BY <1>1 DEF Params
<1> QED BY <1>2 DEF l

\* What is answered to a transport: the offer that is taken, if any is.
LEMMA OfferAnswered ==
    ASSUME FieldsInv, ResInv, ScanInv, TransportAnswer, Len(Offers0) > 0
    PROVE  \/ UNCHANGED res /\ \A k \in 1 .. Len(Offers0) : Passed(Offers0[k])
           \/ \E k \in 1 .. Len(Offers0), place \in Nat :
                /\ Taken(Offers0, k)
                /\ AddHeader("Transport", "tmp", place)
                /\ tmp'[place + 1] = Confirmation(Offers0[k])
<1>1. /\ pc = "transport" /\ (trn.c > Len(Words) \/ trn.end # 0)
      /\ ~trn.allowed => UNCHANGED res
    BY DEF TransportAnswer, Scanned
<1>2. /\ msg \in Requests /\ n \in 1 .. Len(msg.headers) /\ msg.headers[n].name = "Transport"
      /\ Offers0 = msg.headers[n].says /\ Words = Text(msg.headers[n])
    BY <1>1, AtTransport DEF Words, Offers0
<1>3. /\ trn \in Scans
      /\ \E k \in 1 .. Len(Offers0) :
            /\ \A j \in 1 .. k - 1 : Passed(Offers0[j])
            /\ \/ \E p \in 0 .. Len(OfferText(Offers0[k])) : InOffer(Offers0[k], Begin(k), p)
               \/ Over(Offers0[k], Begin(k))
    BY <1>1 DEF ScanInv
<1>4. PICK k \in 1 .. Len(Offers0) :
            /\ \A j \in 1 .. k - 1 : Passed(Offers0[j])
            /\ \/ \E p \in 0 .. Len(OfferText(Offers0[k])) : InOffer(Offers0[k], Begin(k), p)
               \/ Over(Offers0[k], Begin(k))
    BY <1>3
<1>5. PICK offer, at, l, w : offer = Offers0[k] /\ at = Begin(k) /\ l = Len(OfferText(offer)) /\ w = Words
    OBVIOUS
<1>6. /\ offer.param \in Params /\ l \in {3, 7, 11} /\ Len(Offers0) \in Nat
    BY <1>2, <1>5, OffersFacts
<1>7. /\ \E S : w \in Seq(S)
      /\ Len(w) \in Nat /\ at \in Nat /\ at >= 1 /\ at + l - 1 <= Len(w)
      /\ \A i \in 1 .. l : w[at + i - 1] = OfferText(offer)[i]
      /\ k = Len(Offers0) => Len(w) = at + l - 1
      /\ k < Len(Offers0) => at + l + 2 <= Len(w) + 1
    BY <1>2, <1>5, OffersPlaces DEF Begin
<1>8. CASE Over(offer, at)
  <2>1. trn.end = 0 /\ ~trn.allowed /\ trn.c = at + l /\ Passed(offer)
      BY <1>5, <1>8 DEF Over
  <2>2. ~(k < Len(Offers0))
    <3>1. at + l > Len(w)
        BY <1>1, <1>5, <2>1
    <3>2. \A a, m \in Nat, x \in {3, 7, 11} : a + x > m => ~(a + x + 2 <= m + 1)
        OBVIOUS
    <3> QED BY <1>6, <1>7, <3>1, <3>2
  <2>3. k = Len(Offers0)
      BY <1>6, <2>2
  <2>4. \A j \in 1 .. Len(Offers0) : j \in 1 .. k - 1 \/ j = k
      BY <1>6, <2>3
  <2> QED BY <1>1, <1>4, <1>5, <2>1, <2>4
<1>9. ASSUME NEW p \in 0 .. l, InOffer(offer, at, p)
      PROVE  \E place \in Nat :
                /\ Taken(Offers0, k)
                /\ AddHeader("Transport", "tmp", place)
                /\ tmp'[place + 1] = Confirmation(Offers0[k])
  <2> DEFINE last == IF trn.end # 0 THEN trn.end - 1 ELSE Len(Words)
  <2>1. /\ trn.allowed /\ trn.trans = at /\ trn.c = at + p
        /\ trn.sign = (p \in {6, 7} /\ offer.param \in {"ports", "both"}) /\ trn.ports = (p >= 8)
        /\ p >= 4 => offer.cast = "unicast"
        /\ trn.end # 0 => trn.end = trn.c /\ p = l
      BY <1>5, <1>9 DEF InOffer
  <2>2. p = l /\ last = at + l - 1
    <3>1. CASE trn.end # 0
      <4>1. p = l /\ last = trn.c - 1 /\ trn.c = at + p
          BY <2>1, <3>1, Zenon
      <4>2. trn.c = at + l
          BY <4>1, Zenon
      <4>3. trn.c - 1 = at + l - 1
          BY <1>6, <1>7, <4>2
      <4> HIDE DEF last
      <4> QED BY <4>1, <4>3, Zenon
    <3>2. CASE trn.end = 0
      <4>1. at + p > Len(w)
          BY <1>1, <1>5, <2>1, <3>2
      <4>2. p = l /\ at + l > Len(w)
        <5>1. \A a, m, y \in Nat, x \in {3, 7, 11} :
                y <= x /\ a + y > m /\ a + x - 1 <= m => y = x /\ a + x > m
            OBVIOUS
        <5>2. p \in Nat /\ p <= l
            BY <1>6
        <5> QED BY <1>6, <1>7, <4>1, <5>1, <5>2
      <4>3. ~(k < Len(Offers0))
        <5>1. \A a, m \in Nat, x \in {3, 7, 11} : a + x > m => ~(a + x + 2 <= m + 1)
            OBVIOUS
        <5> QED BY <1>6, <1>7, <4>2, <5>1
      <4>4. k = Len(Offers0)
          BY <1>6, <4>3
      <4> QED BY <1>5, <1>7, <3>2, <4>2, <4>4
    <3> QED BY <3>1, <3>2
  <2>3. /\ l = 3 => offer.param = "none"
        /\ l = 7 => offer.param \in {"ports", "mode"}
        /\ l = 11 => offer.param = "both"
      BY <1>5, <1>6, OfferLengths
  <2>4. (trn.ports \/ trn.sign) = (offer.param \in {"ports", "both"})
    <3>1. CASE l = 3
      <4>1. p \notin {6, 7} /\ (p >= 8) = FALSE
          BY <2>2, <3>1
      <4>2. (offer.param \in {"ports", "both"}) = FALSE
          BY <2>3, <3>1
      <4>3. trn.ports = FALSE /\ trn.sign = FALSE
          BY <2>1, <4>1, <4>2, Zenon
      <4> QED BY <4>2, <4>3
    <3>2. CASE l = 7
      <4>1. p \in {6, 7} /\ (p >= 8) = FALSE
          BY <2>2, <3>2
      <4>2. trn.ports = FALSE /\ trn.sign = (offer.param \in {"ports", "both"}) /\ trn.sign \in BOOLEAN
        <5>1. (p \in {6, 7}) = TRUE
            BY <4>1
        <5>2. (p \in {6, 7} /\ offer.param \in {"ports", "both"}) = (offer.param \in {"ports", "both"})
            BY <5>1
        <5>3. trn.sign \in BOOLEAN
            BY <1>3, ScanTypes
        <5> QED BY <2>1, <4>1, <5>2, <5>3, Zenon
      <4> QED BY <4>2
    <3>3. CASE l = 11
      <4>1. p \notin {6, 7} /\ (p >= 8) = TRUE
          BY <2>2, <3>3
      <4>2. offer.param \in {"ports", "both"}
          BY <2>3, <3>3
      <4> QED BY <2>1, <4>1, <4>2
    <3> QED BY <1>6, <3>1, <3>2, <3>3
  <2>5. Taken(Offers0, k)
    <3>1. offer.cast = "unicast" \/ offer.param = "none"
        BY <1>6, <2>1, <2>2, <2>3
    <3> QED BY <1>4, <1>5, <3>1 DEF Taken
  <2>6. SubSeq(Words, trn.trans, last) = OfferText(offer)
    <3>1. OfferText(offer) \in Seq(WordsOf(offer))
        BY <1>6, OfferWords DEF Params
    <3>2. PICK S : w \in Seq(S)
        BY <1>7
    <3>3. at \in 1 .. Len(w) + 1 /\ at + l - 1 \in at - 1 .. Len(w) /\ l \in Nat
        BY <1>6, <1>7
    <3>4. SubSeq(w, at, at + l - 1) = OfferText(offer)
      <4> DEFINE q == SubSeq(w, at, at + l - 1)
                 t == OfferText(offer)
      <4>1. q \in Seq(S) /\ Len(q) = l /\ \A i \in 1 .. l : q[i] = w[at + i - 1]
          BY <3>2, <3>3
      <4>2. t \in Seq(WordsOf(offer)) /\ Len(t) = l /\ \A i \in 1 .. l : t[i] = w[at + i - 1]
          BY <1>5, <1>7, <3>1
      <4> HIDE DEF q, t
      <4>3. q \in Seq(S \cup WordsOf(offer)) /\ t \in Seq(S \cup WordsOf(offer))
          BY <4>1, <4>2
      <4>4. q = t
          BY <4>1, <4>2, <4>3, SeqEqual
      <4> QED BY <4>4 DEF q, t
    <3> QED BY <1>5, <2>1, <2>2, <3>4
  <2>7. \E place \in Nat :
             /\ AddHeader("Transport", "tmp", place)
             /\ tmp'[place + 1] = SubSeq(Words, trn.trans, last) \o
                    (IF trn.ports \/ trn.sign THEN <<";", "server_port">> ELSE <<>>)
      BY <2>1, AnswerText
  <2> HIDE DEF last
  <2>8. SubSeq(Words, trn.trans, last) \o (IF trn.ports \/ trn.sign THEN <<";", "server_port">> ELSE <<>>)
            = Confirmation(offer)
      BY <2>4, <2>6, Zenon DEF Confirmation
  <2> QED BY <1>5, <2>5, <2>7, <2>8, Zenon
<1> QED BY <1>4, <1>5, <1>8, <1>9

\* With the same headers in the answer, or one more that is no transport, what was
\* confirmed is still confirmed.
LEMMA ConfirmKept ==
    ASSUME FieldsInv, ResInv, ConfirmInv, Answering, msg' = msg,
           \A k \in 1 .. Len(res.fields) : res'.fields[k] = res.fields[k],
           \/ Len(res'.fields) = Len(res.fields)
           \/ /\ Len(res'.fields) = Len(res.fields) + 1
              /\ res'.fields[Len(res.fields) + 1].name # "Transport",
           \A i \in 1 .. b : tmp'[i] = tmp[i],
           \/ n' = n
           \/ n' = n + 1 /\ n \in 1 .. Len(msg.headers) /\ msg.headers[n].name # "Transport"
    PROVE  ConfirmInv'
<1> DEFINE m == Len(res.fields)
<1>1. /\ m \in Nat /\ n \in Nat /\ b \in Nat /\ res.fields \in Seq(Field)
      /\ \A k \in 1 .. m : res.fields[k].at \in Nat
  <2>1. res.fields \in Seq(Field) /\ b \in 0 .. Len(tmp)
      BY DEF ResInv, Response
  <2> QED BY <2>1, FieldFacts DEF FieldsInv
<1>2. Len(res'.fields) \in m .. m + 1 /\ \A k \in 1 .. Len(res'.fields) :
          res'.fields[k].name = "Transport" => k \in 1 .. m /\ res'.fields[k] = res.fields[k]
  <2>1. ASSUME NEW k \in 1 .. Len(res'.fields), res'.fields[k].name = "Transport"
        PROVE  k \in 1 .. m
      BY <1>1, <2>1
  <2> QED BY <1>1, <2>1
<1>3. NoTransport => NoTransport'
    BY <1>2 DEF NoTransport
<1>4. ASSUME NEW offers, Confirmed(offers) PROVE Confirmed(offers)'
  <2>1. CASE NoTransport /\ \A k \in 1 .. Len(offers) : Passed(offers[k])
    <3>1. (\A k \in 1 .. Len(offers) : Passed(offers[k]))'
        BY <2>1 DEF Passed
    <3> QED BY <1>3, <2>1, <3>1 DEF Confirmed
  <2>2. ASSUME NEW k \in 1 .. Len(offers), NEW i \in 1 .. m, Confirming(offers, k, i)
        PROVE  Confirming(offers, k, i)' /\ i \in 1 .. Len(res'.fields)
    <3>1. res'.fields[i] = res.fields[i] /\ i \in 1 .. Len(res'.fields)
        BY <1>1, <1>2
    <3>2. res.fields[i].in = "tmp" /\ res.fields[i].name = "Transport" /\ Taken(offers, k)
        BY <2>2 DEF Confirming
    <3>3. res.fields[i].at + 1 \in 1 .. b
      <4>1. res.fields[i].at < b
          BY <3>2 DEF ResInv
      <4> QED BY <1>1, <4>1
    <3>4. tmp'[res.fields[i].at + 1] = Confirmation(offers[k])
        BY <2>2, <3>3 DEF Confirming
    <3>5. \A x \in 1 .. Len(res'.fields) : x # i => res'.fields[x].name # "Transport"
        BY <1>2, <2>2 DEF Confirming
    <3>6. Taken(offers, k)' /\ Confirmation(offers[k])' = Confirmation(offers[k])
        BY <3>2 DEF Taken, Passed, Confirmation, OfferText
    <3> QED BY <3>1, <3>2, <3>4, <3>5, <3>6, Zenon DEF Confirming
  <2> QED BY <1>4, <2>1, <2>2 DEF Confirmed
<1>5. ASSUME NEW j \in 1 .. Len(msg.headers), Only("Transport", j)
      PROVE  /\ n' <= j => NoTransport'
             /\ n' > j /\ Len(msg.headers[j].says) > 0 => Confirmed(msg.headers[j].says)'
  <2>1. /\ n <= j => NoTransport
        /\ n > j /\ Len(msg.headers[j].says) > 0 => Confirmed(msg.headers[j].says)
      BY <1>5 DEF ConfirmInv
  <2>2. msg.headers[j].name = "Transport" /\ j \in Nat
      BY <1>5 DEF Only
  <2>3. (n' <= j => n <= j) /\ (n' > j => n > j)
      BY <1>1, <2>2
  <2> QED BY <1>3, <1>4, <2>1, <2>3
<1>6. \A j : Only("Transport", j)' = Only("Transport", j)
    BY DEF Only
<1> QED BY <1>5, <1>6 DEF ConfirmInv

\* The one transport is confirmed when it has been read.
LEMMA ConfirmsNow ==
    ASSUME FieldsInv, ResInv, ScanInv, ConfirmInv, TransportAnswer
    PROVE  ConfirmInv'
<1>1. pc = "transport" /\ msg' = msg /\ n' = n + 1 /\ Answering
    BY DEF TransportAnswer, Scanned, Answering
<1>2. /\ n \in 1 .. Len(msg.headers) /\ msg.headers[n].name = "Transport" /\ n \in Nat
    BY <1>1, AtTransport
<1> SUFFICES ASSUME NEW j \in 1 .. Len(msg.headers), Only("Transport", j)
             PROVE  /\ n' <= j => NoTransport'
                    /\ n' > j /\ Len(msg.headers[j].says) > 0 => Confirmed(msg.headers[j].says)'
  <2>1. \A j : Only("Transport", j)' = Only("Transport", j)
      BY <1>1 DEF Only
  <2> QED BY <1>1, <2>1 DEF ConfirmInv
<1>3. j = n
    BY <1>2 DEF Only
<1>4. NoTransport /\ Offers0 = msg.headers[j].says
    BY <1>1, <1>2, <1>3 DEF ConfirmInv, Offers0
<1>5. ~(n' <= j)
    BY <1>1, <1>2, <1>3
<1>o. PICK offers : offers = Offers0 /\ offers = msg.headers[j].says
    BY <1>4
<1>6. ASSUME Len(offers) > 0 PROVE Confirmed(offers)'
  <2>1. offers = Offers0
      BY <1>o
  <2>2. CASE UNCHANGED res /\ \A k \in 1 .. Len(Offers0) : Passed(Offers0[k])
    <3>1. NoTransport' /\ \A k \in 1 .. Len(offers) : Passed(offers[k])'
        BY <1>4, <2>1, <2>2 DEF NoTransport, Passed
    <3> QED BY <3>1 DEF Confirmed
  <2>3. ASSUME NEW k \in 1 .. Len(offers), NEW place \in Nat, Taken(offers, k),
               AddHeader("Transport", "tmp", place), tmp'[place + 1] = Confirmation(offers[k])
        PROVE  Confirmed(offers)'
    <3>1. /\ Len(res'.fields) = Len(res.fields) + 1 /\ Len(res.fields) \in Nat
          /\ \A i \in 1 .. Len(res.fields) : res'.fields[i] = res.fields[i]
          /\ res'.fields[Len(res.fields) + 1].name = "Transport"
          /\ res'.fields[Len(res.fields) + 1].in = "tmp"
          /\ res'.fields[Len(res.fields) + 1].at = place
      <4>1. res \in Response /\ "tmp" \in {"req", "tmp"}
          BY DEF ResInv
      <4> QED BY <2>3, <4>1, HandledNames, FieldAdded, ZenonT(40)
    <3> DEFINE i == Len(res.fields) + 1
    <3>2. i \in 1 .. Len(res'.fields)
        BY <3>1
    <3>3. \A m \in 1 .. Len(res'.fields) : m # i => res'.fields[m].name # "Transport"
      <4>1. \A m \in 1 .. Len(res.fields) : res.fields[m].name # "Transport"
          BY <1>4 DEF NoTransport
      <4>2. \A m \in 1 .. Len(res'.fields) : m # i => m \in 1 .. Len(res.fields)
          BY <3>1
      <4> QED BY <3>1, <4>1, <4>2
    <3>4. Taken(offers, k)' /\ Confirmation(offers[k])' = Confirmation(offers[k])
        BY <2>3 DEF Taken, Passed, Confirmation, OfferText
    <3>5. PICK x : x = i
        OBVIOUS
    <3>6. Confirming(offers, k, x)'
        BY <2>3, <3>1, <3>3, <3>4, <3>5 DEF Confirming
    <3> QED BY <3>2, <3>5, <3>6 DEF Confirmed
  <2> QED BY <1>6, <2>1, <2>2, <2>3, OfferAnswered
<1>7. msg'.headers[j].says = offers
    BY <1>1, <1>o
<1>8. Len(msg.headers[j].says) > 0 => Confirmed(msg.headers[j].says)'
    BY <1>6, <1>7, <1>o
<1> QED BY <1>4, <1>5, <1>8

\* What was confirmed stays so, whatever is added behind it.
LEMMA ConfirmStep ==
    ASSUME FieldsInv, TodoInv, SearchInv, ResInv, ScanInv, ConfirmInv, [Next]_vars
    PROVE  ConfirmInv'
<1>0. /\ Len(msg.headers) \in Nat /\ Len(fields) \in Nat /\ n \in Nat /\ b \in Nat /\ res \in Response
  <2>1. b \in 0 .. Len(tmp) /\ res \in Response
      BY DEF ResInv
  <2> QED BY <2>1, MessageFacts DEF FieldsInv
<1>n. ASSUME pc' \notin {"status", "handle", "transport", "add", "todo"} PROVE ConfirmInv'
    BY <1>n DEF ConfirmInv, Answering
<1>s. ASSUME Answering, msg' = msg, res'.fields = res.fields, \A i \in 1 .. b : tmp'[i] = tmp[i],
             \/ n' = n
             \/ n' = n + 1 /\ n \in 1 .. Len(msg.headers) /\ msg.headers[n].name # "Transport"
      PROVE  ConfirmInv'
    BY <1>s, ConfirmKept
<1>10. CASE Failing
    BY <1>10, <1>n, FailingStops
<1>1. CASE Receive \/ ParseLine \/ ParseLineCut \/ ParseLineShort \/ ParseHeader \/ ParseHeaderCut
           \/ Parsed \/ TakeField
    BY <1>1, <1>n DEF Receive, ParseLine, ParseLineCut, ParseLineShort, ParseHeader, ParseHeaderCut, Parsed, TakeField
<1>2. CASE HandleUnknown \/ Respond
    BY <1>2, <1>n DEF HandleUnknown, Respond
<1>3. CASE Compare \/ NextSet \/ NextHeader \/ UNCHANGED vars
  <2>1. msg' = msg /\ res' = res /\ n' = n /\ tmp' = tmp
      BY <1>3 DEF Compare, NextSet, NextHeader, vars, parseVars, replyVars
  <2>2. pc' = pc \/ (pc = "add" /\ pc' = "todo")
      BY <1>3 DEF Compare, NextSet, NextHeader, vars
  <2>3. CASE Answering
      BY <1>s, <2>1, <2>3
  <2>4. CASE ~Answering
      BY <2>2, <2>4 DEF ConfirmInv, Answering
  <2> QED BY <2>3, <2>4
<1>4. CASE TakeStatus \/ HandleTransport \/ Method
  <2>1. msg' = msg /\ n' = n /\ tmp' = tmp /\ pc \in {"status", "handle"}
      BY <1>4 DEF TakeStatus, HandleTransport, Handling, Method, parseVars
  <2>2. res'.fields = res.fields
    <3>1. CASE TakeStatus
        BY <1>0, <3>1 DEF TakeStatus, Response
    <3>2. CASE HandleTransport
        BY <3>2 DEF HandleTransport
    <3>3. CASE Method
        BY <1>0, <3>3 DEF Method, Response
    <3> QED BY <1>4, <3>1, <3>2, <3>3
  <2> QED BY <1>s, <2>1, <2>2 DEF Answering
<1>5. CASE TransportWord \/ TransportProtocol \/ TransportCast \/ TransportParameter
           \/ TransportKey \/ TransportComma
  <2>1. msg' = msg /\ res' = res /\ n' = n /\ pc = "transport"
      BY <1>5 DEF TransportWord, TransportProtocol, TransportCast, TransportParameter,
            TransportKey, TransportComma, At, Scanning, ScanRest, parseVars
  <2>2. \/ tmp' = tmp
        \/ \E text : tmp' = Written(b, text) /\ b' \in {b, b + 1}
      BY <1>5 DEF TransportWord, TransportProtocol, TransportCast, TransportParameter,
            TransportKey, TransportComma, MoveBehind
  <2>3. \A i \in 1 .. b : tmp'[i] = tmp[i]
      BY <2>2, TextWritten
  <2> QED BY <1>s, <2>1, <2>3 DEF Answering
<1>6. CASE HandleDefault \/ HandleAccept \/ HandleCSeq
  <2>1. msg' = msg /\ n' = n + 1 /\ n <= Len(fields) /\ pc = "handle" /\ tmp' = tmp
      BY <1>6, <1>0 DEF HandleDefault, HandleAccept, HandleCSeq, Handling, Handled, replyVars
  <2>2. fields[n] \notin {"NULL", "Transport"}
      BY <1>6 DEF HandleDefault, HandleAccept, HandleCSeq, Handling
  <2>3. n \in 1 .. Len(msg.headers) /\ msg.headers[n].name # "Transport"
    <3>1. n \in 1 .. Len(fields) /\ Len(fields) = Len(msg.headers)
        BY <2>1, <1>0 DEF FieldsInv, Answering
    <3>2. fields[n] \in {"NULL", msg.headers[n].name}
        BY <2>1, <3>1 DEF FieldsInv, Answering
    <3> QED BY <2>2, <3>1, <3>2
  <2>4. CASE HandleDefault
      BY <1>s, <2>1, <2>3, <2>4 DEF HandleDefault, replyVars, Answering
  <2>5. CASE HandleAccept
    <3>1. res'.fields = res.fields
        BY <1>0, <2>5 DEF HandleAccept, Response
    <3> QED BY <1>s, <2>1, <2>3, <3>1 DEF Answering
  <2>6. CASE HandleCSeq
    <3>1. AddHeader("CSeq", "req", n) /\ "req" \in {"req", "tmp"}
        BY <2>6 DEF HandleCSeq
    <3>2. /\ Len(res'.fields) = Len(res.fields) + 1
          /\ \A k \in 1 .. Len(res.fields) : res'.fields[k] = res.fields[k]
          /\ res'.fields[Len(res.fields) + 1].name = "CSeq"
        BY <1>0, <3>1, HandledNames, FieldAdded, ZenonT(40)
    <3>3. Answering
        BY <2>1 DEF Answering
    <3> QED BY <2>1, <2>3, <3>2, <3>3, ConfirmKept
  <2> QED BY <1>6, <2>4, <2>5, <2>6
<1>7. CASE ProcessHeader
  <2>1. pc = "process" /\ res.version = ""
      BY <1>7 DEF ProcessHeader, ResInv
  <2>a. SUFFICES ASSUME ~VersionEmpty(msg) PROVE ConfirmInv'
    <3>1. CASE VersionEmpty(msg)
        BY <1>7, <1>n, <3>1 DEF ProcessHeader
    <3> QED BY <3>1
  <2>2. res' = [res EXCEPT !.fields = <<>>, !.entity = "none"] /\ n' = 1
      BY <1>7, <2>1, <2>a DEF ProcessHeader
  <2>3. res'.fields = << >> /\ Len(res'.fields) = 0
      BY <1>0, <2>2 DEF Response
  <2>4. NoTransport' /\ \A j \in 1 .. Len(msg'.headers) : ~(n' > j)
      BY <2>2, <2>3 DEF NoTransport
  <2> QED BY <2>4 DEF ConfirmInv
<1>8. CASE TransportAnswer
    BY <1>8, ConfirmsNow
<1>9. CASE AddNext
  <2>1. /\ tmp' = Written(b, Head(todo).text) /\ b' = b + 1 /\ AddHeader(RowFound, "tmp", b)
        /\ pc = "todo" /\ hit # 0 /\ msg' = msg /\ n' = n
      BY <1>9 DEF AddNext, MoveBehind, parseVars
  <2>2. PICK name : name = RowFound
      OBVIOUS
  <2>3. name \in Names /\ name # "Transport"
      BY <2>1, <2>2, AdditionFound, SixAreNames DEF Six
  <2>4. \A i \in 1 .. b : tmp'[i] = tmp[i]
      BY <2>1, TextWritten
  <2>5. AddHeader(name, "tmp", b) /\ "tmp" \in {"req", "tmp"}
      BY <2>1, <2>2
  <2>6. /\ Len(res'.fields) = Len(res.fields) + 1
        /\ \A k \in 1 .. Len(res.fields) : res'.fields[k] = res.fields[k]
        /\ res'.fields[Len(res.fields) + 1].name = name
      BY <1>0, <2>3, <2>5, FieldAdded, ZenonT(40)
  <2>7. Answering
      BY <2>1 DEF Answering
  <2> QED BY <2>1, <2>3, <2>4, <2>6, <2>7, ConfirmKept
<1> QED BY <1>1, <1>2, <1>3, <1>4, <1>5, <1>6, <1>7, <1>8, <1>9, <1>10
    DEF Next, Step, Transport, Failing

\* If one thing is said under a name, one header has the name.
LEMMA OnlyOne ==
    ASSUME FieldsInv, NEW name, Len(Said(msg, name)) = 1
    PROVE  \E j \in 1 .. Len(msg.headers) : Only(name, j) /\ Said(msg, name) = <<msg.headers[j].says>>
<1> DEFINE m == Len(msg.headers)
           all == Asked(name, m)
<1>1. m \in Nat
    BY MessageFacts DEF FieldsInv
<1>2. all \in Seq(Seq(Says)) /\ Len(all) = m
    BY <1>1, AskedIsSeq
<1>3. Said(msg, name) = FlattenSeq(all)
    BY DEF Said, Asked, Item
<1>4. \A k \in 1 .. m : all[k] = Item(name, k)
    BY DEF Asked
<1>o. PICK length : length = Len(FlattenSeq(all))
    OBVIOUS
<1>l. length = 1
    BY <1>3, <1>o
<1> HIDE DEF all
<1>5. PICK j \in 1 .. m : msg.headers[j].name = name
  <2> SUFFICES ASSUME \A j \in 1 .. m : msg.headers[j].name # name PROVE FALSE
      OBVIOUS
  <2>1. \A k \in 1 .. Len(all) : k # 0 => all[k] = << >>
      BY <1>2, <1>4 DEF Item
  <2>2. FlattenSeq(all) = IF 0 \in 1 .. Len(all) THEN all[0] ELSE << >>
      BY <1>2, <2>1, FlattenSingle
  <2>3. Len(FlattenSeq(all)) = 0
      BY <2>2
  <2> QED BY <1>l, <1>o, <2>3
<1>6. \A k \in 1 .. m : msg.headers[k].name = name => Len(all[k]) >= 1
  <2> SUFFICES ASSUME NEW k \in 1 .. m, msg.headers[k].name = name PROVE Len(all[k]) >= 1
      OBVIOUS
  <2>1. all[k] = <<msg.headers[k].says>>
      BY <1>4 DEF Item
  <2> QED BY <2>1
<1>7. ASSUME NEW i \in 1 .. m, NEW k \in 1 .. m, i < k, msg.headers[i].name = name, msg.headers[k].name = name
      PROVE  FALSE
  <2>1. i \in 1 .. Len(all) /\ k \in 1 .. Len(all) /\ Len(all[i]) >= 1 /\ Len(all[k]) >= 1
      BY <1>2, <1>6, <1>7
  <2>2. Len(FlattenSeq(all)) >= 2
      BY <1>2, <1>7, <2>1, FlattenTwo
  <2>3. length >= 2
      BY <1>o, <2>2
  <2>4. ~(1 >= 2)
      OBVIOUS
  <2> QED BY <1>l, <2>3, <2>4, Zenon
<1>8. \A k \in 1 .. m : msg.headers[k].name = name => k = j
  <2> SUFFICES ASSUME NEW k \in 1 .. m, msg.headers[k].name = name PROVE k = j
      OBVIOUS
  <2>1. ~(k < j) /\ ~(j < k)
      BY <1>5, <1>7
  <2> QED BY <1>1, <2>1
<1>9. Only(name, j)
    BY <1>5, <1>8 DEF Only
<1>10. \A k \in 1 .. Len(all) : k # j => all[k] = << >>
    BY <1>2, <1>4, <1>8 DEF Item
<1>11. j \in Nat /\ j \in 1 .. Len(all)
    BY <1>2
<1>12. FlattenSeq(all) = all[j]
  <2>1. FlattenSeq(all) = IF j \in 1 .. Len(all) THEN all[j] ELSE << >>
      BY <1>2, <1>10, <1>11, FlattenSingle
  <2> QED BY <1>11, <2>1
<1>13. all[j] = <<msg.headers[j].says>>
    BY <1>4, <1>5 DEF Item
<1> QED BY <1>3, <1>9, <1>12, <1>13

\* The headers of the message that is written are those of the answer.
LEMMA FieldsWritten ==
    ASSUME ResInv, Respond
    PROVE  /\ Len(out'.fields) = Len(res.fields) /\ Len(res.fields) \in Nat
           /\ \A k \in 1 .. Len(res.fields) :
                /\ out'.fields[k].name = res.fields[k].name
                /\ out'.fields[k].text = Pointed(res.fields[k])
<1> DEFINE m == Len(res.fields)
<1>1. out'.fields = [k \in 1 .. m |-> [name |-> res.fields[k].name, text |-> Pointed(res.fields[k])]]
    BY DEF Respond
<1>2. m \in Nat
  <2>1. res.fields \in Seq(Field)
      BY DEF ResInv, Response
  <2> QED BY <2>1
<1>o. PICK o : o = out'.fields
    OBVIOUS
<1>3. Len(o) = m
  <2>1. o = [k \in 1 .. m |-> [name |-> res.fields[k].name, text |-> Pointed(res.fields[k])]]
      BY <1>1, <1>o
  <2> HIDE DEF m
  <2>2. o \in [1 .. m -> {o[k] : k \in 1 .. m}]
      BY <2>1
  <2> QED BY <1>2, <2>2, FunctionIsSequence
<1>4. \A k \in 1 .. m : o[k].name = res.fields[k].name /\ o[k].text = Pointed(res.fields[k])
    BY <1>1, <1>o
<1> QED BY <1>2, <1>3, <1>4, <1>o

\* What is answered under a name: nothing, or the one text that has it.
LEMMA AnswersUnder ==
    ASSUME ResInv, Respond, NEW name, NEW i \in Nat,
           \A k \in 1 .. Len(res.fields) : res.fields[k].name = name <=> k = i
    PROVE  AnswersOf(name)' =
               IF i \in 1 .. Len(res.fields) THEN <<Pointed(res.fields[i])>> ELSE << >>
<1> DEFINE m == Len(res.fields)
<1>1. PICK o : o = out'.fields
    OBVIOUS
<1>2. /\ Len(o) = m /\ m \in Nat
      /\ \A k \in 1 .. m : o[k].name = res.fields[k].name /\ o[k].text = Pointed(res.fields[k])
    BY <1>1, FieldsWritten
<1> DEFINE T == {o[k].text : k \in 1 .. m}
           items == [k \in 1 .. m |-> IF o[k].name = name THEN <<o[k].text>> ELSE << >>]
<1> HIDE DEF m
<1>3. items \in Seq(Seq(T)) /\ Len(items) = m
  <2>1. \A k \in 1 .. m : (IF o[k].name = name THEN <<o[k].text>> ELSE << >>) \in Seq(T)
    <3> SUFFICES ASSUME NEW k \in 1 .. m
                 PROVE  (IF o[k].name = name THEN <<o[k].text>> ELSE << >>) \in Seq(T)
        OBVIOUS
    <3>1. o[k].text \in T
        OBVIOUS
    <3> HIDE DEF T
    <3> QED BY <3>1
  <2> HIDE DEF T
  <2>2. items \in [1 .. m -> Seq(T)]
      BY <2>1
  <2> QED BY <1>2, <2>2, FunctionIsSequence
<1>4. \A k \in 1 .. m : items[k] = IF k = i THEN <<Pointed(res.fields[k])>> ELSE << >>
    BY <1>2 DEF m
<1> HIDE DEF items, T
<1>5. FlattenSeq(items) = IF i \in 1 .. m THEN <<Pointed(res.fields[i])>> ELSE << >>
  <2>1. \A k \in 1 .. Len(items) : k # i => items[k] = << >>
      BY <1>3, <1>4
  <2>2. FlattenSeq(items) = IF i \in 1 .. Len(items) THEN items[i] ELSE << >>
      BY <1>3, <2>1, FlattenSingle
  <2> QED BY <1>3, <1>4, <2>2
<1>6. AnswersOf(name)' = FlattenSeq(items)
    BY <1>1, <1>2 DEF AnswersOf, items
<1> QED BY <1>5, <1>6 DEF m

\* Which of the offers are passed over, and which is taken.
LEMMA WhichIsTaken ==
    ASSUME NEW offers, Len(offers) \in Nat, \A k \in 1 .. Len(offers) : offers[k].param # "none"
    PROVE  /\ (\A k \in 1 .. Len(offers) : Passed(offers[k])) =>
                  ~ \E k \in 1 .. Len(offers) : offers[k].cast = "unicast"
           /\ \A k \in 1 .. Len(offers) : Taken(offers, k) =>
                  offers[k].cast = "unicast" /\ OfferTaken(offers) = k
<1>1. \A k \in 1 .. Len(offers) : Passed(offers[k]) => offers[k].cast # "unicast"
    BY DEF Passed
<1>2. ASSUME NEW k \in 1 .. Len(offers), Taken(offers, k)
      PROVE  offers[k].cast = "unicast" /\ OfferTaken(offers) = k
  <2>1. offers[k].cast = "unicast" /\ \A j \in 1 .. k - 1 : offers[j].cast # "unicast"
      BY <1>1, <1>2 DEF Taken, Passed
  <2> DEFINE First0(x) == offers[x].cast = "unicast" /\ \A j \in 1 .. x - 1 : offers[j].cast # "unicast"
  <2>2. \A x, y \in 1 .. Len(offers) : First0(x) /\ First0(y) => x = y
    <3> SUFFICES ASSUME NEW x \in 1 .. Len(offers), NEW y \in 1 .. Len(offers), First0(x), First0(y)
                 PROVE  x = y
        OBVIOUS
    <3>1. ~(x < y) /\ ~(y < x)
        OBVIOUS
    <3> QED BY <3>1
  <2>3. First0(k)
      BY <2>1
  <2>4. OfferTaken(offers) = CHOOSE x \in 1 .. Len(offers) : First0(x)
      BY Zenon DEF OfferTaken
  <2> HIDE DEF First0
  <2>5. (CHOOSE x \in 1 .. Len(offers) : First0(x)) = k
      BY <2>2, <2>3, Zenon
  <2> QED BY <2>1, <2>4, <2>5
<1> QED BY <1>1, <1>2

\* The message that is written confirms what the answer does.
LEMMA RespondConfirms ==
    ASSUME FieldsInv, ResInv, ConfirmInv, Respond
    PROVE  TransportAnswered'
<1>1. pc = "add" /\ Answering /\ msg' = msg /\ msg \in Requests
    BY DEF Respond, Answering, parseVars, FieldsInv
<1>2. PICK said, answers : said = Said(msg, "Transport") /\ answers = AnswersOf("Transport")'
    OBVIOUS
<1>3. Said(msg, "Transport")' = said
    BY <1>1, <1>2 DEF Said
<1>4. ASSUME Len(said) = 1, NEW offers, offers = said[1], Len(offers) > 0,
             \A k \in 1 .. Len(offers) : offers[k].param # "none"
      PROVE  IF \E k \in 1 .. Len(offers) : offers[k].cast = "unicast"
             THEN Len(answers) = 1 /\ answers[1] = Confirmation(offers[OfferTaken(offers)])
             ELSE answers = << >>
  <2>1. PICK j \in 1 .. Len(msg.headers) : Only("Transport", j) /\ said = <<msg.headers[j].says>>
    <3>1. Len(Said(msg, "Transport")) = 1
        BY <1>2, <1>4
    <3> QED BY <1>2, <3>1, OnlyOne
  <2>2. offers = msg.headers[j].says /\ msg.headers[j].name = "Transport"
      BY <1>4, <2>1 DEF Only
  <2>3. Len(offers) \in Nat
      BY <1>1, <2>2, OffersFacts
  <2>4. n > j
    <3>1. n = Len(fields) + 1 /\ Len(fields) = Len(msg.headers) /\ Len(msg.headers) \in Nat
        BY <1>1, MessageFacts DEF FieldsInv
    <3> QED BY <3>1
  <2>5. Confirmed(offers)
      BY <1>1, <1>4, <2>1, <2>2, <2>4 DEF ConfirmInv
  <2>6. CASE NoTransport /\ \A k \in 1 .. Len(offers) : Passed(offers[k])
    <3>1. \A k \in 1 .. Len(res.fields) : res.fields[k].name = "Transport" <=> k = 0
        BY <2>6 DEF NoTransport
    <3>2. answers = << >>
      <4>1. AnswersOf("Transport")' = IF 0 \in 1 .. Len(res.fields) THEN <<Pointed(res.fields[0])>> ELSE << >>
          BY <3>1, AnswersUnder
      <4> QED BY <1>2, <4>1
    <3>3. ~ \E k \in 1 .. Len(offers) : offers[k].cast = "unicast"
        BY <1>4, <2>3, <2>6, WhichIsTaken
    <3> QED BY <3>2, <3>3
  <2>7. ASSUME NEW k \in 1 .. Len(offers), NEW i \in 1 .. Len(res.fields), Confirming(offers, k, i)
        PROVE  /\ Len(answers) = 1 /\ answers[1] = Confirmation(offers[OfferTaken(offers)])
               /\ \E x \in 1 .. Len(offers) : offers[x].cast = "unicast"
    <3>1. /\ Taken(offers, k) /\ res.fields[i].name = "Transport" /\ res.fields[i].in = "tmp"
          /\ tmp[res.fields[i].at + 1] = Confirmation(offers[k])
          /\ \A x \in 1 .. Len(res.fields) : x # i => res.fields[x].name # "Transport"
        BY <2>7 DEF Confirming
    <3>2. \A x \in 1 .. Len(res.fields) : res.fields[x].name = "Transport" <=> x = i
        BY <3>1
    <3>3. i \in Nat
        BY FieldsWritten
    <3>4. AnswersOf("Transport")' = IF i \in 1 .. Len(res.fields) THEN <<Pointed(res.fields[i])>> ELSE << >>
        BY <3>2, <3>3, AnswersUnder
    <3>5. Pointed(res.fields[i]) = Confirmation(offers[k])
        BY <3>1 DEF Pointed
    <3>6. answers = <<Confirmation(offers[k])>>
        BY <1>2, <3>4, <3>5
    <3>7. offers[k].cast = "unicast" /\ OfferTaken(offers) = k
        BY <1>4, <2>3, <3>1, WhichIsTaken
    <3> QED BY <3>6, <3>7
  <2> QED BY <2>5, <2>6, <2>7 DEF Confirmed
<1>5. AnswersOf("Transport")' = answers
    BY <1>2
<1> HIDE DEF OfferTaken
<1> QED BY <1>3, <1>4, <1>5, Zenon DEF TransportAnswered, Confirmation

(***************************************************************************)
(* Which types are accepted                                                *)
(***************************************************************************)
\* Parts of these lengths, with two words between any two, leave nothing out.
Tiles(m, at, l) ==
    /\ m \in Nat /\ m > 0
    /\ \A k \in 1 .. m : at[k] \in Nat /\ l[k] \in Nat
    /\ at[1] = 1
    /\ \A k \in 1 .. m : k < m => at[k + 1] = at[k] + l[k] + 2
Inside(t, m, at, l) ==
    \E k \in 1 .. m : /\ at[k] <= t
                      /\ \/ t < at[k] + l[k]
                         \/ k < m /\ (t = at[k] + l[k] \/ t = at[k] + l[k] + 1)

\* A place of the text is in one of the parts or between two.
LEMMA Tiled ==
    ASSUME NEW m, NEW at, NEW l, Tiles(m, at, l),
           NEW t \in Nat, t >= 1, t <= at[m] + l[m] - 1
    PROVE  Inside(t, m, at, l)
<1>0. /\ m \in Nat /\ m > 0
      /\ \A k \in 1 .. m : at[k] \in Nat /\ l[k] \in Nat
      /\ at[1] = 1
      /\ \A k \in 1 .. m : k < m => at[k + 1] = at[k] + l[k] + 2
    BY DEF Tiles
<1> DEFINE Here(k) == /\ at[k] <= t
                      /\ \/ t < at[k] + l[k]
                         \/ k < m /\ (t = at[k] + l[k] \/ t = at[k] + l[k] + 1)
           J == {k \in Nat : k + 1 <= m => at[k + 1] <= t}
<1> SUFFICES ASSUME \A k \in 1 .. m : ~Here(k) PROVE FALSE
    BY DEF Inside
<1>1. 0 \in J
    BY <1>0
<1>2. ASSUME NEW k \in J PROVE k + 1 \in J
  <2> SUFFICES ASSUME (k + 1) + 1 <= m PROVE at[(k + 1) + 1] <= t
      OBVIOUS
  <2>1. k \in Nat /\ k + 1 \in 1 .. m /\ k + 1 < m
      BY <1>0
  <2>2. at[k + 1] <= t
      BY <2>1
  <2>3. at[(k + 1) + 1] = at[k + 1] + l[k + 1] + 2
      BY <1>0, <2>1
  <2>4. ~Here(k + 1)
      BY <2>1
  <2>5. at[k + 1] \in Nat /\ l[k + 1] \in Nat
      BY <1>0, <2>1
  <2> QED BY <2>1, <2>2, <2>3, <2>4, <2>5
<1>3. J = Nat
  <2>1. J \in SUBSET Nat
      OBVIOUS
  <2> HIDE DEF J
  <2> QED BY <1>1, <1>2, <2>1, SetInduction
<1>4. m - 1 \in Nat /\ (m - 1) + 1 = m /\ m \in 1 .. m
    BY <1>0
<1>5. at[m] <= t
  <2>1. m - 1 \in J
      BY <1>3, <1>4
  <2> QED BY <1>4, <2>1
<1>6. at[m] \in Nat /\ l[m] \in Nat
    BY <1>0, <1>4
<1> QED BY <1>0, <1>4, <1>5, <1>6

\* The types of a list, as it is written.
MediaTexts(media) == [i \in 1 .. Len(media) |-> MediaText(media[i])]

Quality == "q=1"

\* The first word is the type, and it may have a parameter.
TypeFirst(x, t) ==
    /\ t[1] = x.type
    /\ Len(t) = 3 => t[2] = Semicolon /\ t[3] = Quality

\* A type is written alone or with a quality.
LEMMA MediaShape ==
    ASSUME NEW x, x.quality \in BOOLEAN
    PROVE  MediaText(x) = <<x.type, Semicolon, Quality>> \/ MediaText(x) = <<x.type>>
<1>1. CASE x.quality = TRUE
    BY <1>1, Zenon DEF MediaText, Semicolon, Quality
<1>2. CASE x.quality = FALSE
    BY <1>2, Zenon DEF MediaText
<1> QED BY <1>1, <1>2

\* Its words, and how many there are.
LEMMA MediaWords ==
    ASSUME NEW x, x.quality \in BOOLEAN
    PROVE  /\ MediaText(x) \in Seq({x.type, Semicolon, Quality})
           /\ Len(MediaText(x)) \in {1, 3}
<1>1. PICK t, type : t = MediaText(x) /\ type = x.type
    OBVIOUS
<1>2. t = <<type, Semicolon, Quality>> \/ t = <<type>>
    BY <1>1, MediaShape
<1>3. t \in Seq({type, Semicolon, Quality}) /\ Len(t) \in {1, 3}
  <2>1. CASE t = <<type, Semicolon, Quality>>
      BY <2>1
  <2>2. CASE t = <<type>>
      BY <2>2
  <2> QED BY <1>2, <2>1, <2>2
<1> QED BY <1>1, <1>3

\* The first of them is the type.
LEMMA MediaSays ==
    ASSUME NEW x, x.quality \in BOOLEAN
    PROVE  TypeFirst(x, MediaText(x))
<1>1. PICK t : t = MediaText(x)
    OBVIOUS
<1>2. t = <<x.type, Semicolon, Quality>> \/ t = <<x.type>>
    BY <1>1, MediaShape
<1> QED BY <1>1, <1>2 DEF TypeFirst

\* What is known of the types of a message.
LEMMA MediaFacts ==
    ASSUME msg \in Requests, NEW j \in 1 .. Len(msg.headers), msg.headers[j].name = "Accept"
    PROVE  /\ Len(msg.headers[j].says) \in Nat
           /\ \A k \in 1 .. Len(msg.headers[j].says) :
                /\ msg.headers[j].says[k].type \notin Separators
                /\ msg.headers[j].says[k].quality \in BOOLEAN
BY RequestsAssumption

\* Where the types stand in the text of their header.
LEMMA MediaPlaces ==
    ASSUME msg \in Requests, NEW j \in 1 .. Len(msg.headers), msg.headers[j].name = "Accept"
    PROVE  LET media == msg.headers[j].says
               w == Text(msg.headers[j])
               at(k) == BeginOf(MediaTexts(media), k)
               l(k) == Len(MediaText(media[k]))
           IN  /\ Len(w) \in Nat
               /\ Len(media) = 0 => Len(w) = 0
               /\ Len(media) > 0 => at(1) = 1
               /\ \A k \in 1 .. Len(media) :
                    /\ at(k) \in Nat /\ at(k) >= 1 /\ l(k) \in {1, 3}
                    /\ at(k) + l(k) - 1 <= Len(w)
                    /\ \A i \in 1 .. l(k) : w[at(k) + i - 1] = MediaText(media[k])[i]
                    /\ k = Len(media) => Len(w) = at(k) + l(k) - 1
                    /\ k < Len(media) =>
                         /\ at(k + 1) = at(k) + l(k) + 2
                         /\ at(k) + l(k) + 2 <= Len(w) + 1
                         /\ w[at(k) + l(k)] = Comma
                         /\ w[at(k) + l(k) + 1] = Blank
<1> DEFINE media == msg.headers[j].says
           m == Len(media)
           parts == MediaTexts(media)
           A == {media[k].type : k \in 1 .. m} \cup {Semicolon, Quality}
           S == A \cup {Comma, Blank}
           w == Text(msg.headers[j])
<1>1. m \in Nat /\ \A k \in 1 .. m : media[k].quality \in BOOLEAN
    BY MediaFacts
<1>2. \A k \in 1 .. m : MediaText(media[k]) \in Seq(S) /\ Len(MediaText(media[k])) \in {1, 3}
  <2> SUFFICES ASSUME NEW k \in 1 .. m
               PROVE  MediaText(media[k]) \in Seq(S) /\ Len(MediaText(media[k])) \in {1, 3}
      OBVIOUS
  <2>1. PICK x : x = media[k]
      OBVIOUS
  <2>2. x.quality \in BOOLEAN
      BY <1>1, <2>1
  <2>3. MediaText(x) \in Seq({x.type, Semicolon, Quality}) /\ Len(MediaText(x)) \in {1, 3}
      BY <2>2, MediaWords
  <2>4. {x.type, Semicolon, Quality} \subseteq S
      BY <2>1
  <2> HIDE DEF S, media
  <2>5. \A P, Q, q : q \in Seq(P) /\ P \subseteq Q => q \in Seq(Q)
      OBVIOUS
  <2> QED BY <2>1, <2>3, <2>4, <2>5
<1>3. parts \in Seq(Seq(S)) /\ Len(parts) = m /\ \A k \in 1 .. m : parts[k] = MediaText(media[k])
  <2>1. parts = [k \in 1 .. m |-> MediaText(media[k])]
      BY DEF MediaTexts
  <2> HIDE DEF parts, S, media, m
  <2>2. parts \in [1 .. m -> Seq(S)] /\ \A k \in 1 .. m : parts[k] = MediaText(media[k])
      BY <1>2, <2>1
  <2> QED BY <1>1, <2>2, FunctionIsSequence
<1> HIDE DEF A
<1>4. Comma \in S /\ Blank \in S
    OBVIOUS
<1>5. Between = <<Comma, Blank>>
    BY Zenon DEF Between, Comma, Blank
<1> HIDE DEF S
<1>6. Between \in Seq(S) /\ Len(Between) = 2 /\ Between[1] = Comma /\ Between[2] = Blank
    BY <1>4, <1>5
<1>7. w = FlattenSeq(Separated(parts, Between))
  <2>1. w = Joined(parts)
    <3>1. CASE msg.headers[j].name = "Accept"
        BY <3>1, Zenon DEF Text, MediaTexts
    <3> QED BY <3>1
  <2> QED BY <2>1, Zenon DEF Joined, Separated, Between
<1> HIDE DEF w, parts, media
<1>8. /\ w \in Seq(S)
      /\ m = 0 => Len(w) = 0
      /\ m > 0 => BeginOf(parts, 1) = 1
      /\ \A k \in 1 .. m :
           /\ BeginOf(parts, k) \in Nat /\ BeginOf(parts, k) >= 1
           /\ BeginOf(parts, k) + Len(parts[k]) - 1 <= Len(w)
           /\ \A i \in 1 .. Len(parts[k]) : w[BeginOf(parts, k) + i - 1] = parts[k][i]
           /\ k = m => Len(w) = BeginOf(parts, k) + Len(parts[k]) - 1
           /\ k < m =>
                /\ BeginOf(parts, k + 1) = BeginOf(parts, k) + Len(parts[k]) + 2
                /\ BeginOf(parts, k) + Len(parts[k]) + 2 <= Len(w) + 1
                /\ w[BeginOf(parts, k) + Len(parts[k])] = Comma
                /\ w[BeginOf(parts, k) + Len(parts[k]) + 1] = Blank
  <2> DEFINE at(k) == BeginWith(parts, Between, k)
             v == FlattenSeq(Separated(parts, Between))
  <2>1. parts \in Seq(Seq(S)) /\ Between \in Seq(S) /\ Len(Between) = 2
      BY <1>3, <1>6
  <2>2. /\ v \in Seq(S)
        /\ Len(parts) = 0 => Len(v) = 0
        /\ Len(parts) > 0 => at(1) = 1
        /\ \A k \in 1 .. Len(parts) :
             /\ at(k) \in Nat /\ at(k) >= 1
             /\ at(k) + Len(parts[k]) - 1 <= Len(v)
             /\ \A i \in 1 .. Len(parts[k]) : v[at(k) + i - 1] = parts[k][i]
             /\ k = Len(parts) => Len(v) = at(k) + Len(parts[k]) - 1
             /\ k < Len(parts) =>
                  /\ at(k + 1) = at(k) + Len(parts[k]) + 2
                  /\ at(k) + Len(parts[k]) + 2 <= Len(v) + 1
                  /\ v[at(k) + Len(parts[k])] = Between[1]
                  /\ v[at(k) + Len(parts[k]) + 1] = Between[2]
      BY <2>1, SeparatedParts
  <2> QED BY <1>3, <1>6, <1>7, <2>2, Zenon DEF BeginOf
<1>9. Len(w) \in Nat
    BY <1>8
<1> QED BY <1>2, <1>3, <1>8, <1>9, ZenonT(60) DEF w, parts, media

\* What process_header_accept looks for, and where it is found in a text.
Sdp == "application/sdp"
Alone(w, t) ==
    /\ w[t] = Sdp
    /\ t = 1 \/ \E i \in 1 .. t - 1 : w[i] \in {Comma, Semicolon} /\ \A k \in i + 1 .. t - 1 : w[k] = Blank
    /\ t = Len(w) \/ w[t + 1] \in {Comma, Semicolon}

\* process_header_accept's scan in these words.
LEMMA ScanIsAlone == \A w : AcceptScan(w) <=> \E t \in 1 .. Len(w) : Alone(w, t)
BY Zenon DEF AcceptScan, Alone, Sdp, Comma, Semicolon, Blank

\* application/sdp is none of what stands between the types.
LEMMA SdpDiffers == Sdp # Comma /\ Sdp # Semicolon /\ Sdp # Blank /\ Sdp # Quality
BY Zenon DEF Sdp, Comma, Semicolon, Blank, Quality

\* The list is granted if one of its types is application/sdp.
LEMMA AcceptScanIs ==
    ASSUME msg \in Requests, NEW j \in 1 .. Len(msg.headers), msg.headers[j].name = "Accept"
    PROVE  AcceptScan(Text(msg.headers[j])) <=>
               \E k \in 1 .. Len(msg.headers[j].says) : msg.headers[j].says[k].type = Sdp
<1>m. PICK media : media = msg.headers[j].says
    OBVIOUS
<1>w. PICK w : w = Text(msg.headers[j])
    OBVIOUS
<1> DEFINE m == Len(media)
           at == [k \in 1 .. m |-> BeginOf(MediaTexts(media), k)]
           l == [k \in 1 .. m |-> Len(MediaText(media[k]))]
<1>1. m \in Nat /\ \A k \in 1 .. m : media[k].quality \in BOOLEAN
    BY <1>m, MediaFacts
<1>2. /\ Len(w) \in Nat
      /\ m = 0 => Len(w) = 0
      /\ m > 0 => at[1] = 1
      /\ \A k \in 1 .. m :
           /\ at[k] \in Nat /\ at[k] >= 1 /\ l[k] \in {1, 3}
           /\ at[k] + l[k] - 1 <= Len(w)
           /\ \A i \in 1 .. l[k] : w[at[k] + i - 1] = MediaText(media[k])[i]
           /\ k = m => Len(w) = at[k] + l[k] - 1
           /\ k < m =>
                /\ at[k + 1] = at[k] + l[k] + 2
                /\ w[at[k] + l[k]] = Comma
                /\ w[at[k] + l[k] + 1] = Blank
  <2>1. \A k \in 1 .. m : at[k] = BeginOf(MediaTexts(media), k) /\ l[k] = Len(MediaText(media[k]))
      OBVIOUS
  <2>2. /\ m > 0 => 1 \in 1 .. m
        /\ \A k \in 1 .. m : k < m => k + 1 \in 1 .. m
      BY <1>1
  <2> DEFINE A(k) == BeginOf(MediaTexts(media), k)
             L(k) == Len(MediaText(media[k]))
  <2>3. /\ Len(w) \in Nat
        /\ m = 0 => Len(w) = 0
        /\ m > 0 => A(1) = 1
        /\ \A k \in 1 .. m :
             /\ A(k) \in Nat /\ A(k) >= 1 /\ L(k) \in {1, 3}
             /\ A(k) + L(k) - 1 <= Len(w)
             /\ \A i \in 1 .. L(k) : w[A(k) + i - 1] = MediaText(media[k])[i]
             /\ k = m => Len(w) = A(k) + L(k) - 1
             /\ k < m =>
                  /\ A(k + 1) = A(k) + L(k) + 2
                  /\ w[A(k) + L(k)] = Comma
                  /\ w[A(k) + L(k) + 1] = Blank
      BY <1>m, <1>w, MediaPlaces, Zenon
  <2>4. \A k \in 1 .. m : at[k] = A(k) /\ l[k] = L(k)
      BY <2>1
  <2> HIDE DEF at, l, A, L, m
  <2> QED BY <2>2, <2>3, <2>4
<1>3. \A k \in 1 .. m :
        /\ MediaText(media[k])[1] = media[k].type
        /\ l[k] = 3 => MediaText(media[k])[2] = Semicolon /\ MediaText(media[k])[3] = Quality
  <2> SUFFICES ASSUME NEW k \in 1 .. m
               PROVE  /\ MediaText(media[k])[1] = media[k].type
                      /\ l[k] = 3 => MediaText(media[k])[2] = Semicolon /\ MediaText(media[k])[3] = Quality
      OBVIOUS
  <2>1. l[k] = Len(MediaText(media[k]))
      OBVIOUS
  <2> HIDE DEF l
  <2>2. PICK x : x = media[k]
      OBVIOUS
  <2>3. x.quality \in BOOLEAN
      BY <1>1, <2>2
  <2>4. TypeFirst(x, MediaText(x))
      BY <2>3, MediaSays
  <2> QED BY <2>1, <2>2, <2>4 DEF TypeFirst
<1> HIDE DEF at, l
<1>4. ASSUME NEW k \in 1 .. m, media[k].type = Sdp PROVE Alone(w, at[k]) /\ at[k] \in 1 .. Len(w)
  <2>1. /\ at[k] \in Nat /\ at[k] >= 1 /\ l[k] \in {1, 3}
        /\ at[k] + l[k] - 1 <= Len(w) /\ Len(w) \in Nat
        /\ k = m => Len(w) = at[k] + l[k] - 1
        /\ k < m => w[at[k] + l[k]] = Comma
      BY <1>2
  <2>2. \A i \in 1 .. l[k] : w[at[k] + i - 1] = MediaText(media[k])[i]
      BY <1>2
  <2>3. w[at[k]] = Sdp
    <3>1. 1 \in 1 .. l[k] /\ at[k] + 1 - 1 = at[k]
        BY <2>1
    <3> QED BY <1>3, <1>4, <2>2, <3>1
  <2>4. at[k] = 1 \/ \E i \in 1 .. at[k] - 1 :
            w[i] \in {Comma, Semicolon} /\ \A x \in i + 1 .. at[k] - 1 : w[x] = Blank
    <3>1. CASE k = 1
        BY <1>1, <1>2, <3>1
    <3>2. CASE k > 1
      <4>1. k - 1 \in 1 .. m /\ k - 1 < m /\ (k - 1) + 1 = k
          BY <1>1, <3>2
      <4> DEFINE i == at[k - 1] + l[k - 1]
      <4>2. at[k - 1] \in Nat /\ at[k - 1] >= 1 /\ l[k - 1] \in {1, 3} /\ at[k] = i + 2
            /\ w[i] = Comma /\ w[i + 1] = Blank
          BY <1>2, <4>1
      <4>3. i \in Nat /\ i >= 1
          BY <4>2
      <4> HIDE DEF i
      <4>4. i \in 1 .. at[k] - 1 /\ \A x \in i + 1 .. at[k] - 1 : x = i + 1
          BY <4>2, <4>3
      <4> QED BY <4>2, <4>4
    <3> QED BY <1>1, <3>1, <3>2
  <2>5. at[k] = Len(w) \/ w[at[k] + 1] \in {Comma, Semicolon}
    <3>1. CASE l[k] = 1
        BY <1>1, <2>1, <3>1
    <3>2. CASE l[k] = 3
      <4>1. 2 \in 1 .. l[k] /\ at[k] + 2 - 1 = at[k] + 1
          BY <2>1, <3>2
      <4> QED BY <1>3, <2>2, <3>2, <4>1
    <3> QED BY <2>1, <3>1, <3>2
  <2>6. at[k] \in 1 .. Len(w)
      BY <2>1
  <2> QED BY <2>3, <2>4, <2>5, <2>6 DEF Alone
<1>5. ASSUME NEW t \in 1 .. Len(w), w[t] = Sdp PROVE \E k \in 1 .. m : media[k].type = Sdp
  <2>1. m > 0 /\ t \in Nat /\ t >= 1
    <3>1. Len(w) # 0 /\ t \in Nat /\ t >= 1
        BY <1>2
    <3> QED BY <1>1, <1>2, <3>1
  <2>2. \A k \in 1 .. m : at[k] \in Nat /\ l[k] \in Nat
      BY <1>2
  <2>3. t <= at[m] + l[m] - 1
    <3>1. m \in 1 .. m
        BY <1>1, <2>1
    <3> QED BY <1>2, <3>1
  <2>4. Inside(t, m, at, l)
    <3>1. Tiles(m, at, l)
        BY <1>1, <1>2, <2>1, <2>2 DEF Tiles
    <3> HIDE DEF m
    <3> QED BY <2>1, <2>3, <3>1, Tiled
  <2>k. PICK k \in 1 .. m : /\ at[k] <= t
                            /\ \/ t < at[k] + l[k]
                               \/ k < m /\ (t = at[k] + l[k] \/ t = at[k] + l[k] + 1)
      BY <2>4 DEF Inside
  <2>5. CASE t < at[k] + l[k]
    <3> DEFINE i == t - at[k] + 1
    <3>1. at[k] \in Nat /\ l[k] \in {1, 3}
        BY <1>2
    <3>2. i \in 1 .. l[k] /\ at[k] + i - 1 = t
        BY <2>1, <2>k, <2>5, <3>1
    <3> HIDE DEF i
    <3>3. w[t] = MediaText(media[k])[i]
      <4>1. w[at[k] + i - 1] = MediaText(media[k])[i]
          BY <1>2, <3>2
      <4> QED BY <3>2, <4>1
    <3>4. i = 1 \/ (l[k] = 3 /\ i \in {2, 3})
        BY <3>1, <3>2
    <3> QED BY <1>3, <1>5, <3>3, <3>4, SdpDiffers
  <2>6. CASE k < m /\ (t = at[k] + l[k] \/ t = at[k] + l[k] + 1)
    <3>1. w[at[k] + l[k]] = Comma /\ w[at[k] + l[k] + 1] = Blank
        BY <1>2, <2>6
    <3>2. w[t] = Comma \/ w[t] = Blank
        BY <2>6, <3>1
    <3> QED BY <1>5, <3>2, SdpDiffers
  <2> QED BY <2>k, <2>5, <2>6
<1>6. (\E t \in 1 .. Len(w) : Alone(w, t)) <=> \E k \in 1 .. m : media[k].type = Sdp
    BY <1>4, <1>5 DEF Alone
<1> QED BY <1>6, <1>m, <1>w, ScanIsAlone, Zenon

\* The status codes that are set stand in the table, in their order.
LEMMA StatusRows ==
    /\ Len(response_status) = 43
    /\ response_status[2] = 200 /\ Pivot(response_status, 2)
    /\ response_status[16] = 406 /\ Pivot(response_status, 16)
<1>1. Len(response_status) = 43 /\ response_status[2] = 200 /\ response_status[16] = 406
    BY DEF response_status
<1>2. \A i \in 1 .. 43 : (i < 2 => response_status[i] < 200) /\ (i > 2 => 200 < response_status[i])
    BY SMTT(60) DEF response_status
<1>3. \A i \in 1 .. 43 : (i < 16 => response_status[i] < 406) /\ (i > 16 => 406 < response_status[i])
    BY SMTT(60) DEF response_status
<1> QED BY <1>1, <1>2, <1>3 DEF Pivot

\* So they are found.
LEMMA StatusFound ==
    ASSUME SearchInv, NotPassed, pc = "status", key \in {200, 406}, TakeStatus
    PROVE  res'.status = key
<1>1. table = response_status /\ Done
    BY DEF SearchInv, TakeStatus
<1>2. \E j \in 1 .. Len(table) : table[j] = key /\ Pivot(table, j)
    BY <1>1, StatusRows
<1>3. hit # 0
  <2> SUFFICES ASSUME hit = 0 PROVE FALSE
      OBVIOUS
  <2>1. PICK j \in 1 .. Len(table) : s < j /\ j <= g
      BY <1>2 DEF NotPassed
  <2>2. ~(s < g)
      BY <1>1 DEF Done, Searching
  <2>3. s \in Int /\ g \in Int
      BY DEF SearchInv, LookupInv, LookupTypeOK
  <2> QED BY <2>1, <2>2, <2>3
<1>4. table[hit] = key
    BY <1>3 DEF SearchInv, LookupInv, HitIsKey
<1>5. res' = [res EXCEPT !.status = response_status[hit]]
    BY <1>3 DEF TakeStatus
<1> QED BY <1>1, <1>4, <1>5

\* Header k is a list of types with, or without, application/sdp.
Lists(header) == \E i \in 1 .. Len(header.says) : header.says[i].type = Sdp
Grants(k) == msg.headers[k].name = "Accept" /\ Lists(msg.headers[k])
Refuses(k) == msg.headers[k].name = "Accept" /\ ~Lists(msg.headers[k])

\* What the headers before n have made of the status and the entity.
StatusSoFar == IF \E k \in 1 .. n - 1 : Refuses(k) THEN 406 ELSE 200
EntitySoFar == IF \E k \in 1 .. n - 1 : Grants(k) THEN "type" ELSE "none"

StatusInv ==
    /\ pc = "status" => key = StatusSoFar
    /\ pc \in {"handle", "transport", "add", "todo"} => res.status = StatusSoFar
    /\ pc \in {"status", "handle", "transport"} => res.entity = EntitySoFar
    /\ pc \in {"add", "todo"} =>
        res.entity = IF EntitySoFar = "type" /\ msg.method = "DESCRIBE" THEN "sdp" ELSE EntitySoFar

\* How far the two headers of a description have been added to a response.
NoBody(m) == \A k \in 1 .. m : res.fields[k].name \notin {"Content-Type", "Content-Length"}
Described(m) ==
    \/ res.entity # "sdp" /\ todo = <<>> /\ NoBody(m)
    \/ res.entity = "sdp" /\ todo = process_method_describe /\ NoBody(m)
    \/ /\ res.entity = "sdp" /\ todo = Tail(process_method_describe)
       /\ m > 0 /\ NoBody(m - 1) /\ res.fields[m].name = "Content-Type"
    \/ /\ res.entity = "sdp" /\ todo = <<>>
       /\ m > 1 /\ NoBody(m - 2)
       /\ res.fields[m - 1].name = "Content-Type" /\ res.fields[m].name = "Content-Length"

DescribeInv == pc \in {"add", "todo"} /\ msg.method = "DESCRIBE" => Described(Len(res.fields))

\* What was made of the headers is the same as long as they and n are, and when n
\* has passed a header that is no list of types.
LEMMA SoFarKept ==
    ASSUME FieldsInv, msg' = msg,
           n' = n \/ (n' = n + 1 /\ msg.headers[n].name # "Accept")
    PROVE  StatusSoFar' = StatusSoFar /\ EntitySoFar' = EntitySoFar
<1>1. \A k : Refuses(k)' = Refuses(k) /\ Grants(k)' = Grants(k)
    BY DEF Refuses, Grants, Lists
<1>2. (~Refuses(n) /\ ~Grants(n)) \/ n' = n
    BY DEF Refuses, Grants
<1>3. n \in Nat
    BY DEF FieldsInv
<1>4. \A k : k \in 1 .. n' - 1 => k \in 1 .. n - 1 \/ (k = n /\ n' # n)
    BY <1>3
<1>5. \A k : k \in 1 .. n - 1 => k \in 1 .. n' - 1
    BY <1>3
<1>6. /\ (\E k \in 1 .. n' - 1 : Refuses(k)') <=> \E k \in 1 .. n - 1 : Refuses(k)
      /\ (\E k \in 1 .. n' - 1 : Grants(k)') <=> \E k \in 1 .. n - 1 : Grants(k)
    BY <1>1, <1>2, <1>4, <1>5
<1> QED BY <1>6 DEF StatusSoFar, EntitySoFar

\* A list that grants or refuses does so from now on.
LEMMA SoFarDecided ==
    ASSUME FieldsInv, msg' = msg, n' = n + 1, n >= 1, msg.headers[n].name = "Accept"
    PROVE  /\ Lists(msg.headers[n]) => StatusSoFar' = StatusSoFar /\ EntitySoFar' = "type"
           /\ ~Lists(msg.headers[n]) => StatusSoFar' = 406 /\ EntitySoFar' = EntitySoFar
<1>1. \A k : Refuses(k)' = Refuses(k) /\ Grants(k)' = Grants(k)
    BY DEF Refuses, Grants, Lists
<1>2. /\ Grants(n) <=> Lists(msg.headers[n])
      /\ Refuses(n) <=> ~Lists(msg.headers[n])
    BY DEF Refuses, Grants
<1>3. n \in Nat
    BY DEF FieldsInv
<1>4. /\ n \in 1 .. n' - 1
      /\ \A k : k \in 1 .. n' - 1 <=> k \in 1 .. n - 1 \/ k = n
    BY <1>3
<1>5. /\ Lists(msg.headers[n]) =>
            /\ (\E k \in 1 .. n' - 1 : Refuses(k)') <=> \E k \in 1 .. n - 1 : Refuses(k)
            /\ \E k \in 1 .. n' - 1 : Grants(k)'
      /\ ~Lists(msg.headers[n]) =>
            /\ (\E k \in 1 .. n' - 1 : Grants(k)') <=> \E k \in 1 .. n - 1 : Grants(k)
            /\ \E k \in 1 .. n' - 1 : Refuses(k)'
    BY <1>1, <1>2, <1>4
<1> QED BY <1>5 DEF StatusSoFar, EntitySoFar

\* Which header is handled.
LEMMA AtHandle ==
    ASSUME FieldsInv, pc = "handle", ~Handled
    PROVE  n \in 1 .. Len(msg.headers) /\ fields[n] \in {"NULL", msg.headers[n].name} /\ n \in Nat
<1>1. Len(fields) = Len(msg.headers) /\ Len(fields) \in Nat /\ n \in 1 .. Len(fields) + 1
    BY MessageFacts DEF FieldsInv, Answering
<1>2. n \in 1 .. Len(fields)
    BY <1>1 DEF Handled
<1>3. fields[n] \in {"NULL", msg.headers[n].name}
    BY <1>2 DEF FieldsInv, Answering
<1> QED BY <1>1, <1>2, <1>3

\* An answer has a status and an entity.
LEMMA SoFarTypes == StatusSoFar \in {200, 406} /\ EntitySoFar \in {"none", "type"}
BY DEF StatusSoFar, EntitySoFar

\* A list of types grants or refuses.
LEMMA AcceptDecides ==
    ASSUME FieldsInv, ResInv, StatusInv, HandleAccept
    PROVE  StatusInv'
<1>1. /\ pc = "handle" /\ ~Handled /\ fields[n] = "Accept" /\ n' = n + 1 /\ msg' = msg
      /\ msg \in Requests
    BY DEF HandleAccept, Handling, FieldsInv
<1>2. n \in 1 .. Len(msg.headers) /\ msg.headers[n].name = "Accept" /\ n >= 1
    BY <1>1, AtHandle
<1>3. AcceptScan(Words) <=> Lists(msg.headers[n])
    BY <1>1, <1>2, AcceptScanIs DEF Words, Lists
<1>4. res.status = StatusSoFar /\ res.entity = EntitySoFar /\ res \in Response
    BY <1>1 DEF StatusInv, ResInv
<1>5. CASE Lists(msg.headers[n])
  <2>1. StatusSoFar' = StatusSoFar /\ EntitySoFar' = "type"
      BY <1>1, <1>2, <1>5, SoFarDecided
  <2>2. res' = [res EXCEPT !.entity = "type"] /\ pc' = "handle"
      BY <1>1, <1>3, <1>5 DEF HandleAccept
  <2>3. res'.entity = "type" /\ res'.status = res.status
      BY <1>4, <2>2 DEF Response
  <2> QED BY <1>4, <2>1, <2>2, <2>3 DEF StatusInv
<1>6. CASE ~Lists(msg.headers[n])
  <2>1. StatusSoFar' = 406 /\ EntitySoFar' = EntitySoFar
      BY <1>1, <1>2, <1>6, SoFarDecided
  <2>2. key' = 406 /\ pc' = "status" /\ res' = res
      BY <1>3, <1>6 DEF HandleAccept, Start
  <2> QED BY <1>4, <2>1, <2>2 DEF StatusInv
<1> QED BY <1>5, <1>6

\* The status and the entity are what the headers so far have made of them.
LEMMA StatusStep ==
    ASSUME FieldsInv, TodoInv, SearchInv, ResInv, FoundInv, StatusInv, [Next]_vars
    PROVE  StatusInv'
<1>0. res \in Response /\ n \in Nat /\ NotPassed
    BY DEF ResInv, FieldsInv, FoundInv
<1>n. ASSUME pc' \notin {"status", "handle", "transport", "add", "todo"} PROVE StatusInv'
    BY <1>n DEF StatusInv
<1>k. ASSUME msg' = msg, n' = n \/ (n' = n + 1 /\ msg.headers[n].name # "Accept")
      PROVE  StatusSoFar' = StatusSoFar /\ EntitySoFar' = EntitySoFar
    BY <1>k, SoFarKept
<1>s. ASSUME msg' = msg, n' = n \/ (n' = n + 1 /\ msg.headers[n].name # "Accept"),
             res'.status = res.status, res'.entity = res.entity,
             pc \in {"handle", "transport"}, pc' \in {"handle", "transport"}
      PROVE  StatusInv'
  <2>1. StatusSoFar' = StatusSoFar /\ EntitySoFar' = EntitySoFar
      BY <1>k, <1>s
  <2> QED BY <1>s, <2>1 DEF StatusInv
<1>13. CASE Failing
    BY <1>13, <1>n, FailingStops
<1>1. CASE Receive \/ ParseLine \/ ParseLineCut \/ ParseLineShort \/ ParseHeader \/ ParseHeaderCut
           \/ Parsed \/ TakeField
    BY <1>1, <1>n DEF Receive, ParseLine, ParseLineCut, ParseLineShort, ParseHeader, ParseHeaderCut, Parsed, TakeField
<1>2. CASE HandleUnknown \/ Respond
    BY <1>2, <1>n DEF HandleUnknown, Respond
<1>3. CASE Compare \/ NextSet \/ NextHeader \/ UNCHANGED vars
  <2>1. msg' = msg /\ res' = res /\ n' = n
      BY <1>3 DEF Compare, NextSet, NextHeader, vars, parseVars, replyVars
  <2>2. pc' = pc \/ (pc = "add" /\ pc' = "todo")
      BY <1>3 DEF Compare, NextSet, NextHeader, vars
  <2>3. pc = "status" => key' = key
      BY <1>3 DEF Compare, Look, GoLeft, GoRight, Hit, NextSet, NextHeader, vars, lookupVars
  <2>4. StatusSoFar' = StatusSoFar /\ EntitySoFar' = EntitySoFar
      BY <1>k, <2>1
  <2> QED BY <2>1, <2>2, <2>3, <2>4 DEF StatusInv
<1>4. CASE TakeStatus
  <2>1. pc = "status" /\ pc' = "handle" /\ msg' = msg /\ n' = n
      BY <1>4 DEF TakeStatus, parseVars
  <2>2. StatusSoFar' = StatusSoFar /\ EntitySoFar' = EntitySoFar
      BY <1>k, <2>1
  <2>3. key = StatusSoFar /\ res.entity = EntitySoFar
      BY <2>1 DEF StatusInv
  <2>4. res'.status = key
      BY <1>0, <1>4, <2>1, <2>3, SoFarTypes, StatusFound
  <2>5. res'.entity = res.entity
      BY <1>0, <1>4 DEF TakeStatus, Response
  <2> QED BY <2>1, <2>2, <2>3, <2>4, <2>5 DEF StatusInv
<1>5. CASE ProcessHeader
  <2>1. pc = "process" /\ res.version = ""
      BY <1>5 DEF ProcessHeader, ResInv
  <2>a. SUFFICES ASSUME ~VersionEmpty(msg) PROVE StatusInv'
    <3>1. CASE VersionEmpty(msg)
        BY <1>5, <1>n, <3>1 DEF ProcessHeader
    <3> QED BY <3>1
  <2>2. /\ res' = [res EXCEPT !.fields = <<>>, !.entity = "none"] /\ n' = 1
        /\ key' = 200 /\ pc' = "status"
      BY <1>5, <2>1, <2>a DEF ProcessHeader, Start
  <2>3. res'.entity = "none"
      BY <1>0, <2>2 DEF Response
  <2>4. StatusSoFar' = 200 /\ EntitySoFar' = "none"
    <3>1. \A k : ~(k \in 1 .. n' - 1)
        BY <2>2
    <3> QED BY <3>1 DEF StatusSoFar, EntitySoFar
  <2> QED BY <2>2, <2>3, <2>4 DEF StatusInv
<1>6. CASE HandleTransport
    BY <1>6, <1>s DEF HandleTransport, Handling, parseVars
<1>7. CASE HandleDefault \/ HandleCSeq
  <2>1. /\ pc = "handle" /\ ~Handled /\ msg' = msg /\ n' = n + 1
        /\ fields[n] \notin {"NULL", "Accept"}
      BY <1>7 DEF HandleDefault, HandleCSeq, Handling
  <2>2. msg.headers[n].name # "Accept"
      BY <2>1, AtHandle
  <2>3. res'.status = res.status /\ res'.entity = res.entity
    <3>1. CASE HandleDefault
        BY <3>1 DEF HandleDefault, replyVars
    <3>2. CASE HandleCSeq
        BY <1>0, <3>2 DEF HandleCSeq, AddHeader, Response
    <3> QED BY <1>7, <3>1, <3>2
  <2>4. pc' \in {"handle", "aborted"}
      BY <1>7, <2>1 DEF HandleDefault, HandleCSeq, Room
  <2> QED BY <1>n, <1>s, <2>1, <2>2, <2>3, <2>4
<1>8. CASE HandleAccept
    BY <1>8, AcceptDecides
<1>9. CASE TransportWord \/ TransportProtocol \/ TransportCast \/ TransportParameter
           \/ TransportKey \/ TransportComma
  <2>1. msg' = msg /\ res' = res /\ n' = n /\ pc = "transport" /\ pc' \in {"transport", "aborted"}
      BY <1>9 DEF TransportWord, TransportProtocol, TransportCast, TransportParameter,
            TransportKey, TransportComma, At, Scanning, ScanRest, parseVars
  <2> QED BY <1>n, <1>s, <2>1
<1>10. CASE TransportAnswer
  <2>1. pc = "transport" /\ pc' \in {"handle", "aborted"} /\ msg' = msg /\ n' = n + 1
      BY <1>10 DEF TransportAnswer, Scanned, Room
  <2>2. msg.headers[n].name = "Transport"
      BY <2>1, AtTransport
  <2>3. UNCHANGED res \/ \E place \in Nat : AddHeader("Transport", "tmp", place)
      BY <1>10, AnswerWritten
  <2>4. res'.status = res.status /\ res'.entity = res.entity
      BY <1>0, <2>3 DEF AddHeader, Response
  <2> QED BY <1>n, <1>s, <2>1, <2>2, <2>4
<1>11. CASE Method
  <2>1. /\ pc = "handle" /\ pc' = "add" /\ msg' = msg /\ n' = n
        /\ res' = [res EXCEPT !.entity = IF msg.method = "DESCRIBE" /\ @ # "none" THEN "sdp" ELSE @]
      BY <1>11 DEF Method, parseVars
  <2>2. StatusSoFar' = StatusSoFar /\ EntitySoFar' = EntitySoFar
      BY <1>k, <2>1
  <2>3. res.status = StatusSoFar /\ res.entity = EntitySoFar
      BY <2>1 DEF StatusInv
  <2>4. /\ res'.status = res.status
        /\ res'.entity = IF msg.method = "DESCRIBE" /\ res.entity # "none" THEN "sdp" ELSE res.entity
      BY <1>0, <2>1 DEF Response
  <2> QED BY <2>1, <2>2, <2>3, <2>4, SoFarTypes DEF StatusInv
<1>12. CASE AddNext
  <2>1. /\ pc = "todo" /\ pc' \in {"add", "aborted"} /\ msg' = msg /\ n' = n
        /\ AddHeader(RowFound, "tmp", b)
      BY <1>12 DEF AddNext, parseVars, Room
  <2>2. StatusSoFar' = StatusSoFar /\ EntitySoFar' = EntitySoFar
      BY <1>k, <2>1
  <2>3. res'.status = res.status /\ res'.entity = res.entity
      BY <1>0, <2>1 DEF AddHeader, Response
  <2> QED BY <2>1, <2>2, <2>3 DEF StatusInv
<1> QED BY <1>1, <1>2, <1>3, <1>4, <1>5, <1>6, <1>7, <1>8, <1>9, <1>10, <1>11, <1>12,
           <1>13 DEF Next, Step, Transport, Failing

\* The two headers of a description.
LEMMA TwoOfDescription ==
    LET todo1 == process_method_describe IN
    /\ todo1 # << >> /\ Head(todo1).name = "Content-Type"
    /\ Tail(todo1) # << >> /\ Head(Tail(todo1)).name = "Content-Length"
    /\ Tail(Tail(todo1)) = << >>
<1>1. PICK type, length :
        /\ type = Header("Content-Type", "entity", <<"application/sdp">>)
        /\ length = Header("Content-Length", "entity", <<EntityLength>>)
    OBVIOUS
<1>2. type.name = "Content-Type" /\ length.name = "Content-Length"
    BY <1>1 DEF Header
<1>3. process_method_describe = <<type, length>>
    BY <1>1, Zenon DEF process_method_describe
<1>4. PICK S : S = {type, length}
    OBVIOUS
<1>5. /\ <<type, length>> # << >> /\ Head(<<type, length>>) = type
      /\ Tail(<<type, length>>) = <<length>>
      /\ <<length>> # << >> /\ Head(<<length>>) = length /\ Tail(<<length>>) = << >>
    OBVIOUS
<1> QED BY <1>2, <1>3, <1>5, Zenon

\* One of them is added.
LEMMA OneMoreDescribed ==
    ASSUME NEW m \in Nat, Described(m), todo # << >>, todo' = Tail(todo),
           res'.entity = res.entity, \A k \in 1 .. m : res'.fields[k] = res.fields[k],
           res'.fields[m + 1].name = Head(todo).name
    PROVE  Described(m + 1)'
<1> DEFINE todo1 == process_method_describe
<1>1. /\ todo1 # << >> /\ Head(todo1).name = "Content-Type"
      /\ Tail(todo1) # << >> /\ Head(Tail(todo1)).name = "Content-Length"
      /\ Tail(Tail(todo1)) = << >>
    BY TwoOfDescription
<1> HIDE DEF todo1
<1>2. \A k \in 0 .. m : NoBody(k) => NoBody(k)'
    BY DEF NoBody
<1>p. PICK after : after = m + 1
    OBVIOUS
<1>3. CASE todo = todo1 /\ res.entity = "sdp" /\ NoBody(m)
  <2>1. NoBody(m)' /\ todo' = Tail(todo1) /\ res'.entity = "sdp"
      BY <1>2, <1>3
  <2>2. after > 0 /\ after - 1 = m /\ res'.fields[after].name = "Content-Type"
      BY <1>1, <1>3, <1>p
  <2>3. NoBody(after - 1)'
      BY <2>1, <2>2 DEF NoBody
  <2>4. Described(after)'
      BY <2>1, <2>2, <2>3 DEF Described, todo1
  <2> QED BY <1>p, <2>4 DEF Described, NoBody
<1>4. CASE /\ res.entity = "sdp" /\ todo = Tail(todo1)
           /\ m > 0 /\ NoBody(m - 1) /\ res.fields[m].name = "Content-Type"
  <2>1. NoBody(m - 1)' /\ todo' = << >> /\ res'.entity = "sdp"
      BY <1>1, <1>2, <1>4
  <2>2. /\ after > 1 /\ after - 2 = m - 1 /\ after - 1 = m
        /\ res'.fields[after].name = "Content-Length" /\ res'.fields[after - 1].name = "Content-Type"
    <3>1. after > 1 /\ after - 2 = m - 1 /\ after - 1 = m /\ m \in 1 .. m
        BY <1>4, <1>p
    <3>2. res'.fields[after].name = Head(todo).name /\ Head(todo).name = "Content-Length"
        BY <1>1, <1>4, <1>p, Zenon
    <3>3. res'.fields[m].name = "Content-Type"
        BY <1>4, <3>1, Zenon
    <3> QED BY <3>1, <3>2, <3>3
  <2>3. NoBody(after - 2)'
      BY <2>1, <2>2 DEF NoBody
  <2>4. Described(after)'
      BY <2>1, <2>2, <2>3 DEF Described, todo1
  <2> QED BY <1>p, <2>4 DEF Described, NoBody
<1> QED BY <1>3, <1>4 DEF Described, todo1

\* What the method makes of the entity.
LEMMA MethodDescribes ==
    ASSUME ResInv, AnswerInv, StatusInv, Method
    PROVE  DescribeInv'
<1>1. /\ pc = "handle" /\ Answering /\ msg' = msg
      /\ res' = [res EXCEPT !.entity = IF msg.method = "DESCRIBE" /\ @ # "none" THEN "sdp" ELSE @]
    BY DEF Method, parseVars, Answering
<1>2. res \in Response
    BY DEF ResInv
<1>3. \A k \in 1 .. Len(res.fields) : res.fields[k].name \in {"CSeq", "Transport"}
    BY <1>1 DEF AnswerInv, RightText
<1>4. /\ res'.fields = res.fields
      /\ res'.entity = IF msg.method = "DESCRIBE" /\ res.entity # "none" THEN "sdp" ELSE res.entity
    BY <1>1, <1>2 DEF Response
<1>5. NoBody(Len(res.fields))'
  <2>1. \A k \in 1 .. Len(res'.fields) : res'.fields[k].name \in {"CSeq", "Transport"}
      BY <1>3, <1>4
  <2> QED BY <2>1 DEF NoBody
<1>6. ASSUME msg.method = "DESCRIBE" PROVE Described(Len(res.fields))'
  <2>1. CASE res.entity = "none"
    <3>1. todo' = << >> /\ res'.entity = "none"
        BY <1>4, <1>6, <2>1 DEF Method
    <3> QED BY <1>5, <3>1 DEF Described
  <2>2. CASE res.entity # "none"
    <3>1. todo' = process_method_describe /\ res'.entity = "sdp"
        BY <1>4, <1>6, <2>2 DEF Method
    <3> QED BY <1>5, <3>1 DEF Described
  <2> QED BY <2>1, <2>2
<1> QED BY <1>1, <1>6 DEF DescribeInv

\* The headers of a description come last, in their order, and only where it is granted.
LEMMA DescribeStep ==
    ASSUME TodoInv, SearchInv, ResInv, AnswerInv, StatusInv, DescribeInv, [Next]_vars
    PROVE  DescribeInv'
<1>n. ASSUME pc' \notin {"add", "todo"} PROVE DescribeInv'
    BY <1>n DEF DescribeInv
<1>8. CASE Failing
    BY <1>8, <1>n, FailingStops
<1>1. CASE Receive \/ ParseLine \/ ParseLineCut \/ ParseLineShort \/ ParseHeader \/ ParseHeaderCut
           \/ Parsed \/ TakeField
    BY <1>1, <1>n DEF Receive, ParseLine, ParseLineCut, ParseLineShort, ParseHeader, ParseHeaderCut, Parsed, TakeField
<1>2. CASE TakeStatus \/ ProcessHeader \/ HandleDefault \/ HandleUnknown \/ HandleCSeq \/ HandleAccept
    BY <1>2, <1>n, ZenonT(60) DEF TakeStatus, ProcessHeader, HandleDefault, HandleUnknown, HandleCSeq,
        HandleAccept, Handling, Room
<1>3. CASE HandleTransport \/ Respond
    BY <1>3, <1>n DEF HandleTransport, Respond
<1>4. CASE Transport
    BY <1>4, <1>n, ZenonT(60) DEF Transport, TransportWord, TransportProtocol, TransportCast,
        TransportParameter, TransportKey, TransportComma, TransportAnswer, At, Scanning, Scanned, Room
<1>5. CASE Compare \/ NextSet \/ NextHeader \/ UNCHANGED vars
  <2>1. msg' = msg /\ res' = res /\ todo' = todo
      BY <1>5 DEF Compare, NextSet, NextHeader, vars, parseVars, replyVars
  <2>2. pc' \in {"add", "todo"} => pc \in {"add", "todo"}
      BY <1>5 DEF Compare, NextSet, NextHeader, vars
  <2>3. Described(Len(res.fields)) => Described(Len(res.fields))'
      BY <2>1 DEF Described, NoBody
  <2> QED BY <2>1, <2>2, <2>3 DEF DescribeInv
<1>6. CASE Method
    BY <1>6, MethodDescribes
<1>7. CASE AddNext
  <2>1. /\ pc = "todo" /\ hit # 0 /\ msg' = msg /\ todo' = Tail(todo) /\ AddHeader(RowFound, "tmp", b)
        /\ res \in Response
      BY <1>7 DEF AddNext, parseVars, ResInv
  <2>2. PICK name : name = RowFound
      OBVIOUS
  <2>3. name \in Names /\ name = Head(todo).name /\ todo # << >>
      BY <2>1, <2>2, AdditionFound, SixAreNames DEF Six, TodoInv
  <2>4. AddHeader(name, "tmp", b) /\ "tmp" \in {"req", "tmp"} /\ b \in Nat
      BY <2>1, <2>2 DEF ResInv
  <2>5. /\ Len(res'.fields) = Len(res.fields) + 1 /\ Len(res.fields) \in Nat
        /\ \A k \in 1 .. Len(res.fields) : res'.fields[k] = res.fields[k]
        /\ res'.fields[Len(res.fields) + 1].name = name
      BY <2>1, <2>3, <2>4, FieldAdded, ZenonT(40)
  <2>6. res'.entity = res.entity
      BY <2>1 DEF AddHeader, Response
  <2>7. PICK m \in Nat : m = Len(res.fields)
      BY <2>5
  <2>8. ASSUME Described(m) PROVE Described(m + 1)'
      BY <2>1, <2>3, <2>5, <2>6, <2>7, <2>8, OneMoreDescribed
  <2>9. Described(Len(res.fields)) => Described(Len(res.fields))'
    <3>1. Described(Len(res.fields)) => Described(m)
        BY <2>7
    <3>2. PICK k : k = Len(res'.fields) /\ k = m + 1
        BY <2>5, <2>7
    <3>3. Described(m + 1)' => Described(k)'
        BY <3>2 DEF Described, NoBody
    <3>4. Described(k)' => Described(Len(res.fields))'
        BY <3>2 DEF Described, NoBody
    <3> QED BY <2>8, <3>1, <3>3, <3>4
  <2> QED BY <2>1, <2>9 DEF DescribeInv
<1> QED BY <1>1, <1>2, <1>3, <1>4, <1>5, <1>6, <1>7, <1>8 DEF Next, Step, Failing

\* What one list of types makes of the status and the entity.
LEMMA OneListDecides ==
    ASSUME NEW j \in 1 .. n - 1, Only("Accept", j), n - 1 = Len(msg.headers)
    PROVE  /\ StatusSoFar = IF Lists(msg.headers[j]) THEN 200 ELSE 406
           /\ EntitySoFar = IF Lists(msg.headers[j]) THEN "type" ELSE "none"
<1>1. /\ msg.headers[j].name = "Accept"
      /\ \A k \in 1 .. n - 1 : msg.headers[k].name = "Accept" => k = j
    BY DEF Only
<1>2. /\ (\E k \in 1 .. n - 1 : Refuses(k)) <=> ~Lists(msg.headers[j])
      /\ (\E k \in 1 .. n - 1 : Grants(k)) <=> Lists(msg.headers[j])
    BY <1>1 DEF Refuses, Grants
<1> QED BY <1>2 DEF StatusSoFar, EntitySoFar

\* How many answers have a name of the description's.
LEMMA BodyWritten ==
    ASSUME ResInv, Respond, Described(Len(res.fields))
    PROVE  /\ Len(AnswersOf("Content-Type")') = IF res.entity = "sdp" THEN 1 ELSE 0
           /\ Len(AnswersOf("Content-Length")') = IF res.entity = "sdp" THEN 1 ELSE 0
<1> DEFINE m == Len(res.fields)
<1>1. todo = << >> /\ m \in Nat
    BY FieldsWritten DEF Respond
<1>2. process_method_describe # << >> /\ Tail(process_method_describe) # << >>
    BY TwoOfDescription
<1> HIDE DEF m
<1>3. CASE res.entity # "sdp" /\ NoBody(m)
  <2>1. /\ \A k \in 1 .. m : res.fields[k].name = "Content-Type" <=> k = 0
        /\ \A k \in 1 .. m : res.fields[k].name = "Content-Length" <=> k = 0
      BY <1>1, <1>3 DEF NoBody
  <2>2. /\ AnswersOf("Content-Type")' = IF 0 \in 1 .. m THEN <<Pointed(res.fields[0])>> ELSE << >>
        /\ AnswersOf("Content-Length")' = IF 0 \in 1 .. m THEN <<Pointed(res.fields[0])>> ELSE << >>
      BY <2>1, AnswersUnder DEF m
  <2>3. AnswersOf("Content-Type")' = << >> /\ AnswersOf("Content-Length")' = << >>
      BY <2>2
  <2> QED BY <1>3, <2>3
<1>4. CASE /\ res.entity = "sdp" /\ m > 1 /\ NoBody(m - 2)
           /\ res.fields[m - 1].name = "Content-Type" /\ res.fields[m].name = "Content-Length"
  <2>1. /\ m \in Nat /\ m - 1 \in Nat /\ m \in 1 .. m /\ m - 1 \in 1 .. m /\ m - 1 # m
        /\ \A k \in 1 .. m : k = m \/ k = m - 1 \/ k \in 1 .. m - 2
        /\ \A k \in 1 .. m - 2 : k # m /\ k # m - 1
      BY <1>1, <1>4
  <2>2. /\ \A k \in 1 .. m : res.fields[k].name = "Content-Type" <=> k = m - 1
        /\ \A k \in 1 .. m : res.fields[k].name = "Content-Length" <=> k = m
      BY <1>4, <2>1 DEF NoBody
  <2>3. AnswersOf("Content-Type")' =
            IF m - 1 \in 1 .. m THEN <<Pointed(res.fields[m - 1])>> ELSE << >>
      BY <2>1, <2>2, AnswersUnder DEF m
  <2>4. AnswersOf("Content-Length")' = IF m \in 1 .. m THEN <<Pointed(res.fields[m])>> ELSE << >>
      BY <2>1, <2>2, AnswersUnder DEF m
  <2>5. /\ AnswersOf("Content-Type")' = <<Pointed(res.fields[m - 1])>>
        /\ AnswersOf("Content-Length")' = <<Pointed(res.fields[m])>>
      BY <2>1, <2>3, <2>4
  <2> QED BY <1>4, <2>5
<1> QED BY <1>1, <1>2, <1>3, <1>4 DEF Described, m

\* The message that is written describes or refuses.
LEMMA RespondDescribes ==
    ASSUME FieldsInv, ResInv, StatusInv, DescribeInv, Respond
    PROVE  DescribeAnswered'
<1>1. pc = "add" /\ Answering /\ msg' = msg /\ out'.status = res.status /\ out'.entity = res.entity
    BY DEF Respond, Answering, parseVars
<1>2. PICK said : said = Said(msg, "Accept")
    OBVIOUS
<1>3. Said(msg, "Accept")' = said
    BY <1>1, <1>2 DEF Said
<1>4. ASSUME msg.method = "DESCRIBE", Len(said) = 1, NEW media, media = said[1],
             NEW wanted \in BOOLEAN, wanted <=> \E k \in 1 .. Len(media) : media[k].type = Sdp
      PROVE  /\ out'.status = IF wanted THEN 200 ELSE 406
             /\ out'.entity = IF wanted THEN "sdp" ELSE "none"
             /\ Len(AnswersOf("Content-Type")') = IF wanted THEN 1 ELSE 0
             /\ Len(AnswersOf("Content-Length")') = IF wanted THEN 1 ELSE 0
  <2>1. PICK j \in 1 .. Len(msg.headers) : Only("Accept", j) /\ said = <<msg.headers[j].says>>
    <3>1. Len(Said(msg, "Accept")) = 1
        BY <1>2, <1>4
    <3> QED BY <1>2, <3>1, OnlyOne
  <2>2. wanted <=> Lists(msg.headers[j])
      BY <1>4, <2>1 DEF Lists
  <2>3. n - 1 = Len(msg.headers) /\ j \in 1 .. n - 1
    <3>1. n = Len(fields) + 1 /\ Len(fields) = Len(msg.headers) /\ Len(msg.headers) \in Nat
        BY <1>1, MessageFacts DEF FieldsInv
    <3> QED BY <3>1
  <2>4. /\ StatusSoFar = IF wanted THEN 200 ELSE 406
        /\ EntitySoFar = IF wanted THEN "type" ELSE "none"
      BY <2>1, <2>2, <2>3, OneListDecides
  <2>5. res.status = StatusSoFar /\ res.entity = IF EntitySoFar = "type" THEN "sdp" ELSE EntitySoFar
      BY <1>1, <1>4 DEF StatusInv
  <2>6. Described(Len(res.fields))
      BY <1>1, <1>4 DEF DescribeInv
  <2>7. /\ Len(AnswersOf("Content-Type")') = IF res.entity = "sdp" THEN 1 ELSE 0
        /\ Len(AnswersOf("Content-Length")') = IF res.entity = "sdp" THEN 1 ELSE 0
      BY <2>6, BodyWritten
  <2> QED BY <1>1, <2>4, <2>5, <2>7
<1>5. PICK types0, lengths, response : /\ types0 = AnswersOf("Content-Type")'
                                       /\ lengths = AnswersOf("Content-Length")' /\ response = out'
    OBVIOUS
<1>6. ASSUME msg.method = "DESCRIBE", Len(said) = 1
      PROVE  LET media == said[1]
                 wanted == \E k \in 1 .. Len(media) : media[k].type = Sdp
                 body == IF wanted THEN 1 ELSE 0
             IN /\ response.status = IF wanted THEN 200 ELSE 406
                /\ response.entity = IF wanted THEN "sdp" ELSE "none"
                /\ Len(types0) = body
                /\ Len(lengths) = body
  <2>1. PICK media : media = said[1]
      OBVIOUS
  <2>2. PICK wanted \in BOOLEAN : wanted <=> \E k \in 1 .. Len(media) : media[k].type = Sdp
      OBVIOUS
  <2>3. /\ response.status = IF wanted THEN 200 ELSE 406
        /\ response.entity = IF wanted THEN "sdp" ELSE "none"
        /\ Len(types0) = IF wanted THEN 1 ELSE 0
        /\ Len(lengths) = IF wanted THEN 1 ELSE 0
      BY <1>4, <1>5, <1>6, <2>1, <2>2
  <2> QED BY <2>1, <2>2, <2>3
<1> QED BY <1>1, <1>3, <1>5, <1>6, ZenonT(60) DEF DescribeAnswered, Sdp

(***************************************************************************)
(* What is answered to the choices                                         *)
(***************************************************************************)
\* The message that was written stays as it is until the next request comes.
LEMMA ChoicesStep ==
    ASSUME FieldsInv, ResInv, ConfirmInv, StatusInv, DescribeInv, ChoicesAnswered, [Next]_vars
    PROVE  ChoicesAnswered'
<1>1. CASE Respond
    BY <1>1, RespondConfirms, RespondDescribes DEF ChoicesAnswered
<1>2. ASSUME ~Answered' PROVE ChoicesAnswered'
    BY <1>2 DEF ChoicesAnswered, TransportAnswered, DescribeAnswered
<1>4. CASE UNCHANGED vars
  <2>1. msg' = msg /\ out' = out /\ pc' = pc /\ served' = served
      BY <1>4 DEF vars, parseVars, callVars
  <2>2. Answered' <=> Answered
      BY <2>1 DEF Answered, Whole
  <2>3. PICK offered, listed, answers, types0, lengths, response :
          /\ offered = Said(msg, "Transport") /\ listed = Said(msg, "Accept")
          /\ answers = AnswersOf("Transport") /\ types0 = AnswersOf("Content-Type")
          /\ lengths = AnswersOf("Content-Length") /\ response = out
      OBVIOUS
  <2>4. /\ Said(msg, "Transport")' = offered /\ Said(msg, "Accept")' = listed
        /\ AnswersOf("Transport")' = answers /\ AnswersOf("Content-Type")' = types0
        /\ AnswersOf("Content-Length")' = lengths /\ out' = response
      BY <2>1, <2>3 DEF Said, AnswersOf
  <2>5. TransportAnswered'
    <3>1. ASSUME Answered, Len(offered) = 1, NEW offers, offers = offered[1], Len(offers) > 0,
                 \A k \in 1 .. Len(offers) : offers[k].param # "none"
          PROVE  IF \E k \in 1 .. Len(offers) : offers[k].cast = "unicast"
                 THEN Len(answers) = 1 /\ answers[1] = Confirmation(offers[OfferTaken(offers)])
                 ELSE answers = << >>
        BY <2>3, <3>1, ZenonT(40) DEF ChoicesAnswered, TransportAnswered, Confirmation
    <3> QED BY <2>2, <2>4, <3>1, ZenonT(40) DEF TransportAnswered, Confirmation
  <2>6. DescribeAnswered'
    <3>1. ASSUME Answered, msg.method = "DESCRIBE", Len(listed) = 1
          PROVE  LET media == listed[1]
                     wanted == \E k \in 1 .. Len(media) : media[k].type = Sdp
                     body == IF wanted THEN 1 ELSE 0
                 IN /\ response.status = IF wanted THEN 200 ELSE 406
                    /\ response.entity = IF wanted THEN "sdp" ELSE "none"
                    /\ Len(types0) = body
                    /\ Len(lengths) = body
        BY <2>3, <3>1, ZenonT(40) DEF ChoicesAnswered, DescribeAnswered, Sdp
    <3> QED BY <2>1, <2>2, <2>4, <3>1, ZenonT(120) DEF DescribeAnswered, Sdp
  <2> QED BY <2>5, <2>6 DEF ChoicesAnswered
<1>5. ASSUME pc' # "idle" PROVE ChoicesAnswered'
    BY <1>2, <1>5 DEF Answered
<1>3. CASE Failing
    BY <1>3, <1>5, FailingStops
<1>6. CASE Receive \/ ParseLine \/ ParseLineCut \/ ParseLineShort \/ ParseHeader \/ ParseHeaderCut
           \/ Parsed
    BY <1>5, <1>6 DEF Receive, ParseLine, ParseLineCut, ParseLineShort, ParseHeader, ParseHeaderCut, Parsed
<1>7. CASE Compare \/ NextSet \/ TakeField \/ TakeStatus \/ ProcessHeader \/ HandleDefault
    BY <1>5, <1>7 DEF Compare, NextSet, TakeField, TakeStatus, ProcessHeader, HandleDefault
<1>8. CASE HandleUnknown \/ HandleCSeq \/ HandleAccept \/ HandleTransport \/ Method \/ NextHeader \/ AddNext
    BY <1>5, <1>8 DEF HandleUnknown, HandleCSeq, HandleAccept, HandleTransport, Handling, Method,
        NextHeader, AddNext, Room
<1>9. CASE Transport
    BY <1>5, <1>9, ZenonT(60) DEF Transport, TransportWord, TransportProtocol, TransportCast,
        TransportParameter, TransportKey, TransportComma, TransportAnswer, At, Scanning, Scanned, Room
<1> QED BY <1>1, <1>3, <1>4, <1>6, <1>7, <1>8, <1>9 DEF Next, Step, Failing

\* What is known of the choices while a request is answered.
ChoiceInv == ConfirmInv /\ StatusInv /\ DescribeInv /\ ChoicesAnswered

\* These hold before the first request, and every step keeps them.
LEMMA ChoiceInvInit == Init => ChoiceInv
BY DEF Init, ChoiceInv, ConfirmInv, Answering, StatusInv, DescribeInv, ChoicesAnswered,
    TransportAnswered, DescribeAnswered, Answered

\* Each step keeps its part of the invariant.
LEMMA ChoiceInvNext == ServerInv /\ ServedInv /\ ChoiceInv /\ [Next]_vars => ChoiceInv'
BY ConfirmStep, StatusStep, DescribeStep, ChoicesStep DEF ServerInv, ServedInv, ChoiceInv

\* Whatever is offered: of the transports the first unicast one is confirmed and none
\* if all are multicast, and a description comes with its type and its length where
\* application/sdp is accepted and is refused otherwise, for every set of requests
\* (header.c 61-196, method.c 25-49).
THEOREM ChoicesAreAnswered == Spec => []ChoicesAnswered
<1>1. Spec => []ServedInv
    BY ServedInvInit, ServedInvNext, ServerInvariant, PTL DEF Spec
<1>2. Spec => []ChoiceInv
    BY <1>1, ChoiceInvInit, ChoiceInvNext, ServerInvariant, PTL DEF Spec
<1>3. ChoiceInv => ChoicesAnswered
    BY DEF ChoiceInv
<1> QED BY <1>2, <1>3, PTL

=============================================================================
