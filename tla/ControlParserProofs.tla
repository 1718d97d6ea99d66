------------------------ MODULE ControlParserProofs ------------------------
(***************************************************************************)
(* Theorems about ControlParser for any buffer size and any datagrams.     *)
(***************************************************************************)
EXTENDS ControlParser, SequenceFacts

\* ReplyIsPorts alone is not inductive: nothing would keep a later move from
\* putting its space among the first four bytes.  It cannot, because the
\* cursor is past the request's '$' by then and the space goes three bytes
\* behind the move's own '$'.
ReplyInv ==
  plen = 8 => /\ \A i \in 0 .. 3 : pkg[i] = PortBytes[i + 1]
              /\ p >= 1

LEMMA PortFacts ==
  /\ \A i \in 0 .. 3 : PortBytes[i + 1] \in Byte
  /\ Dollar \in Byte /\ Space \in Byte
  BY DEF PortBytes, Byte, Dollar, Space

-----------------------------------------------------------------------------
(* The layout of a datagram. *)

\* A command's bytes: '$', its type, its payload.
LEMMA CommandBytes ==
  ASSUME NEW c \in Command
  PROVE  /\ Encode(c) \in Seq(Byte) /\ ForBoard(c) \in Seq(Byte)
         /\ Len(Encode(c)) >= 2 /\ Encode(c)[1] = Dollar
         /\ c.kind = "stop" => c = Stop /\ Len(Encode(c)) = 2 /\ Encode(c)[2] = 0
                               /\ ForBoard(c) = <<Dollar>>
         /\ c.kind = "ports" => c = Ports /\ Len(Encode(c)) = 2 /\ Encode(c)[2] = 1
                                /\ ForBoard(c) = << >>
         /\ c.kind = "state" => /\ Len(Encode(c)) = 5 /\ Encode(c)[2] = 2
                                /\ ForBoard(c) = <<Encode(c)[5]>>
         /\ c.kind = "move" => /\ Len(Encode(c)) = 6 /\ Encode(c)[2] = 3
                               /\ ForBoard(c) = <<Space, Encode(c)[5], Encode(c)[6]>>
         /\ c.kind \in {"stop", "ports", "state", "move"}
  <1>1. CASE c.kind = "stop"
    <2>1. c = Stop
      BY <1>1 DEF Command, Stop
    <2>2. Encode(c) = <<Dollar, 0>> /\ ForBoard(c) = <<Dollar>>
      BY <1>1 DEF Encode, ForBoard
    <2>3. QED
      BY <1>1, <2>1, <2>2, PortFacts DEF Byte
  <1>2. CASE c.kind = "ports"
    <2>1. c = Ports
      BY <1>2 DEF Command, Ports
    <2>2. Encode(c) = <<Dollar, 1>> /\ ForBoard(c) = << >>
      BY <1>2 DEF Encode, ForBoard
    <2>3. QED
      BY <1>2, <2>1, <2>2, PortFacts DEF Byte
  <1>3. CASE c.kind = "state"
    <2>1. c.load \in [1 .. 3 -> Byte]
      BY <1>3 DEF Command
    <2>2. c.load \in Seq(Byte) /\ Len(c.load) = 3 /\ \A i \in 1 .. 3 : c.load[i] \in Byte
      BY <2>1, FunctionIsSequence, ZenonT(40)
    <2>3. Encode(c) = <<Dollar, 2>> \o c.load /\ ForBoard(c) = <<c.load[3]>>
      BY <1>3 DEF Encode, ForBoard
    <2>4. <<Dollar, 2>> \in Seq(Byte) /\ Len(<<Dollar, 2>>) = 2
      BY PortFacts DEF Byte
    <2>5. /\ Encode(c) \in Seq(Byte) /\ Len(Encode(c)) = 5 /\ Encode(c)[5] = c.load[3]
          /\ Encode(c)[1] = Dollar /\ Encode(c)[2] = 2
      <3>1. \A i \in 1 .. 2 : Encode(c)[i] = <<Dollar, 2>>[i]
        BY <2>2, <2>3, <2>4, ConcatAt
      <3>2. \A i \in 1 .. 3 : Encode(c)[2 + i] = c.load[i]
        BY <2>2, <2>3, <2>4, ConcatAt
      <3>3. <<Dollar, 2>> \o c.load \in Seq(Byte)
        BY <2>2, <2>4, ConcatProperties
      <3>4. Len(<<Dollar, 2>> \o c.load) = Len(<<Dollar, 2>>) + Len(c.load)
        BY <2>2, <2>4, ConcatProperties
      <3>5. 1 \in 1 .. 2 /\ 2 \in 1 .. 2 /\ 3 \in 1 .. 3 /\ 2 + 3 = 5
        OBVIOUS
      <3>6. QED
        BY <2>2, <2>3, <2>4, <3>1, <3>2, <3>3, <3>4, <3>5
    <2>6. ForBoard(c) \in Seq(Byte)
      BY <2>2, <2>3
    <2>7. QED
      BY <1>3, <2>3, <2>5, <2>6
  <1>4. CASE c.kind = "move"
    <2>1. c.load \in [1 .. 4 -> Byte]
      BY <1>4 DEF Command
    <2>2. c.load \in Seq(Byte) /\ Len(c.load) = 4 /\ \A i \in 1 .. 4 : c.load[i] \in Byte
      BY <2>1, FunctionIsSequence, ZenonT(40)
    <2>3. Encode(c) = <<Dollar, 3>> \o c.load /\ ForBoard(c) = <<Space, c.load[3], c.load[4]>>
      BY <1>4 DEF Encode, ForBoard
    <2>4. <<Dollar, 3>> \in Seq(Byte) /\ Len(<<Dollar, 3>>) = 2
      BY PortFacts DEF Byte
    <2>5. /\ Encode(c) \in Seq(Byte) /\ Len(Encode(c)) = 6
          /\ Encode(c)[5] = c.load[3] /\ Encode(c)[6] = c.load[4]
          /\ Encode(c)[1] = Dollar /\ Encode(c)[2] = 3
      <3>1. \A i \in 1 .. 2 : Encode(c)[i] = <<Dollar, 3>>[i]
        BY <2>2, <2>3, <2>4, ConcatAt
      <3>2. \A i \in 1 .. 4 : Encode(c)[2 + i] = c.load[i]
        BY <2>2, <2>3, <2>4, ConcatAt
      <3>3. <<Dollar, 3>> \o c.load \in Seq(Byte)
        BY <2>2, <2>4, ConcatProperties
      <3>4. Len(<<Dollar, 3>> \o c.load) = Len(<<Dollar, 3>>) + Len(c.load)
        BY <2>2, <2>4, ConcatProperties
      <3>5. 1 \in 1 .. 2 /\ 2 \in 1 .. 2 /\ 3 \in 1 .. 4 /\ 2 + 3 = 5 /\ 4 \in 1 .. 4 /\ 2 + 4 = 6
        OBVIOUS
      <3>6. QED
        BY <2>2, <2>3, <2>4, <3>1, <3>2, <3>3, <3>4, <3>5
    <2>6. ForBoard(c) \in Seq(Byte)
      BY <2>2, <2>3, PortFacts
    <2>7. QED
      BY <1>4, <2>3, <2>5, <2>6
  <1>5. c.kind \in {"stop", "ports", "state", "move"}
    BY DEF Command
  <1>6. QED
    BY <1>1, <1>2, <1>3, <1>4, <1>5

\* Where the bytes of the first k commands end.
Sent(d, k) == Len(Bytes(SubSeq(d, 1, k)))

LEMMA DatagramLayout ==
  ASSUME NEW d \in Seq(Command)
  PROVE  /\ Bytes(d) \in Seq(Byte)
         /\ Sent(d, 0) = 0 /\ Sent(d, Len(d)) = Len(Bytes(d))
         /\ \A k \in 0 .. Len(d) : Sent(d, k) \in 0 .. Len(Bytes(d))
         /\ \A k \in 1 .. Len(d) :
              /\ Sent(d, k) = Sent(d, k - 1) + Len(Encode(d[k]))
              /\ \A j \in 1 .. Len(Encode(d[k])) : Bytes(d)[Sent(d, k - 1) + j] = Encode(d[k])[j]
  <1> DEFINE codes == [i \in DOMAIN d |-> Encode(d[i])]
             n == Len(d)
             head(k) == FlattenSeq(SubSeq(codes, 1, k))
  <1>1. n \in Nat /\ DOMAIN d = 1 .. n /\ \A i \in 1 .. n : d[i] \in Command
    OBVIOUS
  <1>2. \A i \in 1 .. n : Encode(d[i]) \in Seq(Byte)
    BY <1>1, CommandBytes
  <1>3. codes \in Seq(Seq(Byte)) /\ Len(codes) = n /\ \A i \in 1 .. n : codes[i] = Encode(d[i])
    BY <1>1, <1>2
  <1>4. ASSUME NEW k \in 0 .. n
        PROVE  Bytes(SubSeq(d, 1, k)) = head(k)
    <2>1. SubSeq(codes, 1, k) = [i \in DOMAIN SubSeq(d, 1, k) |-> Encode(SubSeq(d, 1, k)[i])]
      BY <1>1, <1>3
    <2>2. QED
      BY <2>1 DEF Bytes
  <1>5. Bytes(d) = FlattenSeq(codes)
    BY DEF Bytes
  <1> HIDE DEF codes
  <1>6. /\ head(0) = << >>
        /\ \A k \in 0 .. n : head(k) \in Seq(Byte)
        /\ \A k \in 1 .. n : head(k) = head(k - 1) \o codes[k]
        /\ FlattenSeq(codes) = head(n)
    BY <1>3, FlattenPrefix
  <1>7. \A k \in 0 .. n : /\ Len(head(k)) <= Len(Bytes(d))
                          /\ \A i \in 1 .. Len(head(k)) : Bytes(d)[i] = head(k)[i]
    BY <1>3, <1>5, FlattenBegins
  <1> HIDE DEF head, n
  <1>8. \A k \in 0 .. n : Sent(d, k) = Len(head(k))
    BY <1>4 DEF Sent
  <1>9. Bytes(d) \in Seq(Byte) /\ Sent(d, 0) = 0 /\ Sent(d, n) = Len(Bytes(d))
    BY <1>1, <1>5, <1>6, <1>8
  <1>10. \A k \in 0 .. n : Sent(d, k) \in 0 .. Len(Bytes(d))
    BY <1>6, <1>7, <1>8, <1>9
  <1>11. ASSUME NEW k \in 1 .. n
         PROVE  /\ Sent(d, k) = Sent(d, k - 1) + Len(Encode(d[k]))
                /\ \A j \in 1 .. Len(Encode(d[k])) : Bytes(d)[Sent(d, k - 1) + j] = Encode(d[k])[j]
    <2> DEFINE a == head(k - 1)
               b == Encode(d[k])
    <2>1. k \in 0 .. n /\ k - 1 \in 0 .. n
      BY <1>1
    <2>2. a \in Seq(Byte) /\ b \in Seq(Byte) /\ head(k) = a \o b
      BY <1>2, <1>3, <1>6, <2>1
    <2>3. Sent(d, k) = Len(a \o b) /\ Sent(d, k - 1) = Len(a)
      BY <1>8, <2>1, <2>2
    <2>4. \A i \in 1 .. Len(a \o b) : Bytes(d)[i] = (a \o b)[i]
      BY <1>7, <2>1, <2>2
    <2> HIDE DEF a, b
    <2>5. Len(a \o b) = Len(a) + Len(b) /\ Len(a) \in Nat /\ Len(b) \in Nat
      BY <2>2
    <2>6. \A j \in 1 .. Len(b) : Len(a) + j \in 1 .. Len(a \o b) /\ (a \o b)[Len(a) + j] = b[j]
      BY <2>2, <2>5
    <2>7. QED
      BY <2>3, <2>4, <2>5, <2>6 DEF b
  <1>12. QED
    BY <1>9, <1>10, <1>11 DEF n

\* The same for what the board is to receive.
LEMMA BoardLayout ==
  ASSUME NEW d \in Seq(Command)
  PROVE  /\ BoardBytes(SubSeq(d, 1, 0)) = << >> /\ BoardBytes(SubSeq(d, 1, Len(d))) = BoardBytes(d)
         /\ \A k \in 0 .. Len(d) : IsPrefix(BoardBytes(SubSeq(d, 1, k)), BoardBytes(d))
         /\ \A k \in 1 .. Len(d) :
              BoardBytes(SubSeq(d, 1, k)) = BoardBytes(SubSeq(d, 1, k - 1)) \o ForBoard(d[k])
  <1> DEFINE parts == [i \in DOMAIN d |-> ForBoard(d[i])]
             n == Len(d)
             head(k) == FlattenSeq(SubSeq(parts, 1, k))
  <1>1. n \in Nat /\ DOMAIN d = 1 .. n /\ \A i \in 1 .. n : d[i] \in Command
    OBVIOUS
  <1>2. \A i \in 1 .. n : ForBoard(d[i]) \in Seq(Byte)
    BY <1>1, CommandBytes
  <1>3. parts \in Seq(Seq(Byte)) /\ Len(parts) = n /\ \A i \in 1 .. n : parts[i] = ForBoard(d[i])
    BY <1>1, <1>2
  <1>4. ASSUME NEW k \in 0 .. n
        PROVE  BoardBytes(SubSeq(d, 1, k)) = head(k)
    <2>1. SubSeq(parts, 1, k) = [i \in DOMAIN SubSeq(d, 1, k) |-> ForBoard(SubSeq(d, 1, k)[i])]
      BY <1>1, <1>3
    <2>2. QED
      BY <2>1 DEF BoardBytes
  <1>5. BoardBytes(d) = FlattenSeq(parts)
    BY DEF BoardBytes
  <1> HIDE DEF parts
  <1>6. /\ head(0) = << >>
        /\ \A k \in 1 .. n : head(k) = head(k - 1) \o parts[k]
        /\ FlattenSeq(parts) = head(n)
    BY <1>3, FlattenPrefix
  <1>7. ASSUME NEW k \in 0 .. n
        PROVE  IsPrefix(head(k), BoardBytes(d))
    <2> DEFINE a == head(k)
               b == BoardBytes(d)
    <2>1. /\ a \in Seq(Byte) /\ b \in Seq(Byte) /\ Len(a) <= Len(b)
          /\ \A i \in 1 .. Len(a) : b[i] = a[i]
      BY <1>3, <1>5, FlattenBegins
    <2> HIDE DEF a, b
    <2>2. SubSeq(a, 1, Len(a)) = SubSeq(b, 1, Len(a))
      BY <2>1
    <2>3. QED
      BY <2>1, <2>2 DEF IsPrefix, a, b
  <1> HIDE DEF head, n
  <1>8. 0 \in 0 .. n /\ n \in 0 .. n /\ \A k \in 1 .. n : k \in 0 .. n /\ k - 1 \in 0 .. n
    BY <1>1
  <1>9. QED
    BY <1>3, <1>4, <1>5, <1>6, <1>7, <1>8 DEF n

-----------------------------------------------------------------------------
(* Type correctness, and the reply. *)

LEMMA InitType == Init => TypeOK
  BY BufAssumption, BoundAssumption DEF Init, TypeOK, Byte

LEMMA ReceiveType ==
  ASSUME TypeOK, NEW d \in Datagrams, Receive(d)
  PROVE  TypeOK' /\ plen' = 0
  <1> DEFINE b == Bytes(d)
             n == IF Len(b) < BufSize THEN Len(b) ELSE BufSize
  <1>1. b \in Seq(Byte) /\ Len(b) \in Nat
    BY DatagramAssumption, DatagramLayout
  <1>2. n \in 0 .. BufSize /\ n <= Len(b)
    BY <1>1, BufAssumption
  <1> HIDE DEF b, n
  <1>3. \A i \in 0 .. BufSize - 1 : i < n => b[i + 1] \in Byte
    BY <1>1, <1>2, BufAssumption
  <1>4. pkg' = [i \in 0 .. BufSize - 1 |-> IF i < n THEN b[i + 1] ELSE pkg[i]] /\ end' = n
    BY DEF Receive, b, n
  <1>5. pkg' \in [0 .. BufSize - 1 -> Byte]
    BY <1>3, <1>4 DEF TypeOK
  <1>6. count' \in 0 .. MaxDatagrams
    BY BoundAssumption DEF Receive, TypeOK
  <1>7. QED
    BY <1>2, <1>4, <1>5, <1>6 DEF Receive, TypeOK

LEMMA ObeyType ==
  ASSUME TypeOK,
         Skip \/ ObeyPorts \/ ObeyStop \/ ObeyState \/ ObeyMove
  PROVE  TypeOK'
  <1> USE BufAssumption DEF TypeOK, Obeyed, At
  <1>1. CASE Skip
    BY <1>1 DEF Skip
  <1>2. CASE ObeyPorts
    <2>1. DOMAIN pkg = 0 .. BufSize - 1
      OBVIOUS
    <2>2. pkg' = [i \in 0 .. BufSize - 1 |-> IF i < 4 THEN PortBytes[i + 1] ELSE pkg[i]]
      BY <1>2, <2>1 DEF ObeyPorts
    <2>3. \A i \in 0 .. BufSize - 1 : i < 4 => i \in 0 .. 3
      OBVIOUS
    <2>4. pkg' \in [0 .. BufSize - 1 -> Byte]
      BY <2>2, <2>3, PortFacts
    <2>5. p' \in Nat /\ plen' \in {0, 8}
      BY <1>2 DEF ObeyPorts
    <2>6. QED
      BY <1>2, <2>4, <2>5 DEF ObeyPorts
  <1>3. CASE ObeyStop
    <2>1. pkg[p] \in Byte
      BY <1>3 DEF ObeyStop
    <2>2. tty' \in Seq(Byte)
      BY <1>3, <2>1, AppendProperties DEF ObeyStop
    <2>3. QED
      BY <1>3, <2>2 DEF ObeyStop
  <1>4. CASE ObeyState
    <2>1. pkg[p + 4] \in Byte
      BY <1>4 DEF ObeyState
    <2>2. tty' \in Seq(Byte)
      BY <1>4, <2>1, AppendProperties DEF ObeyState
    <2>3. QED
      BY <1>4, <2>2 DEF ObeyState
  <1>5. CASE ObeyMove
    <2>1. pkg[p + 4] \in Byte /\ pkg[p + 5] \in Byte
      BY <1>5 DEF ObeyMove
    <2>2. <<Space, pkg[p + 4], pkg[p + 5]>> \in Seq(Byte)
      BY <2>1, PortFacts
    <2>3. tty' \in Seq(Byte)
      BY <1>5, <2>2, ConcatProperties DEF ObeyMove
    <2>4. pkg' \in [0 .. BufSize - 1 -> Byte]
      BY <1>5, PortFacts DEF ObeyMove
    <2>5. QED
      BY <1>5, <2>3, <2>4 DEF ObeyMove
  <1>6. QED
    BY <1>1, <1>2, <1>3, <1>4, <1>5

\* Every byte that is read or written lies in the buffer until the cursor has
\* left it, and every byte the board receives is a byte.
THEOREM TypeCorrect == Spec => []TypeOK
  <1>1. TypeOK /\ [Next]_vars => TypeOK'
    <2> SUFFICES ASSUME TypeOK, [Next]_vars
                 PROVE  TypeOK'
      OBVIOUS
    <2>1. CASE UNCHANGED vars
      BY <2>1 DEF TypeOK, vars
    <2>2. CASE RunAway \/ Finish \/ Reply
      BY <2>2 DEF TypeOK, RunAway, Finish, Reply
    <2>3. QED
      BY <2>1, <2>2, ReceiveType, ObeyType DEF Next
  <1>2. QED
    BY <1>1, InitType, PTL DEF Spec

\* Whatever datagram arrives, well formed or not, the reply to it opens with
\* the two port numbers: nothing parsed after the request overwrites them.
THEOREM RepliesArePorts == Spec => []ReplyIsPorts
  <1>1. Init => ReplyInv
    BY DEF Init, ReplyInv
  <1>2. TypeOK /\ ReplyInv /\ [Next]_vars => ReplyInv'
    <2> SUFFICES ASSUME TypeOK, ReplyInv, [Next]_vars
                 PROVE  ReplyInv'
      OBVIOUS
    <2> USE BufAssumption DEF TypeOK, Obeyed, At
    <2>1. CASE UNCHANGED vars
      BY <2>1 DEF ReplyInv, vars
    <2>2. ASSUME NEW d \in Datagrams, Receive(d)
          PROVE  ReplyInv'
      BY <2>2, ReceiveType DEF ReplyInv
    <2>3. CASE Skip
      BY <2>3 DEF Skip, ReplyInv
    <2>4. CASE ObeyPorts
      <3>1. \A i \in 0 .. 3 : i \in DOMAIN pkg /\ pkg'[i] = PortBytes[i + 1]
        BY <2>4 DEF ObeyPorts
      <3>2. p' >= 1
        BY <2>4 DEF ObeyPorts
      <3>3. QED
        BY <3>1, <3>2 DEF ReplyInv
    <2>5. CASE ObeyStop \/ ObeyState
      BY <2>5, SMTT(30) DEF ObeyStop, ObeyState, ReplyInv
    <2>6. CASE ObeyMove
      <3> SUFFICES ASSUME plen = 8
                   PROVE  (\A i \in 0 .. 3 : pkg'[i] = PortBytes[i + 1]) /\ p' >= 1
        BY <2>6 DEF ObeyMove, ReplyInv
      <3>1. p >= 1 /\ p' = p + 6
        BY <2>6 DEF ObeyMove, ReplyInv
      <3>2. \A i \in 0 .. 3 : i # p + 3 /\ i \in DOMAIN pkg
        BY <3>1
      <3>3. \A i \in 0 .. 3 : pkg'[i] = pkg[i]
        BY <2>6, <3>2 DEF ObeyMove
      <3>4. QED
        BY <3>1, <3>3 DEF ReplyInv
    <2>7. CASE RunAway \/ Finish \/ Reply
      BY <2>7 DEF RunAway, Finish, Reply, ReplyInv
    <2>8. QED
      BY <2>1, <2>2, <2>3, <2>4, <2>5, <2>6, <2>7 DEF Next
  <1>3. ReplyInv => ReplyIsPorts
    BY DEF ReplyInv, ReplyIsPorts
  <1>4. QED
    BY <1>1, <1>2, <1>3, TypeCorrect, PTL DEF Spec

-----------------------------------------------------------------------------
(* The commands of a plain datagram. *)

\* The first k commands are obeyed, and the cursor is behind them: or, after a
\* ports request, on its type byte, which does not look like a '$'.  The bytes
\* of the commands that follow are as they came.
Progress(k) ==
  /\ tty = BoardBytes(SubSeq(datagram, 1, k))
  /\ plen = (IF \E i \in 1 .. k : datagram[i] = Ports THEN 8 ELSE 0)
  /\ (\E i \in 1 .. k : datagram[i] = Stop) => sig = 2
  /\ \/ p = Sent(datagram, k)
     \/ /\ k >= 1 /\ datagram[k] = Ports /\ pc = "parse"
        /\ p = Sent(datagram, k) - 1 /\ pkg[p] # Dollar
  /\ pc = "reply" => k = Len(datagram)
  /\ \A i \in Sent(datagram, k) .. end - 1 : pkg[i] = Bytes(datagram)[i + 1]

\* CommandsObeyed and BoardInOrder say what has been done; what makes them
\* inductive is what is still to be read.
ParseInv ==
  /\ datagram \in Seq(Command)
  /\ Plain(datagram) =>
       /\ p <= end /\ pc # "wild"
       /\ pc # "recv" => /\ end = Len(Bytes(datagram))
                         /\ \E k \in 0 .. Len(datagram) : Progress(k)

\* A cursor between two commands is at the '$' of the next one, which lies in
\* the buffer with all its bytes.
LEMMA AtCommand ==
  ASSUME TypeOK, ParseInv, Plain(datagram), pc = "parse", p # end,
         NEW k \in 0 .. Len(datagram), Progress(k), p = Sent(datagram, k)
  PROVE  LET c == datagram[k + 1]
             n == Len(Encode(c))
         IN  /\ k + 1 \in 1 .. Len(datagram) /\ c \in Command
             /\ n \in Nat /\ p + n <= end /\ end <= BufSize
             /\ \A j \in 1 .. n : pkg[p + j - 1] = Encode(c)[j]
             /\ Sent(datagram, k + 1) = p + n
             /\ BoardBytes(SubSeq(datagram, 1, k + 1)) = tty \o ForBoard(c)
  <1> DEFINE d == datagram
             c == d[k + 1]
             n == Len(Encode(c))
  <1>1. d \in Seq(Command) /\ end = Len(Bytes(d)) /\ end <= BufSize /\ Len(d) \in Nat
    BY DEF ParseInv, Plain
  <1>2. k # Len(d)
    BY <1>1, DatagramLayout
  <1>3. k + 1 \in 1 .. Len(d) /\ (k + 1) - 1 = k /\ k + 1 \in 0 .. Len(d)
    BY <1>1, <1>2
  <1>4. c \in Command
    BY <1>1, <1>3
  <1>5. n \in Nat /\ Encode(c) \in Seq(Byte)
    BY <1>4, CommandBytes
  <1>6. /\ Sent(d, k + 1) = Sent(d, k) + n
        /\ \A j \in 1 .. n : Bytes(d)[Sent(d, k) + j] = Encode(c)[j]
    BY <1>1, <1>3, DatagramLayout
  <1>7. Sent(d, k + 1) \in 0 .. end /\ Sent(d, k) \in 0 .. end
    BY <1>1, <1>3, DatagramLayout
  <1>8. BoardBytes(SubSeq(d, 1, k + 1)) = BoardBytes(SubSeq(d, 1, k)) \o ForBoard(c)
    BY <1>1, <1>3, BoardLayout
  <1>9. \A i \in p .. end - 1 : pkg[i] = Bytes(d)[i + 1]
    BY DEF Progress
  <1> HIDE DEF d, c, n
  <1>10. ASSUME NEW j \in 1 .. n
         PROVE  pkg[p + j - 1] = Encode(c)[j]
    <2>1. p + j - 1 \in p .. end - 1 /\ (p + j - 1) + 1 = p + j /\ p = Sent(d, k)
      BY <1>1, <1>5, <1>6, <1>7, SMTT(30) DEF d
    <2>2. pkg[p + j - 1] = Bytes(d)[p + j]
      BY <1>9, <2>1
    <2>3. QED
      BY <1>6, <2>1, <2>2
  <1>11. p + n <= end /\ Sent(d, k + 1) = p + n
    BY <1>6, <1>7 DEF d
  <1>12. tty = BoardBytes(SubSeq(d, 1, k))
    BY DEF Progress, d
  <1>13. QED
    BY <1>1, <1>3, <1>4, <1>5, <1>8, <1>10, <1>11, <1>12 DEF d, c, n

\* Obeying the next command, whichever it is, keeps the invariant.
LEMMA Advance ==
  ASSUME TypeOK, ParseInv, Plain(datagram), pc = "parse", p # end,
         NEW k \in 0 .. Len(datagram), Progress(k), p = Sent(datagram, k),
         NEW c, c = datagram[k + 1], NEW n, n = Len(Encode(c)),
         Obeyed,
         tty' = tty \o ForBoard(c),
         plen' = IF c = Ports THEN 8 ELSE plen,
         sig' = IF c = Stop THEN 2 ELSE sig,
         \/ p' = p + n
         \/ c = Ports /\ p' = p + n - 1 /\ pkg'[p'] # Dollar,
         \A i \in p + n .. end - 1 : pkg'[i] = pkg[i]
  PROVE  ParseInv'
  <1> DEFINE d == datagram
             m == k + 1
  <1>1. /\ m \in 1 .. Len(d) /\ n \in Nat /\ p + n <= end /\ Sent(d, m) = p + n
        /\ BoardBytes(SubSeq(d, 1, m)) = tty \o ForBoard(c)
    BY AtCommand
  <1>2. d \in Seq(Command) /\ end = Len(Bytes(d)) /\ Len(d) \in Nat /\ c = d[m]
    BY DEF ParseInv
  <1>3. datagram' = d /\ end' = end /\ pc' = "parse"
    BY DEF Obeyed
  <1>4. /\ plen = (IF \E i \in 1 .. k : d[i] = Ports THEN 8 ELSE 0)
        /\ (\E i \in 1 .. k : d[i] = Stop) => sig = 2
        /\ \A i \in Sent(d, k) .. end - 1 : pkg[i] = Bytes(d)[i + 1]
    BY DEF Progress
  <1>5. \A i \in 1 .. m : i \in 1 .. k \/ i = m
    OBVIOUS
  <1>6. \A i \in 1 .. k : i \in 1 .. m
    OBVIOUS
  <1>7. m >= 1 /\ m \in 1 .. m /\ m \in 0 .. Len(d)
    BY <1>1, <1>2
  <1>8. p \in Nat /\ end \in Nat
    BY BufAssumption DEF TypeOK
  <1> HIDE DEF d, m
  <1>9. plen' = (IF \E i \in 1 .. m : d[i] = Ports THEN 8 ELSE 0)
    BY <1>2, <1>4, <1>5, <1>6, <1>7
  <1>10. (\E i \in 1 .. m : d[i] = Stop) => sig' = 2
    BY <1>2, <1>4, <1>5
  <1>11. \/ p' = Sent(d, m)
         \/ m >= 1 /\ d[m] = Ports /\ pc' = "parse" /\ p' = Sent(d, m) - 1 /\ pkg'[p'] # Dollar
    <2>1. CASE p' = p + n
      BY <1>1, <2>1
    <2>2. CASE c = Ports /\ p' = p + n - 1 /\ pkg'[p'] # Dollar
      <3>1. p' = Sent(d, m) - 1
        <4>1. p' = p + n - 1
          BY <2>2
        <4>2. n \in Nat /\ Sent(d, m) = p + n
          BY <1>1
        <4>3. QED
          BY <1>8, <4>1, <4>2
      <3>2. QED
        BY <1>2, <1>3, <1>7, <2>2, <3>1
    <2>3. QED
      BY <2>1, <2>2
  <1>12. \A i \in Sent(d, m) .. end - 1 : pkg'[i] = Bytes(d)[i + 1]
    <2>1. Sent(d, k) = p
      BY DEF d
    <2>2. \A i \in Sent(d, m) .. end - 1 : i \in p + n .. end - 1 /\ i \in p .. end - 1
      BY <1>1, <1>8
    <2>3. QED
      BY <1>4, <2>1, <2>2
  <1>13. Progress(m)'
    BY <1>1, <1>3, <1>9, <1>10, <1>11, <1>12 DEF Progress
  <1>14. p' <= end' /\ pc' # "wild"
    BY <1>1, <1>3, <1>8
  <1>15. QED
    BY <1>2, <1>3, <1>7, <1>13, <1>14 DEF ParseInv

\* What the cursor is at: the next command, or the type byte of a ports request.
LEMMA Cursor ==
  ASSUME TypeOK, ParseInv, Plain(datagram), pc = "parse"
  PROVE  \E k \in 0 .. Len(datagram) :
           /\ Progress(k)
           /\ \/ p = Sent(datagram, k)
              \/ k >= 1 /\ datagram[k] = Ports /\ p = Sent(datagram, k) - 1 /\ pkg[p] # Dollar
  BY DEF ParseInv, Progress

LEMMA ReceiveParse ==
  ASSUME TypeOK, ParseInv, NEW d \in Datagrams, Receive(d)
  PROVE  ParseInv'
  <1>1. d \in Seq(Command) /\ datagram' = d /\ pc' = "parse" /\ p' = 0 /\ plen' = 0 /\ tty' = << >>
    BY DatagramAssumption DEF Receive
  <1>2. Bytes(d) \in Seq(Byte) /\ Sent(d, 0) = 0 /\ BoardBytes(SubSeq(d, 1, 0)) = << >>
    BY <1>1, DatagramLayout, BoardLayout
  <1> SUFFICES ASSUME Plain(d)
               PROVE  /\ p' <= end'
                      /\ end' = Len(Bytes(d))
                      /\ Progress(0)'
    BY <1>1 DEF ParseInv
  <1>3. Len(Bytes(d)) \in Nat /\ Len(Bytes(d)) <= BufSize
    BY <1>2 DEF Plain
  <1>4. /\ end' = Len(Bytes(d))
        /\ \A i \in 0 .. BufSize - 1 : i < Len(Bytes(d)) => pkg'[i] = Bytes(d)[i + 1]
    BY <1>3, BufAssumption DEF Receive
  <1>5. \A i \in 0 .. Len(Bytes(d)) - 1 : pkg'[i] = Bytes(d)[i + 1]
    BY <1>3, <1>4, BufAssumption
  <1>6. Progress(0)'
    BY <1>1, <1>2, <1>4, <1>5 DEF Progress
  <1>7. QED
    BY <1>1, <1>3, <1>4, <1>6

LEMMA SkipParse ==
  ASSUME TypeOK, ParseInv, Plain(datagram), Skip
  PROVE  ParseInv'
  <1> USE BufAssumption
  <1>1. pc = "parse" /\ p # end /\ p \in Nat /\ p' = p + 1
    BY DEF Skip, At, TypeOK
  <1>2. PICK k \in 0 .. Len(datagram) :
          /\ Progress(k)
          /\ \/ p = Sent(datagram, k)
             \/ k >= 1 /\ datagram[k] = Ports /\ p = Sent(datagram, k) - 1 /\ pkg[p] # Dollar
    BY <1>1, Cursor
  <1>3. CASE p = Sent(datagram, k)
    <2> DEFINE c == datagram[k + 1]
               n == Len(Encode(c))
    <2>1. c \in Command /\ \A j \in 1 .. n : pkg[p + j - 1] = Encode(c)[j]
      BY <1>1, <1>2, <1>3, AtCommand
    <2>2. n \in Nat /\ n >= 2 /\ Encode(c)[1] = Dollar /\ Encode(c)[2] \in 0 .. 3
      <3> HIDE DEF c
      <3>1. QED
        BY <2>1, CommandBytes
    <2> HIDE DEF c, n
    <2>3. pkg[p + 1 - 1] = Dollar /\ pkg[p + 2 - 1] \in 0 .. 3
      BY <2>1, <2>2
    <2>4. pkg[p] = Dollar /\ pkg[p + 1] \in 0 .. 3
      BY <1>1, <2>3
    <2>5. QED
      BY <2>4 DEF Skip
  <1>4. CASE k >= 1 /\ datagram[k] = Ports /\ p = Sent(datagram, k) - 1
    <2>1. /\ datagram' = datagram /\ end' = end /\ pc' = "parse" /\ pkg' = pkg
          /\ tty' = tty /\ plen' = plen /\ sig' = sig
      BY <1>1 DEF Skip, Obeyed
    <2>2. datagram \in Seq(Command) /\ end = Len(Bytes(datagram)) /\ Len(datagram) \in Nat
      BY <1>1 DEF ParseInv
    <2>3. Sent(datagram, k) \in 0 .. end
      BY <2>2, DatagramLayout
    <2>4. p' = Sent(datagram, k) /\ p' <= end'
      BY <1>1, <1>4, <2>1, <2>3
    <2>5. Progress(k)'
      BY <1>2, <2>1, <2>4 DEF Progress
    <2>6. QED
      BY <2>1, <2>2, <2>4, <2>5 DEF ParseInv
  <1>5. QED
    BY <1>2, <1>3, <1>4

\* A '$' under the cursor is a command's own, and the byte behind it its type.
LEMMA AtDollar ==
  ASSUME TypeOK, ParseInv, Plain(datagram), pc = "parse", p # end, pkg[p] = Dollar
  PROVE  \E k \in 0 .. Len(datagram) :
           LET c == datagram[k + 1]
               n == Len(Encode(c))
           IN  /\ Progress(k) /\ p = Sent(datagram, k)
               /\ k + 1 \in 1 .. Len(datagram) /\ c \in Command
               /\ p + n <= end /\ end <= BufSize
               /\ \A j \in 1 .. n : pkg[p + j - 1] = Encode(c)[j]
               /\ Sent(datagram, k + 1) = p + n
               /\ pkg[p + 1] = 0 => c.kind = "stop"
               /\ pkg[p + 1] = 1 => c.kind = "ports"
               /\ pkg[p + 1] = 2 => c.kind = "state"
               /\ pkg[p + 1] = 3 => c.kind = "move"
               /\ pkg[p + 1] \in 0 .. 3
  <1>1. PICK k \in 0 .. Len(datagram) : Progress(k) /\ p = Sent(datagram, k)
    BY Cursor
  <1> DEFINE c == datagram[k + 1]
             n == Len(Encode(c))
  <1>2. /\ k + 1 \in 1 .. Len(datagram) /\ c \in Command
        /\ p + n <= end /\ end <= BufSize
        /\ \A j \in 1 .. n : pkg[p + j - 1] = Encode(c)[j]
        /\ Sent(datagram, k + 1) = p + n
    BY <1>1, AtCommand
  <1> HIDE DEF c
  <1>3. /\ n \in Nat /\ n >= 2
        /\ c.kind = "stop" => Encode(c)[2] = 0
        /\ c.kind = "ports" => Encode(c)[2] = 1
        /\ c.kind = "state" => Encode(c)[2] = 2
        /\ c.kind = "move" => Encode(c)[2] = 3
        /\ c.kind \in {"stop", "ports", "state", "move"}
    BY <1>2, CommandBytes
  <1> HIDE DEF n
  <1>4. pkg[p + 2 - 1] = Encode(c)[2]
    BY <1>2, <1>3
  <1>5. p + 2 - 1 = p + 1
    BY DEF TypeOK
  <1>6. pkg[p + 1] = Encode(c)[2]
    BY <1>4, <1>5
  <1>7. /\ pkg[p + 1] = 0 => c.kind = "stop"
        /\ pkg[p + 1] = 1 => c.kind = "ports"
        /\ pkg[p + 1] = 2 => c.kind = "state"
        /\ pkg[p + 1] = 3 => c.kind = "move"
        /\ pkg[p + 1] \in 0 .. 3
    BY <1>3, <1>6
  <1>8. QED
    BY <1>1, <1>2, <1>7 DEF c, n

\* Only a datagram that is nothing else begins with a ports request, so the
\* reply never overwrites a command that is still to come.
LEMMA PortsParse ==
  ASSUME TypeOK, ParseInv, Plain(datagram), ObeyPorts
  PROVE  ParseInv'
  <1>1. /\ pc = "parse" /\ p # end /\ p \in Nat /\ pkg[p] = Dollar /\ pkg[p + 1] = 1
        /\ p + 1 < BufSize
    BY DEF ObeyPorts, At, TypeOK
  <1>2. PICK k \in 0 .. Len(datagram) :
          LET c == datagram[k + 1]
              n == Len(Encode(c))
          IN  /\ Progress(k) /\ p = Sent(datagram, k)
              /\ k + 1 \in 1 .. Len(datagram) /\ c \in Command
              /\ p + n <= end /\ end <= BufSize
              /\ Sent(datagram, k + 1) = p + n
              /\ c.kind = "ports"
    BY <1>1, AtDollar
  <1> DEFINE c == datagram[k + 1]
  <1> HIDE DEF c
  <1>3. c = Ports /\ Len(Encode(c)) = 2 /\ ForBoard(c) = << >>
    BY <1>2, CommandBytes DEF c
  <1>4. c # Stop
    BY <1>3 DEF Stop, Ports
  <1>5. /\ \A i \in DOMAIN pkg : pkg'[i] = IF i < 4 THEN PortBytes[i + 1] ELSE pkg[i]
        /\ DOMAIN pkg = 0 .. BufSize - 1
    BY DEF ObeyPorts, TypeOK
  <1>6. datagram \in Seq(Command) /\ end = Len(Bytes(datagram)) /\ Len(datagram) \in Nat
    BY <1>1 DEF ParseInv
  <1>7. \A i \in p + 2 .. end - 1 : pkg'[i] = pkg[i]
    <2>1. CASE k = 0
      <3>1. Head(datagram) = Ports
        BY <1>2, <1>3, <1>6, <2>1 DEF c
      <3>2. Len(datagram) = 1
        <4>1. ~ (Len(datagram) > 1)
          BY <3>1 DEF Plain
        <4>2. Len(datagram) \in Nat /\ 1 <= Len(datagram)
          BY <1>2, <1>6
        <4>3. \A m \in Nat : ~ (m > 1) /\ 1 <= m => m = 1
          OBVIOUS
        <4>4. QED
          BY <4>1, <4>2, <4>3
      <3>3. Sent(datagram, 1) = p + 2 /\ Sent(datagram, 1) = end
        BY <1>2, <1>3, <1>6, <2>1, <3>2, DatagramLayout DEF c
      <3>4. p + 2 = end
        BY <3>3
      <3>5. QED
        BY <1>1, <3>4
    <2>2. CASE k # 0
      <3>1. k \in 1 .. Len(datagram) /\ k - 1 \in 0 .. Len(datagram) /\ datagram[k] \in Command
        BY <1>6, <2>2
      <3>2. Sent(datagram, k) = Sent(datagram, k - 1) + Len(Encode(datagram[k]))
        BY <1>6, <3>1, DatagramLayout
      <3>3. Sent(datagram, k - 1) \in 0 .. end
        BY <1>6, <3>1, DatagramLayout
      <3>4. Len(Encode(datagram[k])) \in Nat /\ Len(Encode(datagram[k])) >= 2
        BY <3>1, CommandBytes
      <3>5. p >= 2
        BY <1>2, <3>2, <3>3, <3>4
      <3>6. end \in Nat /\ end <= BufSize
        BY <1>2, BufAssumption DEF TypeOK
      <3>7. \A i \in p + 2 .. end - 1 : i \in 0 .. BufSize - 1 /\ ~ (i < 4)
        BY <1>1, <3>5, <3>6, BufAssumption
      <3>8. QED
        BY <1>5, <3>7
    <2>3. QED
      BY <2>1, <2>2
  <1>8. pkg'[p + 1] # Dollar
    <2>1. p + 1 \in 0 .. BufSize - 1
      BY <1>1, BufAssumption
    <2>2. CASE p + 1 < 4
      <3>1. p + 1 \in 0 .. 3 /\ pkg'[p + 1] = PortBytes[p + 1 + 1]
        BY <1>1, <1>5, <2>1, <2>2
      <3>2. \A i \in 0 .. 3 : PortBytes[i + 1] # Dollar
        BY DEF PortBytes, Dollar
      <3>3. QED
        BY <3>1, <3>2
    <2>3. CASE ~ (p + 1 < 4)
      BY <1>1, <1>5, <2>1, <2>3 DEF Dollar
    <2>4. QED
      BY <2>2, <2>3
  <1>9. tty' = tty \o ForBoard(c)
    <2>1. tty' = tty /\ tty \in Seq(Byte)
      BY DEF ObeyPorts, TypeOK
    <2>2. QED
      BY <1>3, <2>1, ConcatEmptySeq
  <1>10. plen' = 8 /\ sig' = sig /\ p' = p + 1 /\ Obeyed
    BY DEF ObeyPorts
  <1>11. p' = p + 2 - 1
    BY <1>1, <1>10
  <1>12. QED
    BY <1>1, <1>2, <1>3, <1>4, <1>7, <1>8, <1>9, <1>10, <1>11, Advance DEF c

LEMMA StopParse ==
  ASSUME TypeOK, ParseInv, Plain(datagram), ObeyStop
  PROVE  /\ ParseInv'
         /\ \E i \in DOMAIN datagram : datagram[i] = Stop
  <1>1. pc = "parse" /\ p # end /\ p \in Nat /\ pkg[p] = Dollar /\ pkg[p + 1] = 0
    BY DEF ObeyStop, At, TypeOK
  <1>2. PICK k \in 0 .. Len(datagram) :
          LET c == datagram[k + 1]
              n == Len(Encode(c))
          IN  /\ Progress(k) /\ p = Sent(datagram, k)
              /\ k + 1 \in 1 .. Len(datagram) /\ c \in Command
              /\ \A j \in 1 .. n : pkg[p + j - 1] = Encode(c)[j]
              /\ c.kind = "stop"
    BY <1>1, AtDollar
  <1> DEFINE c == datagram[k + 1]
  <1> HIDE DEF c
  <1>3. c = Stop /\ Len(Encode(c)) = 2 /\ ForBoard(c) = <<Dollar>>
    BY <1>2, CommandBytes DEF c
  <1>4. c # Ports
    BY <1>3 DEF Stop, Ports
  <1>5. tty' = tty \o ForBoard(c)
    <2>1. tty' = Append(tty, Dollar) /\ tty \in Seq(Byte)
      BY <1>1 DEF ObeyStop, TypeOK
    <2>2. QED
      BY <1>3, <2>1, PortFacts, AppendIsConcat
  <1>6. pkg' = pkg /\ plen' = plen /\ sig' = 2 /\ p' = p + 2 /\ Obeyed
    BY DEF ObeyStop
  <1>7. ParseInv'
    BY <1>1, <1>2, <1>3, <1>4, <1>5, <1>6, Advance DEF c
  <1>8. datagram \in Seq(Command)
    BY DEF ParseInv
  <1>9. k + 1 \in DOMAIN datagram
    BY <1>2, <1>8
  <1>10. QED
    BY <1>3, <1>7, <1>9 DEF c

LEMMA StateParse ==
  ASSUME TypeOK, ParseInv, Plain(datagram), ObeyState
  PROVE  ParseInv'
  <1>1. pc = "parse" /\ p # end /\ p \in Nat /\ pkg[p] = Dollar /\ pkg[p + 1] = 2
    BY DEF ObeyState, At, TypeOK
  <1>2. PICK k \in 0 .. Len(datagram) :
          LET c == datagram[k + 1]
              n == Len(Encode(c))
          IN  /\ Progress(k) /\ p = Sent(datagram, k)
              /\ k + 1 \in 1 .. Len(datagram) /\ c \in Command
              /\ \A j \in 1 .. n : pkg[p + j - 1] = Encode(c)[j]
              /\ c.kind = "state"
    BY <1>1, AtDollar
  <1> DEFINE c == datagram[k + 1]
  <1> HIDE DEF c
  <1>3. Len(Encode(c)) = 5 /\ ForBoard(c) = <<Encode(c)[5]>>
    BY <1>2, CommandBytes DEF c
  <1>4. c # Ports /\ c # Stop
    BY <1>2 DEF Stop, Ports, c
  <1>5. pkg[p + 4] = Encode(c)[5]
    <2>1. pkg[p + 5 - 1] = Encode(c)[5]
      BY <1>2, <1>3 DEF c
    <2>2. p + 5 - 1 = p + 4
      BY <1>1
    <2>3. QED
      BY <2>1, <2>2
  <1>6. tty' = tty \o ForBoard(c)
    <2>1. tty' = Append(tty, pkg[p + 4]) /\ tty \in Seq(Byte) /\ pkg[p + 4] \in Byte
      BY <1>1, BufAssumption DEF ObeyState, TypeOK, At
    <2>2. QED
      BY <1>3, <1>5, <2>1, AppendIsConcat
  <1>7. pkg' = pkg /\ plen' = plen /\ sig' = sig /\ p' = p + 5 /\ Obeyed
    BY DEF ObeyState
  <1>8. QED
    BY <1>1, <1>2, <1>3, <1>4, <1>6, <1>7, Advance DEF c

\* The space a move puts into the buffer lies within the move itself.
LEMMA MoveParse ==
  ASSUME TypeOK, ParseInv, Plain(datagram), ObeyMove
  PROVE  ParseInv'
  <1>1. pc = "parse" /\ p # end /\ p \in Nat /\ pkg[p] = Dollar /\ pkg[p + 1] = 3
    BY DEF ObeyMove, At, TypeOK
  <1>2. PICK k \in 0 .. Len(datagram) :
          LET c == datagram[k + 1]
              n == Len(Encode(c))
          IN  /\ Progress(k) /\ p = Sent(datagram, k)
              /\ k + 1 \in 1 .. Len(datagram) /\ c \in Command
              /\ \A j \in 1 .. n : pkg[p + j - 1] = Encode(c)[j]
              /\ c.kind = "move"
    BY <1>1, AtDollar
  <1> DEFINE c == datagram[k + 1]
  <1> HIDE DEF c
  <1>3. Len(Encode(c)) = 6 /\ ForBoard(c) = <<Space, Encode(c)[5], Encode(c)[6]>>
    BY <1>2, CommandBytes DEF c
  <1>4. c # Ports /\ c # Stop
    BY <1>2 DEF Stop, Ports, c
  <1>5. pkg[p + 4] = Encode(c)[5] /\ pkg[p + 5] = Encode(c)[6]
    <2>1. pkg[p + 5 - 1] = Encode(c)[5] /\ pkg[p + 6 - 1] = Encode(c)[6]
      BY <1>2, <1>3 DEF c
    <2>2. p + 5 - 1 = p + 4 /\ p + 6 - 1 = p + 5
      BY <1>1
    <2>3. QED
      BY <2>1, <2>2
  <1>6. tty' = tty \o ForBoard(c)
    BY <1>3, <1>5 DEF ObeyMove
  <1>7. \A i \in p + 6 .. end - 1 : pkg'[i] = pkg[i]
    <2>1. pkg \in [0 .. BufSize - 1 -> Byte] /\ end \in Nat /\ end <= BufSize
      BY BufAssumption DEF TypeOK
    <2>2. pkg' = [pkg EXCEPT ![p + 3] = Space]
      BY DEF ObeyMove
    <2>3. \A i \in p + 6 .. end - 1 : i \in 0 .. BufSize - 1 /\ i # p + 3
      BY <1>1, <2>1, BufAssumption
    <2>4. QED
      BY <2>1, <2>2, <2>3
  <1>8. plen' = plen /\ sig' = sig /\ p' = p + 6 /\ Obeyed
    BY DEF ObeyMove
  <1>9. QED
    BY <1>1, <1>2, <1>3, <1>4, <1>6, <1>7, <1>8, Advance DEF c

\* The cursor does not leave the buffer: a whole command lies before it.
LEMMA NoRunAway ==
  ASSUME TypeOK, ParseInv, Plain(datagram), RunAway
  PROVE  FALSE
  <1>1. pc = "parse" /\ p # end /\ p \in Nat /\ end \in Nat /\ end <= BufSize
    BY BufAssumption DEF RunAway, Leave, TypeOK
  <1>2. p < BufSize
    BY <1>1, BufAssumption DEF ParseInv
  <1>3. pkg[p] = Dollar
    BY <1>1, <1>2, BufAssumption DEF RunAway, Leave
  <1>4. PICK k \in 0 .. Len(datagram) :
          LET c == datagram[k + 1]
              n == Len(Encode(c))
          IN  /\ c \in Command /\ p + n <= end
              /\ pkg[p + 1] = 2 => c.kind = "state"
              /\ pkg[p + 1] = 3 => c.kind = "move"
    BY <1>1, <1>3, AtDollar
  <1> DEFINE c == datagram[k + 1]
             n == Len(Encode(c))
  <1> HIDE DEF c
  <1>5. /\ n \in Nat /\ n >= 2
        /\ c.kind = "state" => n = 5
        /\ c.kind = "move" => n = 6
    BY <1>4, CommandBytes DEF c
  <1>6. /\ p + n <= BufSize
        /\ pkg[p + 1] = 2 => n = 5
        /\ pkg[p + 1] = 3 => n = 6
    BY <1>1, <1>4, <1>5, BufAssumption DEF c
  <1> HIDE DEF n
  <1>7. QED
    BY <1>1, <1>2, <1>5, <1>6, BufAssumption DEF RunAway, Leave

LEMMA FinishParse ==
  ASSUME TypeOK, ParseInv, Plain(datagram), Finish
  PROVE  ParseInv'
  <1>1. pc = "parse" /\ p = end /\ pc' = "reply"
    BY DEF Finish
  <1>2. UNCHANGED <<pkg, p, end, plen, sig, tty, datagram, count>>
    BY DEF Finish
  <1>3. datagram \in Seq(Command) /\ end = Len(Bytes(datagram)) /\ Len(datagram) \in Nat /\ end \in Nat
    BY <1>1, BufAssumption DEF ParseInv, TypeOK
  <1>4. PICK k \in 0 .. Len(datagram) :
          /\ Progress(k)
          /\ p = Sent(datagram, k) \/ p = Sent(datagram, k) - 1
    BY <1>1, Cursor
  <1>5. Sent(datagram, k) \in 0 .. end
    BY <1>3, DatagramLayout
  <1>6. p = Sent(datagram, k)
    BY <1>1, <1>3, <1>4, <1>5
  <1>7. k = Len(datagram)
    <2> SUFFICES ASSUME k # Len(datagram)
                 PROVE  FALSE
      OBVIOUS
    <2>1. k + 1 \in 1 .. Len(datagram) /\ (k + 1) - 1 = k /\ k + 1 \in 0 .. Len(datagram)
      BY <1>3
    <2>2. Sent(datagram, k + 1) = Sent(datagram, k) + Len(Encode(datagram[k + 1]))
      BY <1>3, <2>1, DatagramLayout
    <2>3. Sent(datagram, k + 1) \in 0 .. end
      BY <1>3, <2>1, DatagramLayout
    <2>4. Len(Encode(datagram[k + 1])) \in Nat /\ Len(Encode(datagram[k + 1])) >= 2
      BY <1>3, <2>1, CommandBytes
    <2>5. QED
      BY <1>1, <1>3, <1>6, <2>2, <2>3, <2>4
  <1>8. Progress(k)'
    BY <1>2, <1>4, <1>6, <1>7 DEF Progress
  <1>9. QED
    BY <1>1, <1>2, <1>3, <1>8 DEF ParseInv

LEMMA ParseInvStep ==
  ASSUME TypeOK, ParseInv, [Next]_vars
  PROVE  ParseInv'
  <1>1. CASE UNCHANGED vars
    BY <1>1 DEF vars, ParseInv, Progress
  <1>2. ASSUME NEW d \in Datagrams, Receive(d)
        PROVE  ParseInv'
    BY <1>2, ReceiveParse
  <1>3. CASE Skip \/ ObeyPorts \/ ObeyStop \/ ObeyState \/ ObeyMove \/ RunAway \/ Finish
    <2>1. datagram' = datagram
      BY <1>3 DEF Skip, ObeyPorts, ObeyStop, ObeyState, ObeyMove, RunAway, Finish, Obeyed
    <2>2. CASE Plain(datagram)
      BY <1>3, <2>2, SkipParse, PortsParse, StopParse, StateParse, MoveParse, NoRunAway, FinishParse
    <2>3. CASE ~ Plain(datagram)
      BY <2>1, <2>3 DEF ParseInv
    <2>4. QED
      BY <2>2, <2>3
  <1>4. CASE Reply
    BY <1>4 DEF Reply, ParseInv
  <1>5. QED
    BY <1>1, <1>2, <1>3, <1>4 DEF Next

\* The cursor is at the beginning of a command of the datagram, and what stands
\* before it has been obeyed, in every reachable state.
THEOREM ParseInvariant == Spec => []ParseInv
  <1>1. Init => ParseInv
    <2> SUFFICES ASSUME Init
                 PROVE  ParseInv
      OBVIOUS
    <2>1. datagram = << >> /\ pc = "recv" /\ p = 0 /\ end = 0
      BY DEF Init
    <2>2. QED
      BY <2>1 DEF ParseInv
  <1>2. QED
    BY <1>1, ParseInvStep, TypeCorrect, PTL DEF Spec

\* Whatever plain datagram arrives, of any number of commands with any payload:
\* when it has been parsed, the board has received exactly the bytes of its
\* commands, a reply is due iff the ports were asked for, and a stop has stopped.
THEOREM CommandsAreObeyed == Spec => []CommandsObeyed
  <1>1. TypeOK /\ ParseInv => CommandsObeyed
    <2> SUFFICES ASSUME TypeOK, ParseInv, pc = "reply", Plain(datagram)
                 PROVE  /\ tty = BoardBytes(datagram)
                        /\ plen = (IF Ports \in ToSet(datagram) THEN 8 ELSE 0)
                        /\ Stop \in ToSet(datagram) => sig = 2
      BY DEF CommandsObeyed
    <2>1. datagram \in Seq(Command) /\ DOMAIN datagram = 1 .. Len(datagram)
      BY DEF ParseInv
    <2>2. Progress(Len(datagram))
      BY DEF ParseInv, Progress
    <2>3. BoardBytes(SubSeq(datagram, 1, Len(datagram))) = BoardBytes(datagram)
      BY <2>1, BoardLayout
    <2>4. \A c : c \in ToSet(datagram) <=> \E i \in 1 .. Len(datagram) : datagram[i] = c
      BY <2>1 DEF ToSet
    <2>5. QED
      BY <2>2, <2>3, <2>4 DEF Progress
  <1>2. QED
    BY <1>1, ParseInvariant, TypeCorrect, PTL

\* And meanwhile it receives no byte out of order, and the cursor stays in the
\* buffer and never passes the end of the datagram.
THEOREM BoardIsInOrder == Spec => []BoardInOrder
  <1>1. TypeOK /\ ParseInv => BoardInOrder
    <2> SUFFICES ASSUME TypeOK, ParseInv, Plain(datagram)
                 PROVE  /\ p <= end /\ pc # "wild"
                        /\ pc \in {"parse", "reply"} => IsPrefix(tty, BoardBytes(datagram))
      BY DEF BoardInOrder
    <2>1. datagram \in Seq(Command)
      BY DEF ParseInv
    <2>2. ASSUME pc \in {"parse", "reply"}
          PROVE  IsPrefix(tty, BoardBytes(datagram))
      <3>1. PICK k \in 0 .. Len(datagram) : tty = BoardBytes(SubSeq(datagram, 1, k))
        BY <2>2 DEF ParseInv, Progress
      <3>2. QED
        BY <2>1, <3>1, BoardLayout
    <2>3. QED
      BY <2>2 DEF ParseInv
  <1>2. QED
    BY <1>1, ParseInvariant, TypeCorrect, PTL

\* No payload stops the streams: only a stop command sets the shared byte.
THEOREM StopsOnRequest == Spec => StopOnlyOnRequest
  <1>1. TypeOK /\ ParseInv /\ [Next]_vars
          => [sig' # sig /\ Plain(datagram) => Stop \in ToSet(datagram)]_vars
    <2> SUFFICES ASSUME TypeOK, ParseInv, Next, sig' # sig, Plain(datagram)
                 PROVE  Stop \in ToSet(datagram)
      OBVIOUS
    <2>1. ObeyStop
      BY DEF Next, Receive, Skip, ObeyPorts, ObeyState, ObeyMove, RunAway, Finish, Reply
    <2>2. QED
      BY <2>1, StopParse DEF ToSet
  <1>2. QED
    BY <1>1, ParseInvariant, TypeCorrect, PTL DEF Spec, StopOnlyOnRequest
=============================================================================
