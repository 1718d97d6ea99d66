---------------------------- MODULE ControlParser ----------------------------
(***************************************************************************)
(* process_request of RPRobot-master/test.c, byte by byte: the control     *)
(* server walks a cursor over the datagram in pkgbuf, obeys the commands   *)
(* it finds, relays bytes to the robot's board and builds its reply in the *)
(* same buffer it is still reading.                                        *)
(*                                                                         *)
(* A datagram is a sequence of commands; one longer than the buffer is cut *)
(* off by recvfrom.  The buffer keeps its bytes from one datagram to the   *)
(* next.  The shared byte and the processes behind it are RobotServer.     *)
(***************************************************************************)
EXTENDS Integers, Sequences, SequencesExt

CONSTANTS
  BufSize,        \* CTL_PACKAGE_SIZE, 0x0100 in the code
  Datagrams,      \* what clients send: sequences of commands
  MaxDatagrams    \* bound: datagrams in one behaviour

Byte == 0 .. 255
Dollar == 36
Space == 32

Stop == [kind |-> "stop"]
Ports == [kind |-> "ports"]
State(load) == [kind |-> "state", load |-> load]
Move(load) == [kind |-> "move", load |-> load]

\* The first eight bytes hold the reply, and the port numbers fill four.
ASSUME BufAssumption == BufSize \in Nat /\ BufSize >= 8
ASSUME BoundAssumption == MaxDatagrams \in Nat

\* The layout the branches of process_request take for granted.
Encode(c) ==
  CASE c.kind = "stop"  -> <<Dollar, 0>>
    [] c.kind = "ports" -> <<Dollar, 1>>
    [] c.kind = "state" -> <<Dollar, 2>> \o c.load
    [] c.kind = "move"  -> <<Dollar, 3>> \o c.load

\* What the board is to receive for a command.
ForBoard(c) ==
  CASE c.kind = "stop"  -> <<Dollar>>
    [] c.kind = "ports" -> << >>
    [] c.kind = "state" -> <<c.load[3]>>
    [] c.kind = "move"  -> <<Space, c.load[3], c.load[4]>>

Bytes(d) == FlattenSeq([i \in DOMAIN d |-> Encode(d[i])])
BoardBytes(d) == FlattenSeq([i \in DOMAIN d |-> ForBoard(d[i])])

\* Commands carry bytes: three after the type of a state, four of a move.
Command ==
  [kind : {"stop", "ports"}]
    \cup [kind : {"state"}, load : [1 .. 3 -> Byte]]
    \cup [kind : {"move"}, load : [1 .. 4 -> Byte]]

ASSUME DatagramAssumption == \A d \in Datagrams : d \in Seq(Command)

\* htons(555), htons(10556)
PortBytes == <<2, 43, 41, 60>>

VARIABLES
  pc,        \* "recv", "parse", "reply", or "wild": the cursor has left pkgbuf
  pkg,       \* the buffer, indexed as in C
  p,         \* the cursor, an index of pkg
  end,       \* pkg_end
  plen,      \* *plen
  sig,       \* the shared byte
  tty,       \* bytes written to the board for this datagram
  datagram,  \* history: the commands of this datagram
  count      \* datagrams received

vars == <<pc, pkg, p, end, plen, sig, tty, datagram, count>>

TypeOK ==
  /\ pc \in {"recv", "parse", "reply", "wild"}
  /\ pkg \in [0 .. BufSize - 1 -> Byte]
  /\ p \in Nat
  /\ end \in 0 .. BufSize
  /\ plen \in {0, 8}
  /\ sig \in {0, 2}
  /\ tty \in Seq(Byte)
  /\ count \in 0 .. MaxDatagrams

Init ==
  /\ pc = "recv"
  /\ pkg = [i \in 0 .. BufSize - 1 |-> 0]
  /\ p = 0
  /\ end = 0
  /\ plen = 0
  /\ sig = 0
  /\ tty = << >>
  /\ datagram = << >>
  /\ count = 0

\* Mutant: recvfrom is given more room than pkgbuf has.
ReceiveUnbounded(d) ==
  /\ pc = "recv"
  /\ count < MaxDatagrams
  /\ LET b == Bytes(d) IN
       /\ pkg' = [i \in 0 .. BufSize - 1 |-> IF i < Len(b) THEN b[i + 1] ELSE pkg[i]]
       /\ end' = Len(b)
  /\ p' = 0
  /\ plen' = 0
  /\ tty' = << >>
  /\ datagram' = d
  /\ count' = count + 1
  /\ pc' = "parse"
  /\ UNCHANGED sig

\* Mutant: *plen is not reset.
ReceiveKeepsReply(d) ==
  /\ pc = "recv"
  /\ count < MaxDatagrams
  /\ LET b == Bytes(d)
         n == IF Len(b) < BufSize THEN Len(b) ELSE BufSize IN
       /\ pkg' = [i \in 0 .. BufSize - 1 |-> IF i < n THEN b[i + 1] ELSE pkg[i]]
       /\ end' = n
  /\ p' = 0
  /\ tty' = << >>
  /\ datagram' = d
  /\ count' = count + 1
  /\ pc' = "parse"
  /\ UNCHANGED <<sig, plen>>

Receive(d) ==
  /\ pc = "recv"
  /\ count < MaxDatagrams
  /\ LET b == Bytes(d)
         n == IF Len(b) < BufSize THEN Len(b) ELSE BufSize IN
       /\ pkg' = [i \in 0 .. BufSize - 1 |-> IF i < n THEN b[i + 1] ELSE pkg[i]]
       /\ end' = n
  /\ p' = 0
  /\ plen' = 0
  /\ tty' = << >>
  /\ datagram' = d
  /\ count' = count + 1
  /\ pc' = "parse"
  /\ UNCHANGED sig

\* The loop is at the byte pkg[p], which is not pkg_end, and may look as far
\* as pkg[p + n] without leaving the buffer.
At(n) == pc = "parse" /\ p # end /\ p + n < BufSize

Leave(n) == pc = "parse" /\ p # end /\ p + n >= BufSize

Obeyed == UNCHANGED <<pc, end, datagram, count>>

\* Not a '$', or a '$' before none of the four commands.
Skip ==
  /\ At(0)
  /\ \/ pkg[p] # Dollar
     \/ At(1) /\ pkg[p] = Dollar /\ pkg[p + 1] \notin 0 .. 3
  /\ p' = p + 1
  /\ Obeyed
  /\ UNCHANGED <<pkg, plen, sig, tty>>

\* The reply overwrites the head of the datagram; the type byte is read again
\* as an ordinary byte.
ObeyPorts ==
  /\ At(1)
  /\ pkg[p] = Dollar /\ pkg[p + 1] = 1
  /\ pkg' = [i \in DOMAIN pkg |-> IF i < 4 THEN PortBytes[i + 1] ELSE pkg[i]]
  /\ plen' = 8
  /\ p' = p + 1
  /\ Obeyed
  /\ UNCHANGED <<sig, tty>>

ObeyStop ==
  /\ At(1)
  /\ pkg[p] = Dollar /\ pkg[p + 1] = 0
  /\ sig' = 2
  /\ tty' = Append(tty, pkg[p])
  /\ p' = p + 2
  /\ Obeyed
  /\ UNCHANGED <<pkg, plen>>

ObeyState ==
  /\ At(4)
  /\ pkg[p] = Dollar /\ pkg[p + 1] = 2
  /\ tty' = Append(tty, pkg[p + 4])
  /\ p' = p + 5
  /\ Obeyed
  /\ UNCHANGED <<pkg, plen, sig>>

\* Mutant: the cursor is left on the bytes just relayed.
ObeyMoveShort ==
  /\ At(5)
  /\ pkg[p] = Dollar /\ pkg[p + 1] = 3
  /\ pkg' = [pkg EXCEPT ![p + 3] = Space]
  /\ tty' = tty \o <<Space, pkg[p + 4], pkg[p + 5]>>
  /\ p' = p + 4
  /\ Obeyed
  /\ UNCHANGED <<plen, sig>>

\* Mutant: the space is put at a fixed place of the buffer.
ObeyMoveAtHead ==
  /\ At(5)
  /\ pkg[p] = Dollar /\ pkg[p + 1] = 3
  /\ pkg' = [pkg EXCEPT ![2] = Space]
  /\ tty' = tty \o <<Space, pkg[p + 4], pkg[p + 5]>>
  /\ p' = p + 6
  /\ Obeyed
  /\ UNCHANGED <<plen, sig>>

ObeyMove ==
  /\ At(5)
  /\ pkg[p] = Dollar /\ pkg[p + 1] = 3
  /\ pkg' = [pkg EXCEPT ![p + 3] = Space]
  /\ tty' = tty \o <<Space, pkg[p + 4], pkg[p + 5]>>
  /\ p' = p + 6
  /\ Obeyed
  /\ UNCHANGED <<plen, sig>>

\* `p != pkg_end` does not stop a cursor that jumped over pkg_end: it goes on
\* through what is left in the buffer and then through memory.
RunAway ==
  /\ \/ Leave(0)
     \/ ~Leave(0) /\ Leave(1) /\ pkg[p] = Dollar
     \/ ~Leave(1) /\ Leave(4) /\ pkg[p] = Dollar /\ pkg[p + 1] = 2
     \/ ~Leave(1) /\ Leave(5) /\ pkg[p] = Dollar /\ pkg[p + 1] = 3
  /\ pc' = "wild"
  /\ UNCHANGED <<pkg, p, end, plen, sig, tty, datagram, count>>

Finish ==
  /\ pc = "parse"
  /\ p = end
  /\ pc' = "reply"
  /\ UNCHANGED <<pkg, p, end, plen, sig, tty, datagram, count>>

\* if (len && sendto(...)): the first plen bytes of the buffer.
Reply ==
  /\ pc = "reply"
  /\ pc' = "recv"
  /\ UNCHANGED <<pkg, p, end, plen, sig, tty, datagram, count>>

Next ==
  \/ \E d \in Datagrams : Receive(d)
  \/ Skip
  \/ ObeyPorts
  \/ ObeyStop
  \/ ObeyState
  \/ ObeyMove
  \/ RunAway
  \/ Finish
  \/ Reply

Spec == Init /\ [][Next]_vars

-----------------------------------------------------------------------------
(* What must hold. *)

\* The datagram fits the buffer, and no ports request precedes other commands
\* (its reply would overwrite the bytes of the next one).
Plain(d) == Len(Bytes(d)) <= BufSize /\ (Len(d) > 1 => Head(d) # Ports)

\* When a plain datagram has been parsed the board has received exactly the
\* bytes of its commands, in order: no payload byte was taken for a command
\* and no command was passed over; a reply is due iff the ports were asked for.
CommandsObeyed ==
  pc = "reply" /\ Plain(datagram)
    => /\ tty = BoardBytes(datagram)
       /\ plen = (IF Ports \in ToSet(datagram) THEN 8 ELSE 0)
       /\ Stop \in ToSet(datagram) => sig = 2

\* Meanwhile the board never receives a byte out of order, and the cursor never
\* passes pkg_end.
BoardInOrder ==
  Plain(datagram) =>
    /\ p <= end /\ pc # "wild"
    /\ pc \in {"parse", "reply"} => IsPrefix(tty, BoardBytes(datagram))

\* Only a stop command sets the shared byte: no payload does.
StopOnlyOnRequest ==
  [][sig' # sig /\ Plain(datagram) => Stop \in ToSet(datagram)]_vars

\* The reply always opens with the two port numbers: whatever follows the
\* request, however it is parsed, writes behind them.
ReplyIsPorts ==
  plen = 8 => \A i \in 0 .. 3 : pkg[i] = PortBytes[i + 1]
=============================================================================
