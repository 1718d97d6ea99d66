------------------------------- MODULE LobotServo -------------------------------
(***************************************************************************)
(* A sketch and the servo board, joined by Serial1: the command functions  *)
(* and receiveHandle of LobotServoController.cpp, the serial line in both  *)
(* directions, and a board that obeys commands and reports what it does.   *)
(*                                                                         *)
(* receiveHandle takes one byte per call until it knows the length of a    *)
(* report and then blocks in readBytes.  The bytes wait in the ring of the *)
(* serial driver, which drops what does not fit: a sketch that spends its  *)
(* time in delay() loses bytes in the middle of reports.  The driver and   *)
(* the board are modelled from how the library uses them.                  *)
(***************************************************************************)
EXTENDS LobotFrames, SequencesExt

CONSTANTS
  RingSize,     \* bytes the serial driver holds, 64 on the boards used
  BufSize,      \* bytes of receiveHandle's buf, 16
  Groups,       \* action groups
  Times,        \* how often a group is to run
  Voltages,     \* what the board measures
  Moves,        \* servo positions
  StackBytes,   \* what an uninitialised byte of buf may hold
  MaxCalls      \* bound: commands the sketch gives

\* The smallest buffer holds the longest report, all 7 bytes of it: a receiver
\* that is out of step may read its header as well.
ASSUME SizesAssumption ==
  /\ RingSize \in Nat \ {0} /\ BufSize \in Nat /\ BufSize >= 7
  /\ MaxCalls \in Nat
ASSUME ValuesAssumption ==
  /\ Groups \subseteq 0 .. 254 /\ Times \subseteq Word /\ Voltages \subseteq Word
  /\ Moves \subseteq Word /\ StackBytes \subseteq Byte /\ StackBytes # {}

VARIABLES
  tx,                      \* bytes on their way to the board
  asked,                   \* history: the commands they are, oldest first
  board,                   \* what the board does
  wire,                    \* bytes on their way to the sketch
  rx,                      \* bytes in the ring of the serial driver
  pc,                      \* "idle": in the sketch, "reading": in readBytes, "overrun"
  buf,                     \* what readBytes has read so far
  getHeader, len,          \* the static variables of receiveHandle
  numOfActinGroupRunning, actionGroupRunTimes, isRunning, batteryVoltage,
  sync,                    \* history: what was lost on the line, see Report
  fresh,                   \* history: what was reported since
  calls                    \* commands given so far

fields == <<numOfActinGroupRunning, actionGroupRunTimes, isRunning, batteryVoltage>>
receiver == <<pc, buf, getHeader, len, fields>>
vars == <<tx, asked, board, wire, rx, receiver, sync, fresh, calls>>

Commands ==
  [op : {"run"}, group : Groups, times : Times] \cup [op : {"stop", "battery"}]
    \cup [op : {"speed"}, group : Groups \cup {AllGroups}, speed : Times]
    \cup [op : {"move"}, servos : 1 .. 32]

TypeOK ==
  /\ tx \in Seq(Byte)
  /\ asked \in Seq(Commands)
  /\ board \in [group : Groups \cup {AllGroups}, times : Times \cup {0}, volts : Voltages \cup {0}]
  /\ wire \in Seq(Byte)
  /\ rx \in Seq(Byte) /\ Len(rx) <= RingSize
  /\ pc \in {"idle", "reading", "overrun"}
  /\ buf \in Seq(Byte) /\ Len(buf) <= BufSize
  /\ getHeader \in 0 .. 3 /\ len \in Byte
  /\ numOfActinGroupRunning \in Byte /\ actionGroupRunTimes \in Word
  /\ isRunning \in BOOLEAN /\ batteryVoltage \in Word
  /\ sync \in {"sync", "lost", "resync"}
  /\ fresh \subseteq {"group", "volts"}
  /\ calls \in 0 .. MaxCalls

Init ==
  /\ tx = << >> /\ asked = << >> /\ wire = << >> /\ rx = << >>
  /\ board = [group |-> AllGroups, times |-> 0, volts |-> 0]
  /\ pc = "idle" /\ buf = << >> /\ getHeader = 0 /\ len = 0
  /\ numOfActinGroupRunning = AllGroups
  /\ actionGroupRunTimes = 0
  /\ isRunning = FALSE
  /\ batteryVoltage = 0
  /\ sync = "sync" /\ fresh = {"group", "volts"}
  /\ calls = 0

-----------------------------------------------------------------------------
(* The sketch gives commands. *)

Write(command, frame) ==
  /\ pc = "idle"
  /\ calls < MaxCalls
  /\ calls' = calls + 1
  /\ tx' = tx \o frame
  /\ asked' = Append(asked, command)
  /\ UNCHANGED <<board, wire, rx, receiver, sync, fresh>>

CallRun ==
  \E g \in Groups, t \in Times :
    Write([op |-> "run", group |-> g, times |-> t], runActionGroup(g, t))

CallStop == Write([op |-> "stop"], stopActiongGroup)

CallBattery == Write([op |-> "battery"], getBatteryVoltage)

CallSpeed ==
  \E t \in Times :
    \/ \E g \in Groups :
         Write([op |-> "speed", group |-> g, speed |-> t], setActionGroupSpeed(g, t))
    \/ Write([op |-> "speed", group |-> AllGroups, speed |-> t], setAllActionGroupSpeed(t))

\* Pan and tilt, servos 19 and 20, together or one of them.
CallMove ==
  \E p, t \in Moves :
    LET both == <<[ID |-> 20, Position |-> p], [ID |-> 19, Position |-> p]>>
    IN  \/ Movable(20, t) /\ Write([op |-> "move", servos |-> 1], moveServo(20, p, t))
        \/ MovableAll(both, t) /\ Write([op |-> "move", servos |-> 2], moveServos(both, t))

Sketch == CallRun \/ CallStop \/ CallBattery \/ CallSpeed \/ CallMove

-----------------------------------------------------------------------------
(* The board. *)

\* How the board reads the first frame of what it received.
Meaning(f) ==
  CASE f[4] = CMD_ACTION_GROUP_RUN ->
         [op |-> "run", group |-> f[5], times |-> BYTE_TO_HW(f[7], f[6])]
    [] f[4] = CMD_ACTION_GROUP_STOP -> [op |-> "stop"]
    [] f[4] = CMD_GET_BATTERY_VOLTAGE -> [op |-> "battery"]
    [] f[4] = CMD_ACTION_GROUP_SPEED ->
         [op |-> "speed", group |-> f[5], speed |-> BYTE_TO_HW(f[7], f[6])]
    [] f[4] = CMD_SERVO_MOVE -> [op |-> "move", servos |-> f[5]]
    [] OTHER -> [op |-> "none"]

BATTERY_VOLTAGE == 15
ACTION_GROUP_RUNNING == 6
ACTION_GROUP_STOPPED == 7
ACTION_GROUP_COMPLETE == 8

\* The reports, in the layout receiveHandle expects.
Voltage(v) ==
  <<FRAME_HEADER, FRAME_HEADER, 4, BATTERY_VOLTAGE, GET_LOW_BYTE(v), GET_HIGH_BYTE(v)>>
GroupReport(code, g, t) ==
  <<FRAME_HEADER, FRAME_HEADER, 5, code, g, GET_LOW_BYTE(t), GET_HIGH_BYTE(t)>>
Stopped == <<FRAME_HEADER, FRAME_HEADER, 2, ACTION_GROUP_STOPPED>>

\* Nothing on the line, nothing in the ring, and readBytes has come back.
Quiet == wire = << >> /\ rx = << >> /\ pc = "idle"

\* A report without a header byte inside it.
Plain(f) == \A i \in 3 .. Len(f) : f[i] # FRAME_HEADER

\* The board sends a report.  After a loss ("lost") a plain report that comes
\* out of silence ("resync") is to bring the receiver back into step ("sync"),
\* if silence follows it too.
Report(kind, f) ==
  /\ wire' = wire \o f
  /\ sync' = CASE sync = "sync" -> "sync"
               [] sync = "resync" /\ Quiet -> "sync"
               [] sync = "lost" /\ Quiet /\ Plain(f) -> "resync"
               [] OTHER -> "lost"
  /\ fresh' = IF sync' = "sync" THEN fresh \cup {kind} ELSE {}

BoardObeys ==
  /\ tx # << >>
  /\ tx' = SubSeq(tx, tx[3] + 3, Len(tx))
  /\ asked' = Tail(asked)
  /\ LET c == Meaning(tx)
     IN  \/ /\ c.op = "run"
            /\ board' = [board EXCEPT !.group = c.group, !.times = c.times]
            /\ Report("group", GroupReport(ACTION_GROUP_RUNNING, c.group, c.times))
         \/ /\ c.op = "stop"
            /\ board' = [board EXCEPT !.group = AllGroups, !.times = 0]
            /\ Report("group", Stopped)
         \/ /\ c.op = "battery"
            /\ \E v \in Voltages :
                 /\ board' = [board EXCEPT !.volts = v]
                 /\ Report("volts", Voltage(v))
         \/ /\ c.op \in {"speed", "move", "none"}
            /\ UNCHANGED <<board, wire, sync, fresh>>
  /\ UNCHANGED <<rx, receiver, calls>>

\* A group that runs a given number of times ends by itself.
BoardCompletes ==
  /\ board.group # AllGroups
  /\ board.times # 0
  /\ board' = [board EXCEPT !.group = AllGroups, !.times = 0]
  /\ Report("group", GroupReport(ACTION_GROUP_COMPLETE, board.group, board.times))
  /\ UNCHANGED <<tx, asked, rx, receiver, calls>>

\* A byte reaches the serial driver, and is dropped if the ring is full.
Arrive ==
  /\ wire # << >>
  /\ pc # "overrun"
  /\ wire' = Tail(wire)
  /\ IF Len(rx) < RingSize
       THEN rx' = Append(rx, Head(wire)) /\ UNCHANGED <<sync, fresh>>
       ELSE sync' = "lost" /\ fresh' = {} /\ UNCHANGED rx
  /\ UNCHANGED <<tx, asked, board, receiver, calls>>

-----------------------------------------------------------------------------
(* receiveHandle *)

Outside == UNCHANGED <<tx, asked, board, wire, sync, fresh, calls>>

\* Serial1.read(), in the state h.
ReadIn(h) ==
  /\ pc = "idle"
  /\ getHeader = h
  /\ rx # << >>
  /\ rx' = Tail(rx)
  /\ UNCHANGED <<pc, buf, fields>>
  /\ Outside

\* Mutant: one header byte is enough.
FirstHeaderEnough ==
  /\ ReadIn(0)
  /\ getHeader' = IF Head(rx) = FRAME_HEADER THEN 2 ELSE 0
  /\ UNCHANGED len

FirstHeader ==
  /\ ReadIn(0)
  /\ getHeader' = IF Head(rx) = FRAME_HEADER THEN 1 ELSE 0
  /\ UNCHANGED len

SecondHeader ==
  /\ ReadIn(1)
  /\ getHeader' = IF Head(rx) = FRAME_HEADER THEN 2 ELSE 0
  /\ UNCHANGED len

Length ==
  /\ ReadIn(2)
  /\ len' = Head(rx)
  /\ getHeader' = 3

\* readBytes(buf, len - 1) is called with at least one byte waiting.
BeginRead ==
  /\ pc = "idle"
  /\ getHeader = 3
  /\ rx # << >>
  /\ pc' = "reading"
  /\ UNCHANGED <<rx, buf, getHeader, len, fields>>
  /\ Outside

\* readBytes wants more; a length of 0 makes len - 1 the largest size_t.
MoreWanted == len = 0 \/ Len(buf) < len - 1

\* Mutant: the buffer has no end.
ReadByteUnbounded ==
  /\ pc = "reading"
  /\ MoreWanted
  /\ rx # << >>
  /\ rx' = Tail(rx)
  /\ buf' = Append(buf, Head(rx))
  /\ UNCHANGED <<pc, getHeader, len, fields>>
  /\ Outside

\* Behind the end of buf is the caller's stack: what follows is not modelled.
ReadByte ==
  /\ pc = "reading"
  /\ MoreWanted
  /\ rx # << >>
  /\ rx' = Tail(rx)
  /\ IF Len(buf) < BufSize
       THEN buf' = Append(buf, Head(rx)) /\ UNCHANGED pc
       ELSE pc' = "overrun" /\ UNCHANGED buf
  /\ UNCHANGED <<getHeader, len, fields>>
  /\ Outside

\* What buf[i - 1] may hold: buf is not initialised.
Seen(i) == IF i <= Len(buf) THEN {buf[i]} ELSE StackBytes

Stop ==
  /\ isRunning' = FALSE
  /\ numOfActinGroupRunning' = AllGroups
  /\ actionGroupRunTimes' = 0
  /\ UNCHANGED batteryVoltage

\* Mutant: a group that completes is not told from one that runs.
DecodeRunsOn ==
  \/ /\ buf[1] = BATTERY_VOLTAGE
     /\ \E lo \in Seen(2), hi \in Seen(3) : batteryVoltage' = BYTE_TO_HW(hi, lo)
     /\ UNCHANGED <<numOfActinGroupRunning, actionGroupRunTimes, isRunning>>
  \/ /\ buf[1] \in {ACTION_GROUP_RUNNING, ACTION_GROUP_COMPLETE}
     /\ \E g \in Seen(2), lo \in Seen(3), hi \in Seen(4) :
          /\ numOfActinGroupRunning' = g
          /\ actionGroupRunTimes' = BYTE_TO_HW(hi, lo)
     /\ isRunning' = TRUE
     /\ UNCHANGED batteryVoltage
  \/ buf[1] = ACTION_GROUP_STOPPED /\ Stop
  \/ /\ buf[1] \notin {BATTERY_VOLTAGE, ACTION_GROUP_RUNNING, ACTION_GROUP_STOPPED,
                       ACTION_GROUP_COMPLETE}
     /\ UNCHANGED fields

Decode ==
  \/ /\ buf[1] = BATTERY_VOLTAGE
     /\ \E lo \in Seen(2), hi \in Seen(3) : batteryVoltage' = BYTE_TO_HW(hi, lo)
     /\ UNCHANGED <<numOfActinGroupRunning, actionGroupRunTimes, isRunning>>
  \/ /\ buf[1] = ACTION_GROUP_RUNNING
     /\ \E g \in Seen(2), lo \in Seen(3), hi \in Seen(4) :
          /\ numOfActinGroupRunning' = g
          /\ actionGroupRunTimes' = BYTE_TO_HW(hi, lo)
     /\ isRunning' = TRUE
     /\ UNCHANGED batteryVoltage
  \/ buf[1] \in {ACTION_GROUP_STOPPED, ACTION_GROUP_COMPLETE} /\ Stop
  \/ /\ buf[1] \notin {BATTERY_VOLTAGE, ACTION_GROUP_RUNNING, ACTION_GROUP_STOPPED,
                       ACTION_GROUP_COMPLETE}
     /\ UNCHANGED fields

\* readBytes has all it wants, or gives up after a second without a byte.  A
\* byte on the line takes a millisecond, so only silence makes it give up.
ReadOver == ~ MoreWanted \/ (rx = << >> /\ wire = << >>)

\* Mutant: a read that gave up leaves the receiver waiting for the rest.
EndReadWaits ==
  /\ pc = "reading"
  /\ ReadOver
  /\ IF buf = << >> THEN UNCHANGED fields ELSE Decode
  /\ IF MoreWanted THEN UNCHANGED <<getHeader, len>> ELSE getHeader' = 0 /\ len' = 0
  /\ pc' = "idle" /\ buf' = << >>
  /\ UNCHANGED rx
  /\ Outside

\* What was read is decoded even if it is not all that was wanted.
EndRead ==
  /\ pc = "reading"
  /\ ReadOver
  /\ IF buf = << >> THEN UNCHANGED fields ELSE Decode
  /\ getHeader' = 0 /\ len' = 0
  /\ pc' = "idle" /\ buf' = << >>
  /\ UNCHANGED rx
  /\ Outside

receiveHandle == FirstHeader \/ SecondHeader \/ Length \/ BeginRead \/ ReadByte \/ EndRead

Next == Sketch \/ BoardObeys \/ BoardCompletes \/ Arrive \/ receiveHandle

Spec == Init /\ [][Next]_vars

-----------------------------------------------------------------------------
(* What must hold. *)

\* The board reads exactly the commands that were given, in their order.
CommandsRead ==
  /\ tx = << >> <=> asked = << >>
  /\ tx # << >> => Len(tx) >= tx[3] + 2 /\ Meaning(tx) = asked[1]

\* Whenever the line is silent and no report was spoilt, the sketch's fields
\* are what the board does: for each of them that was reported since.
BoardShown ==
  Quiet /\ sync = "sync" =>
    /\ "group" \in fresh =>
         /\ numOfActinGroupRunning = board.group
         /\ actionGroupRunTimes = board.times
         /\ isRunning = (board.group # AllGroups)
    /\ "volts" \in fresh => batteryVoltage = board.volts

\* However many bytes were lost, and wherever: one plain report with silence
\* on both sides brings the receiver back to the beginning of a report.
Resynchronised == Quiet /\ sync \in {"sync", "resync"} => getHeader = 0

\* Only a receiver that bytes were taken from writes beyond its buffer.
OverrunOnlyAfterLoss == pc = "overrun" => sync = "lost"
=============================================================================
