------------------------------- MODULE AutoGo -------------------------------
(***************************************************************************)
(* The mission of auto/autoV2/autogoV2: a sketch that drives the robot     *)
(* through a fixed course by commands to the servo board and delays, and   *)
(* once by what its ultrasonic sensor measures.                            *)
(*                                                                         *)
(* A function of the sketch is the sequence of its commands.  The board    *)
(* answers nothing: whether a servo has arrived is only a matter of the    *)
(* time that has passed.  How long an action group takes is not known to   *)
(* the sketch, and not modelled.                                           *)
(***************************************************************************)
EXTENDS Integers, Sequences, SequencesExt

CONSTANTS
  Distances,    \* whole centimetres to what is in front
  MaxLaps       \* bound: times loop() runs

ASSUME AutoGoAssumption == Distances \subseteq Nat \ {0} /\ MaxLaps \in Nat

pan == 19
tilt == 20
Servos == {pan, tilt}

RunCommand(g, n) == [op |-> "run", group |-> g, times |-> n]
MoveCommand(s, p, t) == [op |-> "move", servo |-> s, position |-> p, time |-> t]
delay(t) == [op |-> "delay", time |-> t]
sound_scan == [op |-> "scan"]
search == [op |-> "search"]

Repeat(n, s) == FlattenSeq([i \in 1 .. n |-> s])

-----------------------------------------------------------------------------
(* The sketch. *)

turnleft == RunCommand(7, 7)
go_back == RunCommand(6, 3)
\* Mutant: the time of the moves in the older sketch.
yun_leftSlow == MoveCommand(19, 2500, 10000)
yun_left == MoveCommand(19, 2500, 1000)
yun_right == MoveCommand(19, 500, 1000)
yun_reset == <<MoveCommand(20, 1500, 1000), delay(1000), MoveCommand(19, 1500, 1000), delay(1000)>>
scan_down == MoveCommand(20, 1600, 1000)
scan_up == MoveCommand(20, 1350, 1000)

\* Forward a number of times, and a turn that corrects the drift.
Forward(n) == <<RunCommand(5, n), delay(2000), RunCommand(7, 1), delay(1000)>>

begin_Go ==
  <<sound_scan, delay(1000), yun_left, delay(6000)>> \o yun_reset \o <<delay(2000)>>
    \o Repeat(5, Forward(2))
    \o <<turnleft, delay(5000)>>

search_front_wall ==
  Repeat(3, Forward(1)) \o Forward(2)
    \o <<yun_right, delay(1000), scan_up, delay(1000), delay(8000),
         RunCommand(6, 1), delay(1000), RunCommand(7, 2), delay(3000),
         RunCommand(5, 1), delay(1000), RunCommand(7, 2), delay(2000)>>
    \o Repeat(4, Forward(2))
    \o <<RunCommand(8, 3), delay(1000), delay(8000)>>
    \o Repeat(3, Forward(2))
    \o <<delay(9000)>>

search_left_wall ==
  yun_reset
    \o <<delay(4000), turnleft, delay(5000),
         RunCommand(5, 3), delay(2000), RunCommand(8, 5), delay(9000),
         RunCommand(7, 7), delay(4000),
         search, delay(1000), scan_down, delay(8000)>>
    \o yun_reset
    \o <<delay(1000), turnleft, delay(10000)>>

search_rand ==
  yun_reset
    \o <<delay(2000), RunCommand(5, 1), delay(1000),
         RunCommand(8, 3), delay(4000), RunCommand(5, 5), delay(8000),
         RunCommand(7, 5), delay(6000), yun_right, delay(2000), scan_down, delay(8000)>>
    \o yun_reset
    \o <<delay(1000), RunCommand(5, 2), delay(2000), turnleft, delay(4000),
         yun_right, delay(2000), RunCommand(5, 3), delay(2000), delay(8000),
         yun_left, delay(8000), RunCommand(6, 2), delay(1000), delay(100000)>>

complete == <<go_back, RunCommand(0, 1)>> \o yun_reset \o <<delay(1000000)>>

setup == <<delay(10000)>> \o yun_reset \o <<delay(1000), RunCommand(0, 1), delay(2000)>>

loop == begin_Go \o search_front_wall \o search_left_wall \o search_rand \o complete

\* One turn of the loop of search_left_wall, when no wall was seen.
GoOn == <<RunCommand(5, 1), delay(1000), RunCommand(7, 1), delay(1000), search>>

-----------------------------------------------------------------------------
(* The robot. *)

VARIABLES
  todo,        \* commands that are still to be carried out
  laps,        \* times loop() was entered
  goal,        \* goal[s]: the position servo s was sent to, 0 before the first
  moving,      \* moving[s]: milliseconds until it is there
  group,       \* the action group the board was told to run last
  currdist,    \* what was measured last
  echoes,      \* history: the distances whose echoes came back
  lost         \* history: how many of the five did not

goVars == <<todo, laps, goal, moving, group, currdist, echoes, lost>>

GoInit ==
  /\ todo = setup
  /\ laps = 0
  /\ goal = [s \in Servos |-> 0]
  /\ moving = [s \in Servos |-> 0]
  /\ group = <<0, 0>>
  /\ currdist = 0
  /\ echoes = {}
  /\ lost = 0

NextIs(op) == todo # << >> /\ Head(todo).op = op

RunGroup ==
  /\ NextIs("run")
  /\ group' = <<Head(todo).group, Head(todo).times>>
  /\ todo' = Tail(todo)
  /\ UNCHANGED <<laps, goal, moving, currdist, echoes, lost>>

MoveServo ==
  /\ NextIs("move")
  /\ LET m == Head(todo) IN
       /\ goal' = [goal EXCEPT ![m.servo] = m.position]
       /\ moving' = [moving EXCEPT ![m.servo] = m.time]
  /\ todo' = Tail(todo)
  /\ UNCHANGED <<laps, group, currdist, echoes, lost>>

Delay ==
  /\ NextIs("delay")
  /\ LET t == Head(todo).time IN
       moving' = [s \in Servos |-> IF moving[s] > t THEN moving[s] - t ELSE 0]
  /\ todo' = Tail(todo)
  /\ UNCHANGED <<laps, goal, group, currdist, echoes, lost>>

\* Mutant: the average is over the length of the array.
MeasuringDistanceOfTen(dis) == (dis[1] + dis[2] + dis[3] + dis[4] + dis[5]) \div 10

\* The average of five echoes, each cut to whole centimetres.
MeasuringDistance(dis) == (dis[1] + dis[2] + dis[3] + dis[4] + dis[5]) \div 5

\* The robot stands still, but what it measures may differ each time.  pulseIn
\* gives 0 when no echo comes back.
Measure ==
  \E dis \in [1 .. 5 -> Distances \cup {0}] :
    /\ echoes' = {dis[i] : i \in 1 .. 5} \ {0}
    /\ lost' = Cardinality({i \in 1 .. 5 : dis[i] = 0})
    /\ currdist' = MeasuringDistance(dis)

\* The scan at the start, whose result nothing depends on.
ScanOnce ==
  /\ NextIs("scan")
  /\ Measure
  /\ todo' = Tail(todo)
  /\ UNCHANGED <<laps, goal, moving, group>>

\* The head of the loop of search_left_wall.
SearchWall ==
  /\ NextIs("search")
  /\ Measure
  /\ todo' = (IF currdist' < 35 THEN << >> ELSE GoOn) \o Tail(todo)
  /\ UNCHANGED <<laps, goal, moving, group>>

\* The Arduino core calls loop() again when it returns.
Loop ==
  /\ todo = << >>
  /\ laps < MaxLaps
  /\ laps' = laps + 1
  /\ todo' = loop
  /\ UNCHANGED <<goal, moving, group, currdist, echoes, lost>>

GoNext == RunGroup \/ MoveServo \/ Delay \/ ScanOnce \/ SearchWall \/ Loop

GoSpec == GoInit /\ [][GoNext]_goVars

-----------------------------------------------------------------------------
(* What must hold. *)

\* The sketch waits long enough: no servo of the head is sent on before it has
\* arrived, and what the sensor on the head measures is straight ahead, on every
\* way through the course, the first and later laps (autogoV2.ino 26-212).
HeadSettled ==
  todo # << >> =>
    /\ Head(todo).op = "move" => moving[Head(todo).servo] = 0
    /\ Head(todo).op \in {"scan", "search"} =>
         \A s \in Servos : goal[s] = 1500 /\ moving[s] = 0

\* Going on to look down at a wall, the robot has measured less than 35 cm to it, or
\* an echo was lost: one is enough from 43 cm, and a wall that is nearer than that
\* whenever its echo comes back is never passed over (autogoV2.ino 141-151, auto.h 25-42).
StopsAtWall ==
  [][NextIs("search") =>
       /\ Len(todo') < Len(todo) =>
            \/ \E d \in echoes' : d < 35
            \/ lost' = 1 /\ \E d \in echoes' : d < 44
            \/ lost' > 1
       /\ (\A d \in echoes' : d < 35) => Len(todo') < Len(todo)]_goVars
=============================================================================
