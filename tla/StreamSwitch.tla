---------------------------- MODULE StreamSwitch ----------------------------
(***************************************************************************)
(* What the video and the audio server of RPRobot-master/test.c promise to *)
(* the operator, with every socket, device and program counter hidden.     *)
(*                                                                         *)
(* One switch (the shared byte) is put to "halted" by the stop command and *)
(* back by a new start of the program.  A stream comes up, opens sessions  *)
(* and sends units (video frames, audio blocks) while a session is live.   *)
(* The promise: after a halt a live session sends at most the one unit it  *)
(* was busy with and is then over, no session ends unless it was halted or *)
(* its process died, and no two streams of one kind are up together.  A    *)
(* stream whose session was ended by a halt is "lost": it has dropped its  *)
(* view of the switch and nothing is promised of it but that it never      *)
(* becomes an ordinary stream again.                                       *)
(***************************************************************************)
EXTENDS Naturals

CONSTANTS Kinds,        \* the kinds of stream: video, audio
          Runs          \* the starts of the program

Streams == Kinds \X Runs

VARIABLES halted,       \* the switch
          phase,        \* phase[s]: down, idle, live, lost or gone
          late          \* late[s]: units sent since the halt (2 stands for more)

vars == <<halted, phase, late>>

Up == {"idle", "live", "lost"}

TypeOK ==
  /\ halted \in BOOLEAN
  /\ phase \in [Streams -> {"down", "gone"} \cup Up]
  /\ late \in [Streams -> 0 .. 2]

Init ==
  /\ halted = FALSE
  /\ phase = [s \in Streams |-> "down"]
  /\ late = [s \in Streams |-> 0]

Halt ==
  /\ halted' = TRUE
  /\ UNCHANGED <<phase, late>>

\* A new start of the program releases the switch for every process, old or new.
Restart ==
  /\ halted' = FALSE
  /\ late' = [s \in Streams |-> 0]
  /\ UNCHANGED phase

\* The device and the port of a kind are exclusive.
ComeUp(s) ==
  /\ phase[s] = "down"
  /\ \A t \in Streams : t[1] = s[1] => phase[t] \notin Up
  /\ phase' = [phase EXCEPT ![s] = "idle"]
  /\ UNCHANGED <<halted, late>>

BeginSession(s) ==
  /\ phase[s] = "idle"
  /\ phase' = [phase EXCEPT ![s] = "live"]
  /\ UNCHANGED <<halted, late>>

\* A unit sent under a halt must be the first one since the halt.
Unit(s) ==
  /\ phase[s] = "live"
  /\ halted => late[s] = 0
  /\ late' = IF halted THEN [late EXCEPT ![s] = 1] ELSE late
  /\ UNCHANGED <<halted, phase>>

EndSession(s) ==
  /\ phase[s] = "live"
  /\ halted
  /\ phase' = [phase EXCEPT ![s] = "lost"]
  /\ UNCHANGED <<halted, late>>

\* A lost stream may go on sending units whatever the switch says.
Stray(s) ==
  /\ phase[s] = "lost"
  /\ late' \in {[late EXCEPT ![s] = n] : n \in 0 .. 2}
  /\ UNCHANGED <<halted, phase>>

Die(s) ==
  /\ phase' = [phase EXCEPT ![s] = "gone"]
  /\ UNCHANGED <<halted, late>>

Next ==
  \/ Halt
  \/ Restart
  \/ \E s \in Streams :
       \/ ComeUp(s)
       \/ BeginSession(s)
       \/ Unit(s)
       \/ EndSession(s)
       \/ Stray(s)
       \/ Die(s)

Spec == Init /\ [][Next]_vars
=============================================================================
