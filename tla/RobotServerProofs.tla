------------------------- MODULE RobotServerProofs -------------------------
(***************************************************************************)
(* Theorems about RobotServer for any number of runs, any clients, any     *)
(* backlog and socket buffer, and any bytes below the shared segment.      *)
(***************************************************************************)
EXTENDS RobotServer, SequenceTheorems, TLAPS

-----------------------------------------------------------------------------
(* Type correctness. *)

LEMMA ProcsFacts ==
  /\ \A r \in Runs : V(r) \in Procs /\ A(r) \in Procs
  /\ \A q, r \in Runs : V(q) # A(r)
  /\ \A q, r \in Runs : (V(q) = V(r) => q = r) /\ (A(q) = A(r) => q = r)
  /\ \A p \in Procs : \E r \in Runs : p = V(r) \/ p = A(r)
  BY DEF Procs, Kinds, V, A

LEMMA InitType == Init => TypeOK
  BY QueueAssumption DEF Init, TypeOK, MainStates, ProcStates, ServingStates, ConnStates

LEMMA ControlType ==
  ASSUME TypeOK, NEW r \in Runs, Control(r)
  PROVE  TypeOK'
  <1> USE DEF TypeOK, MainGoto, MainStates, net
  <1>1. CASE Start(r)
    BY <1>1 DEF Start
  <1>2. CASE ForkVideo(r)
    BY <1>2, ProcsFacts DEF ForkVideo, ProcStates
  <1>3. CASE ForkAudio(r)
    BY <1>3, ProcsFacts DEF ForkAudio, ProcStates
  <1>4. CASE BindControl(r)
    BY <1>4 DEF BindControl
  <1>5. ASSUME NEW cmd \in Commands, Receive(r, cmd)
        PROVE  TypeOK'
    BY <1>5 DEF Receive
  <1>6. CASE Relay(r)
    BY <1>6 DEF Relay
  <1>7. CASE Reply(r)
    BY <1>7 DEF Reply
  <1>8. CASE MainExit(r)
    BY <1>8 DEF MainExit
  <1>9. QED
    BY <1>1, <1>2, <1>3, <1>4, <1>5, <1>6, <1>7, <1>8 DEF Control

LEMMA LoopType ==
  ASSUME TypeOK, NEW p \in Procs, TestOuter(p) \/ TestInner(p)
  PROVE  TypeOK'
  <1> USE DEF TypeOK, Goto, ProcStates, ServingStates, net
  <1>1. CASE TestOuter(p)
    BY <1>1 DEF TestOuter
  <1>2. CASE TestInner(p)
    BY <1>2 DEF TestInner
  <1>3. QED
    BY <1>1, <1>2

LEMMA CountType ==
  ASSUME TypeOK, NEW p \in Procs, CountUnit(p)
  PROVE  late' \in [Procs -> 0 .. 2]
  <1>1. late \in [Procs -> 0 .. 2] /\ late[p] \in 0 .. 2
    BY DEF TypeOK
  <1>2. late[p] < 2 => late[p] + 1 \in 0 .. 2
    BY <1>1
  <1>3. CASE sig # 0 /\ late[p] < 2
    <2>1. late' = [late EXCEPT ![p] = late[p] + 1]
      BY <1>3 DEF CountUnit
    <2>2. QED
      BY <1>1, <1>2, <1>3, <2>1, Zenon
  <1>4. CASE ~(sig # 0 /\ late[p] < 2)
    BY <1>1, <1>4 DEF CountUnit
  <1>5. QED
    BY <1>3, <1>4

LEMMA DiesType ==
  ASSUME TypeOK, NEW r \in Runs, VideoDies(r) \/ AudioDies(r)
  PROVE  TypeOK'
  <1> USE QueueAssumption, ProcsFacts DEF TypeOK, Goto, ProcStates, ConnStates, net
  <1>1. CASE VideoDies(r)
    <2>1. backlog' \in Seq(Clients) /\ Len(backlog') <= Backlog
      BY <1>1 DEF VideoDies
    <2>2. QED
      BY <1>1, <2>1 DEF VideoDies
  <1>2. CASE AudioDies(r)
    BY <1>2 DEF AudioDies
  <1>3. QED
    BY <1>1, <1>2

LEMMA VideoType ==
  ASSUME TypeOK, NEW r \in Runs, Video(r)
  PROVE  TypeOK'
  <1> USE QueueAssumption, ProcsFacts DEF TypeOK, Goto, ProcStates, ServingStates, ConnStates, net
  <1>1. CASE VideoSetup(r)
    BY <1>1 DEF VideoSetup
  <1>2. CASE Accept(r)
    <2>1. Head(backlog) \in Clients /\ Tail(backlog) \in Seq(Clients)
          /\ Len(Tail(backlog)) <= Backlog
      BY <1>2, HeadTailProperties DEF Accept
    <2>2. QED
      BY <1>2, <2>1 DEF Accept
  <1>3. CASE Capture(r)
    BY <1>3 DEF Capture
  <1>4. CASE SendFrame(r)
    <2>1. late' \in [Procs -> 0 .. 2]
      BY <1>4, CountType DEF SendFrame
    <2>2. unread' \in [Clients -> 0 .. SockBuf]
      <3>1. \A c \in Clients : unread[c] \in 0 .. SockBuf
                              /\ (unread[c] < SockBuf => unread[c] + 1 \in 0 .. SockBuf)
        OBVIOUS
      <3>2. unread' = [unread EXCEPT ![peer[r]] =
                         IF unread[peer[r]] < SockBuf THEN unread[peer[r]] + 1
                                                      ELSE unread[peer[r]]]
        BY <1>4 DEF SendFrame
      <3>3. QED
        BY <3>1, <3>2, Zenon
    <2>3. QED
      BY <1>4, <2>1, <2>2 DEF SendFrame
  <1>5. CASE VideoCleanup(r)
    <2>1. CASE ptr[V(r)] = "shared"
      BY <1>5, <2>1 DEF VideoCleanup
    <2>2. CASE ptr[V(r)] # "shared"
      BY <1>5, <2>2, DiesType DEF VideoCleanup
    <2>3. QED
      BY <2>1, <2>2
  <1>6. CASE VideoDies(r)
    BY <1>6, DiesType
  <1>7. QED
    BY <1>1, <1>2, <1>3, <1>4, <1>5, <1>6, LoopType
       DEF Video, SendBroken, VideoExit, VideoFault

LEMMA AudioType ==
  ASSUME TypeOK, NEW r \in Runs, Audio(r)
  PROVE  TypeOK'
  <1> USE ProcsFacts DEF TypeOK, Goto, ProcStates, ServingStates, net
  <1>1. CASE AudioSetup(r)
    BY <1>1 DEF AudioSetup
  <1>2. CASE RecvHello(r)
    BY <1>2 DEF RecvHello
  <1>3. CASE Record(r)
    BY <1>3 DEF Record
  <1>4. CASE SendSamples(r)
    <2>1. late' \in [Procs -> 0 .. 2]
      BY <1>4, CountType DEF SendSamples
    <2>2. QED
      BY <1>4, <2>1 DEF SendSamples
  <1>5. CASE AudioCleanup(r)
    BY <1>5 DEF AudioCleanup
  <1>6. CASE AudioDies(r)
    BY <1>6, DiesType
  <1>7. QED
    BY <1>1, <1>2, <1>3, <1>4, <1>5, <1>6, LoopType DEF Audio, AudioExit, AudioFault

LEMMA ClientType ==
  ASSUME TypeOK, NEW c \in Clients, Client(c)
  PROVE  TypeOK'
  <1> USE QueueAssumption DEF TypeOK, ConnStates
  <1>1. CASE Connect(c)
    <2>1. backlog' \in Seq(Clients) /\ Len(backlog') <= Backlog
      BY <1>1, AppendProperties DEF Connect
    <2>2. QED
      BY <1>1, <2>1 DEF Connect
  <1>2. CASE Disconnect(c)
    BY <1>2 DEF Disconnect
  <1>3. CASE ResetArrives(c)
    BY <1>3 DEF ResetArrives
  <1>4. CASE ClientRead(c)
    BY <1>4 DEF ClientRead
  <1>5. QED
    BY <1>1, <1>2, <1>3, <1>4 DEF Client

\* The shared byte is only ever 0 or 2, the backlog and every socket buffer
\* keep their bounds, and every process is at a line of test.c.
THEOREM TypeCorrect == Spec => []TypeOK
  <1>1. TypeOK /\ [Next]_vars => TypeOK'
    <2> SUFFICES ASSUME TypeOK, [Next]_vars
                 PROVE  TypeOK'
      OBVIOUS
    <2>1. CASE UNCHANGED vars
      BY <2>1 DEF TypeOK, vars
    <2>2. CASE Next
      BY <2>2, ControlType, VideoType, AudioType, ClientType DEF Next
    <2>3. QED
      BY <2>1, <2>2
  <1>2. QED
    BY <1>1, InitType, PTL DEF Spec

-----------------------------------------------------------------------------
(* Forks. *)

\* A server process is off until its run forks it.
ForkInv ==
  \A r \in Runs :
    /\ main[r] \in {"off", "forkVideo"} => pc[V(r)] = "off"
    /\ main[r] \in {"off", "forkVideo", "forkAudio"} => pc[A(r)] = "off"

LEMMA ForkCorrect == Spec => []ForkInv
  <1> USE ProcsFacts DEF TypeOK, ForkInv, Goto
  <1>1. Init => ForkInv
    BY DEF Init
  <1>2. TypeOK /\ ForkInv /\ [Next]_vars => ForkInv'
    <2> SUFFICES ASSUME TypeOK, ForkInv, [Next]_vars
                 PROVE  ForkInv'
      OBVIOUS
    <2>1. CASE UNCHANGED vars
      BY <2>1 DEF vars
    <2>2. ASSUME NEW r \in Runs, Control(r)
          PROVE  ForkInv'
      <3> USE DEF MainGoto
      <3>1. CASE Start(r)
        BY <3>1 DEF Start
      <3>2. CASE ForkVideo(r)
        BY <3>2 DEF ForkVideo
      <3>3. CASE ForkAudio(r)
        BY <3>3 DEF ForkAudio
      <3>4. CASE BindControl(r)
        BY <3>4 DEF BindControl
      <3>5. ASSUME NEW cmd \in Commands, Receive(r, cmd)
            PROVE  ForkInv'
        BY <3>5 DEF Receive
      <3>6. CASE Relay(r) \/ Reply(r) \/ MainExit(r)
        BY <3>6 DEF Relay, Reply, MainExit
      <3>7. QED
        BY <2>2, <3>1, <3>2, <3>3, <3>4, <3>5, <3>6 DEF Control
    <2>3. ASSUME NEW r \in Runs, Video(r)
          PROVE  ForkInv'
      <3>1. pc[V(r)] # "off" /\ main' = main
        BY <2>3 DEF Video, VideoSetup, TestOuter, Accept, TestInner, Capture, SendFrame,
                    SendBroken, VideoExit, VideoFault, VideoCleanup, VideoDies
      <3>2. \A p \in Procs \ {V(r)} : pc'[p] = pc[p]
        BY <2>3 DEF Video, VideoSetup, TestOuter, Accept, TestInner, Capture, SendFrame,
                    SendBroken, VideoExit, VideoFault, VideoCleanup, VideoDies
      <3>3. QED
        BY <3>1, <3>2
    <2>4. ASSUME NEW r \in Runs, Audio(r)
          PROVE  ForkInv'
      <3>1. pc[A(r)] # "off" /\ main' = main
        BY <2>4 DEF Audio, AudioSetup, TestOuter, RecvHello, TestInner, Record, SendSamples,
                    AudioExit, AudioFault, AudioCleanup, AudioDies
      <3>2. \A p \in Procs \ {A(r)} : pc'[p] = pc[p]
        BY <2>4 DEF Audio, AudioSetup, TestOuter, RecvHello, TestInner, Record, SendSamples,
                    AudioExit, AudioFault, AudioCleanup, AudioDies
      <3>3. QED
        BY <3>1, <3>2
    <2>5. ASSUME NEW c \in Clients, Client(c)
          PROVE  ForkInv'
      BY <2>5 DEF Client, Connect, Disconnect, ResetArrives, ClientRead
    <2>6. QED
      BY <2>1, <2>2, <2>3, <2>4, <2>5 DEF Next
  <1>3. QED
    BY <1>1, <1>2, TypeCorrect, PTL DEF Spec

-----------------------------------------------------------------------------
(* The shared byte and the late units. *)

\* AtMostOneLateUnit is not inductive: it needs that a process which has sent
\* its late unit is past capture and send, so that its next step is to read
\* the byte, and that the byte is 2 as long as a late unit is on record.
\* NoOrderlyEnd needs that cleanup is entered adrift only.
\* A process cannot drift before its first session (used by the refinement).
FlagInv ==
  \A p \in Procs :
    /\ pc[p] # "done"
    /\ pc[p] = "cleanup" => ptr[p] = "adrift"
    /\ pc[p] \in {"off", "setup"} => ptr[p] = "shared"
    /\ sig = 0 => late[p] = 0
    /\ ptr[p] = "shared" => late[p] <= 1
    /\ ptr[p] = "shared" /\ late[p] = 1 => pc[p] \notin {"unit", "send"}

LEMMA InitFlag == Init => FlagInv
  BY DEF Init, FlagInv

LEMMA ControlFlag ==
  ASSUME TypeOK, ForkInv, FlagInv, NEW r \in Runs, Control(r)
  PROVE  FlagInv'
  <1> USE DEF TypeOK, FlagInv, MainGoto
  <1>1. CASE Start(r)
    BY <1>1 DEF Start
  <1>2. CASE ForkVideo(r)
    BY <1>2, ProcsFacts DEF ForkVideo, ForkInv
  <1>3. CASE ForkAudio(r)
    BY <1>3, ProcsFacts DEF ForkAudio, ForkInv
  <1>4. CASE BindControl(r)
    BY <1>4 DEF BindControl
  <1>5. ASSUME NEW cmd \in Commands, Receive(r, cmd)
        PROVE  FlagInv'
    BY <1>5 DEF Receive
  <1>6. CASE Relay(r) \/ Reply(r) \/ MainExit(r)
    BY <1>6 DEF Relay, Reply, MainExit
  <1>7. QED
    BY <1>1, <1>2, <1>3, <1>4, <1>5, <1>6 DEF Control

LEMMA LoopFlag ==
  ASSUME TypeOK, FlagInv, NEW p \in Procs, TestOuter(p) \/ TestInner(p)
  PROVE  FlagInv'
  <1> USE DEF TypeOK, FlagInv, Goto, Byte
  <1>1. CASE TestOuter(p)
    BY <1>1 DEF TestOuter
  <1>2. CASE TestInner(p)
    BY <1>2 DEF TestInner
  <1>3. QED
    BY <1>1, <1>2

\* The step from send back to the test of the byte, in either server.
LEMMA SendFlag ==
  ASSUME TypeOK, FlagInv, NEW p \in Procs,
         pc[p] = "send", CountUnit(p), Goto(p, "inner"), UNCHANGED <<sig, ptr>>
  PROVE  FlagInv'
  <1>1. late[p] \in 0 .. 2 /\ late'[p] \in 0 .. 2
    BY CountType DEF TypeOK
  <1>2. ptr[p] = "shared" => late[p] = 0
    BY <1>1 DEF FlagInv
  <1>3. late[p] = 0 => late'[p] <= 1
    BY <1>1 DEF TypeOK, CountUnit
  <1>4. sig = 0 => late' = late
    BY DEF CountUnit
  <1>5. \A q \in Procs \ {p} : late'[q] = late[q] /\ pc'[q] = pc[q]
    BY DEF TypeOK, CountUnit, Goto
  <1>6. pc'[p] = "inner"
    BY DEF TypeOK, Goto
  <1>7. QED
    BY <1>2, <1>3, <1>4, <1>5, <1>6 DEF FlagInv

LEMMA VideoFlag ==
  ASSUME TypeOK, FlagInv, NEW r \in Runs, Video(r)
  PROVE  FlagInv'
  <1> USE ProcsFacts
  <1>1. CASE VideoSetup(r)
    BY <1>1 DEF VideoSetup, TypeOK, FlagInv, Goto
  <1>2. CASE Accept(r)
    BY <1>2 DEF Accept, TypeOK, FlagInv, Goto
  <1>3. CASE Capture(r)
    BY <1>3 DEF Capture, TypeOK, FlagInv, Goto
  <1>4. CASE SendFrame(r)
    BY <1>4, SendFlag DEF SendFrame
  <1>5. CASE VideoDies(r)
    BY <1>5 DEF VideoDies, TypeOK, FlagInv, Goto
  <1>6. CASE VideoCleanup(r)
    BY <1>5, <1>6 DEF VideoCleanup, FlagInv
  <1>7. QED
    BY <1>1, <1>2, <1>3, <1>4, <1>5, <1>6, LoopFlag
       DEF Video, SendBroken, VideoExit, VideoFault

LEMMA AudioFlag ==
  ASSUME TypeOK, FlagInv, NEW r \in Runs, Audio(r)
  PROVE  FlagInv'
  <1> USE ProcsFacts
  <1>1. CASE AudioSetup(r)
    BY <1>1 DEF AudioSetup, TypeOK, FlagInv, Goto
  <1>2. CASE RecvHello(r)
    BY <1>2 DEF RecvHello, TypeOK, FlagInv, Goto
  <1>3. CASE Record(r)
    BY <1>3 DEF Record, TypeOK, FlagInv, Goto
  <1>4. CASE SendSamples(r)
    BY <1>4, SendFlag DEF SendSamples
  <1>5. CASE AudioDies(r)
    BY <1>5 DEF AudioDies, TypeOK, FlagInv, Goto
  <1>6. CASE AudioCleanup(r)
    BY <1>6 DEF AudioCleanup, TypeOK, FlagInv, Goto
  <1>7. QED
    BY <1>1, <1>2, <1>3, <1>4, <1>5, <1>6, LoopFlag DEF Audio, AudioExit, AudioFault

LEMMA ClientFlag ==
  ASSUME FlagInv, NEW c \in Clients, Client(c)
  PROVE  FlagInv'
  BY DEF FlagInv, Client, Connect, Disconnect, ResetArrives, ClientRead

LEMMA FlagCorrect == Spec => []FlagInv
  <1>1. TypeOK /\ ForkInv /\ FlagInv /\ [Next]_vars => FlagInv'
    <2> SUFFICES ASSUME TypeOK, ForkInv, FlagInv, [Next]_vars
                 PROVE  FlagInv'
      OBVIOUS
    <2>1. CASE UNCHANGED vars
      BY <2>1 DEF FlagInv, vars
    <2>2. CASE Next
      BY <2>2, ControlFlag, VideoFlag, AudioFlag, ClientFlag DEF Next
    <2>3. QED
      BY <2>1, <2>2
  <1>2. QED
    BY <1>1, InitFlag, TypeCorrect, ForkCorrect, PTL DEF Spec

\* A stop is followed by at most one unit of every stream that still sees the
\* byte, whatever restarts and clients do meanwhile.
THEOREM LateUnits == Spec => []AtMostOneLateUnit
  <1>1. FlagInv => AtMostOneLateUnit
    BY DEF FlagInv, AtMostOneLateUnit
  <1>2. QED
    BY <1>1, FlagCorrect, PTL

\* No server process ever reaches its return statement.
THEOREM OrderlyEndUnreachable == Spec => []NoOrderlyEnd
  <1>1. FlagInv => NoOrderlyEnd
    BY DEF FlagInv, NoOrderlyEnd
  <1>2. QED
    BY <1>1, FlagCorrect, PTL

-----------------------------------------------------------------------------
(* One server per kind, and the connections it holds. *)

LEMMA LoopServing ==
  ASSUME TypeOK, NEW p \in Procs, TestOuter(p) \/ TestInner(p)
  PROVE  /\ pc[p] \in {"outer", "inner"}
         /\ pc'[p] \in ServingStates
         /\ pc'[p] \in {"inner", "unit", "send"} => pc[p] = "inner"
         /\ \A q \in Procs \ {p} : pc'[q] = pc[q]
         /\ UNCHANGED net
  BY DEF TypeOK, TestOuter, TestInner, Goto, ServingStates

LEMMA SingleCorrect == Spec => []SingleServer
  <1> USE ProcsFacts DEF TypeOK, SingleServer, Serving, ServingStates, Goto
  <1>1. Init => SingleServer
    BY DEF Init
  <1>2. TypeOK /\ FlagInv /\ SingleServer /\ [Next]_vars => SingleServer'
    <2> SUFFICES ASSUME TypeOK, FlagInv, SingleServer, [Next]_vars
                 PROVE  SingleServer'
      OBVIOUS
    <2>1. CASE UNCHANGED vars
      BY <2>1 DEF vars
    <2>2. ASSUME NEW r \in Runs, Control(r)
          PROVE  SingleServer'
      BY <2>2 DEF Control, Start, ForkVideo, ForkAudio, BindControl, Receive, Relay, Reply, MainExit
    <2>3. ASSUME NEW r \in Runs, Video(r)
          PROVE  SingleServer'
      <3>1. CASE VideoSetup(r)
        BY <3>1 DEF VideoSetup
      <3>2. CASE TestOuter(V(r)) \/ TestInner(V(r))
        BY <3>2, LoopServing
      <3>3. CASE Accept(r)
        BY <3>3 DEF Accept
      <3>4. CASE Capture(r) \/ SendFrame(r)
        BY <3>4 DEF Capture, SendFrame
      <3>5. CASE VideoDies(r)
        BY <3>5 DEF VideoDies
      <3>6. CASE VideoCleanup(r)
        BY <3>5, <3>6 DEF VideoCleanup, FlagInv
      <3>7. QED
        BY <2>3, <3>1, <3>2, <3>3, <3>4, <3>5, <3>6
           DEF Video, SendBroken, VideoExit, VideoFault
    <2>4. ASSUME NEW r \in Runs, Audio(r)
          PROVE  SingleServer'
      <3>1. CASE AudioSetup(r)
        BY <3>1 DEF AudioSetup
      <3>2. CASE TestOuter(A(r)) \/ TestInner(A(r))
        BY <3>2, LoopServing
      <3>3. CASE RecvHello(r) \/ Record(r) \/ SendSamples(r)
        BY <3>3 DEF RecvHello, Record, SendSamples
      <3>4. CASE AudioDies(r)
        BY <3>4 DEF AudioDies
      <3>5. CASE AudioCleanup(r)
        BY <3>5 DEF AudioCleanup
      <3>6. QED
        BY <2>4, <3>1, <3>2, <3>3, <3>4, <3>5 DEF Audio, AudioExit, AudioFault
    <2>5. ASSUME NEW c \in Clients, Client(c)
          PROVE  SingleServer'
      BY <2>5 DEF Client, Connect, Disconnect, ResetArrives, ClientRead
    <2>6. QED
      BY <2>1, <2>2, <2>3, <2>4, <2>5 DEF Next
  <1>3. QED
    BY <1>1, <1>2, TypeCorrect, FlagCorrect, PTL DEF Spec

\* SessionHasClient needs that what accept will find was never reset.
BacklogAlive ==
  \A i \in 1 .. Len(backlog) : conn[backlog[i]] \notin {"idle", "reset"}

NetInv ==
  /\ ClientsServed
  /\ BacklogAlive
  /\ SessionHasClient

LEMMA InitNet == Init => NetInv
  BY ProcsFacts DEF Init, NetInv, ClientsServed, BacklogAlive, SessionHasClient

\* A step that touches no connection and takes no video process out of, or
\* into the middle of, its loops.
LEMMA QuietNet ==
  ASSUME NetInv, UNCHANGED net,
         \A r \in Runs : pc[V(r)] \in ServingStates => pc'[V(r)] \in ServingStates,
         \A r \in Runs : pc'[V(r)] \in {"inner", "unit", "send"}
                           => pc[V(r)] \in {"inner", "unit", "send"}
  PROVE  NetInv'
  <1>1. backlog' = backlog /\ conn' = conn /\ peer' = peer
    BY DEF net
  <1>2. ClientsServed'
    BY <1>1 DEF NetInv, ClientsServed, Serving
  <1>3. BacklogAlive'
    BY <1>1 DEF NetInv, BacklogAlive
  <1>4. SessionHasClient'
    BY <1>1 DEF NetInv, SessionHasClient
  <1>5. QED
    BY <1>2, <1>3, <1>4 DEF NetInv

LEMMA ControlNet ==
  ASSUME TypeOK, ForkInv, NetInv, NEW r \in Runs, Control(r)
  PROVE  NetInv'
  <1>1. UNCHANGED net
    BY DEF Control, Start, ForkVideo, ForkAudio, BindControl, Receive, Relay, Reply, MainExit, net
  <1>2. \A q \in Runs :
          \/ pc'[V(q)] = pc[V(q)]
          \/ (pc[V(q)] = "off" /\ pc'[V(q)] = "setup")
    <2>1. CASE ForkVideo(r)
      BY <2>1, ProcsFacts DEF ForkVideo, TypeOK, ForkInv
    <2>2. CASE ForkAudio(r)
      BY <2>2, ProcsFacts DEF ForkAudio, TypeOK
    <2>3. CASE ~ForkVideo(r) /\ ~ForkAudio(r)
      BY <2>3 DEF Control, Start, BindControl, Receive, Relay, Reply, MainExit
    <2>4. QED
      BY <2>1, <2>2, <2>3
  <1>3. QED
    BY <1>1, <1>2, QuietNet DEF ServingStates

LEMMA VideoNet ==
  ASSUME TypeOK, FlagInv, SingleServer, NetInv, NEW r \in Runs, Video(r)
  PROVE  NetInv'
  <1> USE ProcsFacts DEF TypeOK, Goto, ServingStates
  <1>1. CASE VideoSetup(r)
    BY <1>1, QuietNet DEF VideoSetup
  <1>2. CASE TestOuter(V(r)) \/ TestInner(V(r))
    BY <1>2, LoopServing, QuietNet
  <1>3. CASE Accept(r)
    <2> DEFINE c == Head(backlog)
    <2>1. /\ backlog # << >>
          /\ c = backlog[1]
          /\ c \in Clients
          /\ 1 \in 1 .. Len(backlog)
      BY <1>3, HeadTailProperties DEF Accept
    <2>2. backlog' = Tail(backlog) /\ Len(backlog') = Len(backlog) - 1
          /\ \A i \in 1 .. Len(backlog') : backlog'[i] = backlog[i + 1]
                                            /\ i + 1 \in 1 .. Len(backlog)
      BY <1>3, HeadTailProperties DEF Accept
    <2>3. \A d \in Clients : conn'[d] = IF d = c /\ conn[d] = "queued" THEN "open" ELSE conn[d]
      BY <1>3, <2>1 DEF Accept
    <2>4. Serving(V(r)) /\ Serving(V(r))' /\ pc'[V(r)] = "inner" /\ peer'[r] = c
      BY <1>3 DEF Accept, Serving
    <2>5. ClientsServed'
      BY <2>4 DEF ClientsServed
    <2>6. BacklogAlive'
      BY <2>2, <2>3 DEF NetInv, BacklogAlive
    <2>7. conn'[c] \in {"open", "closed", "broken"}
      BY <2>1, <2>3 DEF NetInv, BacklogAlive, ConnStates
    <2>8. \A q \in Runs : pc'[V(q)] \in {"inner", "unit", "send"} => q = r
      BY <1>3 DEF Accept, SingleServer, Serving
    <2>9. SessionHasClient'
      BY <2>1, <2>4, <2>7, <2>8 DEF SessionHasClient
    <2>10. QED
      BY <2>5, <2>6, <2>9 DEF NetInv
  <1>4. CASE Capture(r)
    BY <1>4, QuietNet DEF Capture
  <1>5. CASE SendFrame(r)
    <2>1. /\ UNCHANGED <<backlog, conn, peer>>
          /\ \A q \in Runs : pc[V(q)] \in ServingStates => pc'[V(q)] \in ServingStates
          /\ \A q \in Runs : pc'[V(q)] \in {"inner", "unit", "send"}
                                => pc[V(q)] \in {"inner", "unit", "send"}
      BY <1>5 DEF SendFrame
    <2>2. QED
      BY <2>1 DEF NetInv, ClientsServed, BacklogAlive, SessionHasClient, Serving
  <1>6. CASE VideoDies(r) /\ Serving(V(r))
    <2>1. backlog' = << >> /\ \A c \in Clients : conn'[c] \notin {"queued", "open"}
      BY <1>6 DEF VideoDies
    <2>2. \A q \in Runs : pc'[V(q)] \notin {"inner", "unit", "send"}
      BY <1>6 DEF VideoDies, SingleServer, Serving
    <2>3. QED
      BY <2>1, <2>2 DEF NetInv, ClientsServed, BacklogAlive, SessionHasClient
  <1>7. CASE VideoCleanup(r)
    BY <1>6, <1>7 DEF VideoCleanup, FlagInv, Serving
  <1>8. QED
    BY <1>1, <1>2, <1>3, <1>4, <1>5, <1>6, <1>7
       DEF Video, SendBroken, VideoExit, VideoFault, Serving

LEMMA AudioNet ==
  ASSUME TypeOK, NetInv, NEW r \in Runs, Audio(r)
  PROVE  NetInv'
  <1>1. UNCHANGED net /\ \A q \in Runs : pc'[V(q)] = pc[V(q)]
    BY ProcsFacts DEF TypeOK, Goto, Audio, AudioSetup, TestOuter, RecvHello, TestInner, Record,
                      SendSamples, AudioExit, AudioFault, AudioCleanup, AudioDies
  <1>2. QED
    BY <1>1, QuietNet

LEMMA ClientNet ==
  ASSUME TypeOK, NetInv, NEW c \in Clients, Client(c)
  PROVE  NetInv'
  <1> USE DEF TypeOK, NetInv
  <1>1. CASE Connect(c)
    <2>1. /\ Len(backlog') = Len(backlog) + 1
          /\ \A i \in 1 .. Len(backlog) : backlog'[i] = backlog[i]
          /\ backlog'[Len(backlog) + 1] = c
      BY <1>1, AppendProperties DEF Connect
    <2>2. conn[c] = "idle" /\ conn'[c] = "queued"
          /\ \A d \in Clients \ {c} : conn'[d] = conn[d]
      BY <1>1 DEF Connect
    <2>3. Len(backlog) \in Nat /\ \A i \in 1 .. Len(backlog) : backlog[i] \in Clients
      OBVIOUS
    <2>4. BacklogAlive'
      <3> SUFFICES ASSUME NEW i \in 1 .. Len(backlog')
                   PROVE  conn'[backlog'[i]] \notin {"idle", "reset"}
        BY DEF BacklogAlive
      <3>1. CASE i = Len(backlog) + 1
        BY <2>1, <2>2, <3>1
      <3>2. CASE i \in 1 .. Len(backlog)
        <4>1. backlog'[i] = backlog[i] /\ backlog[i] \in Clients
          BY <2>1, <2>3, <3>2
        <4>2. conn[backlog[i]] \notin {"idle", "reset"}
          BY <3>2 DEF BacklogAlive
        <4>3. QED
          BY <2>2, <4>1, <4>2
      <3>3. QED
        BY <2>1, <2>3, <3>1, <3>2
    <2>5. ClientsServed'
      BY <1>1 DEF Connect, ClientsServed, Serving
    <2>6. SessionHasClient'
      BY <1>1, <2>2 DEF Connect, SessionHasClient
    <2>7. QED
      BY <2>4, <2>5, <2>6
  <1>2. CASE Disconnect(c)
    <2>1. conn[c] \in {"queued", "open"} /\ conn'[c] = "closed" /\ UNCHANGED <<backlog, pc, peer>>
          /\ \A d \in Clients \ {c} : conn'[d] = conn[d]
      BY <1>2 DEF Disconnect
    <2>2. \A i \in 1 .. Len(backlog) : backlog[i] \in Clients
      OBVIOUS
    <2>3. QED
      BY <2>1, <2>2 DEF ClientsServed, BacklogAlive, SessionHasClient, Serving
  <1>3. CASE ResetArrives(c)
    <2>1. conn[c] = "closed" /\ conn'[c] = "broken" /\ UNCHANGED <<backlog, pc, peer>>
          /\ \A d \in Clients \ {c} : conn'[d] = conn[d]
      BY <1>3 DEF ResetArrives
    <2>2. \A i \in 1 .. Len(backlog) : backlog[i] \in Clients
      OBVIOUS
    <2>3. QED
      BY <2>1, <2>2 DEF ClientsServed, BacklogAlive, SessionHasClient, Serving
  <1>4. CASE ClientRead(c)
    BY <1>4 DEF ClientRead, ClientsServed, BacklogAlive, SessionHasClient, Serving
  <1>5. QED
    BY <1>1, <1>2, <1>3, <1>4 DEF Client

LEMMA NetCorrect == Spec => []NetInv
  <1>1. TypeOK /\ FlagInv /\ ForkInv /\ SingleServer /\ NetInv /\ [Next]_vars => NetInv'
    <2> SUFFICES ASSUME TypeOK, FlagInv, ForkInv, SingleServer, NetInv, [Next]_vars
                 PROVE  NetInv'
      OBVIOUS
    <2>1. CASE UNCHANGED vars
      BY <2>1, QuietNet DEF vars, net
    <2>2. CASE Next
      BY <2>2, ControlNet, VideoNet, AudioNet, ClientNet DEF Next
    <2>3. QED
      BY <2>1, <2>2
  <1>2. QED
    BY <1>1, InitNet, TypeCorrect, FlagCorrect, ForkCorrect, SingleCorrect, PTL DEF Spec

\* No connection is queued or open at a server that is dead, and a session is
\* never held with a connection of a dead server.
THEOREM Connections == Spec => []ConnectionsServed
  <1>1. NetInv => ConnectionsServed
    BY DEF NetInv, ConnectionsServed
  <1>2. QED
    BY <1>1, NetCorrect, PTL

-----------------------------------------------------------------------------
(* The abstract switch. *)

Phase == [p \in Procs |-> PhaseOf(p)]

LEMMA PhaseStep ==
  ASSUME NEW p \in Procs, NEW x,
         \A q \in Procs \ {p} : pc'[q] = pc[q] /\ ptr'[q] = ptr[q],
         PhaseOf(p)' = x
  PROVE  Phase' = [Phase EXCEPT ![p] = x]
  <1>1. \A q \in Procs \ {p} : PhaseOf(q)' = PhaseOf(q)
    BY DEF PhaseOf, Serving, InSession
  <1>2. QED
    BY <1>1 DEF Phase

LEMMA PhaseStutter ==
  ASSUME NEW p \in Procs,
         \A q \in Procs \ {p} : pc'[q] = pc[q] /\ ptr'[q] = ptr[q],
         PhaseOf(p)' = PhaseOf(p)
  PROVE  Phase' = Phase
  <1>1. \A q \in Procs \ {p} : PhaseOf(q)' = PhaseOf(q)
    BY DEF PhaseOf, Serving, InSession
  <1>2. QED
    BY <1>1 DEF Phase

LEMMA PhaseCases ==
  ASSUME NEW p \in Procs
  PROVE  /\ pc[p] \in {"off", "setup"} => PhaseOf(p) = "down"
         /\ pc[p] \in {"done", "dead"} => PhaseOf(p) = "gone"
         /\ pc[p] \in ServingStates /\ ptr[p] = "adrift" => PhaseOf(p) = "lost"
         /\ pc[p] \in {"inner", "unit", "send"} /\ ptr[p] = "shared" => PhaseOf(p) = "live"
         /\ pc[p] \in {"outer", "wait", "cleanup"} /\ ptr[p] = "shared" => PhaseOf(p) = "idle"
  BY DEF PhaseOf, Serving, InSession, ServingStates

Step == Switch!Next \/ UNCHANGED Switch!vars

LEMMA LoopStep ==
  ASSUME TypeOK, FlagInv, NEW p \in Procs, TestOuter(p) \/ TestInner(p)
  PROVE  Step
  <1>1. /\ \A q \in Procs \ {p} : pc'[q] = pc[q] /\ ptr'[q] = ptr[q]
        /\ UNCHANGED <<sig, late>>
    BY DEF TypeOK, TestOuter, TestInner, Goto
  <1>2. CASE PhaseOf(p)' = PhaseOf(p)
    BY <1>1, <1>2, PhaseStutter DEF Step, Switch!vars, Phase
  <1>3. CASE PhaseOf(p)' # PhaseOf(p)
    <2>1. pc[p] = "inner" /\ ptr[p] = "shared" /\ sig # 0 /\ pc'[p] = "outer" /\ ptr'[p] = "adrift"
      BY <1>3 DEF TypeOK, TestOuter, TestInner, Goto, Byte, PhaseOf, Serving, InSession, ServingStates
    <2>2. PhaseOf(p) = "live" /\ PhaseOf(p)' = "lost"
      BY <2>1 DEF PhaseOf, Serving, InSession, ServingStates
    <2>3. Phase' = [Phase EXCEPT ![p] = "lost"] /\ Phase[p] = "live"
      BY <1>1, <2>2, PhaseStep DEF Phase
    <2>4. Switch!EndSession(p)
      BY <1>1, <2>1, <2>3 DEF Switch!EndSession, Phase
    <2>5. QED
      BY <2>4 DEF Step, Switch!Next, Switch!Streams, Procs
  <1>4. QED
    BY <1>2, <1>3

LEMMA DieStep ==
  ASSUME TypeOK, NEW p \in Procs, Goto(p, "dead"), UNCHANGED <<sig, ptr, late>>
  PROVE  Step
  <1>1. PhaseOf(p)' = "gone" /\ \A q \in Procs \ {p} : pc'[q] = pc[q] /\ ptr'[q] = ptr[q]
    BY DEF TypeOK, Goto, PhaseOf, Serving, InSession, ServingStates
  <1>2. Phase' = [Phase EXCEPT ![p] = "gone"]
    BY <1>1, PhaseStep
  <1>3. Switch!Die(p)
    BY <1>2 DEF Switch!Die, Phase
  <1>4. QED
    BY <1>3 DEF Step, Switch!Next, Switch!Streams, Procs

\* A step inside the loops that reads nothing shared.
LEMMA QuietStep ==
  ASSUME TypeOK, NEW p \in Procs, UNCHANGED <<sig, ptr, late>>,
         \/ (Goto(p, "send") /\ pc[p] = "unit")
         \/ (Goto(p, "inner") /\ pc[p] = "wait")
  PROVE  Step
  <1>1. \A q \in Procs \ {p} : pc'[q] = pc[q] /\ ptr'[q] = ptr[q]
    BY DEF TypeOK, Goto
  <1>2. CASE PhaseOf(p)' = PhaseOf(p)
    BY <1>1, <1>2, PhaseStutter DEF Step, Switch!vars, Phase
  <1>3. CASE PhaseOf(p)' # PhaseOf(p)
    <2>1. PhaseOf(p) = "idle" /\ PhaseOf(p)' = "live"
      BY <1>3 DEF TypeOK, Goto, PhaseOf, Serving, InSession, ServingStates
    <2>2. Phase' = [Phase EXCEPT ![p] = "live"] /\ Phase[p] = "idle"
      BY <1>1, <2>1, PhaseStep DEF Phase
    <2>3. Switch!BeginSession(p)
      BY <2>2 DEF Switch!BeginSession, Phase
    <2>4. QED
      BY <2>3 DEF Step, Switch!Next, Switch!Streams, Procs
  <1>4. QED
    BY <1>2, <1>3

LEMMA SendStep ==
  ASSUME TypeOK, FlagInv, NEW p \in Procs,
         pc[p] = "send", CountUnit(p), Goto(p, "inner"), UNCHANGED <<sig, ptr>>
  PROVE  Step
  <1>1. /\ \A q \in Procs \ {p} : pc'[q] = pc[q] /\ ptr'[q] = ptr[q]
        /\ pc'[p] = "inner" /\ ptr'[p] = ptr[p]
    BY DEF TypeOK, Goto
  <1>2. PhaseOf(p)' = PhaseOf(p)
    BY <1>1 DEF PhaseOf, Serving, InSession, ServingStates
  <1>3. Phase' = Phase
    BY <1>1, <1>2, PhaseStutter
  <1>4. CASE ptr[p] = "shared"
    <2>1. Phase[p] = "live"
      BY <1>4, PhaseCases DEF Phase
    <2>2. late[p] = 0
      <3>1. late[p] \in 0 .. 2
        BY DEF TypeOK
      <3>2. QED
        BY <1>4, <3>1 DEF FlagInv
    <2>3. late' = IF sig # 0 THEN [late EXCEPT ![p] = 1] ELSE late
      BY <2>2 DEF CountUnit
    <2>4. Switch!Unit(p)
      BY <1>3, <2>1, <2>2, <2>3 DEF Switch!Unit, Phase
    <2>5. QED
      BY <2>4 DEF Step, Switch!Next, Switch!Streams, Procs
  <1>5. CASE ptr[p] = "adrift"
    <2>1. Phase[p] = "lost"
      BY <1>5, PhaseCases DEF Phase, ServingStates
    <2>2. late'[p] \in 0 .. 2 /\ late' = [late EXCEPT ![p] = late'[p]]
      BY CountType DEF TypeOK, CountUnit
    <2>3. Switch!Stray(p)
      BY <1>3, <2>1, <2>2 DEF Switch!Stray, Phase
    <2>4. QED
      BY <2>3 DEF Step, Switch!Next, Switch!Streams, Procs
  <1>6. QED
    BY <1>4, <1>5 DEF TypeOK

LEMMA SetupStep ==
  ASSUME TypeOK, FlagInv, NEW p \in Procs, pc[p] = "setup", Goto(p, "outer"),
         UNCHANGED <<sig, ptr, late>>,
         \A q \in Procs : q[1] = p[1] => ~Serving(q)
  PROVE  Step
  <1>1. /\ \A q \in Procs \ {p} : pc'[q] = pc[q] /\ ptr'[q] = ptr[q]
        /\ pc'[p] = "outer" /\ ptr[p] = "shared" /\ ptr'[p] = "shared"
    BY DEF TypeOK, Goto, FlagInv
  <1>2. PhaseOf(p) = "down" /\ PhaseOf(p)' = "idle"
    BY <1>1 DEF PhaseOf, Serving, InSession, ServingStates
  <1>3. Phase' = [Phase EXCEPT ![p] = "idle"] /\ Phase[p] = "down"
    BY <1>1, <1>2, PhaseStep DEF Phase
  <1>4. \A q \in Procs : ~Serving(q) => Phase[q] \in {"down", "gone"}
    BY DEF TypeOK, ProcStates, Phase, PhaseOf, Serving, InSession, ServingStates
  <1>5. Switch!ComeUp(p)
    BY <1>3, <1>4 DEF Switch!ComeUp, Switch!Up, Switch!Streams, Procs, Phase
  <1>6. QED
    BY <1>5 DEF Step, Switch!Next, Switch!Streams, Procs

LEMMA ControlStep ==
  ASSUME TypeOK, ForkInv, NEW r \in Runs, Control(r)
  PROVE  Step
  <1> USE ProcsFacts DEF Step, Switch!Next, Switch!vars, Switch!Streams, Procs
  <1>1. CASE Start(r)
    <2>1. Phase' = Phase
      BY <1>1 DEF Start, Phase, PhaseOf, Serving, InSession
    <2>2. Switch!Restart
      BY <1>1, <2>1 DEF Start, Switch!Restart, Phase
    <2>3. QED
      BY <2>2
  <1>2. CASE ForkVideo(r) \/ ForkAudio(r)
    <2>1. /\ UNCHANGED <<sig, ptr, late>>
          /\ \A q \in Procs : \/ pc'[q] = pc[q]
                              \/ (pc[q] = "off" /\ pc'[q] = "setup")
      BY <1>2 DEF ForkVideo, ForkAudio, TypeOK, ForkInv
    <2>2. \A q \in Procs : PhaseOf(q)' = PhaseOf(q)
      BY <2>1 DEF PhaseOf, Serving, InSession, ServingStates
    <2>3. QED
      BY <2>1, <2>2 DEF Phase
  <1>3. ASSUME NEW cmd \in Commands, Receive(r, cmd)
        PROVE  Step
    <2>1. Phase' = Phase /\ late' = late
      BY <1>3 DEF Receive, Phase, PhaseOf, Serving, InSession
    <2>2. CASE sig' = sig
      BY <2>1, <2>2 DEF Phase
    <2>3. CASE sig' = 2
      <3>1. Switch!Halt
        BY <2>1, <2>3 DEF Switch!Halt, Phase
      <3>2. QED
        BY <3>1
    <2>4. QED
      BY <1>3, <2>2, <2>3 DEF Receive
  <1>4. CASE BindControl(r) \/ Relay(r) \/ Reply(r) \/ MainExit(r)
    BY <1>4 DEF BindControl, Relay, Reply, MainExit, Phase, PhaseOf, Serving, InSession
  <1>5. QED
    BY <1>1, <1>2, <1>3, <1>4 DEF Control

LEMMA VideoStep ==
  ASSUME TypeOK, FlagInv, NEW r \in Runs, Video(r)
  PROVE  Step
  <1> USE ProcsFacts
  <1>1. CASE VideoSetup(r)
    <2>1. CASE Goto(V(r), "dead")
      BY <1>1, <2>1, DieStep DEF VideoSetup
    <2>2. CASE Goto(V(r), "outer") /\ \A q \in Runs : ~Serving(V(q))
      <3>1. \A q \in Procs : q[1] = V(r)[1] => ~Serving(q)
        BY <2>2 DEF V, A
      <3>2. QED
        BY <1>1, <2>2, <3>1, SetupStep DEF VideoSetup
    <2>3. QED
      BY <1>1, <2>1, <2>2 DEF VideoSetup
  <1>2. CASE Accept(r) \/ Capture(r)
    BY <1>2, QuietStep DEF Accept, Capture
  <1>3. CASE SendFrame(r)
    BY <1>3, SendStep DEF SendFrame
  <1>4. CASE VideoDies(r)
    BY <1>4, DieStep DEF VideoDies
  <1>5. CASE VideoCleanup(r)
    BY <1>4, <1>5 DEF VideoCleanup, FlagInv
  <1>6. QED
    BY <1>1, <1>2, <1>3, <1>4, <1>5, LoopStep DEF Video, SendBroken, VideoExit, VideoFault

LEMMA AudioStep ==
  ASSUME TypeOK, FlagInv, NEW r \in Runs, Audio(r)
  PROVE  Step
  <1> USE ProcsFacts
  <1>1. CASE AudioSetup(r)
    <2>1. CASE Goto(A(r), "dead")
      BY <1>1, <2>1, DieStep DEF AudioSetup
    <2>2. CASE Goto(A(r), "outer") /\ \A q \in Runs : ~Serving(A(q))
      <3>1. \A q \in Procs : q[1] = A(r)[1] => ~Serving(q)
        BY <2>2 DEF V, A
      <3>2. QED
        BY <1>1, <2>2, <3>1, SetupStep DEF AudioSetup
    <2>3. QED
      BY <1>1, <2>1, <2>2 DEF AudioSetup
  <1>2. CASE RecvHello(r) \/ Record(r)
    BY <1>2, QuietStep DEF RecvHello, Record
  <1>3. CASE SendSamples(r)
    BY <1>3, SendStep DEF SendSamples
  <1>4. CASE AudioDies(r)
    BY <1>4, DieStep DEF AudioDies
  <1>5. CASE AudioCleanup(r)
    BY <1>5, DieStep DEF AudioCleanup, FlagInv
  <1>6. QED
    BY <1>1, <1>2, <1>3, <1>4, <1>5, LoopStep DEF Audio, AudioExit, AudioFault

LEMMA ClientStep ==
  ASSUME NEW c \in Clients, Client(c)
  PROVE  Step
  BY DEF Client, Connect, Disconnect, ResetArrives, ClientRead, Step, Switch!vars,
         PhaseOf, Serving, InSession

\* The processes of any number of starts, with their sockets, implement the
\* abstract switch: every step is a step of the switch or leaves it alone.
THEOREM Refinement == Spec => ImplementsSwitch
  <1>1. Init => Switch!Init
    <2> SUFFICES ASSUME Init
                 PROVE  Switch!Init
      OBVIOUS
    <2>1. \A p \in Procs : PhaseOf(p) = "down"
      BY DEF Init, PhaseOf, Serving, InSession
    <2>2. QED
      BY <2>1 DEF Init, Switch!Init, Switch!Streams, Procs
  <1>2. TypeOK /\ FlagInv /\ ForkInv /\ [Next]_vars => [Switch!Next]_Switch!vars
    <2> SUFFICES ASSUME TypeOK, FlagInv, ForkInv, [Next]_vars
                 PROVE  Step
      BY DEF Step
    <2>1. CASE UNCHANGED vars
      BY <2>1 DEF vars, Step, Switch!vars, PhaseOf, Serving, InSession
    <2>2. CASE Next
      BY <2>2, ControlStep, VideoStep, AudioStep, ClientStep DEF Next
    <2>3. QED
      BY <2>1, <2>2
  <1>3. QED
    BY <1>1, <1>2, TypeCorrect, FlagCorrect, ForkCorrect, PTL
       DEF Spec, ImplementsSwitch, Switch!Spec
=============================================================================
