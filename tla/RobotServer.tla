----------------------------- MODULE RobotServer -----------------------------
(***************************************************************************)
(* The three processes of RPRobot-master/test.c: the control server (main) *)
(* and the video and audio servers it forks, joined by one byte of shared  *)
(* memory.  The byte is the whole protocol between them: 0 lets sessions   *)
(* run, the stop command writes 2, and the server loops compare it with 3, *)
(* a value nobody writes.                                                  *)
(*                                                                         *)
(* At the end of a session a server executes `--shm`.  It decrements its   *)
(* POINTER, not the byte, so from then on the process reads whatever lies  *)
(* below the segment: a byte of ForeignBytes or a fault (ptr "adrift").    *)
(*                                                                         *)
(* The program may be started again while processes of earlier starts are  *)
(* alive (a run is one start); all runs attach the same segment.           *)
(***************************************************************************)
EXTENDS Integers, Sequences, FiniteSets

CONSTANTS
  Clients,        \* the TCP connections a client program may open
  None,           \* no connection
  MaxRuns,        \* bound: starts of the program
  Backlog,        \* listen(sockfd, 5)
  SockBuf,        \* frames the sockets between server and client can hold
  ForeignBytes    \* values of the bytes below the shared segment

ASSUME RunsAssumption == MaxRuns \in Nat
ASSUME QueueAssumption == Backlog \in Nat /\ SockBuf \in Nat
ASSUME NoneAssumption == None \notin Clients
ASSUME BytesAssumption == ForeignBytes \subseteq -128 .. 127

Runs == 1 .. MaxRuns
Kinds == {"video", "audio"}
Procs == Kinds \X Runs
V(r) == <<"video", r>>
A(r) == <<"audio", r>>

\* What a datagram asks for; ControlParser has the bytes.
Commands == {"stop", "ports", "state", "move"}

VARIABLES
  sig,       \* the shared byte
  main,      \* main[r]: where the control process of run r is
  pc,        \* pc[p]: where server process p is
  ptr,       \* ptr[p]: "shared", or "adrift" after --shm
  peer,      \* peer[r]: newsockfd of the video process of run r
  backlog,   \* connections the video socket has not accepted yet
  conn,      \* conn[c]: state of a video connection
  unread,    \* unread[c]: frames sent to c that c has not read
  late       \* history: units p sent since the stop (2 stands for more)

vars == <<sig, main, pc, ptr, peer, backlog, conn, unread, late>>
net == <<peer, backlog, conn, unread>>

MainStates == {"off", "forkVideo", "forkAudio", "bind", "recv", "relay", "reply", "dead"}

\* "outer": test of shm < 3; "wait": accept or recvfrom; "inner": test of
\* shm == 0; "unit": capture or oss_record; "send"; "cleanup": after the loop.
ServingStates == {"outer", "wait", "inner", "unit", "send", "cleanup"}
ProcStates == {"off", "setup", "done", "dead"} \cup ServingStates

\* "closed": the client left; "broken": the server's kernel knows it;
\* "reset": the server process died.
ConnStates == {"idle", "queued", "open", "closed", "broken", "reset"}

TypeOK ==
  /\ sig \in {0, 2}
  /\ main \in [Runs -> MainStates]
  /\ pc \in [Procs -> ProcStates]
  /\ ptr \in [Procs -> {"shared", "adrift"}]
  /\ peer \in [Runs -> Clients \cup {None}]
  /\ backlog \in Seq(Clients)
  /\ Len(backlog) <= Backlog
  /\ conn \in [Clients -> ConnStates]
  /\ unread \in [Clients -> 0 .. SockBuf]
  /\ late \in [Procs -> 0 .. 2]

Init ==
  /\ sig = 0
  /\ main = [r \in Runs |-> "off"]
  /\ pc = [p \in Procs |-> "off"]
  /\ ptr = [p \in Procs |-> "shared"]
  /\ peer = [r \in Runs |-> None]
  /\ backlog = << >>
  /\ conn = [c \in Clients |-> "idle"]
  /\ unread = [c \in Clients |-> 0]
  /\ late = [p \in Procs |-> 0]

Serving(p) == pc[p] \in ServingStates
Bound(r) == main[r] \in {"recv", "relay", "reply"}

-----------------------------------------------------------------------------
(* The control process. *)

MainGoto(r, s) == main' = [main EXCEPT ![r] = s]

\* shmget, shmat and `*(char*)shm = 0`: the byte is cleared before anything
\* can tell whether another run is alive.
Start(r) ==
  /\ main[r] = "off"
  /\ \A q \in Runs : q < r => main[q] # "off"
  /\ MainGoto(r, "forkVideo")
  /\ sig' = 0
  /\ late' = [p \in Procs |-> 0]
  /\ UNCHANGED <<pc, ptr, net>>

ForkVideo(r) ==
  /\ main[r] = "forkVideo"
  /\ \/ /\ MainGoto(r, "forkAudio")
        /\ pc' = [pc EXCEPT ![V(r)] = "setup"]
     \/ /\ MainGoto(r, "dead")
        /\ UNCHANGED pc
  /\ UNCHANGED <<sig, ptr, net, late>>

ForkAudio(r) ==
  /\ main[r] = "forkAudio"
  /\ \/ /\ MainGoto(r, "bind")
        /\ pc' = [pc EXCEPT ![A(r)] = "setup"]
     \/ /\ MainGoto(r, "dead")
        /\ UNCHANGED pc
  /\ UNCHANGED <<sig, ptr, net, late>>

\* open(tty), socket, bind: the port is exclusive; any failure is exit().
BindControl(r) ==
  /\ main[r] = "bind"
  /\ \/ /\ \A q \in Runs : ~Bound(q)
        /\ MainGoto(r, "recv")
     \/ MainGoto(r, "dead")
  /\ UNCHANGED <<sig, pc, ptr, net, late>>

\* Mutant: the stop command adds to the byte.
ReceiveAdds(r, cmd) ==
  /\ main[r] = "recv"
  /\ sig' = IF cmd = "stop" THEN sig + 2 ELSE sig
  /\ MainGoto(r, IF cmd = "ports" THEN "reply" ELSE "relay")
  /\ UNCHANGED <<pc, ptr, net, late>>

\* Mutant: the stop command writes the value that ends the outer loops.
ReceiveEndsLoops(r, cmd) ==
  /\ main[r] = "recv"
  /\ sig' = IF cmd = "stop" THEN 3 ELSE sig
  /\ MainGoto(r, IF cmd = "ports" THEN "reply" ELSE "relay")
  /\ UNCHANGED <<pc, ptr, net, late>>

\* recvfrom and the part of process_request that touches the shared byte.
\* Datagrams are lost, repeated and reordered, so any command may be next.
Receive(r, cmd) ==
  /\ main[r] = "recv"
  /\ sig' = IF cmd = "stop" THEN 2 ELSE sig
  /\ MainGoto(r, IF cmd = "ports" THEN "reply" ELSE "relay")
  /\ UNCHANGED <<pc, ptr, net, late>>

\* write(fd, ...) to the board; its result is ignored.
Relay(r) ==
  /\ main[r] = "relay"
  /\ MainGoto(r, "recv")
  /\ UNCHANGED <<sig, pc, ptr, net, late>>

Reply(r) ==
  /\ main[r] = "reply"
  /\ MainGoto(r, "recv")
  /\ UNCHANGED <<sig, pc, ptr, net, late>>

\* recvfrom or sendto fails: exit(), and the servers become orphans.
MainExit(r) ==
  /\ main[r] \in {"recv", "reply"}
  /\ MainGoto(r, "dead")
  /\ UNCHANGED <<sig, pc, ptr, net, late>>

-----------------------------------------------------------------------------
(* What the two server loops share. *)

Goto(p, s) == pc' = [pc EXCEPT ![p] = s]

\* What *(char*)shm may evaluate to in process p.
Byte(p) == IF ptr[p] = "shared" THEN {sig} ELSE ForeignBytes

\* A further unit sent while the byte says stop.
CountUnit(p) ==
  late' = IF sig # 0 /\ late[p] < 2 THEN [late EXCEPT ![p] = @ + 1] ELSE late

\* while (*(char*)shm < 3)
TestOuter(p) ==
  /\ pc[p] = "outer"
  /\ \E b \in Byte(p) : Goto(p, IF b < 3 THEN "wait" ELSE "cleanup")
  /\ UNCHANGED <<sig, main, ptr, net, late>>

\* Mutant: the inner loop repeats the outer test.
TestInnerAsOuter(p) ==
  /\ pc[p] = "inner"
  /\ \E b \in Byte(p) :
       IF b < 3
         THEN Goto(p, "unit") /\ UNCHANGED ptr
         ELSE Goto(p, "outer") /\ ptr' = [ptr EXCEPT ![p] = "adrift"]
  /\ UNCHANGED <<sig, main, net, late>>

\* while (*(char*)shm == 0), and the --shm behind the loop
TestInner(p) ==
  /\ pc[p] = "inner"
  /\ \E b \in Byte(p) :
       IF b = 0
         THEN Goto(p, "unit") /\ UNCHANGED ptr
         ELSE Goto(p, "outer") /\ ptr' = [ptr EXCEPT ![p] = "adrift"]
  /\ UNCHANGED <<sig, main, net, late>>

-----------------------------------------------------------------------------
(* The video server. *)

\* Mutant: the listening socket is created before the fork and outlives its
\* server in a sibling.
VideoDiesListening(r) ==
  /\ Goto(V(r), "dead")
  /\ conn' = [c \in Clients |-> IF conn[c] = "open" THEN "reset" ELSE conn[c]]
  /\ UNCHANGED <<sig, main, ptr, peer, backlog, unread, late>>

\* When the process dies its kernel resets what it holds: the listening
\* socket with its backlog and every connection accepted and never closed.
VideoDies(r) ==
  /\ Goto(V(r), "dead")
  /\ conn' = [c \in Clients |-> IF conn[c] \in {"queued", "open"} THEN "reset" ELSE conn[c]]
  /\ backlog' = << >>
  /\ UNCHANGED <<sig, main, ptr, peer, unread, late>>

\* open_device .. listen: device and port are exclusive, and an errno_exit
\* here takes nothing down with it.
VideoSetup(r) ==
  /\ pc[V(r)] = "setup"
  /\ \/ /\ \A q \in Runs : ~Serving(V(q))
        /\ Goto(V(r), "outer")
     \/ Goto(V(r), "dead")
  /\ UNCHANGED <<sig, main, ptr, net, late>>

\* accept overwrites newsockfd; the old connection is never closed.
Accept(r) ==
  /\ pc[V(r)] = "wait"
  /\ backlog # << >>
  /\ LET c == Head(backlog) IN
       /\ peer' = [peer EXCEPT ![r] = c]
       /\ conn' = IF conn[c] = "queued" THEN [conn EXCEPT ![c] = "open"] ELSE conn
  /\ backlog' = Tail(backlog)
  /\ Goto(V(r), "inner")
  /\ UNCHANGED <<sig, main, ptr, unread, late>>

Capture(r) ==
  /\ pc[V(r)] = "unit"
  /\ Goto(V(r), "send")
  /\ UNCHANGED <<sig, main, ptr, net, late>>

\* The sends of one frame; their results are ignored.  send blocks while the
\* client's buffers are full, without a timeout.
SendFrame(r) ==
  /\ pc[V(r)] = "send"
  /\ LET c == peer[r] IN
       /\ \/ conn[c] = "open" /\ unread[c] < SockBuf
          \/ conn[c] = "closed"
       /\ unread' = [unread EXCEPT ![c] = IF @ < SockBuf THEN @ + 1 ELSE @]
  /\ CountUnit(V(r))
  /\ Goto(V(r), "inner")
  /\ UNCHANGED <<sig, main, ptr, peer, backlog, conn>>

\* Mutant: sends to a broken connection fail quietly (MSG_NOSIGNAL).
SendBrokenQuietly(r) ==
  /\ pc[V(r)] = "send"
  /\ conn[peer[r]] = "broken"
  /\ Goto(V(r), "inner")
  /\ UNCHANGED <<sig, main, ptr, net, late>>

\* SIGPIPE is not handled: the send after the client's reset is the last.
SendBroken(r) ==
  /\ pc[V(r)] = "send"
  /\ conn[peer[r]] = "broken"
  /\ VideoDies(r)

\* accept, select, DQBUF or QBUF fails, or no frame arrives for 2 s.
VideoExit(r) ==
  /\ pc[V(r)] \in {"wait", "unit"}
  /\ VideoDies(r)

\* Reading below the segment may also be a SIGSEGV.
VideoFault(r) ==
  /\ pc[V(r)] \in {"outer", "inner"}
  /\ ptr[V(r)] = "adrift"
  /\ VideoDies(r)

\* close, stop_capturing, close_device, shmdt: shmdt refuses an address that
\* is not the one shmat returned, and errno_exit follows.
VideoCleanup(r) ==
  /\ pc[V(r)] = "cleanup"
  /\ IF ptr[V(r)] = "shared"
       THEN /\ Goto(V(r), "done")
            /\ UNCHANGED <<sig, main, ptr, net, late>>
       ELSE VideoDies(r)

Video(r) ==
  \/ VideoSetup(r)
  \/ TestOuter(V(r))
  \/ Accept(r)
  \/ TestInner(V(r))
  \/ Capture(r)
  \/ SendFrame(r)
  \/ SendBroken(r)
  \/ VideoExit(r)
  \/ VideoFault(r)
  \/ VideoCleanup(r)

-----------------------------------------------------------------------------
(* The audio server: the same loops over datagrams. *)

AudioDies(r) ==
  /\ Goto(A(r), "dead")
  /\ UNCHANGED <<sig, main, ptr, net, late>>

AudioSetup(r) ==
  /\ pc[A(r)] = "setup"
  /\ \/ /\ \A q \in Runs : ~Serving(A(q))
        /\ Goto(A(r), "outer")
     \/ Goto(A(r), "dead")
  /\ UNCHANGED <<sig, main, ptr, net, late>>

\* Any datagram from anyone opens a session and names its listener.
RecvHello(r) ==
  /\ pc[A(r)] = "wait"
  /\ Goto(A(r), "inner")
  /\ UNCHANGED <<sig, main, ptr, net, late>>

Record(r) ==
  /\ pc[A(r)] = "unit"
  /\ Goto(A(r), "send")
  /\ UNCHANGED <<sig, main, ptr, net, late>>

SendSamples(r) ==
  /\ pc[A(r)] = "send"
  /\ CountUnit(A(r))
  /\ Goto(A(r), "inner")
  /\ UNCHANGED <<sig, main, ptr, net>>

\* recvfrom or sendto fails; a failed read makes the length (size_t)-1, which
\* sendto refuses.
AudioExit(r) ==
  /\ pc[A(r)] \in {"wait", "send"}
  /\ AudioDies(r)

AudioFault(r) ==
  /\ pc[A(r)] \in {"outer", "inner"}
  /\ ptr[A(r)] = "adrift"
  /\ AudioDies(r)

AudioCleanup(r) ==
  /\ pc[A(r)] = "cleanup"
  /\ Goto(A(r), IF ptr[A(r)] = "shared" THEN "done" ELSE "dead")
  /\ UNCHANGED <<sig, main, ptr, net, late>>

Audio(r) ==
  \/ AudioSetup(r)
  \/ TestOuter(A(r))
  \/ RecvHello(r)
  \/ TestInner(A(r))
  \/ Record(r)
  \/ SendSamples(r)
  \/ AudioExit(r)
  \/ AudioFault(r)
  \/ AudioCleanup(r)

-----------------------------------------------------------------------------
(* The clients and the network. *)

\* A connection attempt with nobody listening is refused and changes nothing.
Connect(c) ==
  /\ conn[c] = "idle"
  /\ \E r \in Runs : Serving(V(r))
  /\ Len(backlog) < Backlog
  /\ backlog' = Append(backlog, c)
  /\ conn' = [conn EXCEPT ![c] = "queued"]
  /\ UNCHANGED <<sig, main, pc, ptr, peer, unread, late>>

\* From here on unread[c] > 0 says that frames were sent to a closed socket.
Disconnect(c) ==
  /\ conn[c] \in {"queued", "open"}
  /\ conn' = [conn EXCEPT ![c] = "closed"]
  /\ unread' = [unread EXCEPT ![c] = 0]
  /\ UNCHANGED <<sig, main, pc, ptr, peer, backlog, late>>

\* The reset that answers a frame sent to a closed socket arrives.
ResetArrives(c) ==
  /\ conn[c] = "closed"
  /\ unread[c] > 0
  /\ conn' = [conn EXCEPT ![c] = "broken"]
  /\ UNCHANGED <<sig, main, pc, ptr, peer, backlog, unread, late>>

ClientRead(c) ==
  /\ conn[c] \in {"open", "reset"}
  /\ unread[c] > 0
  /\ unread' = [unread EXCEPT ![c] = @ - 1]
  /\ UNCHANGED <<sig, main, pc, ptr, peer, backlog, conn, late>>

Control(r) ==
  \/ Start(r)
  \/ ForkVideo(r)
  \/ ForkAudio(r)
  \/ BindControl(r)
  \/ \E cmd \in Commands : Receive(r, cmd)
  \/ Relay(r)
  \/ Reply(r)
  \/ MainExit(r)

Client(c) ==
  \/ Connect(c)
  \/ Disconnect(c)
  \/ ResetArrives(c)
  \/ ClientRead(c)

Next ==
  \/ \E r \in Runs : Control(r) \/ Video(r) \/ Audio(r)
  \/ \E c \in Clients : Client(c)

Spec == Init /\ [][Next]_vars

\* The scheduler runs every server process that can run, and TCP answers a
\* frame sent to a closed socket.  A server in accept or recvfrom waits for a
\* client: only a connection already queued must be accepted.  Nothing is
\* assumed of operators and clients.
Fairness ==
  /\ \A r \in Runs :
       /\ WF_vars(pc[V(r)] # "wait" /\ Video(r))
       /\ WF_vars(Accept(r))
       /\ WF_vars(pc[A(r)] # "wait" /\ Audio(r))
  /\ \A c \in Clients : WF_vars(ResetArrives(c))

FairSpec == Spec /\ Fairness

-----------------------------------------------------------------------------
(* What must hold. *)

\* No two server processes of one kind serve at the same time, however often
\* the program is started and whatever is left of earlier starts.
SingleServer ==
  \A q, r \in Runs :
    /\ Serving(V(q)) /\ Serving(V(r)) => q = r
    /\ Serving(A(q)) /\ Serving(A(r)) => q = r

\* A server that still sees the byte sends at most the one unit the stop
\* overtook: a stop during capture or send is never followed by a second unit.
AtMostOneLateUnit ==
  \A p \in Procs : ptr[p] = "shared" => late[p] <= 1

\* The orderly end of a server process (line 139, line 203) is unreachable:
\* only a value of 3 or more ends the outer loop, nobody writes one, and a
\* process that reads one below the segment cannot detach it any more.
NoOrderlyEnd ==
  \A p \in Procs : pc[p] # "done"

ClientsServed ==
  (backlog # << >> \/ \E c \in Clients : conn[c] \in {"queued", "open"})
    => \E r \in Runs : Serving(V(r))

SessionHasClient ==
  \A r \in Runs :
    pc[V(r)] \in {"inner", "unit", "send"}
      => peer[r] \in Clients /\ conn[peer[r]] \in {"open", "closed", "broken"}

\* A connection that is queued or open belongs to a serving video process: a
\* death in any state leaves no client attached to nobody.  And inside a session
\* newsockfd is a connection that was accepted, and not one a dead process left.
ConnectionsServed == ClientsServed /\ SessionHasClient

\* The process is in a session.
InSession(p) == ptr[p] = "shared" /\ pc[p] \in {"inner", "unit", "send"}

\* send() waits for a client that does not read.
SendBlocked(p) ==
  /\ p[1] = "video"
  /\ pc[p] = "send"
  /\ conn[peer[p[2]]] = "open"
  /\ unread[peer[p[2]]] = SockBuf

\* After a stop every session ends, unless the program is started again
\* meanwhile or the process waits for ever in a send nobody reads.
StopEndsSession ==
  \A p \in Procs :
    (InSession(p) /\ sig = 2) ~> (~InSession(p) \/ sig = 0 \/ []SendBlocked(p))

\* A session whose client has left does not go on capturing for ever: a stop
\* ends it, or the SIGPIPE of a later frame ends the process.
AbandonedSessionEnds ==
  \A r \in Runs :
    (InSession(V(r)) /\ conn[peer[r]] \in {"closed", "broken"}) ~> ~InSession(V(r))

-----------------------------------------------------------------------------
(* The promise of StreamSwitch, kept by these processes. *)

PhaseOf(p) ==
  CASE pc[p] \in {"off", "setup"}  -> "down"
    [] pc[p] \in {"done", "dead"}  -> "gone"
    [] Serving(p) /\ ptr[p] = "adrift" -> "lost"
    [] InSession(p) -> "live"
    [] OTHER -> "idle"

Switch == INSTANCE StreamSwitch WITH
            halted <- (sig # 0),
            phase <- [p \in Procs |-> PhaseOf(p)]

\* The three processes with their sockets implement the abstract switch.
ImplementsSwitch == Switch!Spec
=============================================================================
