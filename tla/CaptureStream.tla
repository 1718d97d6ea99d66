---------------------------- MODULE CaptureStream ----------------------------
(***************************************************************************)
(* Streaming capture of RPRobot-master/video/capture.c under the loop of   *)
(* the video server: the buffers that go round between the V4L2 driver and *)
(* the process, and the pictures in them while a frame is being sent.      *)
(*                                                                         *)
(* read_frame dequeues a filled buffer and queues it again AT ONCE, before *)
(* process_image and before the server has copied the picture out.  While  *)
(* the copying lasts the buffer is the driver's: whether the picture stays *)
(* whole is a race between the camera and a send() that may block.         *)
(*                                                                         *)
(* A picture is its number in the order the camera takes them.  The driver *)
(* (queues, DMA, select) is modelled from the calls capture.c makes of it. *)
(***************************************************************************)
EXTENDS Integers, Sequences, SequencesExt

CONSTANTS
  NBufs,          \* buffers the driver granted, preq->count; test.c asks for 4
  Methods,        \* streaming methods: "mmap", "userptr"
  Size,           \* length of a buffer
  Used,           \* lengths of a compressed picture, bytesused
  Dht,            \* bytes process_image may insert
  Chunks,         \* copies it takes to send one frame
  MaxPictures,    \* bound: pictures the camera takes
  MaxInterrupts   \* bound: signals during select

Buffers == 0 .. NBufs - 1

ASSUME BufsAssumption == NBufs \in Nat /\ NBufs >= 2
ASSUME SizeAssumption == Size \in Nat /\ Size >= 2 /\ Used \subseteq 0 .. Size /\ Dht \in Nat
ASSUME BoundsAssumption ==
  Chunks \in Nat \ {0} /\ MaxPictures \in Nat /\ MaxInterrupts \in Nat

VARIABLES
  io,           \* the I/O method
  pc,           \* where the process is
  inq,          \* the driver's incoming queue
  dma,          \* the buffer the camera writes to, as a sequence of at most one
  outq,         \* the driver's outgoing queue
  pic,          \* pic[b]: the latest picture written to buffer b
  bytesused,    \* bytesused[b]: its length
  length,       \* length[b]: buffers[b].length
  cur,          \* the buffer dequeued last
  seen,         \* history: the picture it held when it was dequeued
  copied,       \* pictures the chunks sent so far were copied from
  taken,        \* pictures the camera has begun
  interrupts    \* signals so far

vars == <<io, pc, inq, dma, outq, pic, bytesused, length, cur, seen, copied, taken, interrupts>>
driver == <<inq, dma, outq, pic, bytesused, taken>>
bounds == <<io, interrupts>>

\* "queue": start_capturing; "select", "dequeue", "match", "requeue" and
\* "process": capture and read_frame; "copy": the sends of one frame.
AtWork == {"queue", "select", "dequeue", "match", "requeue", "process", "copy"}

TypeOK ==
  /\ io \in Methods
  /\ pc \in AtWork \cup {"dead", "aborted", "overrun"}
  /\ inq \in Seq(Buffers)
  /\ dma \in Seq(Buffers) /\ Len(dma) <= 1
  /\ outq \in Seq(Buffers)
  /\ pic \in [Buffers -> 0 .. MaxPictures]
  /\ bytesused \in [Buffers -> 0 .. Size]
  /\ length \in [Buffers -> 0 .. Size + Dht]
  /\ cur \in Buffers
  /\ seen \in 0 .. MaxPictures
  /\ copied \in Seq(0 .. MaxPictures) /\ Len(copied) <= Chunks
  /\ taken \in 0 .. MaxPictures
  /\ interrupts \in 0 .. MaxInterrupts

\* After init_device: every buffer has its full length and is the process's.
Init ==
  /\ io \in Methods
  /\ pc = "queue"
  /\ inq = << >>
  /\ dma = << >>
  /\ outq = << >>
  /\ pic = [b \in Buffers |-> 0]
  /\ bytesused = [b \in Buffers |-> 0]
  /\ length = [b \in Buffers |-> Size]
  /\ cur = 0
  /\ seen = 0
  /\ copied = << >>
  /\ taken = 0
  /\ interrupts = 0

Goto(s) == pc' = s

\* errno_exit, exception_exit
Die ==
  /\ Goto("dead")
  /\ UNCHANGED <<driver, length, cur, seen, copied, bounds>>

-----------------------------------------------------------------------------
(* The process. *)

\* Mutant: buf.index is not set in the loop.
QueueBufferSame ==
  /\ pc = "queue"
  /\ Len(inq) < NBufs
  /\ inq' = Append(inq, 0)
  /\ UNCHANGED <<pc, dma, outq, pic, bytesused, taken, length, cur, seen, copied, bounds>>

\* Mutant: the loop counts from one.
QueueBufferFromOne ==
  /\ pc = "queue"
  /\ Len(inq) < NBufs
  /\ inq' = Append(inq, Len(inq) + 1)
  /\ UNCHANGED <<pc, dma, outq, pic, bytesused, taken, length, cur, seen, copied, bounds>>

\* The VIDIOC_QBUF loop of start_capturing.
QueueBuffer ==
  /\ pc = "queue"
  /\ Len(inq) < NBufs
  /\ inq' = Append(inq, Len(inq))
  /\ UNCHANGED <<pc, dma, outq, pic, bytesused, taken, length, cur, seen, copied, bounds>>

\* VIDIOC_STREAMON
StreamOn ==
  /\ pc = "queue"
  /\ Len(inq) = NBufs
  /\ Goto("select")
  /\ UNCHANGED <<driver, length, cur, seen, copied, bounds>>

SelectReady ==
  /\ pc = "select"
  /\ outq # << >>
  /\ Goto("dequeue")
  /\ UNCHANGED <<driver, length, cur, seen, copied, bounds>>

\* Mutant: a timeout is treated like readiness.
SelectTimeoutIgnored ==
  /\ pc = "select"
  /\ outq = << >>
  /\ Goto("dequeue")
  /\ UNCHANGED <<driver, length, cur, seen, copied, bounds>>

\* Nothing to dequeue for two seconds.
SelectTimeout ==
  /\ pc = "select"
  /\ outq = << >>
  /\ Die

\* EINTR: `continue` in a do-while goes to the condition, so read_frame runs
\* although nothing is known to be ready.
SelectInterrupted ==
  /\ pc = "select"
  /\ interrupts < MaxInterrupts
  /\ interrupts' = interrupts + 1
  /\ Goto("dequeue")
  /\ UNCHANGED <<io, driver, length, cur, seen, copied>>

\* VIDIOC_DQBUF; EAGAIN when nothing is ready.
Dequeue ==
  /\ pc = "dequeue"
  /\ IF outq = << >>
       THEN Goto("select") /\ UNCHANGED <<outq, cur, seen>>
       ELSE /\ cur' = Head(outq)
            /\ seen' = pic[Head(outq)]
            /\ outq' = Tail(outq)
            /\ Goto("match")
  /\ UNCHANGED <<inq, dma, pic, bytesused, taken, length, copied, bounds>>

\* Which of buffers[] it is.  With mmap the driver says; with userptr it is
\* the one whose address and length the driver returns, and the driver returns
\* the length of the buffer, not the length of the last picture in it.
Matches(b) == io = "mmap" \/ length[b] = Size

\* Mutant: the length of the picture is not taken over.
MatchKeepsLength ==
  /\ pc = "match"
  /\ IF Matches(cur) THEN Goto("requeue") ELSE Goto("aborted")
  /\ UNCHANGED <<driver, length, cur, seen, copied, bounds>>

Match ==
  /\ pc = "match"
  /\ IF Matches(cur)
       THEN /\ length' = [length EXCEPT ![cur] = bytesused[cur]]
            /\ Goto("requeue")
       ELSE /\ Goto("aborted")
            /\ UNCHANGED length
  /\ UNCHANGED <<driver, cur, seen, copied, bounds>>

\* Mutant: the buffer is queued in front of the others.
RequeueInFront ==
  /\ pc = "requeue"
  /\ inq' = <<cur>> \o inq
  /\ Goto("process")
  /\ UNCHANGED <<dma, outq, pic, bytesused, taken, length, cur, seen, copied, bounds>>

\* Mutant: the buffer is not queued again.
RequeueForgotten ==
  /\ pc = "requeue"
  /\ Goto("process")
  /\ UNCHANGED <<driver, length, cur, seen, copied, bounds>>

\* VIDIOC_QBUF, while the picture is still to be used.
Requeue ==
  /\ pc = "requeue"
  /\ inq' = Append(inq, cur)
  /\ Goto("process")
  /\ UNCHANGED <<dma, outq, pic, bytesused, taken, length, cur, seen, copied, bounds>>

\* jpeg_check_dht inserts a table or leaves the picture as it is.  When that has
\* fewer than two bytes it moves what is behind SOI, a negative number of them;
\* but a single byte may, with what lies behind it, be taken for a table.
Process ==
  /\ pc = "process"
  /\ \/ /\ length[cur] > 0
        /\ \E n \in {0, Dht} :
             /\ n # 0 => length[cur] >= 2
             /\ length' = [length EXCEPT ![cur] = @ + n]
        /\ Goto("copy")
     \/ /\ length[cur] < 2
        /\ Goto("overrun")
        /\ UNCHANGED length
  /\ copied' = << >>
  /\ UNCHANGED <<driver, cur, seen, bounds>>

\* Mutant: the chunk is taken from the next of buffers[].
CopyNeighbour ==
  /\ pc = "copy"
  /\ Len(copied) < Chunks
  /\ copied' = Append(copied, pic[(cur + 1) % NBufs])
  /\ UNCHANGED <<pc, driver, length, cur, seen, bounds>>

\* memcpy and send of one chunk; the send may take any time.
CopyChunk ==
  /\ pc = "copy"
  /\ Len(copied) < Chunks
  /\ copied' = Append(copied, pic[cur])
  /\ UNCHANGED <<pc, driver, length, cur, seen, bounds>>

FrameSent ==
  /\ pc = "copy"
  /\ Len(copied) = Chunks
  /\ Goto("select")
  /\ UNCHANGED <<driver, length, cur, seen, copied, bounds>>

\* An ioctl or the select fails with another error.
CallFails ==
  /\ pc \in {"queue", "select", "dequeue", "requeue"}
  /\ Die

Server ==
  \/ QueueBuffer
  \/ StreamOn
  \/ SelectReady
  \/ SelectTimeout
  \/ SelectInterrupted
  \/ Dequeue
  \/ Match
  \/ Requeue
  \/ Process
  \/ CopyChunk
  \/ FrameSent
  \/ CallFails

-----------------------------------------------------------------------------
(* The driver and the camera; without an empty buffer pictures are dropped. *)

Streaming == pc \notin {"queue", "dead", "aborted", "overrun"}

BeginPicture ==
  /\ Streaming
  /\ dma = << >>
  /\ inq # << >>
  /\ taken < MaxPictures
  /\ taken' = taken + 1
  /\ dma' = <<Head(inq)>>
  /\ inq' = Tail(inq)
  /\ pic' = [pic EXCEPT ![Head(inq)] = taken + 1]
  /\ UNCHANGED <<pc, outq, bytesused, length, cur, seen, copied, bounds>>

EndPicture ==
  /\ Streaming
  /\ dma # << >>
  /\ \E n \in Used : bytesused' = [bytesused EXCEPT ![dma[1]] = n]
  /\ outq' = Append(outq, dma[1])
  /\ dma' = << >>
  /\ UNCHANGED <<pc, inq, pic, taken, length, cur, seen, copied, bounds>>

Next == Server \/ BeginPicture \/ EndPicture

Spec == Init /\ [][Next]_vars

\* The process runs whenever it can; nothing is assumed of the camera.
FairSpec == Spec /\ WF_vars(Server)

-----------------------------------------------------------------------------
(* What must hold. *)

\* Buffers the process has dequeued and not yet queued again.
Held == IF pc \in {"match", "requeue"} THEN {cur} ELSE {}

\* While the camera streams no buffer is queued twice, none is in two places,
\* and none is lost to the rotation.
EachBufferOnce ==
  Streaming =>
    /\ IsInjective(inq) /\ IsInjective(outq)
    /\ ToSet(inq) \cap ToSet(dma) = {}
    /\ ToSet(inq) \cap ToSet(outq) = {}
    /\ ToSet(dma) \cap ToSet(outq) = {}
    /\ Held \cap (ToSet(inq) \cup ToSet(dma) \cup ToSet(outq)) = {}
    /\ Len(inq) + Len(dma) + Len(outq) + Cardinality(Held) = NBufs

\* The picture being sent is overwritten only when every other buffer is full
\* and waiting: a server that keeps up never sends a torn frame.
TornOnlyWhenBehind ==
  pc \in {"process", "copy"} /\ pic[cur] # seen => Len(outq) >= NBufs - 1

\* Whatever is overwritten meanwhile, the chunks of a frame come from the
\* picture that was dequeued or from one later picture, never an earlier one.
ChunksForward ==
  pc = "copy" => \A i \in 1 .. Len(copied) :
                   /\ copied[i] >= seen
                   /\ i > 1 => copied[i] >= copied[i - 1]

\* Frames are dequeued in the order the camera took them, none of them twice.
PicturesInOrder == [][pc = "dequeue" /\ pc' = "match" => seen' > seen]_vars

\* capture() returns a frame, or ends the process within its timeout, even if
\* the camera never delivers.
CaptureReturns == pc = "select" ~> pc \in {"copy", "dead", "aborted", "overrun"}

\* The assertion of read_frame: a dequeued buffer is one of buffers[].
BufferFound == pc # "aborted"
=============================================================================
