--------------------------- MODULE CaptureDevice ---------------------------
(***************************************************************************)
(* The life of the camera in RPRobot-master/video/capture.c: open_device   *)
(* and init_device, the streaming of CaptureStream or the read method, and *)
(* stop_capturing and close_device.  Every call of the driver that may end *)
(* the process can fail.                                                   *)
(***************************************************************************)
EXTENDS CaptureStream

CONSTANTS
  Controls,     \* how many controls the driver may have in the MPEG class
  Formats       \* how many picture formats

ASSUME MethodsAssumption == "read" \notin Methods
ASSUME DeviceAssumption == Controls \subseteq Nat /\ Formats \subseteq Nat

VARIABLES
  phase,        \* what is being done; "run" is the streaming
  method,       \* the I/O method asked for
  left,         \* controls, then formats, that are still to be listed
  beyond,       \* whether the driver has a control behind those of the class
  granted,      \* buffers the driver granted
  n,            \* what the loops count: n_buffers, in close_device i
  memory,       \* memory[k]: bytes mapped or allocated for buffers[k]
  got           \* history: the length of the picture dequeued last

devVars == <<phase, method, left, beyond, granted, n, memory, got>>
allVars == <<vars, devVars>>

SettingUp == {"open", "check", "crop", "controls", "formats", "format", "fps", "request", "map"}

\* The read method: "poll" is the select, "read" and "try" the read when it was
\* ready and when it was interrupted, "use" what the caller does with the picture.
Reading == {"poll", "read", "try"}
Running == Reading \cup {"run", "use"}

DeviceInit ==
  /\ Init
  /\ phase = "open"
  /\ method \in {io, "read"}
  /\ left \in Controls
  /\ beyond \in BOOLEAN
  /\ granted = 0
  /\ n = 0
  /\ memory = [k \in Buffers |-> 0]
  /\ got = 0

-----------------------------------------------------------------------------
(* Setting up. *)

\* A step of init_device that leaves nothing behind but its place in the order.
Passes(from, to) ==
  /\ phase = from
  /\ phase' = to
  /\ UNCHANGED <<vars, method, left, beyond, granted, n, memory, got>>

open_device == Passes("open", "check")

\* The device must be a camera and know the method.
check_dev_cap == Passes("check", "crop")

\* A driver that cannot crop is only reported.
set_cropping_rect == Passes("crop", "controls")

\* Mutant: the next control is not asked for.
QuerySameControl ==
  /\ phase = "controls"
  /\ IF left > 0 THEN UNCHANGED phase
     ELSE /\ beyond
          /\ phase' = "formats"
  /\ UNCHANGED <<vars, method, left, beyond, granted, n, memory, got>>

\* query_control: ends with the first control behind the class.  When there is
\* none the call fails, and is repeated with the same id: nothing changes.
QueryControl ==
  /\ phase = "controls"
  /\ IF left > 0
       THEN left' = left - 1 /\ UNCHANGED phase
       ELSE /\ beyond
            /\ phase' = "formats"
            /\ left' \in Formats
  /\ UNCHANGED <<vars, method, beyond, granted, n, memory, got>>

\* list_supported_image_formats: until the driver knows no more.
ListFormat ==
  /\ phase = "formats"
  /\ IF left > 0 THEN left' = left - 1 /\ UNCHANGED phase
                 ELSE phase' = "format" /\ UNCHANGED left
  /\ UNCHANGED <<vars, method, beyond, granted, n, memory, got>>

set_image_format == Passes("format", "fps")

set_fps == Passes("fps", "request")

\* init_read_io: one buffer, without the driver.
init_read_io ==
  /\ phase = "request" /\ method = "read"
  /\ n' = 1
  /\ memory' = [memory EXCEPT ![0] = Size]
  /\ phase' = "poll"
  /\ UNCHANGED <<vars, method, left, beyond, granted, got>>

\* init_stream_io.  With mmap the driver's number is taken (NBufs is what it
\* grants), and one buffer is too few; with userptr it may be less than NBufs.
init_stream_io ==
  /\ phase = "request" /\ method # "read"
  /\ granted' \in IF method = "mmap" THEN {1, NBufs} ELSE {NBufs - 1, NBufs}
  /\ phase' = IF method = "mmap" /\ granted' < 2 THEN "dead" ELSE "map"
  /\ UNCHANGED <<vars, method, left, beyond, n, memory, got>>

\* init_mmap_io: as many as the driver granted.
MapBuffer ==
  /\ phase = "map" /\ method = "mmap"
  /\ IF n # granted
       THEN n' = n + 1 /\ memory' = [memory EXCEPT ![n] = Size] /\ UNCHANGED phase
       ELSE phase' = "run" /\ UNCHANGED <<n, memory>>
  /\ UNCHANGED <<vars, method, left, beyond, granted, got>>

\* init_userptr_io: as many as were asked for, into a table of as many as were
\* granted.
AllocateBuffer ==
  /\ phase = "map" /\ method = "userptr"
  /\ IF n = NBufs THEN phase' = "run" /\ UNCHANGED <<n, memory>>
     ELSE IF n >= granted THEN phase' = "overrun" /\ UNCHANGED <<n, memory>>
     ELSE n' = n + 1 /\ memory' = [memory EXCEPT ![n] = Size] /\ UNCHANGED phase
  /\ UNCHANGED <<vars, method, left, beyond, granted, got>>

\* errno_exit or exception_exit; cropping and controls never end the process.
SetUpFails ==
  /\ phase \in SettingUp \ {"crop", "controls"}
  /\ phase' = "dead"
  /\ UNCHANGED <<vars, method, left, beyond, granted, n, memory, got>>

SetUp == \/ open_device \/ check_dev_cap \/ set_cropping_rect \/ QueryControl
         \/ ListFormat \/ set_image_format \/ set_fps
         \/ init_read_io \/ init_stream_io \/ MapBuffer \/ AllocateBuffer
         \/ SetUpFails

-----------------------------------------------------------------------------
(* Running, and the end. *)

\* n_buffers, when it has counted them
LastBuffer == IF method = "read" THEN 1 ELSE NBufs

\* jpeg_check_dht writes the table into the buffer: one that is longer now than
\* its memory has been written past its end.
Spilt == \E k \in 0 .. LastBuffer - 1 : length'[k] > memory[k]

\* One step of the streaming methods.
Streamed(step) ==
  /\ phase = "run" /\ method # "read"
  /\ step
  /\ phase' = IF Spilt \/ pc' = "overrun" THEN "overrun" ELSE phase
  /\ got' = IF pc = "match" /\ pc' = "requeue" THEN bytesused[cur] ELSE got
  /\ UNCHANGED <<method, left, beyond, granted, n, memory>>

Stream == Streamed(Next)

\* capture with the read method: the camera has a picture.
ReadReady == Passes("poll", "read")

\* A signal during the select: read_frame runs although nothing is known to be ready.
ReadInterrupted ==
  /\ phase = "poll"
  /\ interrupts < MaxInterrupts
  /\ interrupts' = interrupts + 1
  /\ phase' = "try"
  /\ UNCHANGED <<io, pc, driver, length, cur, seen, copied,
                 method, left, beyond, granted, n, memory, got>>

\* Nothing to read, EAGAIN, unless the select said so; or a signal during the read.
ReadAgain ==
  /\ phase \in {"read", "try"}
  /\ \/ phase = "try" /\ UNCHANGED interrupts
     \/ interrupts < MaxInterrupts /\ interrupts' = interrupts + 1
  /\ phase' = "poll"
  /\ UNCHANGED <<io, pc, driver, length, cur, seen, copied,
                 method, left, beyond, granted, n, memory, got>>

\* A picture is read into the whole buffer, whose length stays what it is, and
\* process_image may add to it.
ReadFrame ==
  /\ phase \in {"read", "try"}
  /\ length' \in {[length EXCEPT ![0] = @ + more] : more \in {0, Dht}}
  /\ phase' = IF Spilt THEN "overrun" ELSE "use"
  /\ UNCHANGED <<io, pc, driver, cur, seen, copied, interrupts, method, left, beyond,
                 granted, n, memory, got>>

\* The camera keeps the select waiting too long, or a call fails.
ReadFails ==
  /\ phase \in Reading
  /\ phase' = "dead"
  /\ UNCHANGED <<vars, method, left, beyond, granted, n, memory, got>>

Read == ReadReady \/ ReadInterrupted \/ ReadAgain \/ ReadFrame \/ ReadFails

\* The caller is done with the picture, and captures the next.
PictureUsed == Passes("use", "poll")

BetweenCaptures == pc = "copy" /\ Len(copied) = Chunks

\* stop_capturing between two captures: the driver gives up its queues.
stop_capturing ==
  /\ phase = "use" \/ (phase = "run" /\ BetweenCaptures)
  /\ phase' = "close"
  /\ n' = 0
  /\ pc' = IF method = "read" THEN pc ELSE "queue"
  /\ inq' = << >> /\ dma' = << >> /\ outq' = << >>
  /\ UNCHANGED <<io, pic, bytesused, taken, length, cur, seen, copied, interrupts,
                 method, left, beyond, granted, memory, got>>

\* What munmap and free give back of buffers[k]: munmap as much as the length
\* says, which by now is that of a picture.
Freed(k) == IF method = "mmap" /\ length[k] < memory[k] THEN length[k] ELSE memory[k]

\* Mutant: the first buffer is left out.
CloseBufferLate ==
  /\ phase = "close"
  /\ IF n # LastBuffer
       THEN /\ memory' = [memory EXCEPT ![n] = IF n = 0 THEN @ ELSE @ - Freed(n)]
            /\ n' = n + 1 /\ UNCHANGED phase
       ELSE phase' = "closed" /\ UNCHANGED <<n, memory>>
  /\ UNCHANGED <<vars, method, left, beyond, granted, got>>

\* The loops of close_device, and close.
CloseBuffer ==
  /\ phase = "close"
  /\ IF n # LastBuffer
       THEN /\ memory' = [memory EXCEPT ![n] = @ - Freed(n)]
            /\ n' = n + 1 /\ UNCHANGED phase
       ELSE phase' = "closed" /\ UNCHANGED <<n, memory>>
  /\ UNCHANGED <<vars, method, left, beyond, granted, got>>

\* VIDIOC_STREAMOFF or close fails.
EndFails ==
  /\ \/ phase = "run" /\ BetweenCaptures
     \/ phase = "close" /\ n = LastBuffer
  /\ phase' = "dead"
  /\ UNCHANGED <<vars, method, left, beyond, granted, n, memory, got>>

DeviceNext == \/ SetUp \/ Stream \/ Read \/ PictureUsed
              \/ stop_capturing \/ CloseBuffer \/ EndFails

\* Set-up and server run when they can; nothing is assumed of camera or caller.
DeviceSpec ==
  /\ DeviceInit
  /\ [][DeviceNext]_allVars
  /\ WF_allVars(SetUp)
  /\ WF_allVars(Streamed(Server))
  /\ WF_allVars(Read)

-----------------------------------------------------------------------------
(* What must hold. *)

\* Frames are taken into buffers that are mapped or allocated in their full
\* length, whatever number the driver granted (init_mmap_io, init_userptr_io,
\* init_read_io); and what close_device leaves mapped is only the rest of a
\* buffer whose last picture was shorter than the buffer (494-496).
MemoryAccounted ==
  /\ phase \in Running => \A k \in 0 .. LastBuffer - 1 : memory[k] = Size
  /\ phase = "closed" =>
       \A k \in Buffers : memory[k] # 0 => method = "mmap" /\ length[k] < Size

\* Memory that is not the program's is written only where the driver granted
\* fewer buffers than userptr asked for (253), or where a table is added to a
\* picture that has no room for it behind it: any picture of the read method
\* (60), which takes the whole buffer for the picture, and a picture that all
\* but fills the buffer otherwise; or where the picture has fewer than the two
\* bytes behind which the table is to stand (imgproc.c 21-24).
OverrunExplained ==
  phase = "overrun" => \/ method = "userptr" /\ granted < NBufs
                       \/ method = "read"
                       \/ got + Dht > Size
                       \/ got < 2

\* capture() returns a frame or ends the process, with every method, whatever the
\* camera does; signals can put it off (capture.c 121-137).
EveryCaptureReturns == CaptureReturns /\ (phase = "poll" ~> phase \in {"use", "dead", "overrun"})

\* init_device comes to an end, unless the driver has no control behind the MPEG
\* class, in which case query_control asks for ever (329-343).
SetUpEnds == (phase = "open") ~> (phase \notin SettingUp \/ (phase = "controls" /\ ~beyond))

=============================================================================
