# A TLA+ model of the Tian robot

The repository is the software of a six-legged robot built on an Arduino Tian. One half (`RPRobot-master/`, C, on
the board's Linux side) streams video and sound to clients and passes their commands to the robot's controller over a
serial line. The other half (`auto/`, Arduino sketches) walks the robot on its own. Nothing in the repository tests
either of them; this directory states what they should do and checks it.

Paths below are relative to `src/`; `test.c`, `capture.c` and so on are those of `RPRobot-master/`.

## 1. The system

### Components, their state and how they interact

| component | state it keeps | operations |
|---|---|---|
| control server (`test.c` 16-43, 204-232) | its UDP socket, the tty to the board, `pkgbuf` | obey a datagram, reply with the ports |
| video server (`test.c` 76-139) | `newsockfd`, its pointer `shm`, the camera | wait for a client, capture, send packages |
| audio server (`test.c` 144-203) | last client's address, its pointer `shm`, `/dev/dsp` | wait for a datagram, record, send samples |
| capture (`video/capture.c`) | `buffers[]` and their lengths; the driver's two queues | open and set up, start, dequeue, requeue, time out, read, stop, close |
| JPEG scan (`video/imgproc.c`) | `struct jpeg_frame`; edits the picture in place | find or insert a Huffman table, find tables and scan |
| audio recording (`audio/recording.c`) | one static buffer and its length | read a block of samples |
| RTSP messages (`rtsp/server.c`, `rtsp.c`, `header.c`, `method.c`) | request and response, `tmpbuf` and `b_idx` | parse a request, handle its headers and its method, write the response |
| RTP packets (`rtsp/rtp/rtp.c`) | sequence number, offset in the frame | cut a JPEG into packets |
| file transfer (`rtsp/server.c`, `client.c`) | none between two turns of its loop | send a file, store what comes |
| servo controller (`auto/*/LobotServoController.cpp`) | receiver state, last report of the board | encode commands, decode reports byte by byte |
| walking sketches (`auto/autogoV2.ino`, `auto/autoV2`) | last measured distances | send the board commands, wait, measure |

`main` of `test.c` forks the video and the audio server and becomes the control server. The three share one byte of
System V memory. 0 lets sessions run; the stop command of the control server writes 2; the servers' outer loops compare
it with 3. Nothing else is shared: the servers do not know whether the control server is alive. Starting the program
again attaches the same segment and clears the byte, whatever is still running.

### Behaviours that are hard, and what makes each component correct

- **Processes joined by one byte.** A stop may fall between any two steps of a server. After a session each server runs
  `--shm` (131, 197), which decrements its *pointer*: from then on it tests a byte below the segment. So a stop works
  once per process. Correct means: while a process still sees the byte, a stop is followed by at most one more unit, and
  the session ends.
- **Clients that leave or stop reading.** `send` has no timeout and `SIGPIPE` is not handled. Correct means: nobody is
  left attached to a dead server, a session has a client, and an abandoned session comes to an end.
- **Repeated starts.** Orphans of an earlier start hold the ports and the devices. Correct means: the promise above holds
  for each of them, and for the new processes.
- **A parser that writes into its input.** Payloads may look like commands. Correct means: a well-formed datagram is
  obeyed exactly once per command, nothing else reaches the board, and the reply is intact.
- **Packages whose number collides with a mark.** Correct means: a reader can tell where a picture ends.
- **A ring of buffers shared with a driver.** A buffer is given back before its picture is used. Correct means: buffers
  are never lost or doubled, pictures arrive in order, and are torn only when the server has fallen behind.
- **A receiver fed by a lossy line.** The servo controller's receiver has no checksum and no timeout between reports. Correct
  means: without a loss the sketch sees what the board does, and after one it gets back into step by itself.
- **Calls that wait for hardware.** `capture` must come back even if the camera dies, and the set-up must end.
- **Lengths that change their meaning.** `buffers[i].length` is the size of the mapping, then that of the last picture, then
  that of the picture with a table. Correct means: frames go into memory that is there, and what is unmapped is what was
  mapped, or the model says where not.
- **Values followed late.** An RTSP response is a list of pointers into the request and into one static buffer, followed
  only when the message is written. Correct means: each still leads to what its header was given.
- **Tables kept in order by hand.** Correct means: the binary search finds every row.
- **Scans that guess.** `jpeg_check_dht` takes bytes for lengths that are none. Correct means: the picture stays
  decodable, and what RTP sends of it is the picture, once and in order.
- **Commands without an answer.** The sketches know only from the time that has passed that a servo has arrived. Correct
  means: nothing is measured, and no servo sent on, before it is there.

`PROJECT.json` lists every hazard at its line, with the properties that cover it.

## 2. Modules

| module | models | state and actions |
|---|---|---|
| `StreamSwitch` | the promise of the servers | a switch (`halted`) and a phase per stream: `down`, `idle`, `live`, `lost`, `gone` |
| `RobotServer` | `main` of `test.c`, three processes per start | see below |
| `ControlParser` | `process_request` | one action per branch, the cursor `p`, `pkg_end` and the reused `pkgbuf` |
| `VideoPackets` | `test.c` 107-129 | one action per package, `pkg_left`, `pkg_start`, `seq` |
| `CaptureStream` | `start_capturing`, `capture`, `read_frame` | one action per system call, the driver's queues |
| `CaptureDevice` | the rest of `capture.c`, around `CaptureStream` | one action per call of the set-up, the read method, stop and close |
| `JpegPicture` | `imgproc.c` | one turn of a scan per action, a picture is a sequence of its parts |
| `RtpSender` | `rtp_send_jframe` | one packet per action, `offset`, `bytes_left`, `start_seq` |
| `JpegSender` | a picture's way from the camera to the packets | composes `JpegPicture` and `RtpSender` |
| `RtspTables` | the tables of `rtsp.h` and `header.h` | constants |
| `RtspLookup` | the binary search of `_get_header` and `get_status` | one comparison per action |
| `RtspServer` | a request from `parse_request` to `create_response_message` | composes `RtspLookup`; one action per header, handler and separator |
| `LobotFrames` | the command functions of `LobotServoController.cpp` | pure operators: the bytes of each frame |
| `LobotServo` | `receiveHandle`, Serial1, the servo board | two byte streams, the driver's ring, the receiver's `getHeader` and `len` |
| `AutoGo` | the mission of `auto/autoV2` | a function of the sketch is the sequence of its commands; one command per action |
| `RobotServerProofs`, `ControlParserProofs`, `VideoPacketsProofs`, `RtspServerProofs` | theorems about the module they are named after (the last one about `RtspLookup`, too) | |
| `CaptureProofs` | theorems about `CaptureStream` and `CaptureDevice` | |
| `JpegSenderProofs` | theorems about `RtpSender`, `JpegPicture` and `JpegSender` | |
| `ArduinoProofs` | theorems about `LobotServo` and `AutoGo` | |
| `SequenceFacts` | lemmas the proofs share: induction, recursion along a sequence, `FlattenSeq` | |
| `MC*` | the values the runs give to constants | |

Where a module holds an operator marked "Mutant", it is a wrong version of the one below it, which a property is known to
tell from the right one. No specification uses it.

**RobotServer.** `sig` is the shared byte; `ptr[p]` says whether process `p` still points at it ("shared") or has
executed `--shm` ("adrift"), after which a test reads any of `ForeignBytes` or faults (`VideoFault`, `AudioFault`).
`pc[p]` goes through the loops: `outer` (97, 160), `wait` (`accept`, `recvfrom`), `inner` (106, 168), `unit` (capture,
record), `send`, and `cleanup` behind the loops. A frame or a block of samples is one unit. Each failing system call is
a step of its own (`VideoExit`, `AudioExit`, `MainExit`), and `VideoDies` says what the kernel does to the connections.
`conn`, `backlog` and `unread` are the video connections; `peer` is `newsockfd`. The audio server has no connections:
any datagram opens a session. A run is one start of the program; ports and devices are exclusive between runs.
What a datagram asks for is one of four commands, a datagram with several commands being several `Receive`s: what lies
between them does not touch the shared byte. Frames and requests are atomic here, `VideoPackets` and `ControlParser`
open them up.

**ControlParser.** A datagram is a sequence of commands, encoded as the branches of `process_request` take for granted:
`$` and a type, then three bytes of payload for a state, four for a move. `ForBoard` is what the board is to receive.
`pkg` is the buffer and keeps its old bytes. A cursor that leaves the buffer is `pc = "wild"` and nothing is said of what
follows. Which datagrams the properties speak about is `Plain`: they fit the buffer, and no ports request comes before
another command. For others the code does not work (see the hazards at lines 20 and 24), and the model shows it doing so.

**VideoPackets.** A package is its mark, its length as the two header bytes carry it and the offset of its bytes.
`Read` is the reader's side: it adds lengths up and closes a picture at every mark `^`. The code has no reader.

**CaptureStream.** A picture is its number; the camera writes pictures into the first queued buffer (`BeginPicture`,
`EndPicture`), which is also when a picture that is being sent may be overwritten. `Process` is `process_image`: it
leaves the picture's length alone or adds a table. A picture may have any length down to none: with none `jpeg_check_dht` puts the
table two bytes behind the beginning all the same and moves a negative number of bytes (`overrun`), and with a single byte it
does so unless that byte and what an earlier picture left behind it look like a table. The read method has no queues and is in
`CaptureDevice`.

**CaptureDevice.** `phase` is the call that is being made, `memory[k]` the bytes mapped or allocated for buffer `k`, `n`
the counter of the loop at hand. In phase `run` a step is a step of `CaptureStream` (`Streamed`). The read method has phases of its own: `poll` is the
select, `read` and `try` the read after the select said that there is a picture and after a signal, `use` what the caller does with
the picture. Only after a signal is there possibly nothing to read; a read that finds nothing, or is interrupted, goes back to the
select (capture.c 60-64, 121-138). A table that was added beyond a buffer's memory leads to `overrun`, after which nothing is said. `close_device` gives back what the
lengths say (`Freed`). What the driver has is chosen at the start: how many controls and formats, and whether a control lies
behind the MPEG class (`beyond`). How many buffers it grants is its answer to the request. What the set-up calls negotiate
(sizes, frame rate, cropping) is left out, and so are the controls' values.

**JpegPicture.** A part of a picture is a header segment, a byte of the scan, or a marker in it. Where the code takes two bytes
for a length that are none, it may go on at any later part of the scan (`Anywhere`). `early` is the order the compiler
gives the unsequenced `ptr += f(++ptr, ...)` of tables, restart intervals and frame headers. With the early one the scan is a byte short of the next
segment, which matters after a table or an interval whose last byte is 0xFF (`EndsInFF`); a frame header ends in the number of a table, which is not. Three things the code does and the model shows: the two bytes behind SOI are read as a
length, so `jpeg_check_dht` jumps over the whole header, never finds a table the picture already has, and always adds one
behind SOI; a branch that would insert the table *inside* a frame header is never reached for that reason; and a progressive
picture is described without its dimensions.

**RtpSender.** A packet is what a receiver reads of it. `host` is the byte order of the machine: `off` arrives right only from a
little-endian one, and the properties say so. The bit fields `version` and `m` of `rtp.h` are laid out for the other order;
the model has `m` as the code sets it and no version. `send`'s result is not looked at by the code, so neither is a partial send modelled.
`JpegSender` hands the struct over: with one table found and no second the copy from NULL is `crashed`.

**RtspServer.** A message is a method, its headers and how many of its lines are whole (`lines`). The steps are those of the
calls in their order: `parse_request` (`Receive` to `Parsed`), `process_header` with a handler per header, `process_method` and
`create_response_message` (`Respond`). Every search in a table is run comparison by comparison (`Compare`, `NextSet`). `res.fields` holds
pointers, `tmp` and `b` are `tmpbuf` and `b_idx`. `pc` ends in `aborted` (an assertion), `crashed` (the null handler) or
`wild` (a write behind a buffer, or a read before one).

What `sscanf` takes from the request line is modelled by how long its words are (`words`): `InLine` says which bytes of
`struct request` hold a character when it returns, as no word stops at the end of its field and the NUL behind a later one may fall into
an earlier. From it follow the two things the code asks: whether the version is empty (`header.c` 35) and whether `h_buf.num` is still the 0 it was
set to (`NumOverwritten`). If not, the first header, or the first turn of the loop over them, goes to a place nobody knows (`TakeFieldAstray`, `HandleAstray`). With fewer than three
words `parse_request` returns -1 and the request is processed all the same (`ParseLineShort`); with three and no line feed the search for the end of the first header reads before
the buffer (`ParseLineCut`). `used` is `b_idx` in bytes: a text that does not fit `tmpbuf` any more (`TmpOverrun`) or a message that does not fit `resbuf`
(`ResponseOverrun`) ends in `wild`. `fprint_request`, which the loop called for debugging and which only prints, is left out; it would follow the null row of an unknown header first.

The loop that called these functions is commented out in `server.c`;
the model calls them as that loop did. A method the server does not know is answered with 200; `Accept` in a request
other than DESCRIBE makes a response announce nothing and have a body all the same: the model has both, no property forbids it.
`RequestsServed` is about the requests that are `Servable`: whole ones whose request line leaves `h_buf.num` alone, whose headers stand in the tables, whose headers and answers
fit, by number into the header buffers and by length into `tmpbuf` and `resbuf`, and whose transports have a protocol and a cast the code does not meet with an assertion. `Conference` is left out because its
search misses it; that is what `rtsp_dictionary` shows, which asks about all rows. The run has requests of the other kinds, too, which may end the
program. `AcceptScan` says in one expression whether the loop over the text of `Accept` meets a type the server has (header.c 65-78).

**LobotServo.** The actions of `receiveHandle` are its cases, one call each, except that `readBytes` is one action per
byte (`BeginRead`, `ReadByte`, `EndRead`): bytes go on arriving while it blocks. It gives up only in silence: its timeout
is a second, a byte takes a millisecond. Bytes of `buf` it did not write hold any of `StackBytes`; beyond the end of `buf`
(`pc = "overrun"`) nothing is said. The only loss is that of the driver's full ring (`Arrive`); the sketch may call
`receiveHandle` whenever it is not inside it, or never, as the sketches of the repository do. The board obeys whole frames in order and
reports in the layout the receiver decodes; nothing in the repository says more about it. `sync` and `fresh` are history:
which reports came whole, and what they were about.

**AutoGo.** `todo` is what is left of the running function, `moving[s]` the milliseconds until servo `s` of the head is where it was sent,
`Delay` lets them pass. `Measure` is the average of five echoes, each of its own distance in whole centimetres or lost, which counts as 0; the walking itself (how long an
action group takes) is not known to the sketch and not modelled. The names of its specification (`GoInit`, `GoNext`, `GoSpec`) and of
its two board commands (`RunCommand`, `MoveCommand`) differ from those of `LobotServo`, so that one module can prove about both.

**StreamSwitch and the refinement.** `ImplementsSwitch` says that `RobotServer` under the mapping `PhaseOf` implements
`StreamSwitch`: a session begins only from `idle` and ends only by a halt or the process's death, at most one unit of a
live session is late, no two streams of a kind are up together, and a process that has lost the switch (`lost`) never
becomes an ordinary stream again. The abstract module knows nothing of sockets, pointers or forks.

## 3. Runs

All bounds are constants with a name; a run passes only if TLC exhausts the state space.

| run | question | bounds |
|---|---|---|
| `robot_restart` | what is left of one start, together with the next | 2 starts, 1 client, one queued connection, one frame in flight |
| `robot_clients` | clients that come, go and stall; do stopped and abandoned sessions end | 1 start, 2 clients, 2 in the backlog, 2 frames in flight |
| `control_parser` | is every command obeyed, whatever is in the payloads | buffer of 16 bytes, 2 datagrams of up to 3 commands |
| `video_packets` | does a reader find the pictures | payload 3, marks modulo 5, mark 3, 3 frames of 12 lengths |
| `capture_stream` | the camera from open to close: order, memory, and does it come back | 3 buffers of size 3, pictures of 0 to 3 and a table of 1, 6 pictures, 2 chunks per frame, 1 signal; every method |
| `lobot_servo` | is the sketch's picture of the board right, and after a loss | ring and buffer of 8 bytes, 2 commands, so up to 4 reports |
| `rtsp` | is every request answered, by what it asked for | 2 requests in a row out of 86, 6 places in a buffer of headers, 1024 bytes of `tmpbuf` and of `resbuf`, `h_buf.num` at byte 68 |
| `picture` | does a picture stay whole on its way into RTP | 2 pictures in a row out of 12, packets of 38 bytes, bytes of 4 values, both hosts, both orders |
| `auto_go` | does the sketch wait long enough, and stop at the wall | 2 laps; each echo of one of 5 distances, or lost |
| `capture_userptr` | does the assertion of line 110 hold | 2 buffers, 4 pictures; **violated** |
| `rtsp_dictionary` | are the tables in the order their comment says | one request per row; **violated** |
| `rtp_sequence` | is the number returned the one of the next packet | as `picture`; **violated** |

Why the bounds are enough. Two starts are the least for leftovers to meet new processes; a third adds only processes
that die in set-up. Two clients let a connection be open, queued and closed at the same time.
`ForeignBytes` has one byte of each class the loops' tests tell apart: below 0, 0, 1 or 2, 3 or more. The parser's
payloads contain `$` followed by each command type in every position; the longest datagrams overrun the small buffer,
and the second datagram finds the bytes of the first. The package lengths lie on both sides of one, two and more
payloads, of the frame whose number is the mark, and of the number's wrap-around. Three buffers are the least for which
"all others are full" is not "the other is full", and six pictures let each buffer come round twice. Picture lengths
and the table are chosen so that a picture fits, fills the buffer, and overflows it with the table, and that it has no byte, one, and two.

Two requests are what it takes for one to find what another left in the response, in `tmpbuf` and in the transport
variables; 6 places (10 in the code) let a request fill the request's buffer, the response's, and exceed each. The sizes of the request line, of
`tmpbuf` and of `resbuf` are the code's (`h_buf.num` behind 65 bytes of words; with the padding of wide pointers, at 72, the same words matter four bytes later): URIs end
right before `h_buf.num`, in it, and in it but cut off by the version, and texts of a hundred to 483 bytes fill the buffers or just do not fit. Two
pictures show what the first leaves in the struct. The scans' lengths lie around what one and two packets hold (38 bytes leave
four to eighteen for data), and four values of a byte make the three-byte offset and the swap of a sequence number take small
numbers. Distances lie on both sides of 35 cm, and of the 44 cm from which one lost echo no longer matters.

For the serial line, the ring of 8 (64 in the code) holds any one report and not two, so that bytes
are lost at every place in the second; the buffer of 8 (16) holds any report and not two, so that it overruns when two
come in one read. Group 85 looks like a header byte and a count of 1 has a high byte that may be taken for a length of 0. Four
reports are what it takes to lose one, to be brought back by one, and to be shown the next.

Deadlock checking is off in every run: the program may really stop (every process dead, no more pictures, requests or
datagrams within the bound).

### Fairness

`RobotServer!Fairness`: each server process that can take a step takes one (the scheduler of Linux), except in `accept`
and `recvfrom`, which wait for a client; only a connection already queued must be accepted. A reset that answers a frame
sent to a closed socket arrives (TCP). Nothing is assumed of operators, clients or the control process. `StopEndsSession`
therefore has the exception the code has: a `send` nobody reads.

`CaptureDevice!DeviceSpec`: the set-up runs when it can, and so does the process in a capture (and `select`'s timeout fires); nothing
is assumed of the camera or of who calls `stop_capturing`. `EveryCaptureReturns` and `SetUpEnds` need no more, the former with as many signals as the bound
allows: a process that is signalled for ever, more often than every two seconds, never meets the timeout. The latter has the
exception of `query_control`, which asks a driver for ever that has no control behind the MPEG class. `RtspServer!FairSpec`: the calls, one
thread that waits for nothing, go on; nothing is assumed of the client.

### Findings

- `capture.c:110`, run `capture_userptr`. With the userptr method the assertion `i < n_buffers` fails: the search compares
  the driver's buffer length with `buffers[i].length`, which was overwritten with the length of the last picture (111).
  `test.c` uses mmap and is not affected.
- `rtsp.h:115`, run `rtsp_dictionary`. The tables are headed `// IN DICTIONARY ORDER` (70). `Conference` stands before `CSeq`, but
  `strcmp` orders them the other way round. A request with a `Conference` header misses its row, and the handler is called
  through the NULL that stands for it.
- `rtp.c:135`, run `rtp_sequence`. `rtp_send_jframe` is said to return the sequence number of the next frame's first
  packet (31-33). It returns the header's field, in network order: on a little-endian host the numbers of two frames do not follow on.

## 4. Proofs

All theorems hold for every value of the constants that satisfies the `ASSUME`s (any number of starts, clients,
backlog, buffer sizes, packet sizes, frame lengths, pictures, requests and commands); `tlapm` checks them to the last leaf. What the
`ASSUME`s ask for beyond types is what the code is written for:

| assumption | what it says | where the code relies on it |
|---|---|---|
| `ControlParser!BufAssumption` | the buffer holds the reply of 8 bytes | `test.c` 11: 256 bytes |
| `VideoPackets!ChunkAssumption` | a payload fits the two length bytes | `test.c` 112-116 |
| `CaptureStream!BufsAssumption` | at least two buffers | `capture.c` 211 refuses fewer (with mmap) and asks for more |
| `CaptureStream!SizeAssumption` | a buffer has at least two bytes, and no picture, of any length from 0, is longer than it | `capture.c` 458-465: buffers are of the driver's `sizeimage` |
| `JpegPicture!PictureAssumption` | SOI, segments, one SOS, a scan; the end may be missing | what `imgproc.c` is written for |
| `RtpSender!RtpAssumption` | a packet is longer than all its headers | `rtp.c` subtracts them unchecked |
| `RtspLookup!LookupAssumption`, `RtspServer!TablesAssumption` | keys have an order; the tables and texts are keys | `strcmp` |
| `RtspServer!RequestsAssumption` | a header has one of the names in the dictionary of the model; an offer or a type is made of words without separators, its parameters of one of the four kinds the code tells apart | nothing, it bounds the texts |
| `RtspServer!WordsAssumption` | the words `sscanf` finds are not empty, and a message of fewer than three has no header (a header has two) | `%s` of `server.c` 19 |
| `RtspServer!SizesAssumption` | a part of a transport is no longer than the whole, and 22 bytes longer with the server's ports; `Longest` bounds the texts the server writes itself | `header.c` 188-192, `method.c` |
| `AutoGo!AutoGoAssumption` | distances are whole and not 0, what `pulseIn` gives for a lost echo | `auto.h` 29-38 |
| `LobotServo!SizesAssumption` | the receiver's buffer has at least 7 bytes | the code has 16; with fewer, a whole report would overrun it |

The tables themselves (`RtspTables`) are not assumed to be in order: they are not, see the findings. What is proved of the searches in
them is of the rows that are in order all the same.

**Definitions along a sequence.** Several properties compare the state with a definition that walks along a sequence: what a reader makes
of the packages, what the commands of a datagram are to the board. The library's induction theorem takes an operator as a parameter,
which the installed provers cannot instantiate. `SequenceFacts` proves induction for a *set* of numbers instead (`SetInduction`): each
proof names the set of those for which its claim holds. From it follow that a recursive function along a sequence exists and is the only one
(`PrefixRecursion`, `IterationUnique`), what `FlattenSeq` does to an appended, a joined and a cut sequence (`FlattenAppend`,
`FlattenConcat`, `FlattenHead`, `FlattenBegins`), and what
is known of its length from its parts (`FlattenSingle`, `FlattenTwo`). The types of those theorems say that they hold for sequences of any length.

**RobotServerProofs.**
- `TypeCorrect`: `TypeOK` is inductive.
- `LateUnits`, `OrderlyEndUnreachable`: from `FlagInv`. "At most one late unit" is not inductive: a process that has sent one
  and stands before another send would break it. `FlagInv` adds that a process that sees the byte and has sent a late unit
  is not in `unit` or `send`, that nobody has late units while the byte is 0, and that only a process that is adrift
  reaches the code behind the loops. The program order at a start (`ForkInv`: a server is off until its control process
  has forked it) is needed to know that new processes are not adrift.
- `Connections`: from `NetInv`: `ConnectionsServed` and `BacklogAlive` (what `accept` will find was never
  reset). A death resets everything of the dying process, which is right only if no other video process serves:
  `SingleCorrect` proves that, for any number of starts, at most one process of each kind serves.
- `Refinement`: every action is matched with an action of `StreamSwitch` or a stutter under the mapping `PhaseOf`.

**ControlParserProofs.** `TypeCorrect`; `RepliesArePorts`: nothing the parser writes after a ports request reaches the first
four bytes, because the cursor has passed the request (`ReplyInv` adds that `plen = 8` implies `p > 0`). `CommandsAreObeyed`,
`BoardIsInOrder` and `StopsOnRequest` follow from `ParseInv`. The properties say what has been done; inductive is only what is still to be read: for some `k`
the cursor has passed exactly the first `k` commands of the datagram, the board has what is theirs, a stop among
them has set the shared byte, and from the cursor on the buffer holds the datagram unchanged. The exception is a ports request, which
overwrites the start of the buffer and leaves the cursor on its own last byte; that byte is no `$`, so the loop steps over it.
`AtCommand` shows that at every `$` the command lies in the buffer with all its bytes, which is why no payload is ever taken for a command.

**VideoPacketsProofs.** `TypeCorrect`, `FramesTiled`, `EndMarks`, all from one invariant: the packages sent so far
are full ones, package `i` begins at `i` payloads and is numbered `i` modulo the byte, and `start + left` is the frame.
The arithmetic (multiples of the payload, remainders) is in lemmas. `ReaderStaysInStep`: while no frame is so long that a number collides with the mark,
the reader has all frames before this one and as many bytes of it as were sent (`ReaderInv`); a package that is not the last has a number below the mark.

**CaptureProofs.** About `CaptureStream`: `TypeCorrect`. `BuffersKept` is the conjunct of `RingInv` the run checks; `RingInv` adds what holds
while the buffers are first queued: the incoming queue is the buffers in order and nothing else is anywhere. `TornFrames`:
"overwritten only when behind" says nothing of the moment before. `TornInv` adds that the buffer being used is the last of
the incoming queue and still whole as long as it is there, so that it reaches the camera only when the queue has been
emptied, and all others are then full. `PicturesOrdered`: by `OrderInv` the outgoing queue is sorted, newer than what was
dequeued last and older than what the camera writes. `ChunksOrdered`: a buffer is only ever overwritten by a later picture.

About `CaptureDevice`: `MemoryKept` and `OverrunsExplained`, from `DevInv`, which builds on `CaptureStream`'s type
invariant (a step of the ring is a step of the device). It adds, phase by phase, how far the loops have come: while mapping, the buffers below `n` have
their memory; while frames are taken no length exceeds the memory, and between dequeue and scan the buffer's length is that of the
picture (`got`), so that only the table can push it over, and only a picture of fewer than two bytes goes the other way; while closing, what is behind `n` is whole and what is below is gone
or a rest. `MemoryAccounted` alone says nothing of the loops.

**JpegSenderProofs.** `FramesCarried`, about `RtpSender` with whatever frames: `IInv` adds `offset + left = frame.size` and that `offset`
and `seq` continue the last packet. `RoomLeft` is where the assumption on the packet size is used: behind the headers there is room for at least one byte,
so every turn of the loop sends data. `PicturesCarried` is the same of the frames `JpegSender` hands over: what it finds in a picture is a frame `RtpSender` may be given.

`PicturesDecodable` and `PicturesDescribed` follow from `PicInv`. Its heart is that `jpeg_check_dht` stands at the first marker or in the scan and
never between (`CheckInv`), because the two bytes behind SOI, read as a length, take it over the whole header; so the header is never changed but for the table behind SOI.
`jpeg_get_frame_details` then knows, of the parts behind it, which tables there were first and second and whether there was a
restart interval and dimensions (`Known`). `Missed` is the one exception: with the early reading of `ptr`, a table or a restart interval that ends in 0xFF.
`CrashInv` says that a null table is copied only when exactly one part with tables was found.

**RtspServerProofs.** `LookupRight`: in a sorted table everything below `s` is smaller than the key and everything from
`g` on larger (`Enclosed`), so an empty interval means that the key is not there; `MiddleInside` keeps the middle in it.
`SearchesAreLookups` is a refinement: whatever the server does, its variables `table`, `key`, `s`, `g` and `hit` only ever make steps of `RtspLookup`. It needs
that the texts the server looks for are keys (`SearchInv`), so `ServerFinds` is `LookupRight` for every table the server asks.
`PointersKeepTheirTexts`: a pointer of the response is given early and followed late. `AnswerInv` says that the CSeqs given so far are those of the request's
headers handled so far, and that `tmpbuf` still has each other text where its header points; `ResInv`
that every pointer is below `b_idx`, so that what is written next overwrites none. `PutText` is the lemma about writing into the buffer.

`ServableRequestsAreServed`: a servable request meets no end of the program. `EndInv`, which says so, is kept because of four
more. `FoundInv`: the search has not passed by its entry, which holds in an unsorted table, too, for every entry that is itself in order with
all others (`Pivot`); `CSeq`, which is not, stands where the search looks before the wrong order can mislead it (`NotPassed`). So a header without a row has no row to be found, or is `Conference`. `BufferInv`: the response never has more headers than the `CSeq` and
`Transport` headers handled so far and what the method adds. `ScanInv`: a scan of `Transport` is inside some offer and has read so
many of its words, and all offers before it were passed over; that is why no assertion of the scan meets a transport that is understood.
`SeparatedParts` and `OffersPlaces` say where in the text each offer and each of its words stands. `SizeInv`: no text in `tmpbuf` is longer than the longest one and the server's ports, there are at most
two for each `Transport` handled so far and one for each header the method has added, and `b_idx` is no further than that many of them (`OneText` each); so there is room for the next
(`TmpFits`), and a message of as many lines as there are answers fits `resbuf` (`ResponseBound`, `OneLine` each).

`ChoicesAreAnswered` uses all of the above and adds `ConfirmInv` (before the only `Transport` header is handled the response has no answer to it; afterwards all
offers were passed over or the one answer confirms the first unicast one, and its text is still in `tmpbuf`), `StatusInv` (the status and the entity are
what the `Accept` headers handled so far make of them: 200 and 406 are both found in the status table) and `DescribeInv` (the two headers of a description
come last, in their order, and only with one). `MediaPlaces` and `AcceptScanIs` turn the scan of the text of `Accept` into "the list has application/sdp":
no word of the list but a type can be taken for it.

**ArduinoProofs.** About `LobotServo`, where all state is bytes on two lines:
- `CommandsAreRead`: `TxInv` cuts `tx` into frames, one for each command of `asked`. The lemmas about `LobotFrames` say that two bytes give the word back
  and that a frame is as long as its length byte says, so the first frame means the first command and leaves the others. The type invariant
  needs it, too: what the board does is parsed from bytes.
- `BoardIsShown`: as long as nothing is lost, the reports on their way are what was read so far, the ring and the wire (`Place`), and each field either shows
  what the board does, or the last report about it on its way tells it (`Told`).
- `ComesBackIntoStep`: a receiver out of step has seen a part of a report that came out of silence (`Past`). If no byte of the report behind its header
  is a header byte, it finds no beginning in it, and is idle again when it is over.
- `BufferSuffices`: in step, `len` is that of the report being read; after a loss up to silence, nothing is said, which is what the property allows.

About `AutoGo`: `HeadIsSettled`, by `GoInv`: a servo still under way is what the next order waits for, and wherever the rest of the course looks, and at its end, the last move of
each servo before was to the middle, or there was none and it is there. That a lap has this property is composed of its parts: each waits for its moves, looks only straight
ahead and leaves the head straight (`AlignedConcat`, `EndsConcat`); `setup` has to leave it so because the first look comes before the first move.
`WallIsFound`: what the average of five echoes, any of them lost, says of the distances when it is below 35, and the other way round.

Only model-checked are the liveness properties `StopEndsSession`, `AbandonedSessionEnds`, `EveryCaptureReturns`, `SetUpEnds` and
`EveryRequestEnds`: fairness and `ENABLED` are out of the prover's reach.

## 5. Not modelled, and what is left

Not modelled:
- printing and error texts (the exits they go with are), `common/`, the commented-out programs;
- the OSS and V4L2 values the set-up negotiates with drivers: the code asks and takes what it gets;
- file transfer: what is left of the two test programs reads or writes one file in one loop and keeps nothing between
  two turns;
- the other direction of RTSP (a response that is processed, `create_session`): it has no caller;
- the two test sketches, which call one function in a loop and have no state;
- `auto/autogoV2.ino`, the older sketch: an endless obstacle loop with the same commands. Its head moves of 10 seconds are
  issued without a wait for them (96-101), so `HeadSettled` would not hold of it.

Worth adding: the older sketch beside the mission.
