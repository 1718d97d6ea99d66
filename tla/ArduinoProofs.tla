--------------------------- MODULE ArduinoProofs ---------------------------
(***************************************************************************)
(* Theorems about the Arduino half of the robot: LobotServo for any        *)
(* groups, values and commands, and for any ring and buffer that hold what *)
(* SizesAssumption asks for; AutoGo for any distances and any number of    *)
(* laps.                                                                   *)
(***************************************************************************)
EXTENDS LobotServo, AutoGo, SequenceFacts, FiniteSetTheorems

-----------------------------------------------------------------------------
(* LobotServo: bytes and frames. *)

\* A word by its bounds.
LEMMA WordIsNumber == \A w : w \in Word <=> w \in Int /\ 0 <= w /\ w <= 65535
  <1>1. MaxWord \in Int /\ 0 <= MaxWord
    BY DEF MaxWord
  <1>2. \A w : w \in Word <=> w \in Int /\ 0 <= w /\ w <= MaxWord
    BY <1>1 DEF Word
  <1>3. QED
    BY <1>1, <1>2 DEF MaxWord

\* A word is what its two bytes make.
LEMMA TwoBytes ==
  ASSUME NEW w \in Word
  PROVE  /\ GET_LOW_BYTE(w) \in Byte /\ GET_HIGH_BYTE(w) \in Byte
         /\ BYTE_TO_HW(GET_HIGH_BYTE(w), GET_LOW_BYTE(w)) = w
  <1>1. w \in Int /\ 0 <= w /\ w < 65536
    BY WordIsNumber
  <1> DEFINE q == w \div 256
             r == w % 256
  <1>2. q \in Int /\ r \in 0 .. 255 /\ w = 256 * q + r
    BY <1>1
  <1> HIDE DEF q, r
  <1>3. q \in 0 .. 255
    BY <1>1, <1>2
  <1>4. q % 256 = q
    BY <1>3
  <1>5. GET_LOW_BYTE(w) = r /\ GET_HIGH_BYTE(w) = q
    BY <1>4 DEF q, r, GET_LOW_BYTE, GET_HIGH_BYTE
  <1>6. QED
    BY <1>2, <1>3, <1>5 DEF Byte, BYTE_TO_HW

LEMMA ByteIsNumber == \A b \in Byte : b \in Nat /\ b \in Int /\ b <= 255
  BY DEF Byte

\* Any two bytes make a word.
LEMMA WordOfBytes ==
  ASSUME NEW hi \in Byte, NEW lo \in Byte
  PROVE  BYTE_TO_HW(hi, lo) \in Word
  <1>1. hi \in Int /\ lo \in Int /\ 0 <= hi /\ hi <= 255 /\ 0 <= lo /\ lo <= 255
    BY DEF Byte
  <1>2. hi * 256 + lo \in Int /\ 0 <= hi * 256 + lo /\ hi * 256 + lo <= 65535
    BY <1>1
  <1>3. QED
    BY <1>2, WordIsNumber DEF BYTE_TO_HW

\* The group, the word and the code of a frame of seven bytes.
LEMMA SevenBytes ==
  ASSUME NEW code \in Byte, NEW g \in Byte, NEW w \in Word,
         NEW f, f = <<FRAME_HEADER, FRAME_HEADER, 5, code, g, GET_LOW_BYTE(w), GET_HIGH_BYTE(w)>>
  PROVE  /\ f \in Seq(Byte) /\ Len(f) = 7
         /\ f[1] = FRAME_HEADER /\ f[2] = FRAME_HEADER /\ f[3] = 5 /\ f[4] = code
         /\ f[5] = g /\ BYTE_TO_HW(f[7], f[6]) = w
  <1>1. FRAME_HEADER \in Byte /\ 5 \in Byte
    BY DEF FRAME_HEADER, Byte
  <1>2. GET_LOW_BYTE(w) \in Byte /\ GET_HIGH_BYTE(w) \in Byte
    BY TwoBytes
  <1>3. f \in Seq(Byte)
    BY <1>1, <1>2
  <1>4. f[6] = GET_LOW_BYTE(w) /\ f[7] = GET_HIGH_BYTE(w)
    OBVIOUS
  <1>5. BYTE_TO_HW(f[7], f[6]) = w
    BY <1>4, TwoBytes
  <1>6. QED
    BY <1>3, <1>5

\* How the board reads a frame, by its code.
LEMMA Meanings ==
  ASSUME NEW f
  PROVE  /\ f[4] = CMD_ACTION_GROUP_RUN
              => Meaning(f) = [op |-> "run", group |-> f[5], times |-> BYTE_TO_HW(f[7], f[6])]
         /\ f[4] = CMD_ACTION_GROUP_SPEED
              => Meaning(f) = [op |-> "speed", group |-> f[5], speed |-> BYTE_TO_HW(f[7], f[6])]
         /\ f[4] = CMD_SERVO_MOVE => Meaning(f) = [op |-> "move", servos |-> f[5]]
         /\ f[4] = CMD_ACTION_GROUP_STOP => Meaning(f) = [op |-> "stop"]
         /\ f[4] = CMD_GET_BATTERY_VOLTAGE => Meaning(f) = [op |-> "battery"]
  BY DEF Meaning, CMD_ACTION_GROUP_RUN, CMD_ACTION_GROUP_STOP, CMD_GET_BATTERY_VOLTAGE,
         CMD_ACTION_GROUP_SPEED, CMD_SERVO_MOVE

\* A frame that the board reads as the command c.
Frame(f, c) ==
  /\ f \in Seq(Byte) /\ Len(f) >= 4 /\ f[3] + 2 = Len(f)
  /\ f[4] \in {CMD_ACTION_GROUP_RUN, CMD_ACTION_GROUP_SPEED} => Len(f) >= 7
  /\ f[4] = CMD_SERVO_MOVE => Len(f) >= 5
  /\ Meaning(f) = c

LEMMA RunFrame ==
  ASSUME NEW g \in Groups, NEW t \in Times
  PROVE  Frame(runActionGroup(g, t), [op |-> "run", group |-> g, times |-> t])
  <1> DEFINE f == runActionGroup(g, t)
  <1>1. CMD_ACTION_GROUP_RUN \in Byte /\ g \in Byte /\ t \in Word
    BY ValuesAssumption DEF CMD_ACTION_GROUP_RUN, Byte
  <1>2. f = <<FRAME_HEADER, FRAME_HEADER, 5, CMD_ACTION_GROUP_RUN, g, GET_LOW_BYTE(t), GET_HIGH_BYTE(t)>>
    BY DEF runActionGroup
  <1> HIDE DEF f
  <1>3. /\ f \in Seq(Byte) /\ Len(f) = 7 /\ f[3] = 5 /\ f[4] = CMD_ACTION_GROUP_RUN
        /\ f[5] = g /\ BYTE_TO_HW(f[7], f[6]) = t
    BY <1>1, <1>2, SevenBytes
  <1>4. Meaning(f) = [op |-> "run", group |-> g, times |-> t]
    BY <1>3, Meanings
  <1>5. QED
    BY <1>3, <1>4 DEF Frame, CMD_ACTION_GROUP_RUN, CMD_SERVO_MOVE, f

LEMMA SpeedFrame ==
  ASSUME NEW g \in Groups \cup {AllGroups}, NEW t \in Times
  PROVE  Frame(setActionGroupSpeed(g, t), [op |-> "speed", group |-> g, speed |-> t])
  <1> DEFINE f == setActionGroupSpeed(g, t)
  <1>1. CMD_ACTION_GROUP_SPEED \in Byte /\ g \in Byte /\ t \in Word
    BY ValuesAssumption DEF CMD_ACTION_GROUP_SPEED, Byte, AllGroups
  <1>2. f = <<FRAME_HEADER, FRAME_HEADER, 5, CMD_ACTION_GROUP_SPEED, g, GET_LOW_BYTE(t), GET_HIGH_BYTE(t)>>
    BY DEF setActionGroupSpeed
  <1> HIDE DEF f
  <1>3. /\ f \in Seq(Byte) /\ Len(f) = 7 /\ f[3] = 5 /\ f[4] = CMD_ACTION_GROUP_SPEED
        /\ f[5] = g /\ BYTE_TO_HW(f[7], f[6]) = t
    BY <1>1, <1>2, SevenBytes
  <1>4. Meaning(f) = [op |-> "speed", group |-> g, speed |-> t]
    BY <1>3, Meanings
  <1>5. QED
    BY <1>3, <1>4 DEF Frame, CMD_ACTION_GROUP_SPEED, CMD_SERVO_MOVE, f

LEMMA ShortFrames ==
  /\ Frame(stopActiongGroup, [op |-> "stop"])
  /\ Frame(getBatteryVoltage, [op |-> "battery"])
  BY DEF Frame, Meaning, stopActiongGroup, getBatteryVoltage, Byte, FRAME_HEADER,
         CMD_ACTION_GROUP_RUN, CMD_ACTION_GROUP_STOP, CMD_GET_BATTERY_VOLTAGE,
         CMD_ACTION_GROUP_SPEED, CMD_SERVO_MOVE

\* A frame that moves n servos.
LEMMA MoveFrame ==
  ASSUME NEW f \in Seq(Byte), Len(f) >= 5, f[4] = CMD_SERVO_MOVE, f[3] + 2 = Len(f),
         NEW n, f[5] = n
  PROVE  Frame(f, [op |-> "move", servos |-> n])
  <1>1. Meaning(f) = [op |-> "move", servos |-> n]
    BY Meanings
  <1>2. f[4] \notin {CMD_ACTION_GROUP_RUN, CMD_ACTION_GROUP_SPEED}
    BY DEF CMD_ACTION_GROUP_RUN, CMD_ACTION_GROUP_SPEED, CMD_SERVO_MOVE
  <1>3. QED
    BY <1>1, <1>2 DEF Frame

\* The frames that move one servo and two.
LEMMA MoveFrames ==
  ASSUME NEW p \in Moves, NEW t \in Moves
  PROVE  /\ Frame(moveServo(20, p, t), [op |-> "move", servos |-> 1])
         /\ Frame(moveServos(<<[ID |-> 20, Position |-> p], [ID |-> 19, Position |-> p]>>, t),
                  [op |-> "move", servos |-> 2])
  <1>1. p \in Word /\ t \in Word
    BY ValuesAssumption
  <1>2. /\ GET_LOW_BYTE(p) \in Byte /\ GET_HIGH_BYTE(p) \in Byte
        /\ GET_LOW_BYTE(t) \in Byte /\ GET_HIGH_BYTE(t) \in Byte
    BY <1>1, TwoBytes
  <1>3. /\ FRAME_HEADER \in Byte /\ CMD_SERVO_MOVE \in Byte /\ 8 \in Byte /\ 11 \in Byte
        /\ 1 \in Byte /\ 2 \in Byte /\ 20 \in Byte /\ 19 \in Byte
    BY DEF FRAME_HEADER, CMD_SERVO_MOVE, Byte
  <1>4. Frame(moveServo(20, p, t), [op |-> "move", servos |-> 1])
    <2> DEFINE f == moveServo(20, p, t)
    <2>1. f \in Seq(Byte)
      BY <1>2, <1>3 DEF moveServo
    <2>2. Len(f) = 10 /\ f[3] = 8 /\ f[4] = CMD_SERVO_MOVE /\ f[5] = 1
      BY DEF moveServo
    <2> HIDE DEF f
    <2>3. Len(f) >= 5 /\ f[3] + 2 = Len(f)
      BY <2>2
    <2>4. Frame(f, [op |-> "move", servos |-> 1])
      BY <2>1, <2>2, <2>3, MoveFrame, Zenon
    <2>5. QED
      BY <2>4 DEF f
  <1>5. Frame(moveServos(<<[ID |-> 20, Position |-> p], [ID |-> 19, Position |-> p]>>, t),
              [op |-> "move", servos |-> 2])
    <2> DEFINE two == <<[ID |-> 20, Position |-> p], [ID |-> 19, Position |-> p]>>
               head == <<FRAME_HEADER, FRAME_HEADER, 11, CMD_SERVO_MOVE,
                         2, GET_LOW_BYTE(t), GET_HIGH_BYTE(t)>>
               rest == ServoBytes(two)
               f == moveServos(two, t)
    <2>1. head \in Seq(Byte) /\ Len(head) = 7 /\ head[3] = 11 /\ head[4] = CMD_SERVO_MOVE /\ head[5] = 2
      BY <1>2, <1>3
    <2>2. rest \in Seq(Byte) /\ Len(rest) = 6
      <3>1. Len(two) = 2 /\ two[1] = [ID |-> 20, Position |-> p] /\ two[2] = [ID |-> 19, Position |-> p]
        OBVIOUS
      <3>2. ASSUME NEW i \in 1 .. 6
            PROVE  rest[i] \in Byte
        <4> DEFINE s == two[(i - 1) \div 3 + 1]
        <4>1. (i - 1) \div 3 + 1 \in {1, 2} /\ i % 3 \in {0, 1, 2}
          OBVIOUS
        <4>2. s.ID \in Byte /\ s.Position = p
          BY <1>3, <3>1, <4>1
        <4> HIDE DEF s
        <4>3. rest[i] = CASE i % 3 = 1 -> s.ID
                          [] i % 3 = 2 -> GET_LOW_BYTE(s.Position)
                          [] i % 3 = 0 -> GET_HIGH_BYTE(s.Position)
          BY <3>1 DEF ServoBytes, s
        <4> HIDE DEF rest
        <4>4. QED
          BY <1>2, <4>1, <4>2, <4>3
      <3>3. rest = [i \in 1 .. 6 |-> rest[i]]
        BY <3>1 DEF ServoBytes
      <3> HIDE DEF rest
      <3>4. rest \in [1 .. 6 -> Byte]
        BY <3>2, <3>3
      <3>5. QED
        BY <3>4, FunctionIsSequence, ZenonT(40)
    <2>3. f = head \o rest
      <3>1. Len(two) = 2 /\ (2 * 3 + 5) % 256 = 11
        OBVIOUS
      <3> HIDE DEF two
      <3>2. QED
        BY <3>1 DEF moveServos
    <2> HIDE DEF head, rest, f
    <2>4. /\ head \o rest \in Seq(Byte) /\ Len(head \o rest) = 13
          /\ \A i \in 1 .. 7 : (head \o rest)[i] = head[i]
      <3>1. head \in Seq(Byte) /\ rest \in Seq(Byte)
        BY <2>1, <2>2
      <3>2. /\ head \o rest \in Seq(Byte) /\ Len(head \o rest) = Len(head) + Len(rest)
            /\ \A i \in 1 .. Len(head) : (head \o rest)[i] = head[i]
        BY <3>1
      <3>3. QED
        BY <2>1, <2>2, <3>2
    <2>5. f \in Seq(Byte) /\ Len(f) = 13 /\ f[3] = 11 /\ f[4] = CMD_SERVO_MOVE /\ f[5] = 2
      BY <2>1, <2>3, <2>4, SMTT(30)
    <2>6. Len(f) >= 5 /\ f[3] + 2 = Len(f)
      BY <2>5
    <2>7. Frame(f, [op |-> "move", servos |-> 2])
      BY <2>5, <2>6, MoveFrame, Zenon
    <2>8. QED
      BY <2>7 DEF f
  <1>6. QED
    BY <1>4, <1>5

\* What follows a frame does not change how it is read.
LEMMA FrameFirst ==
  ASSUME NEW f, NEW c, Frame(f, c), NEW t \in Seq(Byte)
  PROVE  /\ f \o t \in Seq(Byte) /\ f \o t # << >>
         /\ (f \o t)[3] + 2 = Len(f) /\ Len(f) <= Len(f \o t)
         /\ Meaning(f \o t) = c
  <1> DEFINE g == f \o t
  <1>1. f \in Seq(Byte) /\ Len(f) >= 4
    BY DEF Frame
  <1>2. /\ g \in Seq(Byte) /\ Len(g) = Len(f) + Len(t)
        /\ \A i \in 1 .. Len(f) : g[i] = f[i]
    BY <1>1, ConcatAt
  <1> HIDE DEF g
  <1>3. g[3] = f[3] /\ g[4] = f[4]
    BY <1>1, <1>2
  <1>4. ASSUME f[4] \in {CMD_ACTION_GROUP_RUN, CMD_ACTION_GROUP_SPEED}
        PROVE  Meaning(g) = Meaning(f)
    <2>1. g[5] = f[5] /\ g[6] = f[6] /\ g[7] = f[7]
      BY <1>1, <1>2, <1>4 DEF Frame
    <2>2. QED
      BY <1>3, <2>1 DEF Meaning
  <1>5. ASSUME f[4] = CMD_SERVO_MOVE
        PROVE  Meaning(g) = Meaning(f)
    <2>1. g[5] = f[5]
      BY <1>1, <1>2, <1>5 DEF Frame
    <2>2. QED
      BY <1>3, <1>5, <2>1, Meanings
  <1>6. ASSUME f[4] \notin {CMD_ACTION_GROUP_RUN, CMD_ACTION_GROUP_SPEED, CMD_SERVO_MOVE}
        PROVE  Meaning(g) = Meaning(f)
    BY <1>3, <1>6 DEF Meaning
  <1>7. Meaning(g) = c
    BY <1>4, <1>5, <1>6 DEF Frame
  <1>8. QED
    BY <1>1, <1>2, <1>3, <1>7 DEF Frame, g

-----------------------------------------------------------------------------
(* The line to the board. *)

\* What is on the line is the frames of the commands, one behind the other.
TxInv ==
  \E frames \in Seq(Seq(Byte)) :
    /\ Len(frames) = Len(asked)
    /\ \A i \in 1 .. Len(asked) : Frame(frames[i], asked[i])
    /\ tx = FlattenSeq(frames)

\* The first frame and the rest.
LEMMA FirstFrame ==
  ASSUME TypeOK, NEW frames \in Seq(Seq(Byte)), Len(frames) = Len(asked),
         \A i \in 1 .. Len(asked) : Frame(frames[i], asked[i]),
         tx = FlattenSeq(frames)
  PROVE  /\ tx # << >> <=> asked # << >>
         /\ tx # << >> =>
              /\ asked[1] \in Commands /\ Meaning(tx) = asked[1] /\ Len(tx) >= tx[3] + 2
              /\ SubSeq(tx, tx[3] + 3, Len(tx)) = FlattenSeq(Tail(frames))
  <1>1. asked \in Seq(Commands)
    BY DEF TypeOK
  <1>2. CASE asked = << >>
    <2>1. frames = << >>
      BY <1>2, EmptySeq
    <2>2. tx = << >>
      BY <2>1 DEF FlattenSeq
    <2>3. QED
      BY <1>2, <2>2
  <1>3. CASE asked # << >>
    <2> DEFINE f == Head(frames)
               t == FlattenSeq(Tail(frames))
    <2>1. 1 \in 1 .. Len(asked) /\ asked[1] \in Commands
      BY <1>1, <1>3
    <2>2. frames # << >> /\ f = frames[1] /\ Tail(frames) \in Seq(Seq(Byte))
      BY <1>1, <1>3
    <2>3. Frame(f, asked[1])
      BY <2>1, <2>2
    <2>4. tx = f \o t
      BY <2>2, FlattenHead
    <2>5. t \in Seq(Byte)
      BY <2>2, FlattenIsSeq
    <2>6. f \in Seq(Byte)
      BY <2>3 DEF Frame
    <2> HIDE DEF f, t
    <2>7. /\ tx # << >> /\ tx[3] + 2 = Len(f) /\ Len(f) <= Len(tx)
          /\ Meaning(tx) = asked[1]
      BY <2>3, <2>4, <2>5, FrameFirst
    <2>8. SubSeq(f \o t, Len(f) + 1, Len(f \o t)) = t
      BY <2>5, <2>6
    <2>9. tx[3] + 3 = Len(f) + 1
      <3>1. f[3] + 2 = Len(f) /\ tx[3] = f[3]
        <4>1. Len(f) >= 4 /\ f[3] + 2 = Len(f)
          BY <2>3 DEF Frame
        <4>2. tx[3] = f[3]
          BY <2>4, <2>5, <2>6, <4>1, ConcatAt
        <4>3. QED
          BY <4>1, <4>2
      <3>2. 3 \in 1 .. Len(f)
        BY <2>3 DEF Frame
      <3>3. f[3] \in Int
        <4>1. f[3] \in Byte
          BY <2>6, <3>2
        <4>2. QED
          BY <4>1, ByteIsNumber
      <3>4. QED
        BY <3>1, <3>3
    <2>10. SubSeq(tx, tx[3] + 3, Len(tx)) = t
      BY <2>4, <2>8, <2>9
    <2>11. Len(tx) >= tx[3] + 2
      BY <2>4, <2>5, <2>6, <2>7
    <2>12. QED
      BY <1>3, <2>1, <2>7, <2>10, <2>11 DEF t
  <1>4. QED
    BY <1>2, <1>3

\* Once the first frame is obeyed the others are left.
LEMMA OneLess ==
  ASSUME TypeOK, TxInv, tx # << >>,
         tx' = SubSeq(tx, tx[3] + 3, Len(tx)), asked' = Tail(asked)
  PROVE  tx' \in Seq(Byte) /\ asked' \in Seq(Commands) /\ TxInv'
  <1>1. PICK frames \in Seq(Seq(Byte)) :
          /\ Len(frames) = Len(asked)
          /\ \A i \in 1 .. Len(asked) : Frame(frames[i], asked[i])
          /\ tx = FlattenSeq(frames)
    BY DEF TxInv
  <1> DEFINE rest == Tail(frames)
  <1>2. asked # << >> /\ tx' = FlattenSeq(rest)
    BY <1>1, FirstFrame
  <1>3. asked \in Seq(Commands)
    BY DEF TypeOK
  <1>4. asked' \in Seq(Commands) /\ Len(asked') = Len(asked) - 1
    BY <1>2, <1>3
  <1>5. rest \in Seq(Seq(Byte)) /\ Len(rest) = Len(asked) - 1
    BY <1>1, <1>2, <1>3
  <1>6. ASSUME NEW i \in 1 .. Len(asked')
        PROVE  Frame(rest[i], asked'[i])
    <2>1. i + 1 \in 1 .. Len(asked) /\ asked'[i] = asked[i + 1] /\ rest[i] = frames[i + 1]
      BY <1>1, <1>2, <1>3, <1>4, <1>5
    <2>2. QED
      BY <1>1, <2>1
  <1>7. tx' \in Seq(Byte)
    BY <1>2, <1>5, FlattenIsSeq
  <1> HIDE DEF rest
  <1>8. QED
    BY <1>2, <1>4, <1>5, <1>6, <1>7 DEF TxInv

\* A command more.
LEMMA WriteStep ==
  ASSUME TypeOK, TxInv, NEW c \in Commands, NEW f, Frame(f, c), Write(c, f)
  PROVE  TypeOK' /\ TxInv'
  <1>1. PICK frames \in Seq(Seq(Byte)) :
          /\ Len(frames) = Len(asked)
          /\ \A i \in 1 .. Len(asked) : Frame(frames[i], asked[i])
          /\ tx = FlattenSeq(frames)
    BY DEF TxInv
  <1>2. f \in Seq(Byte) /\ asked \in Seq(Commands) /\ tx \in Seq(Byte)
    BY DEF Frame, TypeOK
  <1>3. tx' = tx \o f /\ asked' = Append(asked, c)
    BY DEF Write
  <1> DEFINE more == Append(frames, f)
  <1>4. more \in Seq(Seq(Byte)) /\ Len(more) = Len(asked) + 1
    BY <1>1, <1>2
  <1>5. asked' \in Seq(Commands) /\ Len(asked') = Len(asked) + 1
    BY <1>2, <1>3
  <1>6. ASSUME NEW i \in 1 .. Len(asked')
        PROVE  Frame(more[i], asked'[i])
    <2>1. CASE i = Len(asked) + 1
      <3>1. more[i] = f
        BY <1>1, <2>1
      <3>2. asked'[i] = c
        BY <1>2, <1>3, <2>1
      <3>3. QED
        BY <1>2, <3>1, <3>2
    <2>2. CASE i # Len(asked) + 1
      <3>1. i \in 1 .. Len(asked)
        BY <1>2, <1>5, <2>2
      <3>2. more[i] = frames[i] /\ asked'[i] = asked[i]
        BY <1>1, <1>2, <1>3, <3>1
      <3>3. QED
        BY <1>1, <3>1, <3>2
    <2>3. QED
      BY <2>1, <2>2
  <1>7. tx' = FlattenSeq(more)
    BY <1>1, <1>2, <1>3, FlattenAppend
  <1>8. tx' \in Seq(Byte)
    BY <1>2, <1>3
  <1> HIDE DEF more
  <1>9. TxInv'
    BY <1>4, <1>5, <1>6, <1>7 DEF TxInv
  <1>10. calls' \in 0 .. MaxCalls
    BY SizesAssumption DEF Write, TypeOK
  <1>11. TypeOK'
    BY <1>5, <1>8, <1>10 DEF Write, TypeOK, receiver, fields
  <1>12. QED
    BY <1>9, <1>11

\* Each of the sketch's calls writes the frame of its command.
LEMMA SketchStep ==
  ASSUME TypeOK, TxInv, Sketch
  PROVE  TypeOK' /\ TxInv'
  <1>1. CASE CallRun
    <2>1. PICK g \in Groups, t \in Times :
            Write([op |-> "run", group |-> g, times |-> t], runActionGroup(g, t))
      BY <1>1 DEF CallRun
    <2>2. [op |-> "run", group |-> g, times |-> t] \in Commands
      BY DEF Commands
    <2>3. QED
      BY <2>1, <2>2, RunFrame, WriteStep, Zenon
  <1>2. CASE CallStop
    <2>1. [op |-> "stop"] \in Commands
      BY DEF Commands
    <2>2. QED
      BY <1>2, <2>1, ShortFrames, WriteStep, Zenon DEF CallStop
  <1>3. CASE CallBattery
    <2>1. [op |-> "battery"] \in Commands
      BY DEF Commands
    <2>2. QED
      BY <1>3, <2>1, ShortFrames, WriteStep, Zenon DEF CallBattery
  <1>4. CASE CallSpeed
    <2>1. PICK g \in Groups \cup {AllGroups}, t \in Times :
            Write([op |-> "speed", group |-> g, speed |-> t], setActionGroupSpeed(g, t))
      BY <1>4 DEF CallSpeed, setAllActionGroupSpeed
    <2>2. [op |-> "speed", group |-> g, speed |-> t] \in Commands
      BY DEF Commands
    <2>3. QED
      BY <2>1, <2>2, SpeedFrame, WriteStep, Zenon
  <1>5. CASE CallMove
    <2>1. [op |-> "move", servos |-> 1] \in Commands /\ [op |-> "move", servos |-> 2] \in Commands
      BY DEF Commands
    <2>2. PICK p \in Moves, t \in Moves :
            \/ Write([op |-> "move", servos |-> 1], moveServo(20, p, t))
            \/ Write([op |-> "move", servos |-> 2],
                     moveServos(<<[ID |-> 20, Position |-> p], [ID |-> 19, Position |-> p]>>, t))
      BY <1>5 DEF CallMove
    <2>3. QED
      BY <2>1, <2>2, MoveFrames, WriteStep, Zenon
  <1>6. QED
    BY <1>1, <1>2, <1>3, <1>4, <1>5 DEF Sketch

-----------------------------------------------------------------------------
(* The reports of the board. *)

IsReport(f) ==
  /\ f \in Seq(Byte)
  /\ Len(f) \in {4, 6, 7} /\ f[3] = Len(f) - 2
  /\ f[1] = FRAME_HEADER /\ f[2] = FRAME_HEADER
  /\ f[4] \in {BATTERY_VOLTAGE, ACTION_GROUP_RUNNING, ACTION_GROUP_STOPPED, ACTION_GROUP_COMPLETE}
  /\ f[4] = BATTERY_VOLTAGE => Len(f) = 6
  /\ f[4] = ACTION_GROUP_RUNNING => Len(f) = 7

LEMMA ReportLength ==
  ASSUME NEW f, IsReport(f)
  PROVE  Len(f) \in Nat /\ Len(f) >= 4 /\ Len(f) <= 7
  <1>1. \A n \in {4, 6, 7} : n \in Nat /\ n >= 4 /\ n <= 7
    OBVIOUS
  <1>2. QED
    BY <1>1, Zenon DEF IsReport

KindOf(f) == IF f[4] = BATTERY_VOLTAGE THEN "volts" ELSE "group"

\* The report f is true of the board b.
Tells(f, b) ==
  /\ f[4] = BATTERY_VOLTAGE => b.volts = BYTE_TO_HW(f[6], f[5])
  /\ f[4] = ACTION_GROUP_RUNNING =>
       b.group # AllGroups /\ b.group = f[5] /\ b.times = BYTE_TO_HW(f[7], f[6])
  /\ f[4] \in {ACTION_GROUP_STOPPED, ACTION_GROUP_COMPLETE} => b.group = AllGroups /\ b.times = 0

\* The board reports what it has just done, and nothing else has changed.
BoardSays(f) ==
  /\ IsReport(f)
  /\ Report(KindOf(f), f)
  /\ Tells(f, board')
  /\ KindOf(f) = "volts" => board'.group = board.group /\ board'.times = board.times
  /\ KindOf(f) = "group" => board'.volts = board.volts

LEMMA VoltageReport ==
  ASSUME NEW v \in Voltages
  PROVE  /\ IsReport(Voltage(v)) /\ Voltage(v)[4] = BATTERY_VOLTAGE
         /\ BYTE_TO_HW(Voltage(v)[6], Voltage(v)[5]) = v
  <1> DEFINE f == Voltage(v)
  <1>1. v \in Word
    BY ValuesAssumption
  <1>2. GET_LOW_BYTE(v) \in Byte /\ GET_HIGH_BYTE(v) \in Byte
    BY <1>1, TwoBytes
  <1>3. FRAME_HEADER \in Byte /\ 4 \in Byte /\ BATTERY_VOLTAGE \in Byte
    BY DEF FRAME_HEADER, BATTERY_VOLTAGE, Byte
  <1>4. f \in Seq(Byte)
    BY <1>2, <1>3 DEF Voltage
  <1>5. /\ Len(f) = 6 /\ f[1] = FRAME_HEADER /\ f[2] = FRAME_HEADER /\ f[3] = 4
        /\ f[4] = BATTERY_VOLTAGE /\ f[5] = GET_LOW_BYTE(v) /\ f[6] = GET_HIGH_BYTE(v)
    BY DEF Voltage
  <1>6. BYTE_TO_HW(f[6], f[5]) = v
    BY <1>1, <1>5, TwoBytes
  <1> HIDE DEF f
  <1>7. IsReport(f)
    BY <1>4, <1>5 DEF IsReport, BATTERY_VOLTAGE, ACTION_GROUP_RUNNING
  <1>8. QED
    BY <1>5, <1>6, <1>7 DEF f

LEMMA GroupReports ==
  ASSUME NEW code \in {ACTION_GROUP_RUNNING, ACTION_GROUP_COMPLETE}, NEW g \in Groups, NEW t \in Word
  PROVE  LET f == GroupReport(code, g, t)
         IN  IsReport(f) /\ f[4] = code /\ f[5] = g /\ BYTE_TO_HW(f[7], f[6]) = t
  <1> DEFINE f == GroupReport(code, g, t)
  <1>1. code \in Byte /\ g \in Byte
    BY ValuesAssumption DEF Byte, ACTION_GROUP_RUNNING, ACTION_GROUP_COMPLETE
  <1>2. f = <<FRAME_HEADER, FRAME_HEADER, 5, code, g, GET_LOW_BYTE(t), GET_HIGH_BYTE(t)>>
    BY DEF GroupReport
  <1> HIDE DEF f
  <1>3. /\ f \in Seq(Byte) /\ Len(f) = 7
        /\ f[1] = FRAME_HEADER /\ f[2] = FRAME_HEADER /\ f[3] = 5 /\ f[4] = code
        /\ f[5] = g /\ BYTE_TO_HW(f[7], f[6]) = t
    BY <1>1, <1>2, SevenBytes
  <1>4. IsReport(f)
    BY <1>3 DEF IsReport, BATTERY_VOLTAGE, ACTION_GROUP_RUNNING, ACTION_GROUP_COMPLETE
  <1>5. QED
    BY <1>3, <1>4 DEF f

LEMMA StoppedReport == IsReport(Stopped) /\ Stopped[4] = ACTION_GROUP_STOPPED
  BY DEF IsReport, Stopped, Byte, FRAME_HEADER, BATTERY_VOLTAGE, ACTION_GROUP_RUNNING,
         ACTION_GROUP_STOPPED, ACTION_GROUP_COMPLETE

\* What a report does to the line.
LEMMA ReportLine ==
  ASSUME TypeOK, NEW f, BoardSays(f)
  PROVE  wire' \in Seq(Byte) /\ sync' \in {"sync", "lost", "resync"} /\ fresh' \subseteq {"group", "volts"}
  <1>1. f \in Seq(Byte) /\ wire \in Seq(Byte) /\ fresh \subseteq {"group", "volts"}
    BY DEF BoardSays, IsReport, TypeOK
  <1>2. Report(KindOf(f), f) /\ KindOf(f) \in {"group", "volts"}
    BY DEF BoardSays, KindOf
  <1>3. wire' \in Seq(Byte)
    BY <1>1, <1>2 DEF Report
  <1>4. sync' \in {"sync", "lost", "resync"}
    BY <1>2 DEF Report
  <1>5. fresh' \subseteq {"group", "volts"}
    BY <1>1, <1>2 DEF Report
  <1>6. QED
    BY <1>3, <1>4, <1>5

\* A step of the board either says what has changed or changes nothing.
LEMMA BoardStep ==
  ASSUME TypeOK, TxInv, BoardObeys \/ BoardCompletes
  PROVE  /\ TypeOK' /\ TxInv'
         /\ UNCHANGED <<rx, receiver, calls>>
         /\ (\E f : BoardSays(f)) \/ UNCHANGED <<board, wire, sync, fresh>>
  <1> DEFINE Boards == [group : Groups \cup {AllGroups}, times : Times \cup {0}, volts : Voltages \cup {0}]
  <1>1. board \in Boards
    BY DEF TypeOK
  <1>2. UNCHANGED <<rx, receiver, calls>>
    BY DEF BoardObeys, BoardCompletes
  <1>3. \A g \in Groups : g # AllGroups
    BY ValuesAssumption DEF AllGroups
  <1>4. ASSUME BoardObeys
        PROVE  /\ tx' \in Seq(Byte) /\ asked' \in Seq(Commands) /\ TxInv' /\ board' \in Boards
               /\ (\E f : BoardSays(f)) \/ UNCHANGED <<board, wire, sync, fresh>>
    <2> DEFINE c == Meaning(tx)
    <2>1. tx # << >> /\ tx' = SubSeq(tx, tx[3] + 3, Len(tx)) /\ asked' = Tail(asked)
      BY <1>4 DEF BoardObeys
    <2>2. c \in Commands
      <3>1. PICK frames \in Seq(Seq(Byte)) :
              /\ Len(frames) = Len(asked)
              /\ \A i \in 1 .. Len(asked) : Frame(frames[i], asked[i])
              /\ tx = FlattenSeq(frames)
        BY DEF TxInv
      <3>2. QED
        BY <2>1, <3>1, FirstFrame
    <2>3. tx' \in Seq(Byte) /\ asked' \in Seq(Commands) /\ TxInv'
      BY <2>1, OneLess
    <2>4. CASE c.op = "run"
      <3> DEFINE f == GroupReport(ACTION_GROUP_RUNNING, c.group, c.times)
      <3>1. /\ board' = [board EXCEPT !.group = c.group, !.times = c.times]
            /\ Report("group", f)
        BY <1>4, <2>4 DEF BoardObeys
      <3>2. c.group \in Groups /\ c.times \in Times /\ c.times \in Word
        BY <2>2, <2>4, ValuesAssumption DEF Commands
      <3> HIDE DEF c
      <3>3. /\ board' \in Boards /\ board'.group = c.group /\ board'.times = c.times
            /\ board'.volts = board.volts
        BY <1>1, <3>1, <3>2
      <3>4. /\ IsReport(f) /\ f[4] = ACTION_GROUP_RUNNING /\ f[5] = c.group
            /\ BYTE_TO_HW(f[7], f[6]) = c.times
        BY <3>2, GroupReports
      <3> HIDE DEF f
      <3>5. KindOf(f) = "group"
        BY <3>4 DEF KindOf, BATTERY_VOLTAGE, ACTION_GROUP_RUNNING
      <3>6. Tells(f, board')
        BY <1>3, <3>2, <3>3, <3>4
           DEF Tells, BATTERY_VOLTAGE, ACTION_GROUP_RUNNING, ACTION_GROUP_STOPPED, ACTION_GROUP_COMPLETE
      <3>7. BoardSays(f)
        BY <3>1, <3>3, <3>4, <3>5, <3>6 DEF BoardSays
      <3>8. QED
        BY <2>3, <3>3, <3>7
    <2>5. CASE c.op = "stop"
      <3>1. /\ board' = [board EXCEPT !.group = AllGroups, !.times = 0]
            /\ Report("group", Stopped)
        BY <1>4, <2>5 DEF BoardObeys
      <3>2. /\ board' \in Boards /\ board'.group = AllGroups /\ board'.times = 0
            /\ board'.volts = board.volts
        BY <1>1, <3>1
      <3>3. KindOf(Stopped) = "group"
        BY StoppedReport DEF KindOf, BATTERY_VOLTAGE, ACTION_GROUP_STOPPED
      <3>4. Tells(Stopped, board')
        BY <3>2, StoppedReport
           DEF Tells, BATTERY_VOLTAGE, ACTION_GROUP_RUNNING, ACTION_GROUP_STOPPED
      <3>5. BoardSays(Stopped)
        BY <3>1, <3>2, <3>3, <3>4, StoppedReport DEF BoardSays
      <3>6. QED
        BY <2>3, <3>2, <3>5
    <2>6. CASE c.op = "battery"
      <3>1. PICK v \in Voltages :
              board' = [board EXCEPT !.volts = v] /\ Report("volts", Voltage(v))
        BY <1>4, <2>6 DEF BoardObeys
      <3> DEFINE f == Voltage(v)
      <3>2. /\ board' \in Boards /\ board'.group = board.group /\ board'.times = board.times
            /\ board'.volts = v
        BY <1>1, <3>1
      <3>3. IsReport(f) /\ f[4] = BATTERY_VOLTAGE /\ BYTE_TO_HW(f[6], f[5]) = v
        BY VoltageReport
      <3>4. Report("volts", f)
        BY <3>1
      <3> HIDE DEF f
      <3>5. KindOf(f) = "volts"
        BY <3>3 DEF KindOf
      <3>6. Tells(f, board')
        BY <3>2, <3>3
           DEF Tells, BATTERY_VOLTAGE, ACTION_GROUP_RUNNING, ACTION_GROUP_STOPPED, ACTION_GROUP_COMPLETE
      <3>7. BoardSays(f)
        BY <3>2, <3>3, <3>4, <3>5, <3>6 DEF BoardSays
      <3>8. QED
        BY <2>3, <3>2, <3>7
    <2>7. CASE c.op \in {"speed", "move", "none"}
      <3>1. UNCHANGED <<board, wire, sync, fresh>>
        BY <1>4, <2>7 DEF BoardObeys
      <3>2. QED
        BY <1>1, <2>3, <3>1
    <2>8. c.op \in {"run", "stop", "battery", "speed", "move"}
      BY <2>2 DEF Commands
    <2>9. QED
      BY <2>4, <2>5, <2>6, <2>7, <2>8
  <1>5. ASSUME BoardCompletes
        PROVE  /\ tx' \in Seq(Byte) /\ asked' \in Seq(Commands) /\ TxInv' /\ board' \in Boards
               /\ \E f : BoardSays(f)
    <2> DEFINE f == GroupReport(ACTION_GROUP_COMPLETE, board.group, board.times)
    <2>1. /\ board' = [board EXCEPT !.group = AllGroups, !.times = 0]
          /\ Report("group", f)
          /\ tx' = tx /\ asked' = asked
      BY <1>5 DEF BoardCompletes
    <2>2. board.group \in Groups /\ board.times \in Word
      BY <1>1, <1>5, ValuesAssumption DEF BoardCompletes
    <2>3. /\ board' \in Boards /\ board'.group = AllGroups /\ board'.times = 0
          /\ board'.volts = board.volts
      BY <1>1, <2>1
    <2>4. IsReport(f) /\ f[4] = ACTION_GROUP_COMPLETE
      BY <2>2, GroupReports
    <2> HIDE DEF f
    <2>5. KindOf(f) = "group"
      BY <2>4 DEF KindOf, BATTERY_VOLTAGE, ACTION_GROUP_COMPLETE
    <2>6. Tells(f, board')
      BY <2>3, <2>4
         DEF Tells, BATTERY_VOLTAGE, ACTION_GROUP_RUNNING, ACTION_GROUP_COMPLETE
    <2>7. BoardSays(f)
      BY <2>1, <2>3, <2>4, <2>5, <2>6 DEF BoardSays
    <2>8. TxInv'
      BY <2>1 DEF TxInv
    <2>9. QED
      BY <2>1, <2>3, <2>7, <2>8 DEF TypeOK
  <1> HIDE DEF Boards
  <1>6. /\ tx' \in Seq(Byte) /\ asked' \in Seq(Commands) /\ TxInv' /\ board' \in Boards
        /\ (\E f : BoardSays(f)) \/ UNCHANGED <<board, wire, sync, fresh>>
    BY <1>4, <1>5
  <1>7. wire' \in Seq(Byte) /\ sync' \in {"sync", "lost", "resync"} /\ fresh' \subseteq {"group", "volts"}
    <2>1. CASE \E f : BoardSays(f)
      BY <2>1, ReportLine
    <2>2. CASE UNCHANGED <<board, wire, sync, fresh>>
      BY <2>2 DEF TypeOK
    <2>3. QED
      BY <1>6, <2>1, <2>2
  <1>8. TypeOK'
    BY <1>2, <1>6, <1>7 DEF TypeOK, receiver, fields, Boards
  <1>9. QED
    BY <1>2, <1>6, <1>8

-----------------------------------------------------------------------------
(* The line to the sketch, as long as nothing is lost. *)

\* Three lines one behind the other.
LEMMA BytesAssociate ==
  /\ \A a, b \in Seq(Byte) : a \o b \in Seq(Byte)
  /\ \A a, b, c \in Seq(Byte) : (a \o b) \o c = a \o (b \o c)
  <1>1. \A a, b \in Seq(Byte) : a \o b \in Seq(Byte)
    OBVIOUS
  <1>2. ASSUME NEW a \in Seq(Byte), NEW b \in Seq(Byte), NEW c \in Seq(Byte)
        PROVE  (a \o b) \o c = a \o (b \o c)
    BY ConcatAssociative
  <1>3. QED
    BY <1>1, <1>2

\* A byte is taken from the front of the ring.
LEMMA ByteTaken ==
  ASSUME NEW all, NEW done \in Seq(Byte), NEW r \in Seq(Byte), NEW w \in Seq(Byte),
         r # << >>, all = done \o (r \o w)
  PROVE  /\ Len(done) + 1 \in 1 .. Len(all) /\ Head(r) = all[Len(done) + 1]
         /\ Append(done, Head(r)) \in Seq(Byte) /\ Tail(r) \in Seq(Byte)
         /\ all = Append(done, Head(r)) \o (Tail(r) \o w)
  <1>1. /\ Head(r) \in Byte /\ Tail(r) \in Seq(Byte) /\ Len(r) >= 1
        /\ Append(done, Head(r)) \in Seq(Byte) /\ Append(done, Head(r)) = done \o <<Head(r)>>
    OBVIOUS
  <1>2. r = <<Head(r)>> \o Tail(r)
    OBVIOUS
  <1>3. done \o (r \o w) = Append(done, Head(r)) \o (Tail(r) \o w)
    <2> DEFINE h == <<Head(r)>>
               t == Tail(r)
    <2>1. h \in Seq(Byte) /\ t \in Seq(Byte) /\ r = h \o t
      BY <1>1, <1>2
    <2>2. Append(done, Head(r)) = done \o h
      BY <1>1
    <2> HIDE DEF h, t
    <2>3. done \o ((h \o t) \o w) = (done \o h) \o (t \o w)
      <3>1. (h \o t) \o w = h \o (t \o w) /\ t \o w \in Seq(Byte)
        BY <2>1, BytesAssociate, ZenonT(90)
      <3>2. (done \o h) \o (t \o w) = done \o (h \o (t \o w))
        BY <2>1, <3>1, BytesAssociate, ZenonT(90)
      <3>3. QED
        BY <3>1, <3>2, Zenon
    <2>4. QED
      BY <2>1, <2>2, <2>3 DEF t
  <1>4. r \o w \in Seq(Byte) /\ Len(r \o w) >= 1 /\ (r \o w)[1] = Head(r)
    BY <1>1
  <1>5. /\ Len(all) = Len(done) + Len(r \o w)
        /\ all[Len(done) + 1] = (r \o w)[1]
    BY <1>4
  <1>6. QED
    BY <1>1, <1>3, <1>4, <1>5

\* A byte goes from the wire to the ring.
LEMMA ByteArrives ==
  ASSUME NEW r \in Seq(Byte), NEW w \in Seq(Byte), w # << >>
  PROVE  /\ Append(r, Head(w)) \in Seq(Byte) /\ Tail(w) \in Seq(Byte)
         /\ Append(r, Head(w)) \o Tail(w) = r \o w
  <1>1. /\ Head(w) \in Byte /\ Tail(w) \in Seq(Byte)
        /\ Append(r, Head(w)) \in Seq(Byte) /\ Append(r, Head(w)) = r \o <<Head(w)>>
    OBVIOUS
  <1> DEFINE h == <<Head(w)>>
             t == Tail(w)
  <1>2. h \in Seq(Byte) /\ t \in Seq(Byte) /\ w = h \o t
    BY <1>1
  <1> HIDE DEF h, t
  <1>3. r \o (h \o t) = (r \o h) \o t
    BY <1>2, SMTT(30)
  <1>4. QED
    BY <1>1, <1>2, <1>3 DEF h, t

\* readBytes has read the whole of the report f.
WholeRead(f) == Len(buf) = Len(f) - 3 /\ \A i \in 1 .. Len(buf) : buf[i] = f[i + 3]

\* The reports q are on their way, and the receiver has read as much of the
\* first one as done.
Place(q, done) ==
  /\ \A i \in 1 .. Len(q) : IsReport(q[i])
  /\ FlattenSeq(q) = done \o (rx \o wire)
  /\ q # << >> => Len(done) <= Len(q[1])
  /\ pc = "idle" => Len(done) = getHeader
  /\ pc = "reading" =>
       /\ getHeader = 3 /\ Len(done) = Len(buf) + 3
       /\ \A i \in 1 .. Len(buf) : buf[i] = done[i + 3]
  /\ getHeader = 3 => len = done[3]
  /\ pc # "overrun"

GroupShown ==
  /\ numOfActinGroupRunning = board.group
  /\ actionGroupRunTimes = board.times
  /\ isRunning = (board.group # AllGroups)

Shown(kind) ==
  /\ kind = "group" => GroupShown
  /\ kind = "volts" => batteryVoltage = board.volts

\* The last report of a kind on its way is true of the board; when there is
\* none, the sketch knows what it would say.
Told(q) ==
  \A kind \in {"group", "volts"} :
    /\ \A j \in 1 .. Len(q) :
         KindOf(q[j]) = kind /\ (\A i \in j + 1 .. Len(q) : KindOf(q[i]) # kind)
           => Tells(q[j], board)
    /\ kind \in fresh /\ (\A i \in 1 .. Len(q) : KindOf(q[i]) # kind) => Shown(kind)

SyncInv ==
  sync = "sync" => \E q \in Seq(Seq(Byte)), done \in Seq(Byte) : Place(q, done) /\ Told(q)

\* While something is on its way or half read, it is the first report.
LEMMA FirstReport ==
  ASSUME TypeOK, NEW q \in Seq(Seq(Byte)), NEW done \in Seq(Byte), Place(q, done),
         rx # << >> \/ done # << >>
  PROVE  /\ q # << >> /\ IsReport(q[1]) /\ Tail(q) \in Seq(Seq(Byte))
         /\ FlattenSeq(Tail(q)) \in Seq(Byte)
         /\ q[1] \o FlattenSeq(Tail(q)) = done \o (rx \o wire)
         /\ Len(done) <= Len(q[1])
         /\ \A i \in 1 .. Len(done) : done[i] = q[1][i]
         /\ rx # << >> /\ Len(done) < Len(q[1]) => Head(rx) = q[1][Len(done) + 1]
  <1>1. rx \in Seq(Byte) /\ wire \in Seq(Byte)
    BY DEF TypeOK
  <1>2. FlattenSeq(q) = done \o (rx \o wire)
    BY DEF Place
  <1>3. q # << >>
    <2>1. ASSUME q = << >>
          PROVE  FALSE
      <3>1. FlattenSeq(q) = << >>
        BY <2>1 DEF FlattenSeq
      <3>2. Len(done \o (rx \o wire)) = Len(done) + (Len(rx) + Len(wire))
        BY <1>1
      <3>3. Len(done) = 0 /\ Len(rx) = 0
        BY <1>1, <1>2, <3>1, <3>2
      <3>4. QED
        BY <1>1, <3>3
    <2>2. QED
      BY <2>1
  <1>4. 1 \in 1 .. Len(q) /\ Tail(q) \in Seq(Seq(Byte)) /\ q[1] = Head(q) /\ q[1] \in Seq(Byte)
    BY <1>3
  <1>5. IsReport(q[1]) /\ Len(done) <= Len(q[1])
    BY <1>3, <1>4 DEF Place
  <1> DEFINE f == q[1]
             t == FlattenSeq(Tail(q))
             s == rx \o wire
  <1>6. FlattenSeq(q) = f \o t
    BY <1>3, <1>4, FlattenHead
  <1>7. f \in Seq(Byte) /\ t \in Seq(Byte) /\ s \in Seq(Byte)
    <2>1. f \in Seq(Byte) /\ s \in Seq(Byte)
      BY <1>1, <1>4
    <2>2. t \in Seq(Byte)
      BY <1>4, FlattenIsSeq
    <2>3. QED
      BY <2>1, <2>2
  <1>8. Len(done) <= Len(f)
    BY <1>5
  <1>9. f \o t = done \o s
    BY <1>2, <1>6
  <1>10. rx # << >> => s # << >> /\ s[1] = Head(rx)
    BY <1>1
  <1> HIDE DEF f, t, s
  <1>11. \A i \in 1 .. Len(f) : (f \o t)[i] = f[i]
    BY <1>7
  <1>12. /\ \A i \in 1 .. Len(done) : (done \o s)[i] = done[i]
         /\ s # << >> => (done \o s)[Len(done) + 1] = s[1]
    BY <1>7
  <1>13. \A i \in 1 .. Len(done) : i \in 1 .. Len(f)
    BY <1>7, <1>8
  <1>14. \A i \in 1 .. Len(done) : done[i] = f[i]
    BY <1>9, <1>11, <1>12, <1>13
  <1>15. ASSUME rx # << >>, Len(done) < Len(f)
         PROVE  Head(rx) = f[Len(done) + 1]
    <2>1. Len(done) + 1 \in 1 .. Len(f)
      BY <1>7, <1>15
    <2>2. QED
      BY <1>9, <1>10, <1>11, <1>12, <1>15, <2>1
  <1>16. QED
    BY <1>3, <1>4, <1>5, <1>7, <1>9, <1>14, <1>15 DEF f, t, s

\* Silence in step is silence between reports.
LEMMA QuietPlace ==
  ASSUME TypeOK, NEW q \in Seq(Seq(Byte)), NEW done \in Seq(Byte), Place(q, done), Quiet
  PROVE  q = << >> /\ getHeader = 0
  <1>1. rx = << >> /\ wire = << >> /\ pc = "idle"
    BY DEF Quiet
  <1>2. FlattenSeq(q) = done
    <2>1. FlattenSeq(q) = done \o (rx \o wire)
      BY DEF Place
    <2>2. rx \o wire = << >> /\ done \o << >> = done
      BY <1>1, ConcatEmptySeq
    <2>3. QED
      BY <2>1, <2>2
  <1>3. Len(done) = getHeader /\ getHeader \in 0 .. 3
    BY <1>1 DEF Place, TypeOK
  <1>4. ASSUME q # << >>
        PROVE  FALSE
    <2> DEFINE f == q[1]
               t == FlattenSeq(Tail(q))
    <2>1. /\ 1 \in 1 .. Len(q) /\ f \in Seq(Byte) /\ f = Head(q)
          /\ Tail(q) \in Seq(Seq(Byte))
      BY <1>4
    <2>2. IsReport(f)
      BY <2>1 DEF Place
    <2>3. t \in Seq(Byte)
      BY <2>1, FlattenIsSeq
    <2>4. done = f \o t
      BY <1>2, <1>4, <2>1, FlattenHead
    <2>5. f \in Seq(Byte)
      BY <2>1
    <2> HIDE DEF f, t
    <2>6. Len(f \o t) = Len(f) + Len(t) /\ Len(t) \in Nat /\ Len(f) \in Nat
      BY <2>3, <2>5
    <2>7. \A n \in {4, 6, 7}, k \in Nat, m \in 0 .. 3 : n + k # m
      OBVIOUS
    <2>8. Len(f) \in {4, 6, 7}
      BY <2>2 DEF IsReport
    <2>9. QED
      BY <1>3, <2>4, <2>6, <2>7, <2>8
  <1>5. q = << >>
    BY <1>4
  <1>6. done = << >>
    BY <1>2, <1>5 DEF FlattenSeq
  <1>7. QED
    BY <1>3, <1>5, <1>6

\* Serial1.read() in step: the byte is the next of the first report.
LEMMA ReadInPlace ==
  ASSUME TypeOK, NEW q \in Seq(Seq(Byte)), NEW done \in Seq(Byte), Place(q, done),
         FirstHeader \/ SecondHeader \/ Length
  PROVE  \E more \in Seq(Byte) : Place(q, more)'
  <1>1. /\ pc = "idle" /\ getHeader \in 0 .. 2 /\ rx # << >> /\ rx' = Tail(rx)
        /\ wire' = wire /\ pc' = pc /\ buf' = buf
    BY DEF FirstHeader, SecondHeader, Length, ReadIn, Outside
  <1>2. Len(done) = getHeader
    BY <1>1 DEF Place
  <1>3. q # << >> /\ IsReport(q[1])
    BY <1>1, FirstReport
  <1>4. Len(done) < Len(q[1]) /\ Len(q[1]) >= 4
    BY <1>1, <1>2, <1>3, SMTT(30) DEF IsReport
  <1>5. Head(rx) = q[1][Len(done) + 1]
    BY <1>1, <1>4, FirstReport
  <1>6. rx \in Seq(Byte) /\ wire \in Seq(Byte)
    BY DEF TypeOK
  <1>7. PICK more \in Seq(Byte) :
          more = Append(done, Head(rx)) /\ FlattenSeq(q) = more \o (rx' \o wire')
    <2>1. FlattenSeq(q) = done \o (rx \o wire)
      BY DEF Place
    <2>2. rx # << >>
      BY <1>1
    <2>3. /\ Append(done, Head(rx)) \in Seq(Byte)
          /\ FlattenSeq(q) = Append(done, Head(rx)) \o (Tail(rx) \o wire)
      <3> DEFINE all == FlattenSeq(q)
      <3>1. all = done \o (rx \o wire) /\ rx \in Seq(Byte) /\ wire \in Seq(Byte)
        BY <1>6, <2>1
      <3> HIDE DEF all
      <3>2. all = Append(done, Head(rx)) \o (Tail(rx) \o wire)
        BY <2>2, <3>1, ByteTaken, SMTT(60)
      <3>3. Append(done, Head(rx)) \in Seq(Byte)
        BY <2>2, <3>1, ByteTaken, SMTT(60)
      <3>4. QED
        BY <3>2, <3>3 DEF all
    <2>4. QED
      BY <1>1, <2>3
  <1>8. /\ Len(more) = Len(done) + 1 /\ Len(more) <= Len(q[1])
        /\ more[Len(done) + 1] = q[1][Len(done) + 1]
    <2>1. Len(more) = Len(done) + 1
      BY <1>7
    <2>2. more[Len(done) + 1] = Head(rx)
      BY <1>7
    <2>3. Len(q[1]) \in Nat
      BY <1>3 DEF IsReport
    <2>4. QED
      BY <1>4, <1>5, <2>1, <2>2, <2>3
  <1>9. getHeader' = Len(done) + 1 /\ (getHeader' = 3 => len' = more[3])
    <2>1. CASE FirstHeader
      <3>1. getHeader = 0 /\ Head(rx) = FRAME_HEADER
        BY <1>2, <1>3, <1>5, <2>1 DEF FirstHeader, ReadIn, IsReport
      <3>2. QED
        BY <1>2, <2>1, <3>1 DEF FirstHeader
    <2>2. CASE SecondHeader
      <3>1. getHeader = 1 /\ Head(rx) = FRAME_HEADER
        BY <1>2, <1>3, <1>5, <2>2 DEF SecondHeader, ReadIn, IsReport
      <3>2. QED
        BY <1>2, <2>2, <3>1 DEF SecondHeader
    <2>3. CASE Length
      <3>1. getHeader = 2 /\ len' = Head(rx) /\ getHeader' = 3
        BY <2>3 DEF Length, ReadIn
      <3>2. QED
        BY <1>2, <1>5, <1>8, <3>1
    <2>4. QED
      BY <2>1, <2>2, <2>3
  <1>10. \A i \in 1 .. Len(q) : IsReport(q[i])
    BY DEF Place
  <1>11. Place(q, more)'
    BY <1>1, <1>7, <1>8, <1>9, <1>10 DEF Place
  <1>12. QED
    BY <1>7, <1>11

\* readBytes in step: it stops at the end of the report, long before the end
\* of its buffer.
LEMMA ReadByteInPlace ==
  ASSUME TypeOK, NEW q \in Seq(Seq(Byte)), NEW done \in Seq(Byte), Place(q, done), ReadByte
  PROVE  \E more \in Seq(Byte) : Place(q, more)'
  <1>1. /\ pc = "reading" /\ MoreWanted /\ rx # << >> /\ rx' = Tail(rx) /\ wire' = wire
        /\ getHeader' = getHeader /\ len' = len
    BY DEF ReadByte, Outside
  <1>2. /\ getHeader = 3 /\ Len(done) = Len(buf) + 3 /\ len = done[3]
        /\ \A i \in 1 .. Len(buf) : buf[i] = done[i + 3]
    BY <1>1 DEF Place
  <1>3. rx \in Seq(Byte) /\ wire \in Seq(Byte) /\ buf \in Seq(Byte) /\ Head(rx) \in Byte
    BY <1>1 DEF TypeOK
  <1>4. IsReport(q[1]) /\ len = q[1][3]
    <2>1. rx # << >>
      BY <1>1
    <2>2. IsReport(q[1]) /\ \A i \in 1 .. Len(done) : done[i] = q[1][i]
      BY <2>1, FirstReport
    <2>3. 3 \in 1 .. Len(done)
      BY <1>2, <1>3
    <2>4. QED
      BY <1>2, <2>2, <2>3
  <1>5. Len(q[1]) \in {4, 6, 7} /\ len = Len(q[1]) - 2
    BY <1>4 DEF IsReport
  <1>6. Len(buf) < len - 1
    <2>1. len \in {2, 4, 5}
      BY <1>5
    <2>2. MoreWanted
      BY <1>1
    <2>3. QED
      BY <2>1, <2>2 DEF MoreWanted
  <1>7. Len(done) < Len(q[1]) /\ Len(buf) < BufSize
    <2> DEFINE n == Len(q[1])
               k == Len(buf)
    <2>1. n \in {4, 6, 7} /\ len = n - 2 /\ k < len - 1 /\ k \in Nat /\ Len(done) = k + 3
      BY <1>2, <1>3, <1>5, <1>6
    <2> HIDE DEF n, k
    <2>2. Len(done) < n /\ k < BufSize
      BY <2>1, SizesAssumption
    <2>3. QED
      BY <2>2 DEF n, k
  <1>8. buf' = Append(buf, Head(rx)) /\ pc' = pc
    BY <1>7 DEF ReadByte
  <1>9. PICK more \in Seq(Byte) :
          more = Append(done, Head(rx)) /\ FlattenSeq(q) = more \o (rx' \o wire')
    <2>1. FlattenSeq(q) = done \o (rx \o wire)
      BY DEF Place
    <2>2. rx # << >>
      BY <1>1
    <2> DEFINE all == FlattenSeq(q)
    <2>3. all = done \o (rx \o wire) /\ rx \in Seq(Byte) /\ wire \in Seq(Byte)
      BY <1>3, <2>1
    <2> HIDE DEF all
    <2>4. all = Append(done, Head(rx)) \o (Tail(rx) \o wire)
      BY <2>2, <2>3, ByteTaken, SMTT(60)
    <2>5. Append(done, Head(rx)) \in Seq(Byte)
      BY <1>3
    <2>6. QED
      BY <1>1, <2>4, <2>5 DEF all
  <1>10. /\ Len(more) = Len(done) + 1 /\ Len(buf') = Len(buf) + 1
         /\ \A i \in 1 .. Len(done) : more[i] = done[i]
    BY <1>3, <1>8, <1>9
  <1>11. Len(more) <= Len(q[1]) /\ Len(more) = Len(buf') + 3 /\ more[3] = done[3]
    <2>1. Len(buf) \in Nat /\ Len(done) = Len(buf) + 3 /\ 3 \in 1 .. Len(done)
      BY <1>2, <1>3
    <2>2. Len(q[1]) \in Nat
      BY <1>5
    <2>3. Len(more) <= Len(q[1])
      BY <1>7, <1>10, <2>1, <2>2
    <2>4. Len(more) = Len(buf') + 3
      BY <1>10, <2>1
    <2>5. more[3] = done[3]
      BY <1>10, <2>1
    <2>6. QED
      BY <2>3, <2>4, <2>5
  <1>12. ASSUME NEW i \in 1 .. Len(buf')
         PROVE  buf'[i] = more[i + 3]
    <2>1. CASE i = Len(buf) + 1
      BY <1>2, <1>3, <1>8, <1>9, <2>1
    <2>2. CASE i # Len(buf) + 1
      <3>1. i \in 1 .. Len(buf) /\ i + 3 \in 1 .. Len(done)
        BY <1>2, <1>3, <1>10, <2>2
      <3>2. buf'[i] = buf[i] /\ more[i + 3] = done[i + 3]
        BY <1>3, <1>8, <1>10, <3>1
      <3>3. QED
        BY <1>2, <3>1, <3>2
    <2>3. QED
      BY <2>1, <2>2
  <1>13. \A i \in 1 .. Len(q) : IsReport(q[i])
    BY DEF Place
  <1>14. Place(q, more)'
    BY <1>1, <1>2, <1>8, <1>9, <1>11, <1>12, <1>13 DEF Place
  <1>15. QED
    BY <1>14

\* A byte that finds room in the ring.
LEMMA ArriveInPlace ==
  ASSUME TypeOK, NEW q \in Seq(Seq(Byte)), NEW done \in Seq(Byte), Place(q, done),
         Arrive, Len(rx) < RingSize
  PROVE  Place(q, done)'
  <1>1. /\ wire # << >> /\ wire' = Tail(wire) /\ rx' = Append(rx, Head(wire))
        /\ pc' = pc /\ buf' = buf /\ getHeader' = getHeader /\ len' = len
    BY DEF Arrive, receiver
  <1>2. rx \in Seq(Byte) /\ wire \in Seq(Byte)
    BY DEF TypeOK
  <1>3. rx' \o wire' = rx \o wire
    BY <1>1, <1>2, ByteArrives
  <1>4. QED
    BY <1>1, <1>3 DEF Place

\* A report more.
LEMMA ReportInPlace ==
  ASSUME TypeOK, NEW q \in Seq(Seq(Byte)), NEW done \in Seq(Byte), Place(q, done),
         NEW f, BoardSays(f), UNCHANGED <<rx, receiver>>
  PROVE  Append(q, f) \in Seq(Seq(Byte)) /\ Place(Append(q, f), done)'
  <1>1. f \in Seq(Byte) /\ IsReport(f) /\ wire' = wire \o f
    BY DEF BoardSays, IsReport, Report
  <1>2. rx \in Seq(Byte) /\ wire \in Seq(Byte)
    BY DEF TypeOK
  <1>3. PICK more \in Seq(Seq(Byte)) : more = Append(q, f)
    <2>1. f \in Seq(Byte)
      BY <1>1
    <2>2. Append(q, f) \in Seq(Seq(Byte))
      BY <2>1
    <2>3. QED
      BY <2>2
  <1>4. /\ Len(more) = Len(q) + 1 /\ more[Len(q) + 1] = f
        /\ \A i \in 1 .. Len(q) : more[i] = q[i]
    BY <1>1, <1>3
  <1>5. ASSUME NEW i \in 1 .. Len(more)
        PROVE  IsReport(more[i])
    <2>1. CASE i = Len(q) + 1
      BY <1>1, <1>4, <2>1
    <2>2. CASE i # Len(q) + 1
      <3>1. i \in 1 .. Len(q)
        BY <1>4, <2>2
      <3>2. QED
        BY <1>4, <3>1 DEF Place
    <2>3. QED
      BY <2>1, <2>2
  <1>6. FlattenSeq(more) = done \o (rx' \o wire')
    <2>1. FlattenSeq(more) = FlattenSeq(q) \o f
      BY <1>1, <1>3, FlattenAppend
    <2>2. FlattenSeq(q) = done \o (rx \o wire)
      BY DEF Place
    <2>3. (done \o (rx \o wire)) \o f = done \o (rx \o (wire \o f))
      <3>1. /\ done \in Seq(Byte) /\ rx \in Seq(Byte) /\ wire \in Seq(Byte) /\ f \in Seq(Byte)
            /\ rx \o wire \in Seq(Byte)
        BY <1>1, <1>2
      <3>2. (done \o (rx \o wire)) \o f = done \o ((rx \o wire) \o f)
        BY <3>1, BytesAssociate, ZenonT(90)
      <3>3. (rx \o wire) \o f = rx \o (wire \o f)
        BY <3>1, BytesAssociate, ZenonT(90)
      <3>4. QED
        BY <3>2, <3>3, Zenon
    <2>4. QED
      BY <1>1, <2>1, <2>2, <2>3 DEF receiver
  <1>7. Len(done) <= Len(more[1])
    <2>1. CASE q = << >>
      <3>1. FlattenSeq(q) = << >>
        BY <2>1 DEF FlattenSeq
      <3>2. Len(done \o (rx \o wire)) = Len(done) + (Len(rx) + Len(wire))
        BY <1>2
      <3>3. Len(done) = 0
        BY <1>2, <3>1, <3>2 DEF Place
      <3>4. more[1] = f /\ Len(f) \in Nat
        BY <1>1, <1>4, <2>1
      <3>5. QED
        BY <3>3, <3>4
    <2>2. CASE q # << >>
      <3>1. more[1] = q[1]
        BY <1>4, <2>2
      <3>2. QED
        BY <2>2, <3>1 DEF Place
    <2>3. QED
      BY <2>1, <2>2
  <1>8. Place(more, done)'
    BY <1>5, <1>6, <1>7 DEF Place, receiver
  <1>9. QED
    BY <1>3, <1>8

\* The end of the first report: everything of it has been read, whether the
\* read is complete or the line is silent.
LEMMA EndReadInPlace ==
  ASSUME TypeOK, NEW q \in Seq(Seq(Byte)), NEW done \in Seq(Byte), Place(q, done), EndRead
  PROVE  /\ q # << >> /\ IsReport(q[1]) /\ WholeRead(q[1])
         /\ Tail(q) \in Seq(Seq(Byte)) /\ Place(Tail(q), << >>)'
  <1>1. /\ pc = "reading" /\ ReadOver /\ getHeader' = 0 /\ len' = 0 /\ pc' = "idle" /\ buf' = << >>
        /\ rx' = rx /\ wire' = wire
    BY DEF EndRead, Outside
  <1>2. /\ getHeader = 3 /\ Len(done) = Len(buf) + 3 /\ len = done[3]
        /\ \A i \in 1 .. Len(buf) : buf[i] = done[i + 3]
    BY <1>1 DEF Place
  <1>3. rx \in Seq(Byte) /\ wire \in Seq(Byte) /\ buf \in Seq(Byte)
    BY DEF TypeOK
  <1>4. done # << >> /\ 3 \in 1 .. Len(done)
    BY <1>2, <1>3
  <1> DEFINE f == q[1]
             t == FlattenSeq(Tail(q))
             s == rx \o wire
  <1>5. /\ q # << >> /\ IsReport(f) /\ Tail(q) \in Seq(Seq(Byte)) /\ t \in Seq(Byte)
        /\ f \o t = done \o s /\ Len(done) <= Len(f)
        /\ \A i \in 1 .. Len(done) : done[i] = f[i]
    BY <1>4, FirstReport
  <1>6. f \in Seq(Byte) /\ Len(f) \in {4, 6, 7} /\ len = Len(f) - 2
    BY <1>2, <1>4, <1>5 DEF IsReport
  <1>7. s \in Seq(Byte) /\ (rx = << >> /\ wire = << >> => s = << >>)
    BY <1>3
  <1> HIDE DEF f, t, s
  <1>8. Len(done) = Len(f)
    <2>1. CASE ~ MoreWanted
      <3>1. Len(buf) >= len - 1
        BY <1>3, <1>6, <2>1 DEF MoreWanted
      <3>2. QED
        BY <1>2, <1>3, <1>5, <1>6, <3>1
    <2>2. CASE s = << >>
      <3>1. Len(f \o t) = Len(f) + Len(t) /\ Len(done \o s) = Len(done)
        BY <1>5, <1>6, <2>2
      <3>2. QED
        BY <1>5, <1>6, <3>1
    <2>3. QED
      BY <1>1, <1>7, <2>1, <2>2 DEF ReadOver
  <1>9. t = s
    <2>1. Len(f \o t) = Len(f) + Len(t) /\ Len(done \o s) = Len(done) + Len(s)
      BY <1>5, <1>6, <1>7
    <2>2. Len(t) = Len(s)
      BY <1>5, <1>6, <1>7, <1>8, <2>1
    <2>3. ASSUME NEW i \in 1 .. Len(t)
          PROVE  t[i] = s[i]
      <3>1. (f \o t)[Len(f) + i] = t[i]
        <4>1. f \in Seq(Byte) /\ t \in Seq(Byte)
          BY <1>5, <1>6
        <4>2. QED
          BY <4>1
      <3>2. (done \o s)[Len(done) + i] = s[i]
        BY <1>7, <2>2
      <3>3. QED
        BY <1>5, <1>8, <3>1, <3>2
    <2>4. QED
      BY <1>5, <1>7, <2>2, <2>3, SeqEqual
  <1>10. ASSUME NEW i \in 1 .. Len(buf)
         PROVE  buf[i] = f[i + 3]
    <2>1. i + 3 \in 1 .. Len(done)
      BY <1>2, <1>3
    <2>2. QED
      BY <1>2, <1>5, <2>1
  <1>11. PICK rest \in Seq(Seq(Byte)) : rest = Tail(q)
    BY <1>5
  <1>12. Len(rest) = Len(q) - 1 /\ \A i \in 1 .. Len(rest) : i + 1 \in 1 .. Len(q) /\ rest[i] = q[i + 1]
    BY <1>5, <1>11
  <1>13. \A i \in 1 .. Len(rest) : IsReport(rest[i])
    BY <1>12 DEF Place
  <1>14. FlattenSeq(rest) = << >> \o (rx' \o wire')
    <2>1. FlattenSeq(rest) = rx' \o wire'
      BY <1>1, <1>9, <1>11 DEF s, t
    <2>2. rx' \o wire' \in Seq(Byte)
      BY <1>1, <1>3
    <2>3. QED
      BY <2>1, <2>2, ConcatEmptySeq
  <1>15. rest # << >> => Len(<< >>) <= Len(rest[1])
    <2>1. rest # << >> => 1 \in 1 .. Len(rest)
      OBVIOUS
    <2>2. QED
      BY <1>13, <2>1 DEF IsReport
  <1>16. Place(rest, << >>)'
    BY <1>1, <1>13, <1>14, <1>15 DEF Place
  <1>17. Len(buf) = Len(f) - 3
    BY <1>2, <1>3, <1>6, <1>8
  <1>18. QED
    BY <1>5, <1>10, <1>11, <1>16, <1>17 DEF f, WholeRead

-----------------------------------------------------------------------------
(* What the sketch knows. *)

\* Decoding a whole report of the board tells the sketch what it says and
\* leaves the fields of the other kind alone.
LEMMA DecodeReport ==
  ASSUME TypeOK, NEW f, IsReport(f), WholeRead(f), Decode, board' = board
  PROVE  /\ Tells(f, board) => Shown(KindOf(f))'
         /\ \A kind \in {"group", "volts"} : kind # KindOf(f) /\ Shown(kind) => Shown(kind)'
  <1>1. /\ Len(buf) \in {1, 3, 4}
        /\ f[4] = BATTERY_VOLTAGE => Len(buf) = 3
        /\ f[4] = ACTION_GROUP_RUNNING => Len(buf) = 4
    BY DEF IsReport, WholeRead
  <1>2. buf[1] = f[4]
    <2>1. 1 \in 1 .. Len(buf) /\ 1 + 3 = 4
      BY <1>1
    <2>2. QED
      BY <2>1 DEF WholeRead
  <1>3. CASE f[4] = BATTERY_VOLTAGE
    <2>1. Len(buf) = 3
      BY <1>1, <1>3
    <2>2. buf[2] = f[5] /\ buf[3] = f[6] /\ Seen(2) = {buf[2]} /\ Seen(3) = {buf[3]}
      <3>1. 2 \in 1 .. Len(buf) /\ 3 \in 1 .. Len(buf) /\ 2 + 3 = 5 /\ 3 + 3 = 6
        BY <2>1
      <3>2. buf[2] = f[5] /\ buf[3] = f[6]
        BY <3>1 DEF WholeRead
      <3>3. Seen(2) = {buf[2]} /\ Seen(3) = {buf[3]}
        BY <2>1 DEF Seen
      <3>4. QED
        BY <3>2, <3>3
    <2>3. /\ batteryVoltage' = BYTE_TO_HW(f[6], f[5])
          /\ UNCHANGED <<numOfActinGroupRunning, actionGroupRunTimes, isRunning>>
      BY <1>2, <1>3, <2>2
         DEF Decode, BATTERY_VOLTAGE, ACTION_GROUP_RUNNING, ACTION_GROUP_STOPPED, ACTION_GROUP_COMPLETE
    <2>4. KindOf(f) = "volts"
      BY <1>3 DEF KindOf
    <2>5. QED
      BY <1>3, <2>3, <2>4 DEF Tells, Shown, GroupShown
  <1>4. CASE f[4] = ACTION_GROUP_RUNNING
    <2>1. Len(buf) = 4
      BY <1>1, <1>4
    <2>2. /\ buf[2] = f[5] /\ buf[3] = f[6] /\ buf[4] = f[7]
          /\ Seen(2) = {buf[2]} /\ Seen(3) = {buf[3]} /\ Seen(4) = {buf[4]}
      <3>1. /\ 2 \in 1 .. Len(buf) /\ 3 \in 1 .. Len(buf) /\ 4 \in 1 .. Len(buf)
            /\ 2 + 3 = 5 /\ 3 + 3 = 6 /\ 4 + 3 = 7
        BY <2>1
      <3>2. buf[2] = f[5] /\ buf[3] = f[6] /\ buf[4] = f[7]
        BY <3>1 DEF WholeRead
      <3>3. Seen(2) = {buf[2]} /\ Seen(3) = {buf[3]} /\ Seen(4) = {buf[4]}
        BY <2>1 DEF Seen
      <3>4. QED
        BY <3>2, <3>3
    <2>3. /\ numOfActinGroupRunning' = f[5] /\ actionGroupRunTimes' = BYTE_TO_HW(f[7], f[6])
          /\ isRunning' = TRUE /\ batteryVoltage' = batteryVoltage
      BY <1>2, <1>4, <2>2
         DEF Decode, BATTERY_VOLTAGE, ACTION_GROUP_RUNNING, ACTION_GROUP_STOPPED, ACTION_GROUP_COMPLETE
    <2>4. KindOf(f) = "group"
      BY <1>4 DEF KindOf, BATTERY_VOLTAGE, ACTION_GROUP_RUNNING
    <2>5. Tells(f, board) =>
            board.group # AllGroups /\ board.group = f[5] /\ board.times = BYTE_TO_HW(f[7], f[6])
      BY <1>4 DEF Tells
    <2>6. QED
      BY <2>3, <2>4, <2>5 DEF Shown, GroupShown
  <1>5. CASE f[4] \in {ACTION_GROUP_STOPPED, ACTION_GROUP_COMPLETE}
    <2>1. /\ isRunning' = FALSE /\ numOfActinGroupRunning' = AllGroups
          /\ actionGroupRunTimes' = 0 /\ batteryVoltage' = batteryVoltage
      BY <1>2, <1>5
         DEF Decode, Stop, BATTERY_VOLTAGE, ACTION_GROUP_RUNNING, ACTION_GROUP_STOPPED, ACTION_GROUP_COMPLETE
    <2>2. KindOf(f) = "group"
      BY <1>5 DEF KindOf, BATTERY_VOLTAGE, ACTION_GROUP_STOPPED, ACTION_GROUP_COMPLETE
    <2>3. Tells(f, board) => board.group = AllGroups /\ board.times = 0
      BY <1>5 DEF Tells
    <2>4. QED
      BY <2>1, <2>2, <2>3 DEF Shown, GroupShown
  <1>6. QED
    BY <1>3, <1>4, <1>5 DEF IsReport

\* The first report is decoded: what is left tells the rest.
LEMMA DecodeTold ==
  ASSUME TypeOK, NEW q \in Seq(Seq(Byte)), NEW done \in Seq(Byte), Place(q, done), Told(q), EndRead
  PROVE  Told(Tail(q))'
  <1> DEFINE f == q[1]
  <1>1. /\ q # << >> /\ IsReport(f) /\ WholeRead(f)
        /\ Tail(q) \in Seq(Seq(Byte))
    BY EndReadInPlace
  <1>2. buf # << >>
    <2>1. IsReport(f) /\ WholeRead(f)
      BY <1>1
    <2>2. Len(buf) # 0
      BY <2>1, SMTT(30) DEF IsReport, WholeRead
    <2>3. buf \in Seq(Byte)
      BY DEF TypeOK
    <2>4. QED
      BY <2>2, <2>3
  <1>3. Decode /\ board' = board /\ fresh' = fresh
    BY <1>2 DEF EndRead, Outside
  <1>4. /\ Tells(f, board) => Shown(KindOf(f))'
        /\ \A kind \in {"group", "volts"} : kind # KindOf(f) /\ Shown(kind) => Shown(kind)'
    BY <1>1, <1>3, DecodeReport
  <1>5. PICK rest \in Seq(Seq(Byte)) : rest = Tail(q)
    BY <1>1
  <1>6. /\ Len(q) \in Nat /\ Len(q) >= 1 /\ Len(rest) = Len(q) - 1
        /\ \A i \in 1 .. Len(rest) : i + 1 \in 1 .. Len(q) /\ rest[i] = q[i + 1]
    BY <1>1, <1>5
  <1>7. ASSUME NEW kind \in {"group", "volts"}, NEW j \in 1 .. Len(rest), KindOf(rest[j]) = kind,
               \A i \in j + 1 .. Len(rest) : KindOf(rest[i]) # kind
        PROVE  Tells(rest[j], board')
    <2>1. j + 1 \in 1 .. Len(q) /\ KindOf(q[j + 1]) = kind /\ rest[j] = q[j + 1]
      BY <1>6, <1>7
    <2>2. ASSUME NEW i \in (j + 1) + 1 .. Len(q)
          PROVE  KindOf(q[i]) # kind
      <3>1. i - 1 \in j + 1 .. Len(rest) /\ i - 1 \in 1 .. Len(rest) /\ (i - 1) + 1 = i
        BY <1>6
      <3>2. QED
        BY <1>6, <1>7, <3>1
    <2>3. QED
      BY <1>3, <2>1, <2>2 DEF Told
  <1>8. ASSUME NEW kind \in {"group", "volts"}, kind \in fresh',
               \A i \in 1 .. Len(rest) : KindOf(rest[i]) # kind
        PROVE  Shown(kind)'
    <2>1. ASSUME NEW i \in 1 + 1 .. Len(q)
          PROVE  KindOf(q[i]) # kind
      <3>1. i - 1 \in 1 .. Len(rest) /\ (i - 1) + 1 = i
        BY <1>6
      <3>2. QED
        BY <1>6, <1>8, <3>1
    <2>2. 1 \in 1 .. Len(q)
      BY <1>6
    <2>3. CASE KindOf(f) = kind
      <3>1. Tells(f, board)
        BY <2>1, <2>2, <2>3 DEF Told
      <3>2. QED
        BY <1>4, <2>3, <3>1
    <2>4. CASE KindOf(f) # kind
      <3>1. \A i \in 1 .. Len(q) : i = 1 \/ i \in 1 + 1 .. Len(q)
        BY <1>6
      <3>2. \A i \in 1 .. Len(q) : KindOf(q[i]) # kind
        BY <2>1, <2>4, <3>1
      <3>3. Shown(kind)
        BY <1>3, <1>8, <3>2 DEF Told
      <3>4. QED
        BY <1>4, <2>4, <3>3
    <2>5. QED
      BY <2>3, <2>4
  <1>9. Told(rest)'
    BY <1>7, <1>8 DEF Told
  <1>10. QED
    BY <1>5, <1>9

\* A report of the other kind does not make a report untrue.
LEMMA StillTrue ==
  ASSUME NEW f, BoardSays(f), NEW g, IsReport(g), KindOf(g) # KindOf(f), Tells(g, board)
  PROVE  Tells(g, board')
  <1>1. CASE KindOf(f) = "volts"
    <2>1. board'.group = board.group /\ board'.times = board.times
      BY <1>1 DEF BoardSays
    <2>2. g[4] # BATTERY_VOLTAGE
      BY <1>1 DEF KindOf
    <2>3. QED
      BY <2>1, <2>2 DEF Tells
  <1>2. CASE KindOf(f) = "group"
    <2>1. board'.volts = board.volts
      BY <1>2 DEF BoardSays
    <2>2. g[4] = BATTERY_VOLTAGE
      BY <1>2 DEF KindOf
    <2>3. Tells(g, board')
      BY <2>1, <2>2
         DEF Tells, BATTERY_VOLTAGE, ACTION_GROUP_RUNNING, ACTION_GROUP_STOPPED, ACTION_GROUP_COMPLETE
    <2>4. QED
      BY <2>3
  <1>3. QED
    BY <1>1, <1>2 DEF KindOf

\* A report more: it is the last of its kind.
LEMMA ReportTold ==
  ASSUME NEW q \in Seq(Seq(Byte)), \A i \in 1 .. Len(q) : IsReport(q[i]), Told(q),
         NEW f, BoardSays(f), fresh' \subseteq fresh \cup {KindOf(f)}, UNCHANGED receiver
  PROVE  Told(Append(q, f))'
  <1>1. f \in Seq(Byte) /\ Tells(f, board') /\ KindOf(f) \in {"group", "volts"}
    BY DEF BoardSays, IsReport, KindOf
  <1>2. PICK more \in Seq(Seq(Byte)) : more = Append(q, f)
    <2>1. f \in Seq(Byte)
      BY <1>1
    <2>2. Append(q, f) \in Seq(Seq(Byte))
      BY <2>1
    <2>3. QED
      BY <2>2
  <1>3. /\ Len(q) \in Nat /\ Len(more) = Len(q) + 1 /\ more[Len(q) + 1] = f
        /\ \A i \in 1 .. Len(q) : more[i] = q[i]
    <2>1. f \in Seq(Byte)
      BY <1>1
    <2>2. QED
      BY <1>2, <2>1
  <1>4. ASSUME NEW kind \in {"group", "volts"}, NEW j \in 1 .. Len(more), KindOf(more[j]) = kind,
               \A i \in j + 1 .. Len(more) : KindOf(more[i]) # kind
        PROVE  Tells(more[j], board')
    <2>1. CASE j = Len(q) + 1
      BY <1>1, <1>3, <2>1
    <2>2. CASE j # Len(q) + 1
      <3>1. j \in 1 .. Len(q) /\ Len(q) + 1 \in j + 1 .. Len(more)
        BY <1>3, <2>2
      <3>2. KindOf(f) # kind /\ more[j] = q[j]
        BY <1>3, <1>4, <3>1
      <3>3. \A i \in j + 1 .. Len(q) : i \in j + 1 .. Len(more) /\ i \in 1 .. Len(q)
        BY <1>3, <3>1, SMTT(30)
      <3>4. \A i \in j + 1 .. Len(q) : KindOf(q[i]) # kind
        BY <1>3, <1>4, <3>3
      <3>5. KindOf(q[j]) = kind /\ IsReport(q[j])
        BY <1>4, <3>1, <3>2
      <3>6. Tells(q[j], board)
        BY <3>1, <3>4, <3>5 DEF Told
      <3>7. QED
        BY <3>2, <3>5, <3>6, StillTrue
    <2>3. QED
      BY <2>1, <2>2
  <1>5. ASSUME NEW kind \in {"group", "volts"}, kind \in fresh',
               \A i \in 1 .. Len(more) : KindOf(more[i]) # kind
        PROVE  Shown(kind)'
    <2>1. Len(q) + 1 \in 1 .. Len(more) /\ \A i \in 1 .. Len(q) : i \in 1 .. Len(more)
      BY <1>3
    <2>2. KindOf(f) # kind /\ kind \in fresh
      BY <1>3, <1>5, <2>1
    <2>3. \A i \in 1 .. Len(q) : KindOf(q[i]) # kind
      BY <1>3, <1>5, <2>1
    <2>4. Shown(kind)
      BY <2>2, <2>3 DEF Told
    <2>5. CASE kind = "group"
      <3>1. board'.group = board.group /\ board'.times = board.times
        BY <1>1, <2>2, <2>5 DEF BoardSays
      <3>2. QED
        BY <2>4, <2>5, <3>1 DEF Shown, GroupShown, receiver, fields
    <2>6. CASE kind = "volts"
      <3>1. board'.volts = board.volts
        BY <1>1, <2>2, <2>6 DEF BoardSays
      <3>2. QED
        BY <2>4, <2>6, <3>1 DEF Shown, receiver, fields
    <2>7. QED
      BY <2>5, <2>6
  <1>6. Told(more)'
    BY <1>4, <1>5 DEF Told
  <1>7. QED
    BY <1>2, <1>6

\* Nothing else changes what the sketch knows.
LEMMA ToldKept ==
  ASSUME NEW q \in Seq(Seq(Byte)), Told(q), UNCHANGED <<board, fresh, fields>>
  PROVE  Told(q)'
  BY DEF Told, Shown, GroupShown, fields

-----------------------------------------------------------------------------
(* The line to the sketch after a loss. *)

\* A receiver that is out of step has seen as much as done of the plain
\* report f that came out of silence.  No byte of f behind the second is a
\* header byte, so from there on the receiver finds no beginning of a report.
Past(f, done) ==
  /\ IsReport(f) /\ Plain(f)
  /\ f = done \o (rx \o wire)
  /\ Len(buf) <= Len(done)
  /\ pc # "overrun"
  /\ pc = "idle" /\ Len(done) >= 3 => getHeader = 0 \/ (getHeader = 3 /\ Len(done) = 3)

ResyncInv == sync = "resync" => \E f \in Seq(Byte), done \in Seq(Byte) : Past(f, done)

\* readBytes begins with an empty buffer, and a spoilt line has told nothing.
Calm == (pc = "idle" => buf = << >>) /\ (sync # "sync" => fresh = {})

\* Where the next byte of f is.
LEMMA NextOfPast ==
  ASSUME TypeOK, NEW f \in Seq(Byte), NEW done \in Seq(Byte), Past(f, done), rx # << >>
  PROVE  /\ Len(done) + 1 \in 1 .. Len(f) /\ Len(f) <= 7
         /\ Len(done) + 1 >= 3 => Head(rx) # FRAME_HEADER
         /\ \E more \in Seq(Byte) : Len(more) = Len(done) + 1 /\ f = more \o (Tail(rx) \o wire)
  <1>1. rx \in Seq(Byte) /\ wire \in Seq(Byte)
    BY DEF TypeOK
  <1>2. f = done \o (rx \o wire)
    BY DEF Past
  <1>3. Len(done) + 1 \in 1 .. Len(f) /\ Head(rx) = f[Len(done) + 1]
    BY <1>1, <1>2, ByteTaken, SMTT(60)
  <1>4. f = Append(done, Head(rx)) \o (Tail(rx) \o wire)
    BY <1>1, <1>2, ByteTaken, SMTT(60)
  <1>5. Append(done, Head(rx)) \in Seq(Byte) /\ Len(Append(done, Head(rx))) = Len(done) + 1
    BY <1>1
  <1>6. Len(f) <= 7
    <2>1. IsReport(f)
      BY DEF Past
    <2>2. QED
      BY <2>1, ReportLength
  <1>7. ASSUME Len(done) + 1 >= 3
        PROVE  Head(rx) # FRAME_HEADER
    <2>1. Len(done) + 1 \in 3 .. Len(f)
      BY <1>3, <1>7
    <2>2. QED
      BY <1>3, <2>1 DEF Past, Plain
  <1>8. QED
    BY <1>3, <1>4, <1>5, <1>6, <1>7

LEMMA ReadInPast ==
  ASSUME TypeOK, NEW f \in Seq(Byte), NEW done \in Seq(Byte), Past(f, done),
         FirstHeader \/ SecondHeader \/ Length
  PROVE  \E more \in Seq(Byte) : Past(f, more)'
  <1>1. /\ pc = "idle" /\ getHeader \in 0 .. 2 /\ rx # << >> /\ rx' = Tail(rx)
        /\ wire' = wire /\ pc' = pc /\ buf' = buf
    BY DEF FirstHeader, SecondHeader, Length, ReadIn, Outside
  <1>2. rx # << >>
    BY <1>1
  <1>3. PICK more \in Seq(Byte) : Len(more) = Len(done) + 1 /\ f = more \o (Tail(rx) \o wire)
    BY <1>2, NextOfPast
  <1>4. Len(done) + 1 >= 3 => Head(rx) # FRAME_HEADER
    BY <1>2, NextOfPast
  <1>5. Len(done) \in Nat /\ Len(buf) \in Nat /\ Len(buf) <= Len(done)
    BY DEF TypeOK, Past
  <1>6. Len(done) >= 3 => getHeader = 0
    BY <1>1, <1>5 DEF Past
  <1>7. Len(more) >= 3 => getHeader' = 0 \/ (getHeader' = 3 /\ Len(more) = 3)
    <2>1. CASE FirstHeader
      BY <1>3, <1>4, <2>1 DEF FirstHeader
    <2>2. CASE SecondHeader
      BY <1>3, <1>4, <2>2 DEF SecondHeader
    <2>3. CASE Length
      <3>1. getHeader = 2 /\ getHeader' = 3
        BY <2>3 DEF Length, ReadIn
      <3>2. QED
        BY <1>3, <1>5, <1>6, <3>1
    <2>4. QED
      BY <2>1, <2>2, <2>3
  <1>8. Len(buf') <= Len(more)
    BY <1>1, <1>3, <1>5
  <1>9. f = more \o (rx' \o wire') /\ pc' # "overrun"
    BY <1>1, <1>3
  <1>10. Past(f, more)'
    BY <1>7, <1>8, <1>9 DEF Past
  <1>11. QED
    BY <1>10

\* A receiver that is out of step may read the header too, but no more than
\* the report is long.
LEMMA ReadBytePast ==
  ASSUME TypeOK, NEW f \in Seq(Byte), NEW done \in Seq(Byte), Past(f, done), ReadByte
  PROVE  \E more \in Seq(Byte) : Past(f, more)'
  <1>1. pc = "reading" /\ rx # << >> /\ rx' = Tail(rx) /\ wire' = wire
    BY DEF ReadByte, Outside
  <1>2. rx # << >>
    BY <1>1
  <1>3. PICK more \in Seq(Byte) : Len(more) = Len(done) + 1 /\ f = more \o (Tail(rx) \o wire)
    BY <1>2, NextOfPast
  <1>4. Len(done) + 1 \in 1 .. Len(f) /\ Len(f) <= 7
    BY <1>2, NextOfPast
  <1>5. /\ Len(done) \in Nat /\ Len(buf) \in Nat /\ Len(buf) <= Len(done)
        /\ buf \in Seq(Byte) /\ rx \in Seq(Byte) /\ Len(f) \in Nat
    BY DEF TypeOK, Past
  <1>6. Len(buf) < BufSize
    BY <1>4, <1>5, SizesAssumption
  <1>7. buf' = Append(buf, Head(rx)) /\ pc' = pc
    BY <1>6 DEF ReadByte
  <1>8. Len(buf') = Len(buf) + 1
    BY <1>5, <1>7
  <1>9. Len(buf') <= Len(more)
    BY <1>3, <1>5, <1>8
  <1>10. f = more \o (rx' \o wire') /\ pc' = "reading"
    BY <1>1, <1>3, <1>7
  <1>11. Past(f, more)'
    BY <1>9, <1>10 DEF Past
  <1>12. QED
    BY <1>11

\* When the line is silent again the whole report has gone by.
LEMMA QuietPast ==
  ASSUME TypeOK, NEW f \in Seq(Byte), NEW done \in Seq(Byte), Past(f, done), Quiet
  PROVE  getHeader = 0
  <1>1. rx = << >> /\ wire = << >> /\ pc = "idle"
    BY DEF Quiet
  <1>2. f = done
    <2>1. rx \o wire = << >>
      BY <1>1
    <2>2. done \o << >> = done
      BY ConcatEmptySeq
    <2>3. QED
      BY <2>1, <2>2 DEF Past
  <1>3. IsReport(done)
    BY <1>2 DEF Past
  <1>4. \A n \in {4, 6, 7} : n >= 3 /\ n # 3
    OBVIOUS
  <1>5. Len(done) >= 3 /\ Len(done) # 3
    BY <1>3, <1>4, Zenon DEF IsReport
  <1>6. QED
    BY <1>1, <1>5 DEF Past

-----------------------------------------------------------------------------
(* The invariant. *)

LineInv == Calm /\ SyncInv /\ ResyncInv

\* Nothing happens on the line to the sketch.
LEMMA LineKept ==
  ASSUME LineInv, UNCHANGED <<board, wire, rx, receiver, sync, fresh>>
  PROVE  LineInv'
  <1>1. Calm'
    BY DEF LineInv, Calm, receiver
  <1>2. SyncInv'
    <2> SUFFICES ASSUME sync' = "sync"
                 PROVE  \E q \in Seq(Seq(Byte)), done \in Seq(Byte) : Place(q, done)' /\ Told(q)'
      BY DEF SyncInv
    <2>1. PICK q \in Seq(Seq(Byte)), done \in Seq(Byte) : Place(q, done) /\ Told(q)
      BY DEF LineInv, SyncInv
    <2>2. Place(q, done)'
      BY <2>1 DEF Place, receiver
    <2>3. Told(q)'
      BY <2>1, ToldKept DEF receiver
    <2>4. QED
      BY <2>2, <2>3
  <1>3. ResyncInv'
    BY DEF LineInv, ResyncInv, Past, receiver
  <1>4. QED
    BY <1>1, <1>2, <1>3 DEF LineInv

\* A report: in step, out of step, or the first one after a spoilt line.
LEMMA ReportStep ==
  ASSUME TypeOK, LineInv, NEW f, BoardSays(f), UNCHANGED <<rx, receiver>>
  PROVE  LineInv'
  <1>1. f \in Seq(Byte) /\ IsReport(f) /\ KindOf(f) \in {"group", "volts"}
    BY DEF BoardSays, IsReport, KindOf
  <1>2. /\ wire' = wire \o f
        /\ sync' = CASE sync = "sync" -> "sync"
                     [] sync = "resync" /\ Quiet -> "sync"
                     [] sync = "lost" /\ Quiet /\ Plain(f) -> "resync"
                     [] OTHER -> "lost"
        /\ fresh' = IF sync' = "sync" THEN fresh \cup {KindOf(f)} ELSE {}
    BY DEF BoardSays, Report
  <1>3. Calm'
    BY <1>2 DEF LineInv, Calm, receiver
  <1>4. rx \in Seq(Byte) /\ wire \in Seq(Byte)
    BY DEF TypeOK
  <1>5. Quiet => wire' = f /\ rx' = << >> /\ pc' = "idle" /\ buf' = << >>
    BY <1>1, <1>2, <1>4 DEF Quiet, receiver, LineInv, Calm
  <1>6. SyncInv'
    <2> SUFFICES ASSUME sync' = "sync"
                 PROVE  \E q \in Seq(Seq(Byte)), done \in Seq(Byte) : Place(q, done)' /\ Told(q)'
      BY DEF SyncInv
    <2>1. fresh' = fresh \cup {KindOf(f)}
      BY <1>2
    <2>2. CASE sync = "sync"
      <3>1. PICK q \in Seq(Seq(Byte)), done \in Seq(Byte) : Place(q, done) /\ Told(q)
        BY <2>2 DEF LineInv, SyncInv
      <3>2. Append(q, f) \in Seq(Seq(Byte)) /\ Place(Append(q, f), done)'
        BY <3>1, ReportInPlace
      <3>3. \A i \in 1 .. Len(q) : IsReport(q[i])
        BY <3>1 DEF Place
      <3>4. Told(Append(q, f))'
        BY <2>1, <3>1, <3>3, ReportTold
      <3>5. QED
        BY <3>2, <3>4
    <2>3. CASE sync # "sync"
      <3>1. sync = "resync" /\ Quiet
        BY <1>2, <2>3
      <3>2. PICK g \in Seq(Byte), old \in Seq(Byte) : Past(g, old)
        BY <3>1 DEF LineInv, ResyncInv
      <3>3. getHeader' = 0
        BY <3>1, <3>2, QuietPast DEF receiver
      <3>4. fresh' = {KindOf(f)}
        BY <2>1, <2>3 DEF LineInv, Calm
      <3>5. PICK q \in Seq(Seq(Byte)) : q = <<f>>
        <4>1. f \in Seq(Byte)
          BY <1>1
        <4>2. <<f>> \in Seq(Seq(Byte))
          BY <4>1
        <4>3. QED
          BY <4>2
      <3>6. Len(q) = 1 /\ q[1] = f /\ q # << >>
        BY <3>5
      <3>7. FlattenSeq(q) = << >> \o (rx' \o wire')
        <4>1. << >> \in Seq(Seq(Byte)) /\ q = Append(<< >>, f)
          BY <3>5
        <4>2. FlattenSeq(<< >>) = << >>
          BY DEF FlattenSeq
        <4>3. FlattenSeq(q) = << >> \o f
          BY <1>1, <4>1, <4>2, FlattenAppend
        <4>4. rx' \o wire' = f
          BY <1>1, <1>5, <3>1, ConcatEmptySeq
        <4>5. QED
          BY <4>3, <4>4
      <3>8. Len(<< >>) <= Len(f) /\ << >> \in Seq(Byte)
        BY <1>1
      <3>9. Place(q, << >>)'
        BY <1>1, <1>5, <3>1, <3>3, <3>6, <3>7, <3>8 DEF Place
      <3>10. Tells(f, board')
        BY DEF BoardSays
      <3>11. Told(q)'
        BY <3>4, <3>6, <3>10 DEF Told
      <3>12. QED
        BY <3>8, <3>9, <3>11
    <2>4. QED
      BY <2>2, <2>3
  <1>7. ResyncInv'
    <2> SUFFICES ASSUME sync' = "resync"
                 PROVE  \E g \in Seq(Byte), done \in Seq(Byte) : Past(g, done)'
      BY DEF ResyncInv
    <2>1. Quiet /\ Plain(f)
      BY <1>2
    <2>2. f = << >> \o (rx' \o wire')
      <3>1. rx' \o wire' = f
        BY <1>1, <1>5, <2>1, ConcatEmptySeq
      <3>2. QED
        BY <1>1, <3>1, ConcatEmptySeq
    <2>3. << >> \in Seq(Byte) /\ Len(<< >>) = 0
      OBVIOUS
    <2>4. Past(f, << >>)'
      BY <1>1, <1>5, <2>1, <2>2, <2>3 DEF Past
    <2>5. QED
      BY <1>1, <2>3, <2>4
  <1>8. QED
    BY <1>3, <1>6, <1>7 DEF LineInv

\* The driver and the receiver leave the line to the board alone.
LEMMA TxKept ==
  ASSUME TxInv, UNCHANGED <<tx, asked>>
  PROVE  TxInv'
  BY DEF TxInv

LEMMA ArriveStep ==
  ASSUME TypeOK, LineInv, Arrive
  PROVE  TypeOK' /\ LineInv'
  <1>1. rx \in Seq(Byte) /\ wire \in Seq(Byte)
    BY DEF TypeOK
  <1>2. wire # << >> /\ wire' = Tail(wire) /\ UNCHANGED <<tx, asked, board, receiver, calls>>
    BY DEF Arrive
  <1>3. wire' \in Seq(Byte)
    BY <1>1, <1>2
  <1>4. CASE Len(rx) < RingSize
    <2>1. rx' = Append(rx, Head(wire)) /\ UNCHANGED <<sync, fresh>>
      BY <1>4 DEF Arrive
    <2>2. rx' \in Seq(Byte) /\ rx' \o wire' = rx \o wire
      BY <1>1, <1>2, <2>1, ByteArrives
    <2>3. Len(rx') <= RingSize
      BY <1>1, <1>4, <2>1, SizesAssumption
    <2>4. TypeOK'
      BY <1>2, <1>3, <2>1, <2>2, <2>3 DEF TypeOK, receiver, fields
    <2>5. SyncInv'
      <3> SUFFICES ASSUME sync' = "sync"
                   PROVE  \E q \in Seq(Seq(Byte)), done \in Seq(Byte) : Place(q, done)' /\ Told(q)'
        BY DEF SyncInv
      <3>1. PICK q \in Seq(Seq(Byte)), done \in Seq(Byte) : Place(q, done) /\ Told(q)
        BY <2>1 DEF LineInv, SyncInv
      <3>2. Place(q, done)'
        BY <1>4, <3>1, ArriveInPlace
      <3>3. Told(q)'
        BY <1>2, <2>1, <3>1, ToldKept DEF receiver
      <3>4. QED
        BY <3>2, <3>3
    <2>6. ResyncInv'
      BY <1>2, <2>1, <2>2 DEF LineInv, ResyncInv, Past, receiver
    <2>7. Calm'
      BY <1>2, <2>1 DEF LineInv, Calm, receiver
    <2>8. QED
      BY <2>4, <2>5, <2>6, <2>7 DEF LineInv
  <1>5. CASE ~ (Len(rx) < RingSize)
    <2>1. rx' = rx /\ sync' = "lost" /\ fresh' = {}
      BY <1>5 DEF Arrive
    <2>2. TypeOK'
      BY <1>2, <1>3, <2>1 DEF TypeOK, receiver, fields
    <2>3. LineInv'
      BY <1>2, <2>1 DEF LineInv, SyncInv, ResyncInv, Calm, receiver
    <2>4. QED
      BY <2>2, <2>3
  <1>6. QED
    BY <1>4, <1>5

\* Serial1.read(), in step and out of step.
LEMMA ReadStep ==
  ASSUME TypeOK, LineInv, FirstHeader \/ SecondHeader \/ Length
  PROVE  TypeOK' /\ LineInv'
  <1>1. /\ pc = "idle" /\ rx # << >> /\ rx' = Tail(rx)
        /\ UNCHANGED <<pc, buf, fields, tx, asked, board, wire, sync, fresh, calls>>
    BY DEF FirstHeader, SecondHeader, Length, ReadIn, Outside
  <1>2. rx \in Seq(Byte)
    BY DEF TypeOK
  <1>3. Head(rx) \in Byte /\ rx' \in Seq(Byte) /\ Len(rx') = Len(rx) - 1
    BY <1>1, <1>2
  <1>4. Len(rx') <= RingSize
    BY <1>2, <1>3, SizesAssumption DEF TypeOK
  <1>5. getHeader' \in 0 .. 3 /\ len' \in Byte
    BY <1>3 DEF FirstHeader, SecondHeader, Length, TypeOK
  <1>6. TypeOK'
    BY <1>1, <1>3, <1>4, <1>5 DEF TypeOK, fields
  <1>7. SyncInv'
    <2> SUFFICES ASSUME sync' = "sync"
                 PROVE  \E q \in Seq(Seq(Byte)), done \in Seq(Byte) : Place(q, done)' /\ Told(q)'
      BY DEF SyncInv
    <2>1. PICK q \in Seq(Seq(Byte)), done \in Seq(Byte) : Place(q, done) /\ Told(q)
      BY <1>1 DEF LineInv, SyncInv
    <2>2. \E more \in Seq(Byte) : Place(q, more)'
      BY <2>1, ReadInPlace
    <2>3. Told(q)'
      BY <1>1, <2>1, ToldKept
    <2>4. QED
      BY <2>2, <2>3
  <1>8. ResyncInv'
    <2> SUFFICES ASSUME sync' = "resync"
                 PROVE  \E f \in Seq(Byte), done \in Seq(Byte) : Past(f, done)'
      BY DEF ResyncInv
    <2>1. PICK f \in Seq(Byte), done \in Seq(Byte) : Past(f, done)
      BY <1>1 DEF LineInv, ResyncInv
    <2>2. QED
      BY <2>1, ReadInPast
  <1>9. Calm'
    BY <1>1 DEF LineInv, Calm
  <1>10. QED
    BY <1>6, <1>7, <1>8, <1>9 DEF LineInv

LEMMA BeginReadStep ==
  ASSUME TypeOK, LineInv, BeginRead
  PROVE  TypeOK' /\ LineInv'
  <1>1. /\ pc = "idle" /\ getHeader = 3 /\ pc' = "reading"
        /\ UNCHANGED <<rx, buf, getHeader, len, fields, tx, asked, board, wire, sync, fresh, calls>>
    BY DEF BeginRead, Outside
  <1>2. buf = << >>
    BY <1>1 DEF LineInv, Calm
  <1>3. TypeOK'
    BY <1>1 DEF TypeOK, fields
  <1>4. SyncInv'
    <2> SUFFICES ASSUME sync' = "sync"
                 PROVE  \E q \in Seq(Seq(Byte)), done \in Seq(Byte) : Place(q, done)' /\ Told(q)'
      BY DEF SyncInv
    <2>1. PICK q \in Seq(Seq(Byte)), done \in Seq(Byte) : Place(q, done) /\ Told(q)
      BY <1>1 DEF LineInv, SyncInv
    <2>2. Len(buf) = 0 /\ Len(done) = Len(buf) + 3
      BY <1>1, <1>2, <2>1 DEF Place
    <2>3. Place(q, done)'
      BY <1>1, <2>1, <2>2 DEF Place
    <2>4. Told(q)'
      BY <1>1, <2>1, ToldKept
    <2>5. QED
      BY <2>3, <2>4
  <1>5. ResyncInv'
    BY <1>1 DEF LineInv, ResyncInv, Past
  <1>6. Calm'
    BY <1>1 DEF LineInv, Calm
  <1>7. QED
    BY <1>3, <1>4, <1>5, <1>6 DEF LineInv

LEMMA ReadByteStep ==
  ASSUME TypeOK, LineInv, ReadByte
  PROVE  TypeOK' /\ LineInv'
  <1>1. /\ pc = "reading" /\ rx # << >> /\ rx' = Tail(rx)
        /\ UNCHANGED <<getHeader, len, fields, tx, asked, board, wire, sync, fresh, calls>>
    BY DEF ReadByte, Outside
  <1>2. rx \in Seq(Byte) /\ buf \in Seq(Byte)
    BY DEF TypeOK
  <1>3. Head(rx) \in Byte /\ rx' \in Seq(Byte) /\ Len(rx') = Len(rx) - 1
    BY <1>1, <1>2
  <1>4. Len(rx') <= RingSize
    BY <1>2, <1>3, SizesAssumption DEF TypeOK
  <1>5. buf' \in Seq(Byte) /\ Len(buf') <= BufSize /\ pc' \in {"reading", "overrun"}
    <2>1. CASE Len(buf) < BufSize
      <3>1. buf' = Append(buf, Head(rx)) /\ pc' = pc
        BY <2>1 DEF ReadByte
      <3>2. buf' \in Seq(Byte) /\ Len(buf') = Len(buf) + 1
        BY <1>2, <1>3, <3>1
      <3>3. QED
        BY <1>1, <1>2, <2>1, <3>1, <3>2, SizesAssumption
    <2>2. CASE ~ (Len(buf) < BufSize)
      BY <1>2, <2>2 DEF ReadByte, TypeOK
    <2>3. QED
      BY <2>1, <2>2
  <1>6. TypeOK'
    BY <1>1, <1>3, <1>4, <1>5 DEF TypeOK, fields
  <1>7. SyncInv'
    <2> SUFFICES ASSUME sync' = "sync"
                 PROVE  \E q \in Seq(Seq(Byte)), done \in Seq(Byte) : Place(q, done)' /\ Told(q)'
      BY DEF SyncInv
    <2>1. PICK q \in Seq(Seq(Byte)), done \in Seq(Byte) : Place(q, done) /\ Told(q)
      BY <1>1 DEF LineInv, SyncInv
    <2>2. \E more \in Seq(Byte) : Place(q, more)'
      BY <2>1, ReadByteInPlace
    <2>3. Told(q)'
      BY <1>1, <2>1, ToldKept
    <2>4. QED
      BY <2>2, <2>3
  <1>8. ResyncInv'
    <2> SUFFICES ASSUME sync' = "resync"
                 PROVE  \E f \in Seq(Byte), done \in Seq(Byte) : Past(f, done)'
      BY DEF ResyncInv
    <2>1. PICK f \in Seq(Byte), done \in Seq(Byte) : Past(f, done)
      BY <1>1 DEF LineInv, ResyncInv
    <2>2. QED
      BY <2>1, ReadBytePast
  <1>9. Calm'
    BY <1>1, <1>5 DEF LineInv, Calm
  <1>10. QED
    BY <1>6, <1>7, <1>8, <1>9 DEF LineInv

\* What is decoded fits the fields.
LEMMA DecodeTypes ==
  ASSUME TypeOK, Decode
  PROVE  /\ numOfActinGroupRunning' \in Byte /\ actionGroupRunTimes' \in Word
         /\ isRunning' \in BOOLEAN /\ batteryVoltage' \in Word
  <1>1. \A i \in {2, 3, 4} : Seen(i) \subseteq Byte
    <2>1. buf \in Seq(Byte) /\ StackBytes \subseteq Byte
      BY ValuesAssumption DEF TypeOK
    <2>2. ASSUME NEW i \in {2, 3, 4}
          PROVE  Seen(i) \subseteq Byte
      <3>1. i \in Nat /\ i >= 1
        OBVIOUS
      <3>2. i <= Len(buf) => buf[i] \in Byte
        BY <2>1, <3>1
      <3>3. QED
        BY <2>1, <3>2 DEF Seen
    <2>3. QED
      BY <2>2
  <1>2. \A hi \in Byte, lo \in Byte : BYTE_TO_HW(hi, lo) \in Word
    BY WordOfBytes
  <1>3. AllGroups \in Byte /\ 0 \in Word
    BY WordIsNumber DEF AllGroups, Byte
  <1>4. CASE buf[1] = BATTERY_VOLTAGE /\ \E lo \in Seen(2), hi \in Seen(3) : batteryVoltage' = BYTE_TO_HW(hi, lo)
             /\ UNCHANGED <<numOfActinGroupRunning, actionGroupRunTimes, isRunning>>
    BY <1>1, <1>2, <1>4 DEF TypeOK
  <1>5. CASE \E g \in Seen(2), lo \in Seen(3), hi \in Seen(4) :
               /\ numOfActinGroupRunning' = g /\ actionGroupRunTimes' = BYTE_TO_HW(hi, lo)
               /\ isRunning' = TRUE /\ UNCHANGED batteryVoltage
    BY <1>1, <1>2, <1>5 DEF TypeOK
  <1>6. CASE Stop
    BY <1>3, <1>6 DEF Stop, TypeOK
  <1>7. CASE UNCHANGED fields
    BY <1>7 DEF fields, TypeOK
  <1>8. QED
    BY <1>4, <1>5, <1>6, <1>7 DEF Decode

LEMMA EndReadStep ==
  ASSUME TypeOK, LineInv, EndRead
  PROVE  TypeOK' /\ LineInv'
  <1>1. /\ pc = "reading" /\ getHeader' = 0 /\ len' = 0 /\ pc' = "idle" /\ buf' = << >>
        /\ UNCHANGED <<rx, tx, asked, board, wire, sync, fresh, calls>>
    BY DEF EndRead, Outside
  <1>2. /\ numOfActinGroupRunning' \in Byte /\ actionGroupRunTimes' \in Word
        /\ isRunning' \in BOOLEAN /\ batteryVoltage' \in Word
    <2>1. CASE buf = << >>
      BY <2>1 DEF EndRead, fields, TypeOK
    <2>2. CASE buf # << >>
      BY <2>2, DecodeTypes DEF EndRead
    <2>3. QED
      BY <2>1, <2>2
  <1>3. << >> \in Seq(Byte) /\ Len(<< >>) <= BufSize /\ 0 \in Byte /\ 0 \in 0 .. 3
    BY SizesAssumption DEF Byte
  <1>4. TypeOK'
    BY <1>1, <1>2, <1>3 DEF TypeOK
  <1>5. SyncInv'
    <2> SUFFICES ASSUME sync' = "sync"
                 PROVE  \E q \in Seq(Seq(Byte)), done \in Seq(Byte) : Place(q, done)' /\ Told(q)'
      BY DEF SyncInv
    <2>1. PICK q \in Seq(Seq(Byte)), done \in Seq(Byte) : Place(q, done) /\ Told(q)
      BY <1>1 DEF LineInv, SyncInv
    <2>2. Tail(q) \in Seq(Seq(Byte)) /\ Place(Tail(q), << >>)'
      BY <2>1, EndReadInPlace
    <2>3. Told(Tail(q))'
      BY <2>1, DecodeTold
    <2>4. QED
      BY <1>3, <2>2, <2>3
  <1>6. ResyncInv'
    <2> SUFFICES ASSUME sync' = "resync"
                 PROVE  \E f \in Seq(Byte), done \in Seq(Byte) : Past(f, done)'
      BY DEF ResyncInv
    <2>1. PICK f \in Seq(Byte), done \in Seq(Byte) : Past(f, done)
      BY <1>1 DEF LineInv, ResyncInv
    <2>2. Len(<< >>) <= Len(done)
      OBVIOUS
    <2>3. Past(f, done)'
      BY <1>1, <2>1, <2>2 DEF Past
    <2>4. QED
      BY <2>3
  <1>7. Calm'
    BY <1>1 DEF LineInv, Calm
  <1>8. QED
    BY <1>4, <1>5, <1>6, <1>7 DEF LineInv

\* Before the first step nothing is on either line, and the sketch knows that
\* no group runs and that nothing was measured.
LEMMA LineInit ==
  ASSUME Init
  PROVE  TypeOK /\ TxInv /\ LineInv
  <1>1. TypeOK
    <2>1. << >> \in Seq(Byte) /\ << >> \in Seq(Commands) /\ Len(<< >>) = 0
      OBVIOUS
    <2>2. RingSize >= 0 /\ BufSize >= 0 /\ 0 \in 0 .. MaxCalls
      BY SizesAssumption
    <2>3. 0 \in Byte /\ 0 \in Word /\ AllGroups \in Byte /\ 0 \in 0 .. 3
      BY WordIsNumber DEF Byte, AllGroups
    <2>4. QED
      BY <2>1, <2>2, <2>3 DEF Init, TypeOK
  <1>2. FlattenSeq(<< >>) = << >>
    BY DEF FlattenSeq
  <1>3. TxInv
    <2>1. << >> \in Seq(Seq(Byte)) /\ Len(<< >>) = 0
      OBVIOUS
    <2>2. Len(asked) = 0 /\ tx = << >>
      BY DEF Init
    <2>3. \A i \in 1 .. Len(asked) : FALSE
      BY <2>2
    <2>4. QED
      BY <1>2, <2>1, <2>2, <2>3 DEF TxInv
  <1>4. Calm /\ ResyncInv
    BY DEF Init, Calm, ResyncInv
  <1>5. SyncInv
    <2>1. PICK q \in Seq(Seq(Byte)), done \in Seq(Byte) : q = << >> /\ done = << >>
      <3>1. << >> \in Seq(Seq(Byte)) /\ << >> \in Seq(Byte)
        OBVIOUS
      <3>2. QED
        BY <3>1
    <2>2. Len(q) = 0 /\ Len(done) = 0 /\ FlattenSeq(q) = << >>
      BY <1>2, <2>1
    <2>3. \A i \in 1 .. Len(q) : FALSE
      BY <2>2
    <2>4. done \o (rx \o wire) = << >>
      BY <2>1 DEF Init
    <2>5. Place(q, done)
      BY <2>1, <2>2, <2>3, <2>4 DEF Init, Place
    <2>6. Told(q)
      BY <2>3 DEF Init, Told, Shown, GroupShown, AllGroups
    <2>7. QED
      BY <2>5, <2>6 DEF SyncInv
  <1>6. QED
    BY <1>1, <1>3, <1>4, <1>5 DEF LineInv

\* The invariant holds in every state the sketch and the board can reach.
THEOREM LineInvariant == Spec => [](TypeOK /\ TxInv /\ LineInv)
  <1>1. Init => TypeOK /\ TxInv /\ LineInv
    BY LineInit
  <1>2. TypeOK /\ TxInv /\ LineInv /\ [Next]_vars => (TypeOK /\ TxInv /\ LineInv)'
    <2> SUFFICES ASSUME TypeOK, TxInv, LineInv, [Next]_vars
                 PROVE  (TypeOK /\ TxInv /\ LineInv)'
      OBVIOUS
    <2>1. CASE Sketch
      <3>1. TypeOK' /\ TxInv'
        BY <2>1, SketchStep
      <3>2. UNCHANGED <<board, wire, rx, receiver, sync, fresh>>
        BY <2>1 DEF Sketch, CallRun, CallStop, CallBattery, CallSpeed, CallMove, Write
      <3>3. LineInv'
        BY <3>2, LineKept
      <3>4. QED
        BY <3>1, <3>3
    <2>2. CASE BoardObeys \/ BoardCompletes
      <3>1. /\ TypeOK' /\ TxInv' /\ UNCHANGED <<rx, receiver>>
            /\ (\E f : BoardSays(f)) \/ UNCHANGED <<board, wire, sync, fresh>>
        BY <2>2, BoardStep
      <3>2. CASE \E f : BoardSays(f)
        BY <3>1, <3>2, ReportStep
      <3>3. CASE UNCHANGED <<board, wire, sync, fresh>>
        BY <3>1, <3>3, LineKept
      <3>4. QED
        BY <3>1, <3>2, <3>3
    <2>3. CASE Arrive
      <3>1. UNCHANGED <<tx, asked>>
        BY <2>3 DEF Arrive
      <3>2. QED
        BY <2>3, <3>1, ArriveStep, TxKept
    <2>4. CASE receiveHandle
      <3>1. UNCHANGED <<tx, asked>>
        BY <2>4 DEF receiveHandle, FirstHeader, SecondHeader, Length, ReadIn, BeginRead, ReadByte,
                    EndRead, Outside
      <3>2. TypeOK' /\ LineInv'
        BY <2>4, ReadStep, BeginReadStep, ReadByteStep, EndReadStep DEF receiveHandle
      <3>3. QED
        BY <3>1, <3>2, TxKept
    <2>5. CASE UNCHANGED vars
      <3>1. UNCHANGED <<board, wire, rx, receiver, sync, fresh>> /\ UNCHANGED <<tx, asked, calls>>
        BY <2>5 DEF vars
      <3>2. TypeOK'
        BY <3>1 DEF TypeOK, receiver, fields
      <3>3. QED
        BY <3>1, <3>2, LineKept, TxKept
    <2>6. QED
      BY <2>1, <2>2, <2>3, <2>4, <2>5 DEF Next
  <1>3. QED
    BY <1>1, <1>2, PTL DEF Spec

\* Every variable has its type, whatever the commands and wherever bytes are
\* lost: the frames are bytes, and the fields hold what two bytes can.
THEOREM TypeCorrect == Spec => []TypeOK
  BY LineInvariant, PTL

\* The board reads exactly the commands the sketch gave, in their order.
THEOREM CommandsAreRead == Spec => []CommandsRead
  <1>1. TypeOK /\ TxInv /\ LineInv => CommandsRead
    <2> SUFFICES ASSUME TypeOK, TxInv
                 PROVE  CommandsRead
      OBVIOUS
    <2>1. PICK frames \in Seq(Seq(Byte)) :
            /\ Len(frames) = Len(asked)
            /\ \A i \in 1 .. Len(asked) : Frame(frames[i], asked[i])
            /\ tx = FlattenSeq(frames)
      BY DEF TxInv
    <2>2. QED
      BY <2>1, FirstFrame DEF CommandsRead
  <1>2. QED
    BY <1>1, LineInvariant, PTL

\* When the line is silent and no report was spoilt, the sketch's fields are
\* what the board does.
THEOREM BoardIsShown == Spec => []BoardShown
  <1>1. TypeOK /\ TxInv /\ LineInv => BoardShown
    <2> SUFFICES ASSUME TypeOK, LineInv, Quiet, sync = "sync"
                 PROVE  \A kind \in {"group", "volts"} : kind \in fresh => Shown(kind)
      BY DEF BoardShown, Shown, GroupShown
    <2>1. PICK q \in Seq(Seq(Byte)), done \in Seq(Byte) : Place(q, done) /\ Told(q)
      BY DEF LineInv, SyncInv
    <2>2. q = << >>
      BY <2>1, QuietPlace
    <2>3. \A i \in 1 .. Len(q) : FALSE
      BY <2>2
    <2>4. QED
      BY <2>1, <2>3 DEF Told
  <1>2. QED
    BY <1>1, LineInvariant, PTL

\* One plain report with silence on both sides of it brings the receiver back
\* to the beginning of a report, wherever the loss left it.
THEOREM ComesBackIntoStep == Spec => []Resynchronised
  <1>1. TypeOK /\ TxInv /\ LineInv => Resynchronised
    <2> SUFFICES ASSUME TypeOK, LineInv, Quiet, sync \in {"sync", "resync"}
                 PROVE  getHeader = 0
      BY DEF Resynchronised
    <2>1. CASE sync = "sync"
      <3>1. PICK q \in Seq(Seq(Byte)), done \in Seq(Byte) : Place(q, done) /\ Told(q)
        BY <2>1 DEF LineInv, SyncInv
      <3>2. QED
        BY <3>1, QuietPlace
    <2>2. CASE sync = "resync"
      <3>1. PICK f \in Seq(Byte), done \in Seq(Byte) : Past(f, done)
        BY <2>2 DEF LineInv, ResyncInv
      <3>2. QED
        BY <3>1, QuietPast
    <2>3. QED
      BY <2>1, <2>2
  <1>2. QED
    BY <1>1, LineInvariant, PTL

\* receiveHandle writes beyond its buffer only after bytes were lost.
THEOREM BufferSuffices == Spec => []OverrunOnlyAfterLoss
  <1>1. TypeOK /\ TxInv /\ LineInv => OverrunOnlyAfterLoss
    <2> SUFFICES ASSUME TypeOK, LineInv, pc = "overrun", sync # "lost"
                 PROVE  FALSE
      BY DEF OverrunOnlyAfterLoss
    <2>1. sync = "sync" \/ sync = "resync"
      BY DEF TypeOK
    <2>2. QED
      BY <2>1 DEF LineInv, SyncInv, ResyncInv, Place, Past
  <1>2. QED
    BY <1>1, LineInvariant, PTL

-----------------------------------------------------------------------------
(* AutoGo: sequences of commands. *)

Walking == [op : {"run"}, group : Nat, times : Nat] \cup [op : {"delay"}, time : Nat]
Turning == [op : {"move"}, servo : Servos, position : Nat, time : Nat]
Looking == [op : {"scan", "search"}]
Orders == Walking \cup Turning \cup Looking

\* Behind every move there is a delay that lasts as long.
Waits(q) ==
  \A i \in 1 .. Len(q) : q[i].op = "move" =>
    i < Len(q) /\ q[i + 1].op = "delay" /\ q[i + 1].time >= q[i].time

Turns(q, j, x) == q[j].op = "move" /\ q[j].servo = x

\* Before place i the last move of servo x is to the middle, or there is none.
Straight(q, i, x) ==
  \E k \in 1 .. i - 1 :
    /\ Turns(q, k, x) /\ q[k].position = 1500
    /\ \A j \in k + 1 .. i - 1 : ~Turns(q, j, x)
Unmoved(q, i, x) == \A j \in 1 .. i - 1 : ~Turns(q, j, x)

Looks(q, i) == q[i].op \in {"scan", "search"}

\* Wherever q looks the head is straight: if it was so before, or whatever was before.
Aligned(q) ==
  \A i \in 1 .. Len(q) : Looks(q, i) =>
    \A x \in Servos : Straight(q, i, x) \/ Unmoved(q, i, x)
Aligning(q) == \A i \in 1 .. Len(q) : Looks(q, i) => \A x \in Servos : Straight(q, i, x)

\* And when q has been carried out.
EndsStraight(q) == \A x \in Servos : Straight(q, Len(q) + 1, x)

\* What is done is known by its name.
LEMMA KindsOfOrders ==
  /\ \A c \in Walking : c.op # "move" /\ c.op \notin {"scan", "search"}
  /\ \A c \in Turning : c.op = "move" /\ c.servo \in Servos /\ c.position \in Nat /\ c.time \in Nat
  /\ \A c \in Looking : c.op # "move"
  /\ \A c \in Orders : c.op = "delay" => c.time \in Nat
  /\ \A c \in Orders : c.op = "move" => c \in Turning
  BY DEF Walking, Turning, Looking, Orders

\* Waiting, one behind the other.
LEMMA WaitsConcat ==
  ASSUME NEW q \in Seq(Orders), NEW r \in Seq(Orders), Waits(q), Waits(r)
  PROVE  Waits(q \o r)
  <1> DEFINE u == q \o r
  <1>1. /\ Len(q) \in Nat /\ Len(r) \in Nat /\ Len(u) = Len(q) + Len(r)
        /\ \A i \in 1 .. Len(q) : u[i] = q[i]
        /\ \A i \in 1 .. Len(r) : u[Len(q) + i] = r[i]
    BY ConcatAt
  <1> HIDE DEF u
  <1>2. ASSUME NEW i \in 1 .. Len(u), u[i].op = "move"
        PROVE  i < Len(u) /\ u[i + 1].op = "delay" /\ u[i + 1].time >= u[i].time
    <2>1. CASE i <= Len(q)
      <3>1. i \in 1 .. Len(q) /\ u[i] = q[i]
        BY <1>1, <2>1
      <3>2. i < Len(q) /\ q[i + 1].op = "delay" /\ q[i + 1].time >= q[i].time
        BY <1>2, <3>1 DEF Waits
      <3>3. i + 1 \in 1 .. Len(q) /\ u[i + 1] = q[i + 1] /\ i < Len(u)
        BY <1>1, <3>1, <3>2
      <3>4. QED
        BY <3>1, <3>2, <3>3
    <2>2. CASE i > Len(q)
      <3>1. PICK k : k = i - Len(q)
        OBVIOUS
      <3>2. k \in 1 .. Len(r) /\ i = Len(q) + k
        BY <1>1, <2>2, <3>1
      <3>3. u[i] = r[k]
        BY <1>1, <3>2
      <3>4. k < Len(r) /\ r[k + 1].op = "delay" /\ r[k + 1].time >= r[k].time
        BY <1>2, <3>2, <3>3 DEF Waits
      <3>5. k + 1 \in 1 .. Len(r) /\ i + 1 = Len(q) + (k + 1) /\ i < Len(u)
        BY <1>1, <3>2, <3>4
      <3>6. u[i + 1] = r[k + 1]
        BY <1>1, <3>5
      <3>7. QED
        BY <3>3, <3>4, <3>5, <3>6
    <2>3. i \in Int /\ Len(q) \in Int
      BY <1>1
    <2>4. QED
      BY <2>1, <2>2, <2>3
  <1>3. QED
    BY <1>2 DEF Waits, u

\* Where the head looks, one sequence behind the other.
LEMMA ConcatAim ==
  ASSUME NEW q \in Seq(Orders), NEW r \in Seq(Orders), NEW x
  PROVE  /\ \A i \in 1 .. Len(q) + 1 : Straight(q, i, x) => Straight(q \o r, i, x)
         /\ \A i \in 1 .. Len(q) + 1 : Unmoved(q, i, x) => Unmoved(q \o r, i, x)
         /\ \A i \in 1 .. Len(r) + 1 : Straight(r, i, x) => Straight(q \o r, Len(q) + i, x)
         /\ \A i \in 1 .. Len(r) + 1 : Unmoved(r, i, x) /\ Straight(q, Len(q) + 1, x)
              => Straight(q \o r, Len(q) + i, x)
         /\ \A i \in 1 .. Len(r) + 1 : Unmoved(r, i, x) /\ Unmoved(q, Len(q) + 1, x)
              => Unmoved(q \o r, Len(q) + i, x)
  <1> DEFINE u == q \o r
  <1>1. /\ Len(q) \in Nat /\ Len(r) \in Nat /\ Len(u) = Len(q) + Len(r)
        /\ \A i \in 1 .. Len(q) : u[i] = q[i]
        /\ \A i \in 1 .. Len(r) : u[Len(q) + i] = r[i]
    BY ConcatAt
  <1> HIDE DEF u
  <1>2. /\ \A i \in 1 .. Len(q) : Turns(u, i, x) <=> Turns(q, i, x)
        /\ \A i \in 1 .. Len(r) : Turns(u, Len(q) + i, x) <=> Turns(r, i, x)
    BY <1>1 DEF Turns
  <1>3. ASSUME NEW i \in 1 .. Len(q) + 1, Straight(q, i, x)
        PROVE  Straight(u, i, x)
    <2>1. PICK k \in 1 .. i - 1 : /\ Turns(q, k, x) /\ q[k].position = 1500
                                  /\ \A j \in k + 1 .. i - 1 : ~Turns(q, j, x)
      BY <1>3 DEF Straight
    <2>2. k \in 1 .. Len(q)
      BY <1>1
    <2>3. Turns(u, k, x) /\ u[k].position = 1500
      BY <1>1, <1>2, <2>1, <2>2
    <2>4. \A j \in k + 1 .. i - 1 : j \in 1 .. Len(q)
      BY <1>1, <2>2
    <2>5. \A j \in k + 1 .. i - 1 : ~Turns(u, j, x)
      BY <1>2, <2>1, <2>4
    <2>6. QED
      BY <2>3, <2>5 DEF Straight
  <1>4. ASSUME NEW i \in 1 .. Len(q) + 1, Unmoved(q, i, x)
        PROVE  Unmoved(u, i, x)
    <2>1. \A j \in 1 .. i - 1 : j \in 1 .. Len(q)
      BY <1>1
    <2>2. QED
      BY <1>2, <1>4, <2>1 DEF Unmoved
  <1>5. ASSUME NEW i \in 1 .. Len(r) + 1, NEW k \in 0 .. i - 1,
               \A j \in k + 1 .. i - 1 : ~Turns(r, j, x)
        PROVE  \A j \in Len(q) + k + 1 .. (Len(q) + i) - 1 : ~Turns(u, j, x)
    <2>1. ASSUME NEW j \in Len(q) + k + 1 .. (Len(q) + i) - 1
          PROVE  ~Turns(u, j, x)
      <3>1. PICK m : m = j - Len(q)
        OBVIOUS
      <3>2. m \in k + 1 .. i - 1 /\ m \in 1 .. Len(r) /\ j = Len(q) + m
        BY <1>1, <3>1
      <3>3. QED
        BY <1>2, <1>5, <3>2
    <2>2. QED
      BY <2>1
  <1>6. ASSUME NEW i \in 1 .. Len(r) + 1, Straight(r, i, x)
        PROVE  Straight(u, Len(q) + i, x)
    <2>1. PICK k \in 1 .. i - 1 : /\ Turns(r, k, x) /\ r[k].position = 1500
                                  /\ \A j \in k + 1 .. i - 1 : ~Turns(r, j, x)
      BY <1>6 DEF Straight
    <2>2. k \in 1 .. Len(r) /\ k \in 0 .. i - 1 /\ Len(q) + k \in 1 .. (Len(q) + i) - 1
      BY <1>1
    <2>3. Turns(u, Len(q) + k, x) /\ u[Len(q) + k].position = 1500
      BY <1>1, <1>2, <2>1, <2>2
    <2>4. \A j \in Len(q) + k + 1 .. (Len(q) + i) - 1 : ~Turns(u, j, x)
      <3>1. \A j \in k + 1 .. i - 1 : ~Turns(r, j, x)
        BY <2>1
      <3>2. QED
        BY <1>5, <2>2, <3>1
    <2>5. QED
      BY <2>2, <2>3, <2>4 DEF Straight
  <1>7. ASSUME NEW i \in 1 .. Len(r) + 1, Unmoved(r, i, x)
        PROVE  \A j \in Len(q) + 1 .. (Len(q) + i) - 1 : ~Turns(u, j, x)
    <2>1. 0 \in 0 .. i - 1 /\ \A j \in 0 + 1 .. i - 1 : ~Turns(r, j, x)
      BY <1>7 DEF Unmoved
    <2>2. \A j \in Len(q) + 0 + 1 .. (Len(q) + i) - 1 : ~Turns(u, j, x)
      BY <1>5, <2>1
    <2>3. QED
      BY <1>1, <2>2
  <1>8. ASSUME NEW i \in 1 .. Len(r) + 1, Unmoved(r, i, x), Straight(q, Len(q) + 1, x)
        PROVE  Straight(u, Len(q) + i, x)
    <2>1. PICK k \in 1 .. (Len(q) + 1) - 1 : /\ Turns(q, k, x) /\ q[k].position = 1500
                                             /\ \A j \in k + 1 .. (Len(q) + 1) - 1 : ~Turns(q, j, x)
      BY <1>8 DEF Straight
    <2>2. k \in 1 .. Len(q) /\ k \in 1 .. (Len(q) + i) - 1
      BY <1>1
    <2>3. Turns(u, k, x) /\ u[k].position = 1500
      BY <1>1, <1>2, <2>1, <2>2
    <2>4. ASSUME NEW j \in k + 1 .. (Len(q) + i) - 1
          PROVE  ~Turns(u, j, x)
      <3>1. CASE j <= Len(q)
        <4>1. j \in k + 1 .. (Len(q) + 1) - 1 /\ j \in 1 .. Len(q)
          BY <1>1, <2>2, <3>1
        <4>2. QED
          BY <1>2, <2>1, <4>1
      <3>2. CASE j > Len(q)
        <4>1. j \in Len(q) + 1 .. (Len(q) + i) - 1
          BY <1>1, <2>2, <3>2
        <4>2. QED
          BY <1>7, <1>8, <4>1
      <3>3. j \in Int /\ Len(q) \in Int
        BY <1>1, <2>2
      <3>4. QED
        BY <3>1, <3>2, <3>3
    <2>5. QED
      BY <2>2, <2>3, <2>4 DEF Straight
  <1>9. ASSUME NEW i \in 1 .. Len(r) + 1, Unmoved(r, i, x), Unmoved(q, Len(q) + 1, x)
        PROVE  Unmoved(u, Len(q) + i, x)
    <2>1. ASSUME NEW j \in 1 .. (Len(q) + i) - 1
          PROVE  ~Turns(u, j, x)
      <3>1. CASE j <= Len(q)
        <4>1. j \in 1 .. (Len(q) + 1) - 1 /\ j \in 1 .. Len(q)
          BY <1>1, <3>1
        <4>2. QED
          BY <1>2, <1>9, <4>1 DEF Unmoved
      <3>2. CASE j > Len(q)
        <4>1. j \in Len(q) + 1 .. (Len(q) + i) - 1
          BY <1>1, <3>2
        <4>2. QED
          BY <1>7, <1>9, <4>1
      <3>3. j \in Int /\ Len(q) \in Int
        BY <1>1
      <3>4. QED
        BY <3>1, <3>2, <3>3
    <2>2. QED
      BY <2>1 DEF Unmoved
  <1>10. QED
    BY <1>3, <1>4, <1>6, <1>8, <1>9 DEF u

\* A place of one sequence behind the other is in the first or in the second.
LEMMA ConcatPlace ==
  ASSUME NEW q \in Seq(Orders), NEW r \in Seq(Orders), NEW i \in 1 .. Len(q \o r)
  PROVE  \/ i \in 1 .. Len(q) /\ (q \o r)[i] = q[i]
         \/ \E k \in 1 .. Len(r) : i = Len(q) + k /\ (q \o r)[i] = r[k]
  <1>1. /\ Len(q) \in Nat /\ Len(r) \in Nat /\ Len(q \o r) = Len(q) + Len(r)
        /\ \A j \in 1 .. Len(q) : (q \o r)[j] = q[j]
        /\ \A j \in 1 .. Len(r) : (q \o r)[Len(q) + j] = r[j]
    BY ConcatAt
  <1>2. PICK k : k = i - Len(q)
    OBVIOUS
  <1>3. i \in 1 .. Len(q) \/ (k \in 1 .. Len(r) /\ i = Len(q) + k)
    BY <1>1, <1>2
  <1>4. QED
    BY <1>1, <1>3

\* What the parts of a course must be for the whole to look straight ahead.
LEMMA AlignedConcat ==
  ASSUME NEW q \in Seq(Orders), NEW r \in Seq(Orders)
  PROVE  /\ Aligned(q) /\ Aligning(r) => Aligned(q \o r)
         /\ Aligning(q) /\ Aligning(r) => Aligning(q \o r)
         /\ Aligning(q) /\ EndsStraight(q) /\ Aligned(r) => Aligning(q \o r)
  <1>1. ASSUME NEW i \in 1 .. Len(q \o r), Looks(q \o r, i)
        PROVE  \/ i \in 1 .. Len(q) /\ Looks(q, i)
               \/ \E k \in 1 .. Len(r) : i = Len(q) + k /\ Looks(r, k)
    BY <1>1, ConcatPlace DEF Looks
  <1>2. \A i \in 1 .. Len(q) : i \in 1 .. Len(q) + 1
    OBVIOUS
  <1>3. \A i \in 1 .. Len(r) : i \in 1 .. Len(r) + 1
    OBVIOUS
  <1>4. ASSUME NEW x \in Servos, NEW i \in 1 .. Len(q)
        PROVE  /\ Straight(q, i, x) => Straight(q \o r, i, x)
               /\ Unmoved(q, i, x) => Unmoved(q \o r, i, x)
    BY <1>2, ConcatAim
  <1>5. ASSUME NEW x \in Servos, NEW k \in 1 .. Len(r)
        PROVE  /\ Straight(r, k, x) => Straight(q \o r, Len(q) + k, x)
               /\ Unmoved(r, k, x) /\ Straight(q, Len(q) + 1, x) => Straight(q \o r, Len(q) + k, x)
    BY <1>3, ConcatAim
  <1>6. ASSUME Aligned(q), Aligning(r)
        PROVE  Aligned(q \o r)
    BY <1>1, <1>4, <1>5, <1>6 DEF Aligned, Aligning
  <1>7. ASSUME Aligning(q), Aligning(r)
        PROVE  Aligning(q \o r)
    BY <1>1, <1>4, <1>5, <1>7 DEF Aligning
  <1>8. ASSUME Aligning(q), EndsStraight(q), Aligned(r)
        PROVE  Aligning(q \o r)
    BY <1>1, <1>4, <1>5, <1>8 DEF Aligned, Aligning, EndsStraight
  <1>9. QED
    BY <1>6, <1>7, <1>8

\* A course ends straight when its last part does, or moves nothing any more.
LEMMA EndsConcat ==
  ASSUME NEW q \in Seq(Orders), NEW r \in Seq(Orders)
  PROVE  /\ EndsStraight(r) => EndsStraight(q \o r)
         /\ EndsStraight(q) /\ (\A x \in Servos : Unmoved(r, Len(r) + 1, x)) => EndsStraight(q \o r)
  <1>1. Len(q) + (Len(r) + 1) = Len(q \o r) + 1 /\ Len(r) + 1 \in 1 .. Len(r) + 1
    BY ConcatAt
  <1>2. ASSUME NEW x \in Servos
        PROVE  /\ Straight(r, Len(r) + 1, x) => Straight(q \o r, Len(q) + (Len(r) + 1), x)
               /\ Unmoved(r, Len(r) + 1, x) /\ Straight(q, Len(q) + 1, x)
                    => Straight(q \o r, Len(q) + (Len(r) + 1), x)
    BY <1>1, ConcatAim
  <1>3. QED
    BY <1>1, <1>2 DEF EndsStraight

\* Walking moves no servo of the head and looks nowhere, and neither does moving
\* them look.
LEMMA WalkFacts ==
  ASSUME NEW q \in Seq(Walking)
  PROVE  /\ q \in Seq(Orders) /\ Waits(q) /\ Aligned(q) /\ Aligning(q)
         /\ \A x, i : i \in 1 .. Len(q) + 1 => Unmoved(q, i, x)
  <1>1. \A i \in 1 .. Len(q) : q[i] \in Walking
    OBVIOUS
  <1>2. \A i \in 1 .. Len(q) : q[i].op # "move" /\ q[i].op \notin {"scan", "search"}
    BY <1>1, KindsOfOrders
  <1>3. q \in Seq(Orders)
    BY DEF Orders
  <1>4. Len(q) \in Nat
    OBVIOUS
  <1>5. \A x, i : i \in 1 .. Len(q) + 1 => Unmoved(q, i, x)
    BY <1>2, <1>4 DEF Unmoved, Turns
  <1>6. QED
    BY <1>2, <1>3, <1>5 DEF Waits, Aligned, Aligning, Looks

LEMMA BlindFacts ==
  ASSUME NEW q \in Seq(Walking \cup Turning)
  PROVE  q \in Seq(Orders) /\ Aligned(q) /\ Aligning(q)
  <1>1. \A i \in 1 .. Len(q) : q[i] \in Walking \/ q[i] \in Turning
    OBVIOUS
  <1>2. \A i \in 1 .. Len(q) : q[i].op \notin {"scan", "search"}
    <2>1. \A c \in Turning : c.op \notin {"scan", "search"}
      BY KindsOfOrders
    <2>2. QED
      BY <1>1, <2>1, KindsOfOrders
  <1>3. q \in Seq(Orders)
    BY DEF Orders
  <1>4. QED
    BY <1>2, <1>3 DEF Aligned, Aligning, Looks

\* The blocks a course is laid of.
LEMMA ForwardWalks ==
  ASSUME NEW n \in Nat
  PROVE  Forward(n) \in Seq(Walking)
  BY DEF Forward, Walking, RunCommand, delay

LEMMA RepeatWalks ==
  ASSUME NEW n \in Nat, NEW m \in Nat
  PROVE  Repeat(n, Forward(m)) \in Seq(Walking)
  <1>1. [i \in 1 .. n |-> Forward(m)] \in Seq(Seq(Walking))
    BY ForwardWalks
  <1>2. QED
    BY <1>1, FlattenIsSeq DEF Repeat

LEMMA ResetFacts ==
  /\ yun_reset \in Seq(Walking \cup Turning)
  /\ Waits(yun_reset)
  /\ EndsStraight(yun_reset)
  <1>1. yun_reset \in Seq(Walking \cup Turning)
    BY DEF yun_reset, Walking, Turning, MoveCommand, delay, Servos, pan, tilt
  <1>2. Len(yun_reset) = 4 /\ \A i \in 1 .. 4 : i = 1 \/ i = 2 \/ i = 3 \/ i = 4
    BY DEF yun_reset
  <1>3. /\ yun_reset[1].op = "move" /\ yun_reset[1].servo = 20 /\ yun_reset[1].position = 1500
        /\ yun_reset[1].time = 1000
        /\ yun_reset[2].op = "delay" /\ yun_reset[2].time = 1000
        /\ yun_reset[3].op = "move" /\ yun_reset[3].servo = 19 /\ yun_reset[3].position = 1500
        /\ yun_reset[3].time = 1000
        /\ yun_reset[4].op = "delay" /\ yun_reset[4].time = 1000
    BY DEF yun_reset, MoveCommand, delay
  <1>4. Waits(yun_reset)
    BY <1>2, <1>3 DEF Waits
  <1>5. Straight(yun_reset, 5, 19)
    BY <1>3 DEF Straight, Turns
  <1>6. Straight(yun_reset, 5, 20)
    <2>1. \A j \in 2 .. 4 : ~Turns(yun_reset, j, 20)
      BY <1>2, <1>3 DEF Turns
    <2>2. 1 \in 1 .. 5 - 1 /\ Turns(yun_reset, 1, 20)
      BY <1>3 DEF Turns
    <2>3. QED
      BY <1>3, <2>1, <2>2 DEF Straight
  <1>7. QED
    BY <1>1, <1>2, <1>4, <1>5, <1>6 DEF EndsStraight, Servos, pan, tilt

LEMMA FrontLiteral ==
  LET q == <<yun_right, delay(1000), scan_up, delay(1000), delay(8000),
             RunCommand(6, 1), delay(1000), RunCommand(7, 2), delay(3000),
             RunCommand(5, 1), delay(1000), RunCommand(7, 2), delay(2000)>>
  IN  q \in Seq(Walking \cup Turning) /\ Waits(q)
  <1> DEFINE q == <<yun_right, delay(1000), scan_up, delay(1000), delay(8000),
             RunCommand(6, 1), delay(1000), RunCommand(7, 2), delay(3000),
             RunCommand(5, 1), delay(1000), RunCommand(7, 2), delay(2000)>>
  <1>1. q \in Seq(Walking \cup Turning)
    BY DEF Walking, Turning, RunCommand, MoveCommand, delay, yun_right, scan_up, Servos, pan, tilt
  <1>2. Waits(q)
    BY DEF Waits, RunCommand, MoveCommand, delay, yun_right, scan_up
  <1>3. QED
    BY <1>1, <1>2

\* What looks nowhere, and waits: a part of a course that can stand anywhere.
Blind(q) == q \in Seq(Walking \cup Turning) /\ Waits(q)

LEMMA BlindConcat ==
  ASSUME NEW q, NEW r, Blind(q), Blind(r)
  PROVE  Blind(q \o r)
  <1>1. q \in Seq(Walking \cup Turning) /\ r \in Seq(Walking \cup Turning)
    BY DEF Blind
  <1>2. Waits(q) /\ Waits(r) /\ q \in Seq(Orders) /\ r \in Seq(Orders)
    BY <1>1, BlindFacts DEF Blind
  <1>3. q \o r \in Seq(Walking \cup Turning)
    BY <1>1
  <1>4. QED
    BY <1>2, <1>3, WaitsConcat DEF Blind

LEMMA WalkIsBlind ==
  ASSUME NEW q \in Seq(Walking)
  PROVE  Blind(q) /\ \A x \in Servos : Unmoved(q, Len(q) + 1, x)
  <1>1. q \in Seq(Walking \cup Turning) /\ Waits(q) /\ Len(q) + 1 \in 1 .. Len(q) + 1
    BY WalkFacts
  <1>2. \A x, i : i \in 1 .. Len(q) + 1 => Unmoved(q, i, x)
    BY WalkFacts
  <1>3. QED
    BY <1>1, <1>2 DEF Blind

LEMMA ResetIsBlind == Blind(yun_reset) /\ EndsStraight(yun_reset)
  BY ResetFacts DEF Blind

LEMMA FrontIsBlind == Blind(search_front_wall)
  <1> DEFINE q == <<yun_right, delay(1000), scan_up, delay(1000), delay(8000),
             RunCommand(6, 1), delay(1000), RunCommand(7, 2), delay(3000),
             RunCommand(5, 1), delay(1000), RunCommand(7, 2), delay(2000)>>
             turn == <<RunCommand(8, 3), delay(1000), delay(8000)>>
             rest == <<delay(9000)>>
             r3 == Repeat(3, Forward(1))
             f == Forward(2)
             r4 == Repeat(4, Forward(2))
             r5 == Repeat(3, Forward(2))
  <1>1. Blind(q)
    BY FrontLiteral DEF Blind
  <1>2. turn \in Seq(Walking) /\ rest \in Seq(Walking)
    BY DEF Walking, RunCommand, delay
  <1>4. r3 \in Seq(Walking) /\ f \in Seq(Walking) /\ r4 \in Seq(Walking) /\ r5 \in Seq(Walking)
    BY ForwardWalks, RepeatWalks
  <1>6. search_front_wall = r3 \o f \o q \o r4 \o turn \o r5 \o rest
    BY DEF search_front_wall
  <1> HIDE DEF q, turn, rest, r3, f, r4, r5
  <1>3. Blind(turn) /\ Blind(rest)
    BY <1>2, WalkIsBlind
  <1>5. Blind(r3) /\ Blind(f) /\ Blind(r4) /\ Blind(r5)
    BY <1>4, WalkIsBlind
  <1>7. Blind(r3 \o f)
    BY <1>5, BlindConcat
  <1>8. Blind(r3 \o f \o q)
    BY <1>1, <1>7, BlindConcat
  <1>9. Blind(r3 \o f \o q \o r4)
    BY <1>5, <1>8, BlindConcat
  <1>10. Blind(r3 \o f \o q \o r4 \o turn)
    BY <1>3, <1>9, BlindConcat
  <1>11. Blind(r3 \o f \o q \o r4 \o turn \o r5)
    BY <1>5, <1>10, BlindConcat
  <1>12. QED
    BY <1>3, <1>6, <1>11, BlindConcat

LEMMA RandLiterals ==
  /\ Blind(<<delay(2000), RunCommand(5, 1), delay(1000),
         RunCommand(8, 3), delay(4000), RunCommand(5, 5), delay(8000),
         RunCommand(7, 5), delay(6000), yun_right, delay(2000), scan_down, delay(8000)>>)
  /\ Blind(<<delay(1000), RunCommand(5, 2), delay(2000), turnleft, delay(4000),
         yun_right, delay(2000), RunCommand(5, 3), delay(2000), delay(8000),
         yun_left, delay(8000), RunCommand(6, 2), delay(1000), delay(100000)>>)
  <1> DEFINE q == <<delay(2000), RunCommand(5, 1), delay(1000),
         RunCommand(8, 3), delay(4000), RunCommand(5, 5), delay(8000),
         RunCommand(7, 5), delay(6000), yun_right, delay(2000), scan_down, delay(8000)>>
             r == <<delay(1000), RunCommand(5, 2), delay(2000), turnleft, delay(4000),
         yun_right, delay(2000), RunCommand(5, 3), delay(2000), delay(8000),
         yun_left, delay(8000), RunCommand(6, 2), delay(1000), delay(100000)>>
  <1>1. q \in Seq(Walking \cup Turning)
    BY DEF Walking, Turning, RunCommand, MoveCommand, delay, yun_right, scan_down, Servos, pan, tilt
  <1>2. Waits(q)
    BY DEF Waits, RunCommand, MoveCommand, delay, yun_right, scan_down
  <1>3. r \in Seq(Walking \cup Turning)
    BY DEF Walking, Turning, RunCommand, MoveCommand, delay, yun_right, yun_left, turnleft,
           Servos, pan, tilt
  <1>4. Waits(r)
    BY DEF Waits, RunCommand, MoveCommand, delay, yun_right, yun_left, turnleft
  <1>5. QED
    BY <1>1, <1>2, <1>3, <1>4 DEF Blind

LEMMA RandIsBlind == Blind(search_rand)
  <1> DEFINE q == <<delay(2000), RunCommand(5, 1), delay(1000),
         RunCommand(8, 3), delay(4000), RunCommand(5, 5), delay(8000),
         RunCommand(7, 5), delay(6000), yun_right, delay(2000), scan_down, delay(8000)>>
             r == <<delay(1000), RunCommand(5, 2), delay(2000), turnleft, delay(4000),
         yun_right, delay(2000), RunCommand(5, 3), delay(2000), delay(8000),
         yun_left, delay(8000), RunCommand(6, 2), delay(1000), delay(100000)>>
  <1>1. Blind(q) /\ Blind(r)
    BY RandLiterals
  <1>2. search_rand = yun_reset \o q \o yun_reset \o r
    BY DEF search_rand
  <1> HIDE DEF q, r
  <1>3. Blind(yun_reset \o q)
    BY <1>1, ResetIsBlind, BlindConcat
  <1>4. Blind(yun_reset \o q \o yun_reset)
    BY <1>3, ResetIsBlind, BlindConcat
  <1>5. QED
    BY <1>1, <1>2, <1>4, BlindConcat

\* The end of the course and the start of the sketch leave the head straight.
LEMMA CompleteFacts == Blind(complete) /\ EndsStraight(complete)
  <1> DEFINE q == <<go_back, RunCommand(0, 1)>>
             r == <<delay(1000000)>>
  <1>1. q \in Seq(Walking) /\ r \in Seq(Walking)
    BY DEF Walking, RunCommand, delay, go_back
  <1>2. complete = q \o yun_reset \o r
    BY DEF complete
  <1> HIDE DEF q, r
  <1>3. Blind(q) /\ Blind(r) /\ \A x \in Servos : Unmoved(r, Len(r) + 1, x)
    BY <1>1, WalkIsBlind
  <1>4. Blind(q \o yun_reset)
    BY <1>3, ResetIsBlind, BlindConcat
  <1>5. q \in Seq(Orders) /\ yun_reset \in Seq(Orders) /\ r \in Seq(Orders) /\ q \o yun_reset \in Seq(Orders)
    BY <1>3, <1>4, ResetIsBlind, BlindFacts DEF Blind
  <1>6. EndsStraight(q \o yun_reset)
    BY <1>5, ResetIsBlind, EndsConcat
  <1>7. EndsStraight(q \o yun_reset \o r)
    BY <1>3, <1>5, <1>6, EndsConcat
  <1>8. QED
    BY <1>2, <1>3, <1>4, <1>7, BlindConcat

LEMMA SetupFacts == Blind(setup) /\ EndsStraight(setup)
  <1> DEFINE q == <<delay(10000)>>
             r == <<delay(1000), RunCommand(0, 1), delay(2000)>>
  <1>1. q \in Seq(Walking) /\ r \in Seq(Walking)
    BY DEF Walking, RunCommand, delay
  <1>2. setup = q \o yun_reset \o r
    BY DEF setup
  <1> HIDE DEF q, r
  <1>3. Blind(q) /\ Blind(r) /\ \A x \in Servos : Unmoved(r, Len(r) + 1, x)
    BY <1>1, WalkIsBlind
  <1>4. Blind(q \o yun_reset)
    BY <1>3, ResetIsBlind, BlindConcat
  <1>5. q \in Seq(Orders) /\ yun_reset \in Seq(Orders) /\ r \in Seq(Orders) /\ q \o yun_reset \in Seq(Orders)
    BY <1>3, <1>4, ResetIsBlind, BlindFacts DEF Blind
  <1>6. EndsStraight(q \o yun_reset)
    BY <1>5, ResetIsBlind, EndsConcat
  <1>7. EndsStraight(q \o yun_reset \o r)
    BY <1>3, <1>5, <1>6, EndsConcat
  <1>8. QED
    BY <1>2, <1>3, <1>4, <1>7, BlindConcat

\* A part that also looks.
Part(q) == q \in Seq(Orders) /\ Waits(q)

LEMMA PartConcat ==
  ASSUME NEW q, NEW r, Part(q), Part(r)
  PROVE  Part(q \o r)
  <1>1. q \in Seq(Orders) /\ r \in Seq(Orders) /\ Waits(q) /\ Waits(r)
    BY DEF Part
  <1>2. QED
    BY <1>1, ConcatAt, WaitsConcat DEF Part

LEMMA BlindIsPart ==
  ASSUME NEW q, Blind(q)
  PROVE  Part(q) /\ Aligned(q) /\ Aligning(q)
  BY BlindFacts DEF Blind, Part

\* The first look is before any move, so that setup has to leave the head straight.
LEMMA BeginFacts == Part(begin_Go) /\ Aligned(begin_Go)
  <1> DEFINE q == <<sound_scan, delay(1000), yun_left, delay(6000)>>
             d == <<delay(2000)>>
             f == Repeat(5, Forward(2))
             r == <<turnleft, delay(5000)>>
  <1>1. q \in Seq(Orders)
    BY DEF Orders, Walking, Turning, Looking, sound_scan, yun_left, MoveCommand, delay, Servos, pan, tilt
  <1>2. Waits(q)
    BY DEF Waits, sound_scan, yun_left, MoveCommand, delay
  <1>3. Aligned(q)
    <2>1. Len(q) = 4 /\ q[2].op = "delay" /\ q[3].op = "move" /\ q[4].op = "delay"
      BY DEF yun_left, MoveCommand, delay
    <2>2. \A i \in 1 .. 4 : Looks(q, i) => i = 1
      BY <2>1 DEF Looks
    <2>3. \A x : Unmoved(q, 1, x)
      BY DEF Unmoved
    <2>4. QED
      BY <2>1, <2>2, <2>3 DEF Aligned
  <1>4. d \in Seq(Walking) /\ r \in Seq(Walking)
    BY DEF Walking, delay, turnleft, RunCommand
  <1>5. f \in Seq(Walking)
    BY ForwardWalks, RepeatWalks
  <1>6. begin_Go = q \o yun_reset \o d \o f \o r
    BY DEF begin_Go
  <1> HIDE DEF q, d, f, r
  <1>7. Blind(d) /\ Blind(f) /\ Blind(r)
    BY <1>4, <1>5, WalkIsBlind
  <1>8. Part(q) /\ Part(yun_reset) /\ Part(d) /\ Part(f) /\ Part(r)
    BY <1>1, <1>2, <1>7, ResetIsBlind, BlindIsPart DEF Part
  <1>9. Aligning(yun_reset) /\ Aligning(d) /\ Aligning(f) /\ Aligning(r)
    BY <1>7, ResetIsBlind, BlindIsPart
  <1>10. Part(q \o yun_reset) /\ Aligned(q \o yun_reset)
    BY <1>3, <1>8, <1>9, PartConcat, AlignedConcat DEF Part
  <1>11. Part(q \o yun_reset \o d) /\ Aligned(q \o yun_reset \o d)
    BY <1>8, <1>9, <1>10, PartConcat, AlignedConcat DEF Part
  <1>12. Part(q \o yun_reset \o d \o f) /\ Aligned(q \o yun_reset \o d \o f)
    BY <1>8, <1>9, <1>11, PartConcat, AlignedConcat DEF Part
  <1>13. Part(q \o yun_reset \o d \o f \o r) /\ Aligned(q \o yun_reset \o d \o f \o r)
    BY <1>8, <1>9, <1>12, PartConcat, AlignedConcat DEF Part
  <1>14. QED
    BY <1>6, <1>13

\* The search looks only after the head was moved back to the middle.
LEMMA LeftFacts == Part(search_left_wall) /\ Aligning(search_left_wall)
  <1> DEFINE q == <<delay(4000), turnleft, delay(5000),
         RunCommand(5, 3), delay(2000), RunCommand(8, 5), delay(9000),
         RunCommand(7, 7), delay(4000),
         search, delay(1000), scan_down, delay(8000)>>
             r == <<delay(1000), turnleft, delay(10000)>>
  <1>1. q \in Seq(Orders)
    BY DEF Orders, Walking, Turning, Looking, search, scan_down, MoveCommand, RunCommand, turnleft,
           delay, Servos, pan, tilt
  <1>2. Waits(q)
    BY DEF Waits, search, scan_down, MoveCommand, RunCommand, turnleft, delay
  <1>3. Aligned(q)
    <2>1. /\ Len(q) = 13
          /\ q[1].op = "delay" /\ q[2].op = "run" /\ q[3].op = "delay" /\ q[4].op = "run"
          /\ q[5].op = "delay" /\ q[6].op = "run" /\ q[7].op = "delay" /\ q[8].op = "run"
          /\ q[9].op = "delay" /\ q[11].op = "delay" /\ q[12].op = "move" /\ q[13].op = "delay"
      BY DEF scan_down, turnleft, MoveCommand, RunCommand, delay
    <2> HIDE DEF q
    <2>2. \A i \in 1 .. 13 : Looks(q, i) => i = 10
      BY <2>1 DEF Looks
    <2>3. \A j \in 1 .. 10 - 1 : q[j].op # "move"
      BY <2>1
    <2>4. \A x : Unmoved(q, 10, x)
      BY <2>3 DEF Unmoved, Turns
    <2>5. QED
      BY <2>1, <2>2, <2>4 DEF Aligned
  <1>4. r \in Seq(Walking)
    BY DEF Walking, delay, turnleft, RunCommand
  <1>5. search_left_wall = yun_reset \o q \o yun_reset \o r
    BY DEF search_left_wall
  <1> HIDE DEF q, r
  <1>6. Blind(r) /\ Blind(yun_reset) /\ EndsStraight(yun_reset)
    BY <1>4, WalkIsBlind, ResetIsBlind
  <1>7. Part(q) /\ Part(r) /\ Part(yun_reset) /\ Aligning(yun_reset) /\ Aligning(r)
    BY <1>1, <1>2, <1>6, BlindIsPart DEF Part
  <1>8. Part(yun_reset \o q) /\ Aligning(yun_reset \o q)
    BY <1>3, <1>6, <1>7, PartConcat, AlignedConcat DEF Part
  <1>9. Part(yun_reset \o q \o yun_reset) /\ Aligning(yun_reset \o q \o yun_reset)
    BY <1>7, <1>8, PartConcat, AlignedConcat DEF Part
  <1>10. Part(yun_reset \o q \o yun_reset \o r) /\ Aligning(yun_reset \o q \o yun_reset \o r)
    BY <1>7, <1>9, PartConcat, AlignedConcat DEF Part
  <1>11. QED
    BY <1>5, <1>10

\* A lap waits, looks straight if the head was straight before it, and leaves it so.
LEMMA LoopFacts == Part(loop) /\ Aligned(loop) /\ EndsStraight(loop)
  <1>1. /\ Part(begin_Go) /\ Part(search_front_wall) /\ Part(search_left_wall)
        /\ Part(search_rand) /\ Part(complete)
    BY BeginFacts, LeftFacts, FrontIsBlind, RandIsBlind, CompleteFacts, BlindIsPart
  <1>2. /\ Aligned(begin_Go) /\ Aligning(search_front_wall) /\ Aligning(search_left_wall)
        /\ Aligning(search_rand) /\ Aligning(complete) /\ EndsStraight(complete)
    BY BeginFacts, LeftFacts, FrontIsBlind, RandIsBlind, CompleteFacts, BlindIsPart
  <1>3. /\ Part(begin_Go \o search_front_wall) /\ Aligned(begin_Go \o search_front_wall)
    BY <1>1, <1>2, PartConcat, AlignedConcat DEF Part
  <1>4. /\ Part(begin_Go \o search_front_wall \o search_left_wall)
        /\ Aligned(begin_Go \o search_front_wall \o search_left_wall)
    BY <1>1, <1>2, <1>3, PartConcat, AlignedConcat DEF Part
  <1>5. /\ Part(begin_Go \o search_front_wall \o search_left_wall \o search_rand)
        /\ Aligned(begin_Go \o search_front_wall \o search_left_wall \o search_rand)
    BY <1>1, <1>2, <1>4, PartConcat, AlignedConcat DEF Part
  <1>6. /\ Part(loop) /\ Aligned(loop) /\ EndsStraight(loop)
    BY <1>1, <1>2, <1>5, PartConcat, AlignedConcat, EndsConcat DEF Part, loop
  <1>7. QED
    BY <1>6

\* Going on, the robot walks and looks again.
LEMMA GoOnFacts ==
  /\ Part(GoOn) /\ Aligned(GoOn) /\ Len(GoOn) = 5
  /\ \A i \in 1 .. 5 : GoOn[i].op # "move"
  /\ \A x : \A i \in 1 .. 6 : Unmoved(GoOn, i, x)
  <1>1. GoOn \in Seq(Orders)
    BY DEF GoOn, Orders, Walking, Looking, RunCommand, delay, search
  <1>2. Len(GoOn) = 5 /\ \A i \in 1 .. 5 : GoOn[i].op # "move"
    BY DEF GoOn, RunCommand, delay, search
  <1>3. \A x : \A i \in 1 .. 6 : Unmoved(GoOn, i, x)
    BY <1>2 DEF Unmoved, Turns
  <1>4. QED
    BY <1>1, <1>2, <1>3 DEF Part, Waits, Aligned

\* What one order carried out leaves.
LEMMA TailOrders ==
  ASSUME NEW q \in Seq(Orders), q # << >>
  PROVE  /\ Tail(q) \in Seq(Orders) /\ Head(q) = q[1] /\ q[1] \in Orders
         /\ Len(q) \in Nat /\ Len(Tail(q)) = Len(q) - 1 /\ 1 \in 1 .. Len(q)
         /\ \A j \in 1 .. Len(Tail(q)) : j + 1 \in 1 .. Len(q) /\ Tail(q)[j] = q[j + 1]
  <1>1. Tail(q) \in Seq(Orders) /\ Head(q) = q[1] /\ Len(q) \in Nat /\ Len(Tail(q)) = Len(q) - 1
    OBVIOUS
  <1>2. 1 \in 1 .. Len(q)
    OBVIOUS
  <1>3. q[1] \in Orders
    BY <1>2
  <1>4. \A j \in 1 .. Len(Tail(q)) : j + 1 \in 1 .. Len(q) /\ Tail(q)[j] = q[j + 1]
    BY <1>1
  <1>5. QED
    BY <1>1, <1>2, <1>3, <1>4

LEMMA TailWaits ==
  ASSUME NEW q \in Seq(Orders), q # << >>, Waits(q)
  PROVE  /\ Waits(Tail(q))
         /\ q[1].op = "move" =>
              Tail(q) # << >> /\ Head(Tail(q)).op = "delay" /\ Head(Tail(q)).time >= q[1].time
  <1> DEFINE r == Tail(q)
  <1>1. /\ r \in Seq(Orders) /\ Len(q) \in Nat /\ Len(r) = Len(q) - 1 /\ 1 \in 1 .. Len(q)
        /\ \A j \in 1 .. Len(r) : j + 1 \in 1 .. Len(q) /\ r[j] = q[j + 1]
    BY TailOrders
  <1> HIDE DEF r
  <1>2. ASSUME NEW i \in 1 .. Len(r), r[i].op = "move"
        PROVE  i < Len(r) /\ r[i + 1].op = "delay" /\ r[i + 1].time >= r[i].time
    <2>1. PICK k : k = i + 1
      OBVIOUS
    <2>2. k \in 1 .. Len(q) /\ r[i] = q[k]
      BY <1>1, <2>1
    <2>3. k < Len(q) /\ q[k + 1].op = "delay" /\ q[k + 1].time >= q[k].time
      BY <1>2, <2>2 DEF Waits
    <2>4. i + 1 \in 1 .. Len(r) /\ i < Len(r) /\ (i + 1) + 1 = k + 1
      BY <1>1, <2>1, <2>3
    <2>5. r[i + 1] = q[k + 1]
      BY <1>1, <2>4
    <2>6. QED
      BY <2>2, <2>3, <2>4, <2>5
  <1>3. ASSUME q[1].op = "move"
        PROVE  r # << >> /\ Head(r).op = "delay" /\ Head(r).time >= q[1].time
    <2>1. 1 < Len(q) /\ q[1 + 1].op = "delay" /\ q[1 + 1].time >= q[1].time
      BY <1>1, <1>3 DEF Waits
    <2>2. 1 \in 1 .. Len(r) /\ r[1] = q[1 + 1]
      BY <1>1, <2>1
    <2>3. r # << >> /\ Head(r) = r[1]
      BY <1>1, <2>2
    <2>4. QED
      BY <2>1, <2>2, <2>3
  <1>4. QED
    BY <1>2, <1>3 DEF r, Waits

LEMMA TailAim ==
  ASSUME NEW q \in Seq(Orders), q # << >>, NEW i \in 1 .. Len(Tail(q)) + 1, NEW x
  PROVE  /\ Straight(q, i + 1, x) =>
              \/ Straight(Tail(q), i, x)
              \/ Turns(q, 1, x) /\ q[1].position = 1500 /\ Unmoved(Tail(q), i, x)
         /\ Unmoved(q, i + 1, x) => ~Turns(q, 1, x) /\ Unmoved(Tail(q), i, x)
  <1> DEFINE r == Tail(q)
  <1>1. /\ r \in Seq(Orders) /\ Len(q) \in Nat /\ Len(r) = Len(q) - 1 /\ 1 \in 1 .. Len(q)
        /\ \A j \in 1 .. Len(r) : j + 1 \in 1 .. Len(q) /\ r[j] = q[j + 1]
    BY TailOrders
  <1> HIDE DEF r
  <1>2. \A j \in 1 .. Len(r) : Turns(r, j, x) <=> Turns(q, j + 1, x)
    BY <1>1 DEF Turns
  <1>3. i \in 1 .. Len(r) + 1
    BY DEF r
  <1>4. ASSUME NEW k \in 0 .. i - 1, \A j \in (k + 1) + 1 .. (i + 1) - 1 : ~Turns(q, j, x)
        PROVE  \A j \in k + 1 .. i - 1 : ~Turns(r, j, x)
    <2>1. \A j \in k + 1 .. i - 1 : j \in 1 .. Len(r) /\ j + 1 \in (k + 1) + 1 .. (i + 1) - 1
      BY <1>1, <1>3
    <2>2. QED
      BY <1>2, <1>4, <2>1
  <1>5. ASSUME Straight(q, i + 1, x)
        PROVE  \/ Straight(r, i, x)
               \/ Turns(q, 1, x) /\ q[1].position = 1500 /\ Unmoved(r, i, x)
    <2>1. PICK m \in 1 .. (i + 1) - 1 : /\ Turns(q, m, x) /\ q[m].position = 1500
                                        /\ \A j \in m + 1 .. (i + 1) - 1 : ~Turns(q, j, x)
      BY <1>5 DEF Straight
    <2>2. PICK k : k = m - 1
      OBVIOUS
    <2>3. k \in 0 .. i - 1 /\ m = k + 1
      BY <1>3, <2>2
    <2>4. \A j \in (k + 1) + 1 .. (i + 1) - 1 : ~Turns(q, j, x)
      BY <2>1, <2>3
    <2>5. \A j \in k + 1 .. i - 1 : ~Turns(r, j, x)
      BY <1>4, <2>3, <2>4
    <2>6. CASE k = 0
      <3>1. Turns(q, 1, x) /\ q[1].position = 1500
        BY <2>1, <2>3, <2>6
      <3>2. Unmoved(r, i, x)
        BY <2>5, <2>6 DEF Unmoved
      <3>3. QED
        BY <3>1, <3>2
    <2>7. CASE k # 0
      <3>1. k \in 1 .. i - 1 /\ k \in 1 .. Len(r)
        BY <1>1, <1>3, <2>3, <2>7
      <3>2. Turns(r, k, x) /\ r[k].position = 1500
        BY <1>1, <1>2, <2>1, <2>3, <3>1
      <3>3. QED
        BY <2>5, <3>1, <3>2 DEF Straight
    <2>8. QED
      BY <2>6, <2>7
  <1>6. ASSUME Unmoved(q, i + 1, x)
        PROVE  ~Turns(q, 1, x) /\ Unmoved(r, i, x)
    <2>1. \A j \in 1 .. (i + 1) - 1 : ~Turns(q, j, x)
      BY <1>6 DEF Unmoved
    <2>2. 1 \in 1 .. (i + 1) - 1
      BY <1>1, <1>3
    <2>3. 0 \in 0 .. i - 1 /\ \A j \in (0 + 1) + 1 .. (i + 1) - 1 : ~Turns(q, j, x)
      BY <1>1, <1>3, <2>1
    <2>4. \A j \in 0 + 1 .. i - 1 : ~Turns(r, j, x)
      BY <1>4, <2>3
    <2>5. QED
      BY <2>1, <2>2, <2>4 DEF Unmoved
  <1>7. QED
    BY <1>5, <1>6 DEF r

-----------------------------------------------------------------------------
(* AutoGo: the head. *)

\* Before place i of q the head is straight, when it is at goal p before q.
Aims(q, i, x, p) == Straight(q, i, x) \/ (Unmoved(q, i, x) /\ p = 1500)

\* A servo still under way is what the robot waits for; and wherever the rest of
\* the course looks, and at its end, the head is straight.
GoInv ==
  /\ Part(todo)
  /\ goal \in [Servos -> Nat]
  /\ moving \in [Servos -> Nat]
  /\ \A x \in Servos : moving[x] > 0 =>
       todo # << >> /\ Head(todo).op = "delay" /\ Head(todo).time >= moving[x]
  /\ \A i \in 1 .. Len(todo) + 1 : (i = Len(todo) + 1 \/ Looks(todo, i)) =>
       \A x \in Servos : Aims(todo, i, x, goal[x])

LEMMA EmptyAims ==
  ASSUME NEW q, NEW x
  PROVE  ~Straight(q, 1, x) /\ Unmoved(q, 1, x)
  BY DEF Straight, Unmoved

\* An order that is not a delay finds the head at rest.
LEMMA AtRest ==
  ASSUME GoInv, todo = << >> \/ Head(todo).op # "delay"
  PROVE  \A x \in Servos : moving[x] = 0
  <1>1. \A x \in Servos : moving[x] \in Nat /\ ~(moving[x] > 0)
    BY DEF GoInv
  <1>2. QED
    BY <1>1

\* Where the course looks next, the head is straight.
LEMMA AtLook ==
  ASSUME GoInv, todo = << >> \/ Head(todo).op \in {"scan", "search"}
  PROVE  \A x \in Servos : goal[x] = 1500
  <1>1. todo \in Seq(Orders) /\ Len(todo) \in Nat
    BY DEF GoInv, Part
  <1>2. 1 \in 1 .. Len(todo) + 1 /\ (1 = Len(todo) + 1 \/ Looks(todo, 1))
    <2>1. CASE todo = << >>
      BY <2>1
    <2>2. CASE todo # << >>
      BY <1>1, <2>2, TailOrders DEF Looks
    <2>3. QED
      BY <2>1, <2>2
  <1>3. \A x \in Servos : Aims(todo, 1, x, goal[x])
    BY <1>2 DEF GoInv
  <1>4. QED
    BY <1>3, EmptyAims DEF Aims

LEMMA Rests ==
  ASSUME NEW f \in [Servos -> Nat], NEW q, \A x \in Servos : f[x] = 0
  PROVE  \A x \in Servos : f[x] > 0 => q # << >> /\ Head(q).op = "delay" /\ Head(q).time >= f[x]
  OBVIOUS

\* The rest of the course after its first order.
LEMMA TailKeeps ==
  ASSUME GoInv, todo # << >>
  PROVE  /\ Part(Tail(todo)) /\ todo \in Seq(Orders)
         /\ \A i \in 1 .. Len(Tail(todo)) + 1 :
              (i = Len(Tail(todo)) + 1 \/ Looks(Tail(todo), i)) =>
                \A x \in Servos : IF Turns(todo, 1, x)
                                  THEN Aims(Tail(todo), i, x, todo[1].position)
                                  ELSE Aims(Tail(todo), i, x, goal[x])
  <1>1. todo \in Seq(Orders) /\ Waits(todo)
    BY DEF GoInv, Part
  <1>2. Part(Tail(todo))
    BY <1>1, TailOrders, TailWaits DEF Part
  <1>3. /\ Len(todo) \in Nat /\ Len(Tail(todo)) = Len(todo) - 1
        /\ \A j \in 1 .. Len(Tail(todo)) : j + 1 \in 1 .. Len(todo) /\ Tail(todo)[j] = todo[j + 1]
    BY <1>1, TailOrders
  <1>4. ASSUME NEW i \in 1 .. Len(Tail(todo)) + 1, i = Len(Tail(todo)) + 1 \/ Looks(Tail(todo), i),
               NEW x \in Servos
        PROVE  IF Turns(todo, 1, x) THEN Aims(Tail(todo), i, x, todo[1].position)
                                    ELSE Aims(Tail(todo), i, x, goal[x])
    <2>1. i + 1 \in 1 .. Len(todo) + 1 /\ (i + 1 = Len(todo) + 1 \/ Looks(todo, i + 1))
      <3>1. CASE i = Len(Tail(todo)) + 1
        BY <1>3, <3>1
      <3>2. CASE i # Len(Tail(todo)) + 1
        <4>0. PICK n : n = Len(Tail(todo))
          OBVIOUS
        <4>1. i \in 1 .. Len(Tail(todo)) /\ Looks(Tail(todo), i)
          <5>0. Len(Tail(todo)) \in Nat
            BY <1>2 DEF Part
          <5>1. n \in Nat /\ i \in 1 .. n + 1 /\ i # n + 1
            BY <3>2, <4>0, <5>0
          <5>2. i \in 1 .. n
            BY <5>1
          <5>3. QED
            BY <1>4, <3>2, <4>0, <5>2
        <4>2. i + 1 \in 1 .. Len(todo) /\ Looks(todo, i + 1)
          BY <1>3, <4>1 DEF Looks
        <4>3. QED
          BY <1>3, <4>2
      <3>3. QED
        BY <3>1, <3>2
    <2>2. Straight(todo, i + 1, x) \/ (Unmoved(todo, i + 1, x) /\ goal[x] = 1500)
      BY <2>1 DEF GoInv, Aims
    <2>3. /\ Straight(todo, i + 1, x) =>
               \/ Straight(Tail(todo), i, x)
               \/ Turns(todo, 1, x) /\ todo[1].position = 1500 /\ Unmoved(Tail(todo), i, x)
          /\ Unmoved(todo, i + 1, x) => ~Turns(todo, 1, x) /\ Unmoved(Tail(todo), i, x)
      BY <1>1, TailAim
    <2>4. QED
      BY <2>2, <2>3 DEF Aims
  <1>5. QED
    BY <1>1, <1>2, <1>4

LEMMA GoInitInv == GoInit => GoInv
  <1> SUFFICES ASSUME GoInit PROVE GoInv
    OBVIOUS
  <1>1. todo = setup /\ goal = [s \in Servos |-> 0] /\ moving = [s \in Servos |-> 0]
    BY DEF GoInit
  <1>2. Part(todo) /\ Aligning(todo) /\ EndsStraight(todo)
    BY <1>1, SetupFacts, BlindIsPart
  <1>3. goal \in [Servos -> Nat] /\ moving \in [Servos -> Nat] /\ \A x \in Servos : moving[x] = 0
    BY <1>1
  <1>4. \A x \in Servos : moving[x] > 0 =>
          todo # << >> /\ Head(todo).op = "delay" /\ Head(todo).time >= moving[x]
    BY <1>3, Rests
  <1>5. ASSUME NEW i \in 1 .. Len(todo) + 1, i = Len(todo) + 1 \/ Looks(todo, i), NEW x \in Servos
        PROVE  Straight(todo, i, x)
    <2>1. Len(todo) \in Nat
      BY <1>2 DEF Part
    <2>2. CASE i = Len(todo) + 1
      BY <1>2, <2>2 DEF EndsStraight
    <2>3. CASE i # Len(todo) + 1
      <3>1. i \in 1 .. Len(todo)
        BY <2>1, <2>3
      <3>2. QED
        BY <1>2, <1>5, <2>3, <3>1 DEF Aligning
    <2>4. QED
      BY <2>2, <2>3
  <1>6. QED
    BY <1>2, <1>3, <1>4, <1>5 DEF GoInv, Aims

\* An order that moves nothing, and one of the moves.
LEMMA PlainStep ==
  ASSUME GoInv, todo # << >>, todo[1].op # "move", todo' = Tail(todo), UNCHANGED goal,
         moving' \in [Servos -> Nat], \A x \in Servos : moving'[x] = 0
  PROVE  GoInv'
  <1>1. Part(Tail(todo)) /\ goal \in [Servos -> Nat]
    BY TailKeeps DEF GoInv
  <1>2. \A x : ~Turns(todo, 1, x)
    BY DEF Turns
  <1>3. \A i \in 1 .. Len(Tail(todo)) + 1 :
          (i = Len(Tail(todo)) + 1 \/ Looks(Tail(todo), i)) =>
            \A x \in Servos : Aims(Tail(todo), i, x, goal[x])
    BY <1>2, TailKeeps
  <1>4. \A x \in Servos : moving'[x] > 0 =>
          todo' # << >> /\ Head(todo').op = "delay" /\ Head(todo').time >= moving'[x]
    BY Rests
  <1>5. QED
    BY <1>1, <1>3, <1>4 DEF GoInv

LEMMA MoveStep ==
  ASSUME GoInv, MoveServo
  PROVE  GoInv'
  <1>1. todo # << >> /\ Head(todo).op = "move" /\ todo' = Tail(todo)
    BY DEF MoveServo, NextIs
  <1>2. PICK m : m = Head(todo)
    OBVIOUS
  <1>3. todo \in Seq(Orders) /\ Waits(todo) /\ goal \in [Servos -> Nat] /\ moving \in [Servos -> Nat]
    BY DEF GoInv, Part
  <1>4. m = todo[1] /\ m \in Orders /\ m.op = "move"
    BY <1>1, <1>2, <1>3, TailOrders
  <1>5. m.servo \in Servos /\ m.position \in Nat /\ m.time \in Nat
    BY <1>4, KindsOfOrders
  <1>6. goal' = [goal EXCEPT ![m.servo] = m.position] /\ moving' = [moving EXCEPT ![m.servo] = m.time]
    BY <1>2 DEF MoveServo
  <1>7. PICK v : v = m.servo
    OBVIOUS
  <1>8. /\ goal' \in [Servos -> Nat] /\ moving' \in [Servos -> Nat]
        /\ goal'[v] = m.position /\ moving'[v] = m.time
        /\ \A x \in Servos : x # v => goal'[x] = goal[x] /\ moving'[x] = moving[x]
    BY <1>3, <1>5, <1>6, <1>7
  <1>9. \A x \in Servos : moving[x] = 0
    BY <1>1, AtRest
  <1>10. Tail(todo) # << >> /\ Head(Tail(todo)).op = "delay" /\ Head(Tail(todo)).time >= m.time
    BY <1>1, <1>3, <1>4, TailWaits
  <1>11. \A x \in Servos : moving'[x] > 0 =>
           todo' # << >> /\ Head(todo').op = "delay" /\ Head(todo').time >= moving'[x]
    BY <1>1, <1>8, <1>9, <1>10
  <1>12. \A x : Turns(todo, 1, x) <=> x = v
    BY <1>4, <1>7 DEF Turns
  <1>13. ASSUME NEW i \in 1 .. Len(Tail(todo)) + 1, i = Len(Tail(todo)) + 1 \/ Looks(Tail(todo), i),
                NEW x \in Servos
         PROVE  Aims(Tail(todo), i, x, goal'[x])
    <2>1. CASE x = v
      <3>1. Aims(Tail(todo), i, x, todo[1].position)
        BY <1>1, <1>12, <1>13, <2>1, TailKeeps
      <3>2. QED
        BY <1>4, <1>8, <2>1, <3>1
    <2>2. CASE x # v
      <3>1. Aims(Tail(todo), i, x, goal[x])
        BY <1>1, <1>12, <1>13, <2>2, TailKeeps
      <3>2. QED
        BY <1>8, <2>2, <3>1
    <2>3. QED
      BY <2>1, <2>2
  <1>14. Part(Tail(todo))
    BY <1>1, TailKeeps
  <1>15. PICK r : r = Tail(todo)
    OBVIOUS
  <1>16. Part(r) /\ todo' = r
    BY <1>1, <1>14, <1>15
  <1>17. \A i \in 1 .. Len(r) + 1 : (i = Len(r) + 1 \/ Looks(r, i)) =>
           \A x \in Servos : Aims(r, i, x, goal'[x])
    BY <1>13, <1>15
  <1>18. QED
    BY <1>8, <1>11, <1>16, <1>17 DEF GoInv

\* Going on, the rest of the course lies behind the next turn of the loop.
LEMMA GoOnStep ==
  ASSUME GoInv, SearchWall, todo' = GoOn \o Tail(todo)
  PROVE  GoInv'
  <1>1. todo # << >> /\ Head(todo).op = "search" /\ UNCHANGED <<goal, moving>>
    BY DEF SearchWall, NextIs
  <1>2. \A x \in Servos : moving[x] = 0 /\ goal[x] = 1500
    BY <1>1, AtRest, AtLook
  <1>3. todo[1].op = "search" /\ todo \in Seq(Orders)
    BY <1>1, TailOrders DEF GoInv, Part
  <1>4. PICK r : r = Tail(todo)
    OBVIOUS
  <1>5. \A x : ~Turns(todo, 1, x)
    BY <1>3 DEF Turns
  <1>6. /\ Part(r)
        /\ \A i \in 1 .. Len(r) + 1 : (i = Len(r) + 1 \/ Looks(r, i)) =>
             \A x \in Servos : Aims(r, i, x, goal[x])
    BY <1>1, <1>4, <1>5, TailKeeps
  <1>7. r \in Seq(Orders) /\ GoOn \in Seq(Orders) /\ Len(r) \in Nat /\ Part(GoOn) /\ Len(GoOn) = 5
    BY <1>6, GoOnFacts DEF Part
  <1>8. Part(GoOn \o r) /\ Len(GoOn \o r) = 5 + Len(r)
    <2>1. Part(GoOn \o r)
      BY <1>6, <1>7, PartConcat
    <2>2. Len(GoOn \o r) = Len(GoOn) + Len(r)
      BY <1>7, ConcatAt
    <2>3. QED
      BY <1>7, <2>1, <2>2
  <1>9. ASSUME NEW i \in 1 .. Len(GoOn \o r) + 1, i = Len(GoOn \o r) + 1 \/ Looks(GoOn \o r, i),
               NEW x \in Servos
        PROVE  Aims(GoOn \o r, i, x, goal[x])
    <2>1. \/ i \in 1 .. 5
          \/ \E k \in 1 .. Len(r) + 1 : i = 5 + k /\ (k = Len(r) + 1 \/ Looks(r, k))
      <3>1. CASE i = Len(GoOn \o r) + 1
        <4>1. Len(r) + 1 \in 1 .. Len(r) + 1 /\ i = 5 + (Len(r) + 1)
          BY <1>7, <1>8, <3>1
        <4>2. QED
          BY <4>1
      <3>2. CASE i # Len(GoOn \o r) + 1
        <4>1. PICK n : n = Len(GoOn \o r)
          OBVIOUS
        <4>2. n \in Nat /\ i \in 1 .. n + 1 /\ i # n + 1
          BY <1>7, <1>8, <3>2, <4>1
        <4>3. i \in 1 .. Len(GoOn \o r) /\ Looks(GoOn \o r, i)
          BY <1>9, <3>2, <4>1, <4>2
        <4>4. \/ i \in 1 .. Len(GoOn) /\ (GoOn \o r)[i] = GoOn[i]
              \/ \E k \in 1 .. Len(r) : i = Len(GoOn) + k /\ (GoOn \o r)[i] = r[k]
          BY <1>7, <4>3, ConcatPlace
        <4>5. \A k \in 1 .. Len(r) : k \in 1 .. Len(r) + 1
          OBVIOUS
        <4>6. QED
          BY <1>7, <4>3, <4>4, <4>5 DEF Looks
      <3>3. QED
        BY <3>1, <3>2
    <2>2. /\ \A j \in 1 .. Len(GoOn) + 1 : Unmoved(GoOn, j, x) => Unmoved(GoOn \o r, j, x)
          /\ \A k \in 1 .. Len(r) + 1 : Straight(r, k, x) => Straight(GoOn \o r, Len(GoOn) + k, x)
          /\ \A k \in 1 .. Len(r) + 1 : Unmoved(r, k, x) /\ Unmoved(GoOn, Len(GoOn) + 1, x)
               => Unmoved(GoOn \o r, Len(GoOn) + k, x)
      BY <1>7, ConcatAim
    <2>3. \A j \in 1 .. 6 : Unmoved(GoOn, j, x)
      BY GoOnFacts
    <2>4. CASE i \in 1 .. 5
      <3>1. i \in 1 .. 6 /\ i \in 1 .. Len(GoOn) + 1
        BY <1>7, <2>4
      <3>2. Unmoved(GoOn \o r, i, x)
        BY <2>2, <2>3, <3>1
      <3>3. QED
        BY <1>2, <3>2 DEF Aims
    <2>5. ASSUME NEW k \in 1 .. Len(r) + 1, i = 5 + k, k = Len(r) + 1 \/ Looks(r, k)
          PROVE  Aims(GoOn \o r, i, x, goal[x])
      <3>1. Straight(r, k, x) \/ (Unmoved(r, k, x) /\ goal[x] = 1500)
        BY <1>6, <2>5 DEF Aims
      <3>2. Unmoved(GoOn, Len(GoOn) + 1, x) /\ i = Len(GoOn) + k
        BY <1>7, <2>3, <2>5
      <3>3. Straight(GoOn \o r, i, x) \/ (Unmoved(GoOn \o r, i, x) /\ goal[x] = 1500)
        BY <2>2, <3>1, <3>2
      <3>4. QED
        BY <3>3 DEF Aims
    <2>6. QED
      BY <2>1, <2>4, <2>5
  <1>10. /\ goal' \in [Servos -> Nat] /\ moving' \in [Servos -> Nat]
         /\ \A x \in Servos : moving'[x] = 0
    BY <1>1, <1>2 DEF GoInv
  <1>11. \A x \in Servos : moving'[x] > 0 =>
           todo' # << >> /\ Head(todo').op = "delay" /\ Head(todo').time >= moving'[x]
    BY <1>10, Rests
  <1>12. PICK u : u = GoOn \o r
    OBVIOUS
  <1>13. todo' = u /\ goal' = goal /\ Part(u)
    BY <1>1, <1>4, <1>8, <1>12
  <1>14. \A i \in 1 .. Len(u) + 1 : (i = Len(u) + 1 \/ Looks(u, i)) =>
           \A x \in Servos : Aims(u, i, x, goal[x])
    BY <1>9, <1>12
  <1>15. QED
    BY <1>10, <1>11, <1>13, <1>14 DEF GoInv

LEMMA LoopStep ==
  ASSUME GoInv, Loop
  PROVE  GoInv'
  <1>1. todo = << >> /\ todo' = loop /\ UNCHANGED <<goal, moving>>
    BY DEF Loop
  <1>2. \A x \in Servos : moving[x] = 0 /\ goal[x] = 1500
    BY <1>1, AtRest, AtLook
  <1>3. Part(loop) /\ Aligned(loop) /\ EndsStraight(loop)
    BY LoopFacts
  <1>4. ASSUME NEW i \in 1 .. Len(loop) + 1, i = Len(loop) + 1 \/ Looks(loop, i), NEW x \in Servos
        PROVE  Aims(loop, i, x, goal[x])
    <2>1. PICK n : n = Len(loop)
      OBVIOUS
    <2>2. n \in Nat
      BY <1>3, <2>1 DEF Part
    <2>3. CASE i = n + 1
      BY <1>3, <2>1, <2>3 DEF EndsStraight, Aims
    <2>4. CASE i # n + 1
      <3>1. i \in 1 .. n
        BY <2>1, <2>2, <2>4
      <3>2. i \in 1 .. Len(loop) /\ Looks(loop, i)
        BY <1>4, <2>1, <2>4, <3>1
      <3>3. QED
        BY <1>2, <1>3, <3>2 DEF Aligned, Aims
    <2>5. QED
      BY <2>3, <2>4
  <1>5. /\ goal' \in [Servos -> Nat] /\ moving' \in [Servos -> Nat]
        /\ \A x \in Servos : moving'[x] = 0
    BY <1>1, <1>2 DEF GoInv
  <1>6. \A x \in Servos : moving'[x] > 0 =>
          todo' # << >> /\ Head(todo').op = "delay" /\ Head(todo').time >= moving'[x]
    BY <1>5, Rests
  <1>7. PICK u : u = loop
    OBVIOUS
  <1>8. todo' = u /\ goal' = goal /\ Part(u)
    BY <1>1, <1>3, <1>7
  <1>9. \A i \in 1 .. Len(u) + 1 : (i = Len(u) + 1 \/ Looks(u, i)) =>
          \A x \in Servos : Aims(u, i, x, goal[x])
    BY <1>4, <1>7
  <1>10. QED
    BY <1>5, <1>6, <1>8, <1>9 DEF GoInv

LEMMA DelayRests ==
  ASSUME GoInv, Delay
  PROVE  moving' \in [Servos -> Nat] /\ \A x \in Servos : moving'[x] = 0
  <1>1. PICK t : t = Head(todo).time
    OBVIOUS
  <1>2. moving' = [x \in Servos |-> IF moving[x] > t THEN moving[x] - t ELSE 0]
    BY <1>1 DEF Delay
  <1>3. todo # << >> /\ Head(todo).op = "delay" /\ todo \in Seq(Orders)
    BY DEF Delay, NextIs, GoInv, Part
  <1>4. Head(todo) \in Orders
    BY <1>3, TailOrders
  <1>5. t \in Nat
    BY <1>1, <1>3, <1>4, KindsOfOrders
  <1>6. \A x \in Servos : moving[x] \in Nat /\ (moving[x] > 0 => t >= moving[x])
    BY <1>1 DEF GoInv
  <1>7. \A x \in Servos : ~(moving[x] > t)
    BY <1>5, <1>6
  <1>8. moving' = [x \in Servos |-> 0]
    BY <1>2, <1>7
  <1>9. QED
    BY <1>8

\* Every step of the robot keeps the invariant.
LEMMA GoStep ==
  ASSUME GoInv, [GoNext]_goVars
  PROVE  GoInv'
  <1>1. todo # << >> => Head(todo) = todo[1]
    OBVIOUS
  <1>2. CASE RunGroup
    <2>1. todo # << >> /\ Head(todo).op = "run" /\ todo' = Tail(todo) /\ UNCHANGED <<goal, moving>>
      BY <1>2 DEF RunGroup, NextIs
    <2>2. moving' \in [Servos -> Nat] /\ \A x \in Servos : moving'[x] = 0
      BY <2>1, AtRest DEF GoInv
    <2>3. QED
      BY <1>1, <2>1, <2>2, PlainStep
  <1>3. CASE MoveServo
    BY <1>3, MoveStep
  <1>4. CASE Delay
    <2>1. todo # << >> /\ Head(todo).op = "delay" /\ todo' = Tail(todo) /\ UNCHANGED goal
      BY <1>4 DEF Delay, NextIs
    <2>2. QED
      BY <1>1, <1>4, <2>1, DelayRests, PlainStep
  <1>5. CASE ScanOnce
    <2>1. todo # << >> /\ Head(todo).op = "scan" /\ todo' = Tail(todo) /\ UNCHANGED <<goal, moving>>
      BY <1>5 DEF ScanOnce, NextIs
    <2>2. moving' \in [Servos -> Nat] /\ \A x \in Servos : moving'[x] = 0
      BY <2>1, AtRest DEF GoInv
    <2>3. QED
      BY <1>1, <2>1, <2>2, PlainStep
  <1>6. CASE SearchWall
    <2>1. todo # << >> /\ Head(todo).op = "search" /\ UNCHANGED <<goal, moving>>
      BY <1>6 DEF SearchWall, NextIs
    <2>2. todo' = (IF currdist' < 35 THEN << >> ELSE GoOn) \o Tail(todo)
      BY <1>6 DEF SearchWall
    <2>3. CASE currdist' < 35
      <3>1. todo' = << >> \o Tail(todo)
        BY <2>2, <2>3
      <3>2. Tail(todo) \in Seq(Orders)
        BY <2>1, TailOrders DEF GoInv, Part
      <3>3. todo' = Tail(todo)
        BY <3>1, <3>2
      <3>4. moving' \in [Servos -> Nat] /\ \A x \in Servos : moving'[x] = 0
        BY <2>1, AtRest DEF GoInv
      <3>5. QED
        BY <1>1, <2>1, <3>3, <3>4, PlainStep
    <2>4. CASE ~(currdist' < 35)
      <3>1. todo' = GoOn \o Tail(todo)
        BY <2>2, <2>4
      <3>2. QED
        BY <1>6, <3>1, GoOnStep
    <2>5. QED
      BY <2>3, <2>4
  <1>7. CASE Loop
    BY <1>7, LoopStep
  <1>8. CASE UNCHANGED goVars
    BY <1>8 DEF GoInv, goVars
  <1>9. QED
    BY <1>2, <1>3, <1>4, <1>5, <1>6, <1>7, <1>8 DEF GoNext

LEMMA GoInvariant == GoSpec => []GoInv
  <1>1. GoInit => GoInv
    BY GoInitInv
  <1>2. GoInv /\ [GoNext]_goVars => GoInv'
    BY GoStep
  <1>3. QED
    BY <1>1, <1>2, PTL DEF GoSpec

\* No servo of the head is sent on before it has arrived, and the sensor on it
\* measures only what is straight ahead, on every lap (autogoV2.ino 26-212).
THEOREM HeadIsSettled == GoSpec => []HeadSettled
  <1>1. GoInv => HeadSettled
    <2> SUFFICES ASSUME GoInv, todo # << >>
                 PROVE  /\ Head(todo).op = "move" => moving[Head(todo).servo] = 0
                        /\ Head(todo).op \in {"scan", "search"} =>
                             \A s \in Servos : goal[s] = 1500 /\ moving[s] = 0
      BY DEF HeadSettled
    <2>1. ASSUME Head(todo).op = "move"
          PROVE  moving[Head(todo).servo] = 0
      <3>1. Head(todo) \in Orders
        BY TailOrders DEF GoInv, Part
      <3>2. Head(todo).servo \in Servos
        BY <2>1, <3>1, KindsOfOrders
      <3>3. QED
        BY <2>1, <3>2, AtRest
    <2>2. ASSUME Head(todo).op \in {"scan", "search"}
          PROVE  \A s \in Servos : goal[s] = 1500 /\ moving[s] = 0
      BY <2>2, AtRest, AtLook
    <2>3. QED
      BY <2>1, <2>2
  <1>2. QED
    BY <1>1, GoInvariant, PTL

\* At most one of the echoes is lost: then all came back, or all but the one.
LEMMA OneEchoLost ==
  ASSUME NEW dis \in [1 .. 5 -> Nat], ~(Cardinality({i \in 1 .. 5 : dis[i] = 0}) > 1)
  PROVE  \/ \A i \in 1 .. 5 : dis[i] # 0
         \/ /\ Cardinality({i \in 1 .. 5 : dis[i] = 0}) = 1
            /\ \E j \in 1 .. 5 : \A i \in 1 .. 5 : dis[i] = 0 <=> i = j
  <1> DEFINE Z == {i \in 1 .. 5 : dis[i] = 0}
  <1>1. IsFiniteSet(Z)
    <2>1. 1 \in Int /\ 5 \in Int /\ Z \subseteq 1 .. 5
      OBVIOUS
    <2>2. IsFiniteSet(1 .. 5)
      BY ONLY <2>1, FS_Interval
    <2>3. QED
      BY <2>1, <2>2, FS_Subset
  <1>2. SUFFICES ASSUME NEW j \in Z
                 PROVE  Z = {j}
    <2>1. CASE Z = {}
      BY <2>1
    <2>2. ASSUME NEW j \in Z, Z = {j}
          PROVE  /\ Cardinality(Z) = 1
                 /\ \A i \in 1 .. 5 : dis[i] = 0 <=> i = j
      <3>1. Cardinality({j}) = 1
        BY FS_Singleton
      <3>2. \A i \in 1 .. 5 : dis[i] = 0 <=> i \in Z
        OBVIOUS
      <3>3. QED
        BY <2>2, <3>1, <3>2
    <2>3. QED
      BY <1>2, <2>1, <2>2
  <1>3. SUFFICES ASSUME NEW k \in Z, k # j
                 PROVE  FALSE
    OBVIOUS
  <1>4. Cardinality({j}) = 1 /\ IsFiniteSet({j})
    BY FS_Singleton
  <1>5. Cardinality({j} \cup {k}) = 2 /\ IsFiniteSet({j} \cup {k})
    BY <1>3, <1>4, FS_AddElement
  <1>6. Cardinality({j} \cup {k}) <= Cardinality(Z)
    <2>1. {j} \cup {k} \subseteq Z
      BY <1>2, <1>3
    <2>2. QED
      BY <1>1, <2>1, FS_Subset
  <1>7. Cardinality(Z) \in Nat
    BY <1>1, FS_CardinalityType
  <1>8. QED
    BY <1>5, <1>6, <1>7

\* An average below 35 has a distance below 35 in it, unless echoes were lost.
LEMMA AverageBelow ==
  ASSUME NEW dis \in [1 .. 5 -> Nat], NEW back, NEW n,
         back = {dis[i] : i \in 1 .. 5} \ {0},
         n = Cardinality({i \in 1 .. 5 : dis[i] = 0})
  PROVE  /\ MeasuringDistance(dis) < 35 =>
              \/ \E d \in back : d < 35
              \/ n = 1 /\ \E d \in back : d < 44
              \/ n > 1
         /\ (\A d \in back : d < 35) => MeasuringDistance(dis) < 35
  <1>1. /\ dis[1] \in Nat /\ dis[2] \in Nat /\ dis[3] \in Nat /\ dis[4] \in Nat /\ dis[5] \in Nat
    OBVIOUS
  <1>2. \A i \in 1 .. 5 : dis[i] # 0 => dis[i] \in back
    OBVIOUS
  <1>3. ASSUME \A d \in back : d < 35
        PROVE  MeasuringDistance(dis) < 35
    <2>1. /\ dis[1] < 35 /\ dis[2] < 35 /\ dis[3] < 35 /\ dis[4] < 35 /\ dis[5] < 35
      BY <1>1, <1>2, <1>3
    <2>2. QED
      BY <1>1, <2>1 DEF MeasuringDistance
  <1>4. ASSUME MeasuringDistance(dis) < 35
        PROVE  dis[1] + dis[2] + dis[3] + dis[4] + dis[5] < 175
    BY <1>1, <1>4 DEF MeasuringDistance
  <1>5. ASSUME MeasuringDistance(dis) < 35, \A i \in 1 .. 5 : dis[i] # 0
        PROVE  \E d \in back : d < 35
    <2>1. \/ dis[1] < 35 \/ dis[2] < 35 \/ dis[3] < 35 \/ dis[4] < 35 \/ dis[5] < 35
      BY <1>1, <1>4, <1>5
    <2>2. QED
      BY <1>2, <1>5, <2>1
  <1>6. ASSUME MeasuringDistance(dis) < 35, NEW j \in 1 .. 5,
               \A i \in 1 .. 5 : dis[i] = 0 <=> i = j
        PROVE  \E d \in back : d < 44
    <2>1. \E i \in 1 .. 5 : i # j /\ dis[i] < 44
      <3>1. SUFFICES ASSUME \A i \in 1 .. 5 : i # j => dis[i] >= 44
                     PROVE  FALSE
        BY <1>1
      <3>2. /\ 1 # j => dis[1] >= 44
            /\ 2 # j => dis[2] >= 44
            /\ 3 # j => dis[3] >= 44
            /\ 4 # j => dis[4] >= 44
            /\ 5 # j => dis[5] >= 44
        BY <3>1
      <3>3. dis[1] + dis[2] + dis[3] + dis[4] + dis[5] < 175
        BY <1>4, <1>6
      <3>4. j = 1 \/ j = 2 \/ j = 3 \/ j = 4 \/ j = 5
        BY <1>6
      <3>5. QED
        BY <1>1, <3>2, <3>3, <3>4
    <2>2. QED
      BY <1>2, <1>6, <2>1
  <1>7. QED
    BY <1>3, <1>5, <1>6, OneEchoLost

\* Going on to look down at a wall, the robot has measured it near or an echo was
\* lost, and a wall is never passed over (autogoV2.ino 141-151, auto.h 25-42).
THEOREM WallIsFound == GoSpec => StopsAtWall
  <1>1. GoInv /\ [GoNext]_goVars =>
          [NextIs("search") =>
             /\ Len(todo') < Len(todo) =>
                  \/ \E d \in echoes' : d < 35
                  \/ lost' = 1 /\ \E d \in echoes' : d < 44
                  \/ lost' > 1
             /\ (\A d \in echoes' : d < 35) => Len(todo') < Len(todo)]_goVars
    <2> SUFFICES ASSUME GoInv, GoNext, NextIs("search")
                 PROVE  /\ Len(todo') < Len(todo) =>
                             \/ \E d \in echoes' : d < 35
                             \/ lost' = 1 /\ \E d \in echoes' : d < 44
                             \/ lost' > 1
                        /\ (\A d \in echoes' : d < 35) => Len(todo') < Len(todo)
      OBVIOUS
    <2>1. SearchWall
      BY DEF GoNext, RunGroup, MoveServo, Delay, ScanOnce, Loop, NextIs
    <2>2. PICK dis \in [1 .. 5 -> Distances \cup {0}] :
            /\ echoes' = {dis[i] : i \in 1 .. 5} \ {0}
            /\ lost' = Cardinality({i \in 1 .. 5 : dis[i] = 0})
            /\ currdist' = MeasuringDistance(dis)
      BY <2>1 DEF SearchWall, Measure
    <2>3. dis \in [1 .. 5 -> Nat]
      <3>1. Distances \cup {0} \subseteq Nat
        BY AutoGoAssumption
      <3>2. QED
        BY <3>1
    <2>4. /\ currdist' < 35 =>
               \/ \E d \in echoes' : d < 35
               \/ lost' = 1 /\ \E d \in echoes' : d < 44
               \/ lost' > 1
          /\ (\A d \in echoes' : d < 35) => currdist' < 35
      <3>1. PICK b, n, c : b = echoes' /\ n = lost' /\ c = currdist'
        OBVIOUS
      <3>2. /\ b = {dis[i] : i \in 1 .. 5} \ {0}
            /\ n = Cardinality({i \in 1 .. 5 : dis[i] = 0})
            /\ c = MeasuringDistance(dis)
        BY <2>2, <3>1
      <3>3. /\ c < 35 => (\E d \in b : d < 35) \/ (n = 1 /\ \E d \in b : d < 44) \/ n > 1
            /\ (\A d \in b : d < 35) => c < 35
        BY <2>3, <3>2, AverageBelow
      <3>4. QED
        BY <3>1, <3>3
    <2>5. /\ Tail(todo) \in Seq(Orders) /\ GoOn \in Seq(Orders) /\ Len(todo) \in Nat
          /\ Len(Tail(todo)) = Len(todo) - 1
      BY TailOrders, GoOnFacts DEF GoInv, Part, NextIs
    <2>6. currdist' < 35 => Len(todo') < Len(todo)
      <3>1. currdist' < 35 => todo' = << >> \o Tail(todo)
        BY <2>1 DEF SearchWall
      <3>2. << >> \o Tail(todo) = Tail(todo)
        BY <2>5
      <3>3. QED
        BY <2>5, <3>1, <3>2
    <2>7. ~(currdist' < 35) => ~(Len(todo') < Len(todo))
      <3>1. ~(currdist' < 35) => todo' = GoOn \o Tail(todo)
        BY <2>1 DEF SearchWall
      <3>2. Len(GoOn \o Tail(todo)) = Len(GoOn) + Len(Tail(todo))
        BY <2>5, ConcatAt
      <3>3. Len(GoOn) = 5
        BY GoOnFacts
      <3>4. QED
        BY <2>5, <3>1, <3>2, <3>3
    <2>8. QED
      BY <2>4, <2>6, <2>7
  <1>2. QED
    BY <1>1, GoInvariant, PTL DEF GoSpec, StopsAtWall
=============================================================================
