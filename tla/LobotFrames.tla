------------------------------ MODULE LobotFrames ------------------------------
(***************************************************************************)
(* The frames of auto/autoV2/autogoV2/LobotServoController.cpp: what the   *)
(* command functions write to the servo board, byte for byte.  A frame is  *)
(* two header bytes, a length that counts itself and all that follows, a   *)
(* command and its parameters, low byte first.                             *)
(***************************************************************************)
EXTENDS Integers, Sequences

Byte == 0 .. 255
MaxWord == 65535                              \* UINT16_MAX
Word == 0 .. MaxWord                          \* uint16_t

FRAME_HEADER == 85                            \* 0x55
CMD_SERVO_MOVE == 3
CMD_ACTION_GROUP_RUN == 6
CMD_ACTION_GROUP_STOP == 7
CMD_ACTION_GROUP_SPEED == 11
CMD_GET_BATTERY_VOLTAGE == 15

GET_LOW_BYTE(a) == a % 256
GET_HIGH_BYTE(a) == (a \div 256) % 256
BYTE_TO_HW(a, b) == a * 256 + b

AllGroups == 255                              \* 0xFF: every action group, or none

runActionGroup(group, times) ==
  <<FRAME_HEADER, FRAME_HEADER, 5, CMD_ACTION_GROUP_RUN,
    group, GET_LOW_BYTE(times), GET_HIGH_BYTE(times)>>

\* Mutant: the length does not count itself.
stopActiongGroupShort == <<FRAME_HEADER, FRAME_HEADER, 1, CMD_ACTION_GROUP_STOP>>

stopActiongGroup == <<FRAME_HEADER, FRAME_HEADER, 2, CMD_ACTION_GROUP_STOP>>

setActionGroupSpeed(group, speed) ==
  <<FRAME_HEADER, FRAME_HEADER, 5, CMD_ACTION_GROUP_SPEED,
    group, GET_LOW_BYTE(speed), GET_HIGH_BYTE(speed)>>

setAllActionGroupSpeed(speed) == setActionGroupSpeed(AllGroups, speed)

getBatteryVoltage == <<FRAME_HEADER, FRAME_HEADER, 2, CMD_GET_BATTERY_VOLTAGE>>

\* The calls moveServo and moveServos obey; any other writes nothing.
Movable(servoID, time) == servoID <= 31 /\ time > 0
MovableAll(servos, time) == Len(servos) \in 1 .. 32 /\ time > 0

moveServo(servoID, position, time) ==
  <<FRAME_HEADER, FRAME_HEADER, 8, CMD_SERVO_MOVE,
    1, GET_LOW_BYTE(time), GET_HIGH_BYTE(time),
    servoID, GET_LOW_BYTE(position), GET_HIGH_BYTE(position)>>

\* Three bytes for each servo: its ID and its position.
ServoBytes(servos) ==
  [i \in 1 .. 3 * Len(servos) |->
     LET s == servos[(i - 1) \div 3 + 1]
     IN  CASE i % 3 = 1 -> s.ID
           [] i % 3 = 2 -> GET_LOW_BYTE(s.Position)
           [] i % 3 = 0 -> GET_HIGH_BYTE(s.Position)]

moveServos(servos, time) ==
  <<FRAME_HEADER, FRAME_HEADER, (Len(servos) * 3 + 5) % 256, CMD_SERVO_MOVE,
    Len(servos), GET_LOW_BYTE(time), GET_HIGH_BYTE(time)>> \o ServoBytes(servos)
=============================================================================
