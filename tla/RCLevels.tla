------------------------------ MODULE RCLevels ------------------------------
(***************************************************************************)
(* What a stick or switch of the pilot comes to (rc_input.c): sixteen      *)
(* channels of eleven bits in the 22 bytes of an SBUS frame, the levels    *)
(* from -1 to 1 they are calibrated to, and the positions of a switch.     *)
(* A level is a fraction; the rounding of floats is left out.              *)
(***************************************************************************)
EXTENDS Integers

CONSTANTS
    Positions,      \* the raw values one channel of the transmitter goes through
    Rests,          \* the raw value of all others
    Calibrations    \* bottom, center and top of the channels

ASSUME CalibrationAssumption ==
    /\ Positions \subseteq 1 .. 2047 /\ Rests \subseteq 0 .. 2047
    /\ Calibrations \subseteq [bottom : Nat, center : Nat, top : Nat]
    /\ \A c \in Calibrations : /\ c.bottom <= c.center /\ c.center <= c.top
                               /\ c.bottom < c.top

SbusChannels == 0 .. 15
Types == {"ANALOG", "3_STATE", "ON_OFF"}

VARIABLES
    sticks,         \* the transmitter: the raw value of each channel
    moved,          \* the channel that is moved
    setting,        \* of rcinput_settings, the same for each channel
    value,          \* rcinput_data.value, 0 before the first frame
    calibrated      \* rcinput_data.calibrated_values.calibrated_value

levelVars == <<sticks, moved, setting, value, calibrated>>
-----------------------------------------------------------------------------
\* The transmitter: bit i of channel c is bit 11 c + i of the frame, least first.
Bit(raw, n) == (raw[n \div 11] \div 2^(n % 11)) % 2
SbusFrame(raw) ==
    [n \in 0 .. 21 |->
        Bit(raw, 8 * n) + 2 * Bit(raw, 8 * n + 1) + 4 * Bit(raw, 8 * n + 2)
        + 8 * Bit(raw, 8 * n + 3) + 16 * Bit(raw, 8 * n + 4) + 32 * Bit(raw, 8 * n + 5)
        + 64 * Bit(raw, 8 * n + 6) + 128 * Bit(raw, 8 * n + 7)]

\* The first byte of each channel and how far it is shifted down; the same again
\* from byte 11 for the channels from 8.
Pieces == << <<0, 0>>, <<1, 3>>, <<2, 6>>, <<4, 1>>, <<5, 4>>, <<6, 7>>, <<8, 2>>, <<9, 5>> >>

\* Mutant: the third byte of a channel that has one is forgotten.
UnpackTwo(pld, c) ==
    LET piece == Pieces[(c % 8) + 1]
        first == piece[1] + 11 * (c \div 8)
        shift == piece[2]
    IN  (pld[first] \div 2^shift + pld[first + 1] * 2^(8 - shift)) % 2048

\* The bits that | joins do not overlap.
Unpack(pld, c) ==
    LET piece == Pieces[(c % 8) + 1]
        first == piece[1] + 11 * (c \div 8)
        shift == piece[2]
    IN  (pld[first] \div 2^shift + pld[first + 1] * 2^(8 - shift)
         + (IF shift > 5 THEN pld[first + 2] * 2^(16 - shift) ELSE 0)) % 2048
-----------------------------------------------------------------------------
Whole(n) == [num |-> n, den |-> 1]
Leq(a, b) == a.num * b.den <= b.num * a.den
Less(a, b) == ~Leq(b, a)

\* n - level
From(n, level) == [num |-> n * level.den - level.num, den |-> level.den]

\* bound of trigonometry.h
Bound(max, min, x) == IF Less(Whole(max), x) THEN Whole(max)
                      ELSE IF Less(x, Whole(min)) THEN Whole(min) ELSE x

\* How far from the center, as a part of the side it is on.
Deflection(raw, s) ==
    LET off == raw - s.center
    IN  IF off > 0 /\ s.center # s.top THEN [num |-> off, den |-> s.top - s.center]
        ELSE IF off < 0 /\ s.center # s.bottom THEN [num |-> off, den |-> s.center - s.bottom]
        ELSE Whole(0)

\* GetAnalogLevel: a raw value of 0 is none.
GetAnalogLevel(raw, s) ==
    IF raw = 0 THEN Whole(0)
    ELSE IF ~s.reverse THEN Bound(1, -1, Deflection(raw, s))
    ELSE IF s.center = s.bottom THEN Bound(1, 0, From(1, Deflection(raw, s)))
    ELSE IF s.center = s.top THEN Bound(0, -1, From(-1, Deflection(raw, s)))
    ELSE Bound(1, -1, From(0, Deflection(raw, s)))

\* GetSwitchState, of a channel that a role is assigned to: the reversal once more.
GetSwitchState(level, s) ==
    LET center == [num |-> 2, den |-> 5]
        up == IF s.reverse THEN "BOTTOM" ELSE "TOP"
        down == IF s.reverse THEN "TOP" ELSE "BOTTOM"
    IN  CASE s.type = "ANALOG" -> "UNDEFINED"
          [] s.type = "3_STATE" -> IF Less(center, level) THEN up
                                   ELSE IF Less(level, From(0, center)) THEN down
                                   ELSE "CENTER"
          [] s.type = "ON_OFF" -> IF Less(level, Whole(0)) THEN down ELSE up
-----------------------------------------------------------------------------
LevelSettings == {[bottom |-> c.bottom, center |-> c.center, top |-> c.top,
              reverse |-> r, type |-> t] : c \in Calibrations, r \in BOOLEAN, t \in Types}

\* RCInputDataReset, with the settings in force.
LevelInit == /\ moved \in SbusChannels
             /\ \E rest \in Rests : sticks = [c \in SbusChannels |-> rest]
             /\ setting \in LevelSettings
             /\ value = [c \in SbusChannels |-> 0]
             /\ calibrated = [c \in SbusChannels |-> Whole(0)]

\* The end of a frame, in which the stick is further up than in the last:
\* the values and RawInputToCalibratedInput.
ReceiveFrame ==
    \E p \in Positions :
      /\ value[moved] < p
      /\ sticks' = [sticks EXCEPT ![moved] = p]
      /\ value' = [c \in SbusChannels |-> Unpack(SbusFrame(sticks'), c)]
      /\ calibrated' = [c \in SbusChannels |-> GetAnalogLevel(value'[c], setting)]
      /\ UNCHANGED <<moved, setting>>

LevelNext == ReceiveFrame

LevelSpec == LevelInit /\ [][LevelNext]_levelVars
-----------------------------------------------------------------------------
Level == calibrated[moved]
Received == value[moved] # 0

\* The two ends of the levels of a channel.
Lowest == IF setting.center = setting.bottom THEN 0 ELSE -1
Highest == IF setting.center = setting.top THEN 0 ELSE 1

\* At or beyond its ends a channel has the levels of its ends, reversed if it is.
EndsAreReached ==
    /\ value[moved] >= setting.top =>
         Level.num = Level.den * (IF setting.reverse THEN Lowest ELSE Highest)
    /\ value[moved] <= setting.bottom =>
         Level.num = Level.den * (IF setting.reverse THEN Highest ELSE Lowest)

\* A switch on a channel with a center reads the way it is, reversed or not.
SwitchIsRead ==
    setting.type # "ANALOG" /\ setting.bottom < setting.center /\ setting.center < setting.top =>
      /\ value[moved] >= setting.top => GetSwitchState(Level, setting) = "TOP"
      /\ value[moved] <= setting.bottom => GetSwitchState(Level, setting) = "BOTTOM"
      /\ value[moved] = setting.center /\ setting.type = "3_STATE" =>
           GetSwitchState(Level, setting) = "CENTER"

\* A stick moved up moves its level up, or down if it is reversed, within its ends.
FollowsStick ==
    /\ Leq(Whole(Lowest), calibrated'[moved]) /\ Leq(calibrated'[moved], Whole(Highest))
    /\ Received => IF setting.reverse THEN Leq(calibrated'[moved], Level)
                   ELSE Leq(Level, calibrated'[moved])

\* Each channel is read as it was sent, whatever the others are, and the level and the
\* switch position follow the stick over the whole of its way, for every calibration of
\* a channel with a center or without.
StickIsRead == /\ [](Received => value = sticks /\ EndsAreReached /\ SwitchIsRead)
               /\ [][FollowsStick]_levelVars
=============================================================================
