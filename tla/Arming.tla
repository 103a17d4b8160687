------------------------------- MODULE Arming -------------------------------
(***************************************************************************)
(* What may drive the motors: the arming thread (arming.c), the motor      *)
(* override command, the computer-control link (computer_control.c) and    *)
(* the choice the control thread makes among them (vUpdateControlAction).  *)
(*                                                                         *)
(* The arming thread (HIGHPRIO-1) and the control thread (HIGHPRIO-2)      *)
(* preempt the packet parsers (NORMALPRIO), never the other way round, so  *)
(* a Tick is atomic to the parsers, while the override parser is cut       *)
(* wherever one of them can come between.  The receiver is written by      *)
(* interrupts and by the SBUS thread (HIGHPRIO): a Tick may see it change  *)
(* between any two of its reads.                                           *)
(***************************************************************************)
EXTENDS Integers

CONSTANTS
    ArmRate,          \* ARM_RATE: ticks of the arming thread in a second
    CounterSize,      \* 2^16, the modulus of arm_time, disarm_time, timeout_time
    Settings,         \* the control_arm_settings_t that commands and flash hold
    DefaultSettings,  \* the one ArmingInit writes
    RcInputs,         \* what a connected receiver may show
    Lost              \* what the getters return once the connection is lost

Directions == {"NONE", "STICK", "SWITCH"}

\* The settings count in tenths of a second and in seconds; both are uint8.
ArmSettings == [direction : Directions,
                arm_stick_time : 0 .. 255,
                arm_zero_throttle_timeout : 0 .. 255]

\* The receiver as the arming thread reads it: the throttle against
\* stick_threshold, the end the arming stick is at, and the two switches.
Receiver == [connected : BOOLEAN, low : BOOLEAN,
             stick : {"ARM", "DISARM", "NO_REGION"},
             pressed : BOOLEAN, serial : BOOLEAN]

\* system_armed and the static variables of CheckArmingConditions.
ArmingState == [system_armed : BOOLEAN, latch_released : BOOLEAN,
                arm_time : 0 .. CounterSize - 1, disarm_time : 0 .. CounterSize - 1,
                timeout_time : 0 .. CounterSize - 1]

ASSUME RateAssumption == ArmRate \in Nat \ {0} /\ CounterSize \in Nat \ {0}
ASSUME SettingsAssumption == Settings \subseteq ArmSettings /\ DefaultSettings \in Settings
ASSUME RcAssumption == /\ RcInputs \subseteq Receiver
                       /\ \A r \in RcInputs : r.connected
                       /\ Lost \in Receiver /\ ~Lost.connected

VARIABLES
    arming,        \* system_armed and the static counters of CheckArmingConditions
    force_disarm,
    arm_settings,
    override,      \* override_settings: active and timeout
    parser,        \* how far vParseMotorOverride has come
    link,          \* computer_control_active, and whether computer_control.mode flies
    rc,            \* the receiver now
    \* History, read by properties only:
    held,          \* ticks at the arm position since neither end was seen, up to
                   \* the hold the settings ask for
    toggled,       \* the press of the arm switch has already armed or disarmed
    age            \* ticks since vParseMotorOverride last reset the timeout

vars == <<arming, force_disarm, arm_settings, override, parser, link, rc,
          held, toggled, age>>
history == <<held, toggled, age>>
-----------------------------------------------------------------------------
\* Half a second of ticks; beyond it the code tells no two timeouts apart.
HalfSecond == ArmRate \div 2
Later(t) == IF t > HalfSecond THEN t ELSE t + 1

Count(c) == (c + 1) % CounterSize

\* (t * 10) / ARM_RATE >= arm_stick_time
HeldLongEnough(t) == (t * 10) \div ArmRate >= arm_settings.arm_stick_time

\* SticksInRegion, of the receiver as it is when the region is read.
SticksInRegion(r) ==
    IF arm_settings.direction = "SWITCH"
    THEN IF r.pressed THEN "SWITCH_ACTIVE" ELSE "NO_REGION"
    ELSE IF r.low THEN r.stick ELSE "NO_REGION"

\* bIsSystemArmed
IsSystemArmed == arming.system_armed \/ override.active

\* ComputerControlLinkActive
LinkActive == link # "LOST"

ComputerControlEnabled(r) == IsSystemArmed /\ LinkActive /\ r.serial

\* Mutant: the timeout is not held back.
KeepForNobody(a, r) == a

\* "If the computer control is active, don't disarm based on time."
KeepForComputer(a, r) ==
    IF a.system_armed /\ ComputerControlEnabled(r) THEN [a EXCEPT !.timeout_time = 0] ELSE a

\* Mutant: a press that disarms leaves the latch released.
BySwitchUnlatched(a, region, r) ==
    IF region # "SWITCH_ACTIVE"
    THEN [a EXCEPT !.arm_time = 0, !.timeout_time = Count(@), !.latch_released = TRUE]
    ELSE IF ~a.system_armed /\ a.latch_released /\ r.low
    THEN IF HeldLongEnough(a.arm_time)
         THEN [a EXCEPT !.system_armed = TRUE, !.latch_released = FALSE]
         ELSE [a EXCEPT !.arm_time = Count(@), !.timeout_time = 0]
    ELSE IF a.system_armed /\ a.latch_released
    THEN [a EXCEPT !.system_armed = FALSE, !.arm_time = 0, !.timeout_time = 0]
    ELSE a

\* The non-latching switch: a press after a release arms once it has been held,
\* or disarms at once.
BySwitch(a, region, r) ==
    IF region # "SWITCH_ACTIVE"
    THEN [a EXCEPT !.arm_time = 0, !.timeout_time = Count(@), !.latch_released = TRUE]
    ELSE IF ~a.system_armed /\ a.latch_released /\ r.low
    THEN IF HeldLongEnough(a.arm_time)
         THEN [a EXCEPT !.system_armed = TRUE, !.latch_released = FALSE]
         ELSE [a EXCEPT !.arm_time = Count(@), !.timeout_time = 0]
    ELSE IF a.system_armed /\ a.latch_released
    THEN [a EXCEPT !.system_armed = FALSE, !.latch_released = FALSE,
                   !.arm_time = 0, !.timeout_time = 0]
    ELSE a

\* Mutant: leaving the arm position does not restart the hold.
ByStickKeepsTime(a, region) ==
    CASE region = "ARM" ->
           IF HeldLongEnough(a.arm_time)
           THEN [a EXCEPT !.system_armed = TRUE]
           ELSE [a EXCEPT !.arm_time = Count(@), !.disarm_time = 0, !.timeout_time = 0]
      [] region = "DISARM" ->
           IF HeldLongEnough(a.disarm_time)
           THEN [a EXCEPT !.system_armed = FALSE]
           ELSE [a EXCEPT !.disarm_time = Count(@), !.arm_time = 0, !.timeout_time = 0]
      [] OTHER -> [a EXCEPT !.disarm_time = 0]

\* The stick: held at one end it arms, held at the other it disarms.
ByStick(a, region) ==
    CASE region = "ARM" ->
           IF HeldLongEnough(a.arm_time)
           THEN [a EXCEPT !.system_armed = TRUE]
           ELSE [a EXCEPT !.arm_time = Count(@), !.disarm_time = 0, !.timeout_time = 0]
      [] region = "DISARM" ->
           IF HeldLongEnough(a.disarm_time)
           THEN [a EXCEPT !.system_armed = FALSE]
           ELSE [a EXCEPT !.disarm_time = Count(@), !.arm_time = 0, !.timeout_time = 0]
      [] OTHER -> [a EXCEPT !.arm_time = 0, !.disarm_time = 0]

ByPosition(a, region, r) ==
    IF arm_settings.direction = "SWITCH" THEN BySwitch(a, region, r) ELSE ByStick(a, region)

\* Mutant: zero throttle is not counted.
ByThrottleUncounted(a, r) ==
    IF arm_settings.arm_zero_throttle_timeout = 0 \/ ~a.system_armed THEN a
    ELSE IF ~r.low THEN [a EXCEPT !.timeout_time = 0]
    ELSE IF a.timeout_time \div ArmRate > arm_settings.arm_zero_throttle_timeout
    THEN [a EXCEPT !.system_armed = FALSE]
    ELSE [a EXCEPT !.arm_time = 0, !.disarm_time = 0]

\* The zero-throttle timeout.
ByThrottle(a, r) ==
    IF arm_settings.arm_zero_throttle_timeout = 0 \/ ~a.system_armed THEN a
    ELSE IF ~r.low THEN [a EXCEPT !.timeout_time = 0]
    ELSE IF a.timeout_time \div ArmRate > arm_settings.arm_zero_throttle_timeout
    THEN [a EXCEPT !.system_armed = FALSE]
    ELSE [a EXCEPT !.timeout_time = Count(@), !.arm_time = 0, !.disarm_time = 0]

ForcedDown == [system_armed |-> FALSE, arm_time |-> 0, disarm_time |-> 0,
               timeout_time |-> 0, latch_released |-> FALSE]

CanArm(r) == r.connected /\ arm_settings.direction # "NONE"

\* CheckArmingConditions.  The receiver is read four times: the connection, the
\* position and serial switch, the throttle of BySwitch, that of ByThrottle.
CheckArmingConditions(seen) ==
    IF force_disarm THEN ForcedDown
    ELSE IF ~CanArm(seen[1]) THEN [arming EXCEPT !.system_armed = FALSE]
    ELSE ByThrottle(ByPosition(KeepForComputer(arming, seen[2]),
                               SticksInRegion(seen[2]), seen[3]), seen[4])
-----------------------------------------------------------------------------
\* ArmingInit and ComputerControlInit; nothing is received yet.
Init ==
    /\ arming = ForcedDown
    /\ force_disarm = FALSE
    /\ arm_settings = DefaultSettings
    /\ override = [active |-> FALSE, timeout |-> 0]
    /\ parser = "IDLE"
    /\ link = "LOST"
    /\ rc = Lost
    /\ held = 0 /\ toggled = FALSE /\ age = 0

\* The history of a tick that ran CheckArmingConditions.
SeenByTick(seen) ==
    LET region == SticksInRegion(seen[2])
        pressed == CanArm(seen[1]) /\ region = "SWITCH_ACTIVE"
    IN  IF force_disarm
        THEN held' = 0 /\ UNCHANGED toggled
        ELSE IF ~CanArm(seen[1]) THEN UNCHANGED <<held, toggled>>
        ELSE /\ held' = IF region = "NO_REGION" THEN 0
                         ELSE IF region = "DISARM" \/ HeldLongEnough(held) THEN held
                         ELSE held + 1
             /\ toggled' = IF pressed
                           THEN toggled \/ arming'.system_armed # arming.system_armed
                           ELSE toggled /\ arm_settings.direction # "SWITCH"

\* Mutant: the timeout counts only while no override is active.
CheckMotorOverrideStuck(forced) ==
    override' = IF forced THEN [override EXCEPT !.active = FALSE]
                ELSE IF override.active
                THEN [override EXCEPT !.active = override.timeout <= HalfSecond]
                ELSE [override EXCEPT !.timeout = Later(@)]

\* CheckMotorOverride, after CheckArmingConditions has consumed force_disarm
\* (it has not if the override is active).
CheckMotorOverride(forced) ==
    override' = IF forced THEN [override EXCEPT !.active = FALSE]
                ELSE IF override.active /\ override.timeout > HalfSecond
                THEN [override EXCEPT !.active = FALSE]
                ELSE [override EXCEPT !.timeout = Later(@)]

\* One turn of ThreadControlArming; the receiver may become `later` before the
\* cut-th read.  (A change before the first read or after the last is Receive.)
Tick(later, cut) ==
    LET seen == [n \in 1 .. 4 |-> IF n < cut THEN rc ELSE later]
    IN  /\ IF override.active
           THEN UNCHANGED <<arming, force_disarm, held, toggled>>
           ELSE /\ arming' = CheckArmingConditions(seen)
                /\ force_disarm' = FALSE
                /\ SeenByTick(seen)
        /\ CheckMotorOverride(override.active /\ force_disarm)
        /\ rc' = later
        /\ age' = Later(age)
        /\ UNCHANGED <<arm_settings, parser, link>>

ArmingThread == \E later \in RcInputs \cup {Lost}, cut \in 2 .. 4 : Tick(later, cut)

\* vUpdateControlAction: what the next control cycle sends to the outputs.  It
\* keeps nothing from one cycle to the next that this choice depends on.
Outputs ==
    IF override.active
    THEN IF parser = "INSANE" THEN "UNCHECKED_OVERRIDE" ELSE "OVERRIDE"
    ELSE IF ~IsSystemArmed THEN "DEFAULT"
    ELSE IF LinkActive /\ rc.serial
    THEN IF link = "FLIES" THEN "COMPUTER" ELSE "DEFAULT"
    ELSE "MANUAL"
-----------------------------------------------------------------------------
\* vParseMotorOverride: the values are copied before they are checked, so
\* "INSANE" is both where the parser is and what override_settings.values hold.
OverrideCopy(values) ==
    /\ parser = "IDLE"
    /\ parser' = values
    /\ UNCHANGED <<arming, force_disarm, arm_settings, override, link, rc, history>>

OverrideRefuse ==
    /\ parser = "INSANE"
    /\ override' = [override EXCEPT !.active = FALSE]
    /\ parser' = "IDLE"
    /\ UNCHANGED <<arming, force_disarm, arm_settings, link, rc, history>>

\* Mutant: a new command does not restart the timeout.
OverrideContinue ==
    /\ parser = "SANE"
    /\ parser' = "ACTIVATE"
    /\ age' = 0
    /\ UNCHANGED <<arming, force_disarm, arm_settings, override, link, rc, held, toggled>>

OverrideRestart ==
    /\ parser = "SANE"
    /\ override' = [override EXCEPT !.timeout = 0]
    /\ parser' = "ACTIVATE"
    /\ age' = 0
    /\ UNCHANGED <<arming, force_disarm, arm_settings, link, rc, held, toggled>>

OverrideActivate ==
    /\ parser = "ACTIVATE"
    /\ override' = [override EXCEPT !.active = TRUE]
    /\ parser' = "IDLE"
    /\ UNCHANGED <<arming, force_disarm, arm_settings, link, rc, history>>

\* vParseComputerControlPacket, under the system lock: a mode that
\* vUpdateControlAction handles, or another.
ComputerPacket(flies) ==
    /\ parser = "IDLE"
    /\ link' = IF flies THEN "FLIES" ELSE "REFUSED"
    /\ UNCHANGED <<arming, force_disarm, arm_settings, override, parser, rc, history>>

\* vt_disarm_callback: no packet for 500 ms.  The model lets it fire at any time.
LinkTimeout ==
    /\ LinkActive
    /\ link' = "LOST"
    /\ UNCHANGED <<arming, force_disarm, arm_settings, override, parser, rc, history>>

\* ParseSetArmSettings, and FlashSave_Read of CONA at boot.
SetArmSettings(s) ==
    /\ parser = "IDLE"
    /\ arm_settings' = s
    /\ UNCHANGED <<arming, force_disarm, override, parser, link, rc, history>>

\* vForceDisarm with the right key (exported; this commit has no caller of it).
ForceDisarm ==
    /\ parser = "IDLE"
    /\ force_disarm' = TRUE
    /\ UNCHANGED <<arming, arm_settings, override, parser, link, rc, history>>

\* The receiver changes: new input, or vt_no_connection_timeout_callback.
Receive(r) ==
    /\ rc' = r
    /\ UNCHANGED <<arming, force_disarm, arm_settings, override, parser, link, history>>

OverrideParser ==
    \/ \E values \in {"SANE", "INSANE"} : OverrideCopy(values)
    \/ OverrideRefuse \/ OverrideRestart \/ OverrideActivate

Next ==
    \/ ArmingThread
    \/ OverrideParser
    \/ \E flies \in BOOLEAN : ComputerPacket(flies)
    \/ LinkTimeout
    \/ \E s \in Settings : SetArmSettings(s)
    \/ ForceDisarm
    \/ \E r \in RcInputs \cup {Lost} : Receive(r)

Spec == Init /\ [][Next]_vars

\* The arming thread sleeps a fixed time and is never starved, and its turns,
\* a few microseconds long, are not for ever hit by a change of the receiver,
\* milliseconds apart; a parser that has begun goes on.
FairSpec == /\ Spec
            /\ WF_vars(Tick(rc, 4))
            /\ WF_vars(OverrideRefuse \/ OverrideRestart \/ OverrideActivate)
-----------------------------------------------------------------------------
TypeOK ==
    /\ arming \in ArmingState
    /\ force_disarm \in BOOLEAN
    /\ arm_settings \in Settings
    /\ override \in [active : BOOLEAN, timeout : 0 .. HalfSecond + 1]
    /\ parser \in {"IDLE", "SANE", "INSANE", "ACTIVATE"}
    /\ link \in {"LOST", "FLIES", "REFUSED"}
    /\ rc \in RcInputs \cup {Lost}
    /\ held \in Nat /\ toggled \in BOOLEAN /\ age \in 0 .. HalfSecond + 1

\* The system is armed only after as many ticks at the arm position as
\* arm_stick_time asks for, with no tick in between that saw neither end:
\* whatever the receiver loses, whichever settings arrive, and however
\* overrides, forced disarms and timeouts come in between.
ArmsAfterHold ==
    [][~arming.system_armed /\ arming'.system_armed => HeldLongEnough(held)]_vars

\* A press of the non-latching switch that has armed or disarmed the system
\* does not arm it again before a tick has seen the switch released: not after
\* a timeout, a lost connection, a forced disarm or an override.
OneArmPerPress ==
    [][~arming.system_armed /\ arming'.system_armed /\ arm_settings.direction = "SWITCH"
         => ~toggled]_vars

\* An override in force ends early only by a refused command or a forced
\* disarm: a sane command drives the motors for its half second, whenever the
\* arming thread preempts the parser.
OverrideLasts ==
    [][override.active /\ ~override'.active
         => parser = "INSANE" \/ force_disarm \/ age > HalfSecond]_vars

\* The computer is in command and the pilot makes no gesture to disarm.
Commanded == /\ LinkActive /\ rc.connected /\ rc.serial
             /\ rc.stick # "DISARM" /\ ~rc.pressed
             /\ arm_settings.direction # "NONE" /\ ~force_disarm

\* While the computer is in command no timeout disarms, however long the
\* pilot's own throttle has been at zero.
ComputerKeepsArmed ==
    [][arming.system_armed /\ Commanded /\ Commanded' => arming'.system_armed]_vars

\* When the receiver stays lost and no override command is being parsed, the
\* motors end at their default for good.
PilotGone == <>[](~rc.connected /\ parser = "IDLE") => <>[](Outputs = "DEFAULT")

\* Zero throttle and no gesture, the computer not in command.
Idle == /\ rc.connected /\ rc.low /\ rc.stick = "NO_REGION" /\ ~rc.pressed
        /\ ~(LinkActive /\ rc.serial)
        /\ arm_settings.arm_zero_throttle_timeout # 0
        /\ parser = "IDLE"

\* A vehicle left idle is in the end disarmed.
IdleDisarms == <>[]Idle => <>[](~arming.system_armed)

\* The pilot holds the disarm position.
HoldsDisarm == /\ rc.connected /\ rc.low /\ rc.stick = "DISARM"
               /\ arm_settings.direction = "STICK"
               /\ parser = "IDLE"

\* "Check if the required time has been reached to disarm the system"
\* (arming.c:153): a disarm stick that is held disarms.
HeldStickDisarms == <>[]HoldsDisarm => <>[](~arming.system_armed)
=============================================================================
