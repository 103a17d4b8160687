---------------------------- MODULE ControlLoop ----------------------------
(***************************************************************************)
(* One cycle after the other of the control thread (control.c,             *)
(* control_reference.c and the controllers): it chooses who drives the     *)
(* motors and computes, mode by mode, from references that lie in one      *)
(* structure for all modes and all drivers, and from what the controllers  *)
(* keep from cycle to cycle: integrals, last errors and the states of the  *)
(* filters behind the derivatives.  A quantity is modelled by where it is  *)
(* from.                                                                   *)
(*                                                                         *)
(* The parsers of the packets (NORMALPRIO) run between two cycles only;    *)
(* the arming thread, the receiver and the timers may also come into one.  *)
(***************************************************************************)
EXTENDS Integers

FlightModes == {"DISARMED", "DIRECT", "INDIRECT", "RATE", "ATTITUDE_EULER", "ATTITUDE", "OTHER"}

\* What a cycle reads: the override, the armed flag, the link to the computer with the
\* mode of its last packet, the serial switch, and whether the throttle is below the
\* minimum of an armed system.
Inputs == [override : BOOLEAN, armed : BOOLEAN, link : BOOLEAN, mode : FlightModes,
           serial : BOOLEAN, idle : BOOLEAN]

VARIABLES
    inputs,
    pid,            \* of the attitude and of the rate controllers, all axes together, what
                    \* may be in their I_state, error_old and D-term filters: nothing if
                    \* they are zero, errors since ("NEW"), an error from before a cycle in
                    \* which the controller did not run ("PAST"), or an integral that
                    \* should have been forgotten ("OLD")
    motors          \* what the last cycle sent: whose it was, what the controllers put
                    \* into it, and, a history, who was entitled to drive

loopVars == <<inputs, pid, motors>>
-----------------------------------------------------------------------------
\* control_reference as a cycle finds it: everything is of an earlier one.
Stale == [attitude |-> "STALE", euler |-> "STALE", euler_z |-> "STALE", rate |-> "STALE",
          rate_z |-> "STALE", torque |-> "STALE", throttle |-> "STALE", output |-> "STALE"]

\* What is computed from both; "STALE" also if they are of two drivers.
Join(a, b) == IF a = b THEN a ELSE "STALE"

\* vGetMotorOverrideValues
FromOverride == [Stale EXCEPT !.output = "OVERRIDE"]

\* ComputerControlGet...Reference
FromComputer(mode) ==
    CASE mode = "ATTITUDE" -> [Stale EXCEPT !.attitude = "COMPUTER", !.throttle = "COMPUTER"]
      [] mode = "ATTITUDE_EULER" -> [Stale EXCEPT !.euler = "COMPUTER", !.euler_z = "COMPUTER",
                                                  !.throttle = "COMPUTER"]
      [] mode = "RATE" -> [Stale EXCEPT !.rate = "COMPUTER", !.rate_z = "COMPUTER",
                                        !.throttle = "COMPUTER"]
      [] mode = "INDIRECT" -> [Stale EXCEPT !.torque = "COMPUTER", !.throttle = "COMPUTER"]
      [] mode = "DIRECT" -> [Stale EXCEPT !.output = "COMPUTER"]
      [] OTHER -> Stale

\* RCInputsToControlAction in FLIGHTMODE_RATE, the only mode of a pilot.
FromPilot == [Stale EXCEPT !.rate = "PILOT", !.rate_z = "PILOT", !.throttle = "PILOT"]

\* Mutant: as its comment says, vAttitudeControlEuler leaves the z reference unused.
AttitudeControlWithoutZ(mode, ref) ==
    CASE mode = "ATTITUDE" -> [ref EXCEPT !.rate = ref.attitude, !.rate_z = ref.attitude]
      [] mode = "ATTITUDE_EULER" -> [ref EXCEPT !.rate = ref.euler]
      [] OTHER -> ref

\* vAttitudeControl and vAttitudeControlEuler
AttitudeControl(mode, ref) ==
    CASE mode = "ATTITUDE" -> [ref EXCEPT !.rate = ref.attitude, !.rate_z = ref.attitude]
      [] mode = "ATTITUDE_EULER" -> [ref EXCEPT !.rate = ref.euler, !.rate_z = ref.euler_z]
      [] OTHER -> ref

Attitudes == {"ATTITUDE", "ATTITUDE_EULER"}
Controlled == Attitudes \cup {"RATE"}

\* vRateControl, vUpdateOutputs and vSendPWMCommands: the cases of the switch fall
\* through from each mode to the next.
RateControl(mode, ref) ==
    IF mode \in Controlled THEN [ref EXCEPT !.torque = Join(ref.rate, ref.rate_z)] ELSE ref
UpdateOutputs(mode, ref) ==
    IF mode \in Controlled \cup {"INDIRECT"}
    THEN [ref EXCEPT !.output = Join(ref.torque, ref.throttle)] ELSE ref
Sent(mode, ref) == UpdateOutputs(mode, RateControl(mode, AttitudeControl(mode, ref))).output

\* vZeroControlIntegrals: the last errors and the filters stay.
ZeroControlIntegrals(data) == [c \in DOMAIN data |-> [data[c] EXCEPT !.I_state = {}]]

\* fPIDUpdate_BC: the derivative is of the last error and goes through the filter, if there
\* is one; the integral takes it in when the output saturates.
Integrate(c, filtered) ==
    LET D_state == {"NEW"} \cup c.error_old \cup c.filter
    IN  [I_state |-> c.I_state \cup D_state, error_old |-> {"NEW"},
         filter |-> IF filtered THEN D_state ELSE {}]

\* History: whatever it was, it is of that age now.
Aged(sources, age) == IF sources = {} THEN {} ELSE {age}

\* The controller does not run, so what it keeps is of before.
Paused(c) == [c EXCEPT !.error_old = Aged(@, "PAST"), !.filter = Aged(@, "PAST")]

\* The controllers of a mode run; only those of the rates have filters, and
\* vAttitudeControlEuler leaves the z axis out.
Updated(mode, data) ==
    [attitude |-> CASE mode = "ATTITUDE" -> Integrate(data.attitude, FALSE)
                    [] mode = "ATTITUDE_EULER" -> [Integrate(data.attitude, FALSE) EXCEPT
                           !.error_old = @ \cup Paused(data.attitude).error_old]
                    [] OTHER -> Paused(data.attitude),
     rate |-> IF mode \in Controlled THEN Integrate(data.rate, TRUE) ELSE Paused(data.rate)]

\* The output is from the integral as it is then, the derivative and the error.
Used(mode, data) == (IF mode \in Attitudes THEN Updated(mode, data).attitude.I_state ELSE {})
                    \cup (IF mode \in Controlled THEN Updated(mode, data).rate.I_state ELSE {})

\* History: the motors stand or idle, and what was gathered before is to be forgotten.
Outdated(data) == [c \in DOMAIN data |-> [data[c] EXCEPT !.I_state = Aged(@, "OLD")]]

Commands == Controlled \cup {"INDIRECT", "DIRECT"}

\* History: who may drive the motors in a cycle in which the inputs changed.  Each input
\* counts as it was at some moment of the cycle in which there was no override.
Entitled(before, after) ==
    LET free == {m \in {before, after} : ~m.override}
        armed == \E m \in free : m.armed
        commanded == armed /\ (\E m \in free : m.link) /\ (\E m \in free : m.serial)
    IN  (IF before.override THEN {"OVERRIDE"} ELSE {})
        \cup (IF \/ \E m \in free : ~m.armed
                 \/ commanded /\ before.mode \notin Commands THEN {"DEFAULT"} ELSE {})
        \cup (IF commanded /\ before.mode \in Commands THEN {"COMPUTER"} ELSE {})
        \cup (IF armed /\ \E m \in free : ~m.link \/ ~m.serial THEN {"PILOT"} ELSE {})
-----------------------------------------------------------------------------
\* What the inputs may become within a cycle: no parser of a packet has run.
Preempted == {later \in Inputs : /\ later.override => inputs.override
                                 /\ inputs.override => later.armed = inputs.armed
                                 /\ later.link => inputs.link
                                 /\ later.mode = inputs.mode}

\* The motors are driven from ref, in that mode.
Drive(mode, ref, data, later) ==
    /\ motors' = [from |-> Sent(mode, ref), on |-> Used(mode, data),
                  entitled |-> Entitled(inputs, later)]
    /\ pid' = Updated(mode, data)

\* vSetOutputsDefault and vZeroControlIntegrals
Disarmed(later) ==
    /\ motors' = [from |-> "DEFAULT", on |-> {}, entitled |-> Entitled(inputs, later)]
    /\ pid' = ZeroControlIntegrals(Updated("DISARMED", Outdated(pid)))

\* vUpdateControlAction.  The inputs are read in the order override, armed flag, link,
\* switch, throttle, and are as they become later from the cut-th read on.
UpdateControlAction(later, cut) ==
    LET seen == [n \in 1 .. 5 |-> IF n < cut THEN inputs ELSE later]
        armed == seen[2].armed \/ seen[2].override      \* bIsSystemArmed
        pilot == IF seen[5].idle THEN ZeroControlIntegrals(Outdated(pid)) ELSE pid
    IN  /\ IF seen[1].override THEN Drive("DIRECT", FromOverride, pid, later)
           ELSE IF ~armed THEN Disarmed(later)
           ELSE IF seen[3].link /\ seen[4].serial
           THEN IF inputs.mode \in Commands
                THEN Drive(inputs.mode, FromComputer(inputs.mode), pid, later)
                ELSE Disarmed(later)
           ELSE Drive("RATE", FromPilot, pilot, later)
        /\ inputs' = later

Cycle == \E later \in Preempted, cut \in 1 .. 5 : UpdateControlAction(later, cut)

\* Between two cycles also: an override command, taken or refused, a packet from the
\* computer, or new settings of the filters, which clear their states.
OverrideCommand(sane) ==
    /\ inputs' = [inputs EXCEPT !.override = sane]
    /\ UNCHANGED <<pid, motors>>

ReferencePacket(mode) ==
    /\ inputs' = [inputs EXCEPT !.link = TRUE, !.mode = mode]
    /\ UNCHANGED <<pid, motors>>

FilterSettings ==
    /\ pid' = [pid EXCEPT !.rate.filter = {}]
    /\ UNCHANGED <<inputs, motors>>

\* ControlInit, before anything was received: the structures are zeroed and the outputs
\* set to their default.
LoopInit ==
    /\ inputs = [override |-> FALSE, armed |-> FALSE, link |-> FALSE, mode |-> "DISARMED",
                 serial |-> FALSE, idle |-> TRUE]
    /\ pid = [c \in {"attitude", "rate"} |-> [I_state |-> {}, error_old |-> {}, filter |-> {}]]
    /\ motors = [from |-> "DEFAULT", on |-> {}, entitled |-> {"DEFAULT"}]

LoopNext == \/ Cycle
            \/ \E sane \in BOOLEAN : OverrideCommand(sane)
            \/ \E mode \in FlightModes : ReferencePacket(mode)
            \/ FilterSettings

LoopSpec == LoopInit /\ [][LoopNext]_loopVars
-----------------------------------------------------------------------------
\* The references of what a cycle sends are all from one driver, who was entitled to drive
\* within that cycle, and none is left of another driver, mode or cycle.  The controllers
\* go on from where they were, also for a new driver, but add no integral that was gathered
\* before the motors last stood, or last idled under the pilot's throttle.  (Their
\* derivatives are not forgotten then: see "PAST".)
CycleIsItsOwn == motors.from \in motors.entitled /\ "OLD" \notin motors.on
=============================================================================
