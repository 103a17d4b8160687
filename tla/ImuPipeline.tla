---------------------------- MODULE ImuPipeline ----------------------------
(***************************************************************************)
(* From a sample to the motors and to the ground: the readout thread       *)
(* (SensorRead), the estimation thread (estimation.c and                   *)
(* motion_capture_estimator.c), the control thread's use of the estimate   *)
(* (control.c), and the threads of the ports, which run the generators and *)
(* parsers that read and write the same structures.                        *)
(*                                                                         *)
(* The estimate has no lock: it is kept whole by the priorities alone.     *)
(* GenerateGenericCommand reads what it sends twice, once for the CRC and  *)
(* once to encode it; a receiver takes the message for valid when the two  *)
(* readings agree.                                                         *)
(***************************************************************************)
EXTENDS SensorRead, Sequences, FiniteSets

CONSTANTS
    Ports,          \* the threads that run generators and parsers
    MaxSets,        \* bound on calibrations set
    Frames          \* motion capture frame numbers

ASSUME PortAssumption == /\ Ports \subseteq Threads \ {SENSOR, EST, CTRL}
                         /\ Frames \subseteq Nat
ASSUME PriorityAssumption ==
    /\ Priority[EST] = Priority[CTRL]
    /\ \A p, q \in Ports : Priority[p] = Priority[q] /\ Priority[p] < Priority[EST]

VARIABLES
    copy,           \* imu_data of the estimation thread, in two parts
    based,          \* the reading the estimate is based on
    mc_frame,       \* frame number of the motion capture frame held
    old_frame,      \* old_frame_number of the estimator
    starting,       \* the estimator is in the branch of its startup conditions
    unused,         \* the reading that branch was entered with, and 0
    seen,           \* the estimate whose attitude the control thread has read, while
                    \* it computes, and 0
    acted,          \* the reading its last action is based on
    holder,         \* the static holders of the generators, of each structure
    doing,          \* the command each port handles
    got             \* what each port has read of its message: CRC, then body

vars == <<kernel, sensor, copy, based, mc_frame, old_frame, starting, unused, seen, acted,
          holder, doing, got>>

estimation == <<copy, based, mc_frame, old_frame, starting, unused>>
control == <<seen, acted>>
telemetry == <<holder, doing, got>>

Whole(object) == object[1] = object[2]
-----------------------------------------------------------------------------
\* chEvtWaitAny and chEvtGetAndClearFlags: a reset request comes without flags.
EstWake ==
    /\ pc[EST] = "wait"
    /\ Step(EST, IF flags THEN "imu" ELSE "wait")
    /\ pending' = pending \ {EST}
    /\ flags' = FALSE
    /\ UNCHANGED <<owner, now, clock, sample_time, pin, faults, temp_data, mem, stamp,
                   applied, estimation, control, telemetry>>

\* Mutant: the getter does not lock what it copies.
NoLock(t, m) == UNCHANGED owner

\* LockSensorStructures and LockSensorCalibration.
LockStructure(t, m) == Acquire(t, m)

\* GetIMUData, in two parts.
EstCopy ==
    /\ pc[EST] = "imu"
    /\ Step(EST, "copy")
    /\ LockStructure(EST, "imu")
    /\ copy' = [copy EXCEPT ![1] = mem["imu"][1]]
    /\ UNCHANGED <<pending, sensor, based, mc_frame, old_frame, starting, unused, control,
                   telemetry>>

EstCopyRest ==
    /\ pc[EST] = "copy"
    /\ Step(EST, "innovate")
    /\ Release("imu")
    /\ copy' = [copy EXCEPT ![2] = mem["imu"][2]]
    /\ UNCHANGED <<pending, sensor, based, mc_frame, old_frame, starting, unused, control,
                   telemetry>>

\* vInnovateMotionCaptureEstimator: the attitude, from the frame held if its number
\* is beyond the last one used, and otherwise from the rate.  The first frame of all
\* takes the branch of the startup conditions.
EstAttitude ==
    /\ pc[EST] = "innovate"
    /\ Step(EST, "rate")
    /\ starting' = (mc_frame > 0 /\ old_frame = 0)
    /\ old_frame' = IF mc_frame > old_frame THEN mc_frame ELSE old_frame
    /\ mem' = [mem EXCEPT !["states"][1] = @ + 1]
    /\ UNCHANGED <<owner, pending, now, clock, sample_time, pin, faults, temp_data, stamp,
                   applied, flags, copy, based, mc_frame, unused, control, telemetry>>

\* Then the rate: from the reading, or zero in the startup branch, which returns without
\* a look at the reading.
EstRate ==
    /\ pc[EST] = "rate"
    /\ Step(EST, "wait")
    /\ mem' = [mem EXCEPT !["states"][2] = mem["states"][1]]
    /\ IF starting THEN unused' = copy[2] /\ based' = based
                   ELSE based' = copy[2] /\ unused' = unused
    /\ starting' = FALSE
    /\ pending' = Tell(CTRL)
    /\ UNCHANGED <<owner, now, clock, sample_time, pin, faults, temp_data, stamp,
                   applied, flags, copy, mc_frame, old_frame, control, telemetry>>
-----------------------------------------------------------------------------
\* ThreadControl: vUpdateControlAction reads the attitude, then the rate.
CtrlWake ==
    /\ pc[CTRL] = "wait"
    /\ Step(CTRL, "control")
    /\ pending' = pending \ {CTRL}
    /\ seen' = mem["states"][1]
    /\ UNCHANGED <<owner, sensor, estimation, acted, telemetry>>

CtrlAct ==
    /\ pc[CTRL] = "control"
    /\ Step(CTRL, "wait")
    /\ seen' = 0
    /\ acted' = based
    /\ UNCHANGED <<owner, pending, sensor, estimation, telemetry>>
-----------------------------------------------------------------------------
\* A packet or the timer of a subscription: the port, which was started after the
\* readout thread, begins a command.  Those that
\* ask for a copy and the one that sets the calibration start at a lock.
FirstPlace(command) == CASE command = "GetIMUData" -> "imu"
                         [] command = "GetEstimation" -> "send"
                         [] OTHER -> "cal"

Commands == {"GetIMUData", "GetIMUCalibration", "SetIMUCalibration", "GetEstimation"}

Setters == {p \in Ports : doing[p] = "SetIMUCalibration" /\ pc[p] = "cal"}

Receive(p) ==
    /\ pc[p] = "idle"
    /\ pc[SENSOR] # "boot"
    /\ \E command \in Commands :
         /\ command = "SetIMUCalibration" => mem["cal"][1] + Cardinality(Setters) < MaxSets
         /\ doing' = [doing EXCEPT ![p] = command]
         /\ pc' = [pc EXCEPT ![p] = FirstPlace(command)]
    /\ UNCHANGED <<owner, front, pending, sensor, estimation, control, holder, got>>

Object(p) == IF doing[p] = "GetIMUData" THEN "imu" ELSE "cal"
Copies(p) == doing[p] \in {"GetIMUData", "GetIMUCalibration"}

\* GetIMUData, GetRawIMUData and GetIMUCalibration, into the generator's static holder.
CopyFirst(p) ==
    /\ Copies(p)
    /\ pc[p] = Object(p)
    /\ Step(p, "copy")
    /\ LockStructure(p, Object(p))
    /\ holder' = [holder EXCEPT ![Object(p)][1] = mem[Object(p)][1]]
    /\ UNCHANGED <<pending, sensor, estimation, control, doing, got>>

CopyRest(p) ==
    /\ Copies(p)
    /\ pc[p] = "copy"
    /\ Step(p, "send")
    /\ Release(Object(p))
    /\ holder' = [holder EXCEPT ![Object(p)][2] = mem[Object(p)][2]]
    /\ UNCHANGED <<pending, sensor, estimation, control, doing, got>>

\* SetIMUCalibration, then ResetEstimation.
SetFirst(p) ==
    /\ doing[p] = "SetIMUCalibration"
    /\ pc[p] = "cal"
    /\ Step(p, "set")
    /\ LockStructure(p, "cal")
    /\ mem' = [mem EXCEPT !["cal"][1] = @ + 1]
    /\ UNCHANGED <<pending, now, clock, sample_time, pin, faults, temp_data, stamp,
                   applied, flags, estimation, control, telemetry>>

SetRest(p) ==
    /\ pc[p] = "set"
    /\ Step(p, "idle")
    /\ Release("cal")
    /\ mem' = [mem EXCEPT !["cal"][2] = mem["cal"][1]]
    /\ pending' = Tell(EST)
    /\ doing' = [doing EXCEPT ![p] = "nothing"]
    /\ UNCHANGED <<now, clock, sample_time, pin, faults, temp_data, stamp, applied, flags,
                   estimation, control, holder, got>>

\* What the generator hands to GenerateGenericCommand: its holder or the estimate itself.
Source(p) == IF doing[p] = "GetEstimation" THEN mem["states"] ELSE holder[Object(p)]

\* Mutant: the CRC is that of the body as it is encoded.
ReadOnce(p) == LET g == got[p]
                   v == Source(p)[(Len(g) % 2) + 1]
               IN  IF Len(g) < 2 THEN Append(g, v)
                   ELSE Append([g EXCEPT ![Len(g) - 1] = v], v)

\* The next part of the source, for the CRC first and then for the body.
ReadPart(p) == Append(got[p], Source(p)[(Len(got[p]) % 2) + 1])

Send(p) ==
    /\ pc[p] = "send"
    /\ Len(got[p]) < 4
    /\ Step(p, "send")
    /\ got' = [got EXCEPT ![p] = ReadPart(p)]
    /\ UNCHANGED <<owner, pending, sensor, estimation, control, holder, doing>>

Sent(p) ==
    /\ pc[p] = "send"
    /\ Len(got[p]) = 4
    /\ Step(p, "idle")
    /\ got' = [got EXCEPT ![p] = <<>>]
    /\ doing' = [doing EXCEPT ![p] = "nothing"]
    /\ UNCHANGED <<owner, pending, sensor, estimation, control, holder>>

\* vParseMotionCaptureDataPackage, under the system lock: whatever number it has.
MotionCapture ==
    /\ mc_frame' \in Frames
    /\ UNCHANGED <<kernel, sensor, copy, based, old_frame, starting, unused, control, telemetry>>
-----------------------------------------------------------------------------
Init ==
    /\ pc = [t \in Threads |-> IF t = SENSOR THEN "boot"
                               ELSE IF t \in Ports THEN "idle" ELSE "wait"]
    /\ owner = [m \in Mutexes |-> NoThread]
    /\ front = [l \in Levels |-> CHOOSE t \in Threads : Priority[t] = l]
    /\ pending = {}
    /\ now \in 1 .. Wrap - 1
    /\ clock = [old |-> now, base |-> 0]
    /\ sample_time = now
    /\ pin = FALSE
    /\ faults = 0
    /\ temp_data = now
    /\ mem = [object \in {"imu", "cal", "states"} |-> <<0, 0>>]
    /\ stamp = now
    /\ applied = <<0, 0>>
    /\ flags = FALSE
    /\ copy = <<0, 0>>
    /\ based = 0
    /\ mc_frame = 0
    /\ old_frame = 0
    /\ starting = FALSE
    /\ unused = 0
    /\ seen = 0
    /\ acted = 0
    /\ holder = [object \in {"imu", "cal"} |-> <<0, 0>>]
    /\ doing = [p \in Ports |-> "nothing"]
    /\ got = [p \in Ports |-> <<>>]

EstThread == EstWake \/ EstCopy \/ EstCopyRest \/ EstAttitude \/ EstRate
CtrlThread == CtrlWake \/ CtrlAct
PortThread(p) == CopyFirst(p) \/ CopyRest(p) \/ SetFirst(p) \/ SetRest(p) \/ Send(p) \/ Sent(p)

Next == \/ SensorNext /\ UNCHANGED <<estimation, control, telemetry>>
        \/ EstThread
        \/ CtrlThread
        \/ \E p \in Ports : Receive(p) \/ PortThread(p)
        \/ MotionCapture

Spec == Init /\ [][Next]_vars

Threading == \/ SensorThread /\ UNCHANGED <<estimation, control, telemetry>>
             \/ EstThread
             \/ CtrlThread
             \/ \E p \in Ports : PortThread(p)

\* The processor does not idle while a thread is ready, the start of the system comes
\* to its end and a transfer ends.
FairSpec ==
    /\ Spec
    /\ WF_vars(Threading)
    /\ WF_vars(StartReadout /\ UNCHANGED <<estimation, control, telemetry>>)
    /\ WF_vars((TransferDone \/ TransferFails) /\ UNCHANGED <<estimation, control, telemetry>>)
-----------------------------------------------------------------------------
TypeOK ==
    /\ KernelTypeOK /\ SensorTypeOK
    /\ copy \in [1 .. 2 -> Nat]
    /\ based \in Nat /\ seen \in Nat /\ acted \in Nat /\ mc_frame \in Nat /\ old_frame \in Nat
    /\ starting \in BOOLEAN /\ unused \in Nat
    /\ holder \in [{"imu", "cal"} -> [1 .. 2 -> Nat]]
    /\ doing \in [Ports -> Commands \cup {"nothing"}]
    /\ got \in [Ports -> Seq(Nat)]

\* The time of a sample is the true cycle of its interrupt, however often the counter
\* has wrapped; a message, which carries the time of the moment it is made, never gives
\* data a time before their own.
TimeExact == sample_time = now /\ sample_time >= stamp

\* What was copied under a lock is of one reading, and the calibration applied to a
\* reading is one that was set: no thread comes between the parts.
OneReading ==
    /\ Whole(applied)
    /\ pc[EST] \in {"innovate", "rate"} => Whole(copy)
    /\ \A o \in {"imu", "cal"} :
         (\A p \in Ports : pc[p] = "copy" => Object(p) # o) => Whole(holder[o])

\* The control thread acts on an attitude and a rate of one estimate: the estimate does
\* not change while it computes.
ControlSeesWhole == pc[CTRL] = "control" => \A i \in 1 .. 2 : mem["states"][i] = seen

Accepted(p) == Len(got[p]) = 4 /\ got[p][1] = got[p][3] /\ got[p][2] = got[p][4]

\* A message whose body agrees with its CRC holds data of one moment, also when it was
\* read in place while the estimation thread went on.
AcceptedMeansWhole == \A p \in Ports : Accepted(p) => got[p][1] = got[p][2]

\* What a generator copied into its static holder reaches the receiver: the ports
\* share the holders, and no port overwrites one another port is still sending.
CopiedIsAccepted == \A p \in Ports : Copies(p) /\ Len(got[p]) = 4 => Accepted(p)

\* Every reading that is published is acted upon, or a later one is: the control thread
\* catches up with the last one published, unless that is the one the estimator passed
\* over for the first frame of the motion capture.
Behind == acted < mem["imu"][2] /\ unused < mem["imu"][2]
ReadingReachesControl == Behind ~> ~Behind

\* "Reads data from the sensors whom have new data available": a sample that raised
\* the pin is read.
SampleIsRead == pin ~> ~pin
=============================================================================
