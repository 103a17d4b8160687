----------------------------- MODULE SensorRead -----------------------------
(***************************************************************************)
(* The readout of the accelerometer and gyroscope (sensor_read.c): the     *)
(* data-ready interrupt and its clock, the readout thread, the structures  *)
(* it fills and the locks that guard them.                                 *)
(*                                                                         *)
(* The chip holds its interrupt pin up from a new sample until any of its  *)
(* registers is read (MPU6050_INTLATCH_WAITCLEAR, INTCLEAR_ANYREAD), and   *)
(* the interrupt is taken on the rising edge: while the pin is up, later   *)
(* samples pass unseen.                                                    *)
(*                                                                         *)
(* A structure in memory is cut in two parts, each holding the number of   *)
(* the write that put it there: it is whole when the two are equal.  A     *)
(* sample is the true cycle, counted without end, at which its interrupt   *)
(* ran; DWT->CYCCNT counts modulo Wrap.                                    *)
(***************************************************************************)
EXTENDS Kernel

CONSTANTS
    SENSOR, EST, CTRL,  \* the readout, estimation and control threads
    Wrap,               \* 2^32, the modulus of DWT->CYCCNT
    Gaps,               \* cycles from one interrupt to the next
    LastCycle,          \* bound: no interrupt beyond it
    MaxFaults           \* bound on failed transfers

ASSUME ThreadAssumption == /\ {SENSOR, EST, CTRL} \subseteq Threads
                           /\ SENSOR # EST /\ EST # CTRL /\ SENSOR # CTRL
ASSUME PlaceAssumption ==
    /\ {"boot", "read", "wait", "imu", "cal", "copy", "innovate", "rate", "control", "idle",
        "send", "set"} \subseteq Places
    /\ Mutexes = {"imu", "cal"}
ASSUME ClockAssumption == Wrap \in Nat \ {0} /\ Gaps \subseteq 1 .. Wrap /\ MaxFaults \in Nat

VARIABLES
    now,            \* the sample: cycle of the last interrupt
    clock,          \* old_dwt and imu_time of GetIMUTime
    sample_time,    \* acc_gyro_time_ns, in cycles
    pin,            \* the interrupt pin is up
    faults,         \* transfers that failed
    temp_data,      \* the sample the transfer left in temp_data
    mem,            \* the structures: "imu", "cal" and "states", in two parts
    stamp,          \* the sample of which data_holder holds the data
    applied,        \* the calibration, in two parts, of those data
    flags           \* ACCGYRO_DATA_AVAILABLE is set in the estimation's listener

sensor == <<now, clock, sample_time, pin, faults, temp_data, mem, stamp, applied, flags>>
-----------------------------------------------------------------------------
\* Mutant: 0xFFFFFFFF is added for a wrap.
GetIMUTimeShort(c, dwt) ==
    [old |-> dwt, base |-> IF dwt <= c.old THEN c.base + Wrap - 1 ELSE c.base]

\* GetIMUTime, its static variables after it read dwt; its result is base + old.
GetIMUTime(c, dwt) ==
    [old |-> dwt, base |-> IF dwt <= c.old THEN c.base + Wrap ELSE c.base]

\* MPU6050cb: a new sample raises the pin.
Interrupt ==
    /\ ~pin
    /\ \E gap \in Gaps :
         /\ now + gap <= LastCycle
         /\ now' = now + gap
         /\ clock' = GetIMUTime(clock, (now + gap) % Wrap)
    /\ sample_time' = clock'.base + clock'.old
    /\ pin' = TRUE
    /\ pending' = IF pc[SENSOR] = "boot" THEN pending ELSE pending \cup {SENSOR}
    /\ UNCHANGED <<pc, owner, front, faults, temp_data, mem, stamp, applied, flags>>

\* SensorReadInit has come to the end, and the thread stores thread_sensor_read_p.
StartReadout ==
    /\ pc[SENSOR] = "boot"
    /\ pc' = [pc EXCEPT ![SENSOR] = "wait"]
    /\ UNCHANGED <<owner, front, pending, sensor>>

\* chEvtWaitAny returns; MPU6050ReadData starts and waits for the bus.
SensorWake ==
    /\ pc[SENSOR] = "wait"
    /\ Step(SENSOR, "read")
    /\ pending' = pending \ {SENSOR}
    /\ UNCHANGED <<owner, sensor>>

\* The transfer has read the registers, which lets the pin down.
TransferDone ==
    /\ pc[SENSOR] = "read"
    /\ pc' = [pc EXCEPT ![SENSOR] = "imu"]
    /\ temp_data' = now
    /\ pin' = FALSE
    /\ UNCHANGED <<owner, front, pending, now, clock, sample_time, faults, mem, stamp,
                   applied, flags>>

\* The chip did not answer: temp_data is what it was, the pin stays up, and the
\* thread goes on, for it does not look at what MPU6050ReadData returns.
TransferFails ==
    /\ pc[SENSOR] = "read"
    /\ faults < MaxFaults
    /\ faults' = faults + 1
    /\ pc' = [pc EXCEPT ![SENSOR] = "imu"]
    /\ UNCHANGED <<owner, front, pending, now, clock, sample_time, pin, temp_data, mem,
                   stamp, applied, flags>>

\* Locks the data and runs MPU6050ConvertAndSave.
Convert ==
    /\ pc[SENSOR] = "imu"
    /\ Step(SENSOR, "cal")
    /\ Acquire(SENSOR, "imu")
    /\ mem' = [mem EXCEPT !["imu"][1] = @ + 1]
    /\ stamp' = temp_data
    /\ UNCHANGED <<pending, now, clock, sample_time, pin, faults, temp_data, applied, flags>>

\* Mutant: an event is broadcast only to a thread that waits for it.
TellWaiting(t) == IF pc[t] = "wait" THEN pending \cup {t} ELSE pending

\* chEvtBroadcastFlags to the one listener t.
Tell(t) == pending \cup {t}

\* ApplyCalibration under the lock of the calibration, the filters, then the data
\* are unlocked and announced.
Calibrate ==
    /\ pc[SENSOR] = "cal"
    /\ Step(SENSOR, "wait")
    /\ owner["cal"] = NoThread
    /\ Release("imu")
    /\ mem' = [mem EXCEPT !["imu"][2] = mem["imu"][1]]
    /\ applied' = mem["cal"]
    /\ pending' = Tell(EST)
    /\ flags' = TRUE
    /\ UNCHANGED <<now, clock, sample_time, pin, faults, temp_data, stamp>>

SensorThread == SensorWake \/ Convert \/ Calibrate
SensorNext == Interrupt \/ StartReadout \/ TransferDone \/ TransferFails \/ SensorThread

SensorTypeOK ==
    /\ now \in Nat /\ sample_time \in Nat /\ temp_data \in Nat /\ stamp \in Nat
    /\ clock \in [old : 0 .. Wrap - 1, base : Nat]
    /\ pin \in BOOLEAN /\ flags \in BOOLEAN /\ faults \in 0 .. MaxFaults
    /\ mem \in [{"imu", "cal", "states"} -> [1 .. 2 -> Nat]]
    /\ applied \in [1 .. 2 -> Nat]
=============================================================================
