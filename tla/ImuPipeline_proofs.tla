------------------------- MODULE ImuPipeline_proofs -------------------------
(***************************************************************************)
(* Proofs about ImuPipeline, for every counter width, number of ports,     *)
(* faults and calibrations.                                                *)
(***************************************************************************)
EXTENDS ImuPipeline, TLAPS

-----------------------------------------------------------------------------
(* The variables keep their types.                                         *)

LEMMA StepTyped ==
    ASSUME KernelTypeOK, NEW t \in Threads, NEW next \in Places, Step(t, next)
    PROVE  pc' \in [Threads -> Places] /\ front' \in [Levels -> Threads]
  BY KernelAssumption DEF Step, KernelTypeOK, Levels

LEMMA AcquireTyped ==
    ASSUME KernelTypeOK, NEW t \in Threads, NEW m \in Mutexes, Acquire(t, m)
    PROVE  owner' \in [Mutexes -> Threads \cup {NoThread}]
  BY DEF Acquire, KernelTypeOK

LEMMA ReleaseTyped ==
    ASSUME KernelTypeOK, NEW m \in Mutexes, Release(m)
    PROVE  owner' \in [Mutexes -> Threads \cup {NoThread}]
  BY DEF Release, KernelTypeOK

Parts == [1 .. 2 -> Nat]

\* A part of a structure is written.
LEMMA PartTyped ==
    ASSUME NEW S, NEW f \in [S -> Parts], NEW s \in S, NEW i \in 1 .. 2, NEW v \in Nat
    PROVE  /\ [f EXCEPT ![s][i] = v] \in [S -> Parts]
           /\ \A r \in S : [f EXCEPT ![s][i] = v][r] = IF r = s THEN [f[s] EXCEPT ![i] = v] ELSE f[r]
           /\ f[s][i] \in Nat
  BY DEF Parts

\* The threads and structures of the module are of the types they must have.
LEMMA Members ==
    /\ SENSOR \in Threads /\ EST \in Threads /\ CTRL \in Threads
    /\ "imu" \in Mutexes /\ "cal" \in Mutexes
    /\ \A p \in Ports : p \in Threads /\ p # SENSOR /\ p # EST /\ p # CTRL
    /\ \A p \in Ports : Object(p) \in {"imu", "cal"}
  BY ThreadAssumption, PlaceAssumption, PortAssumption DEF Object

LEMMA InitTyped == Init => TypeOK
<1> SUFFICES ASSUME Init
             PROVE  TypeOK
  OBVIOUS
<1>1. KernelTypeOK
  <2>1. pc \in [Threads -> Places]
    BY PlaceAssumption DEF Init
  <2>2. owner \in [Mutexes -> Threads \cup {NoThread}]
    BY DEF Init
  <2>3. front \in [Levels -> Threads]
    BY DEF Init, Levels
  <2>4. pending \subseteq Threads
    BY DEF Init
  <2> QED
    BY <2>1, <2>2, <2>3, <2>4 DEF KernelTypeOK
<1>2. <<0, 0>> \in [1 .. 2 -> Nat]
  OBVIOUS
<1>3. now \in Nat /\ clock \in [old : 0 .. Wrap - 1, base : Nat]
  BY ClockAssumption DEF Init
<1>4. mem \in [{"imu", "cal", "states"} -> [1 .. 2 -> Nat]]
  BY <1>2 DEF Init
<1>5. holder \in [{"imu", "cal"} -> [1 .. 2 -> Nat]]
  BY <1>2 DEF Init
<1>6. applied \in [1 .. 2 -> Nat] /\ copy \in [1 .. 2 -> Nat]
  BY <1>2 DEF Init
<1>7. got \in [Ports -> Seq(Nat)]
  BY DEF Init
<1>8. faults \in 0 .. MaxFaults
  BY ClockAssumption DEF Init
<1> QED
  BY <1>1, <1>3, <1>4, <1>5, <1>6, <1>7, <1>8 DEF Init, TypeOK, SensorTypeOK

LEMMA TimeTyped ==
    ASSUME NEW c \in [old : 0 .. Wrap - 1, base : Nat], NEW dwt \in 0 .. Wrap - 1
    PROVE  GetIMUTime(c, dwt) \in [old : 0 .. Wrap - 1, base : Nat]
<1>1. c.base \in Nat /\ c.base + Wrap \in Nat
  BY ClockAssumption
<1> QED
  BY <1>1 DEF GetIMUTime

LEMMA SensorTyped == ASSUME TypeOK, SensorNext, UNCHANGED <<estimation, control, telemetry>>
                     PROVE  TypeOK'
<1> USE DEF TypeOK
<1>0. UNCHANGED <<copy, based, seen, acted, mc_frame, old_frame, starting, unused, holder,
                  doing, got>>
  BY DEF estimation, control, telemetry
<1>1. CASE Interrupt
  <2>1. PICK gap \in Gaps : now' = now + gap /\ clock' = GetIMUTime(clock, (now + gap) % Wrap)
    BY <1>1 DEF Interrupt
  <2>2. now' \in Nat /\ (now + gap) % Wrap \in 0 .. Wrap - 1
    BY <2>1, ClockAssumption DEF SensorTypeOK
  <2>3. clock' \in [old : 0 .. Wrap - 1, base : Nat]
    BY <2>1, <2>2, TimeTyped DEF SensorTypeOK
  <2>4. sample_time' \in Nat
    BY <2>3, <1>1, ClockAssumption DEF Interrupt
  <2>5. KernelTypeOK'
    BY <1>1, Members DEF Interrupt, KernelTypeOK
  <2>6. SensorTypeOK'
    BY <1>1, <2>2, <2>3, <2>4 DEF Interrupt, SensorTypeOK
  <2> QED
    BY <1>0, <2>5, <2>6
<1>2. CASE StartReadout
  <2>1. pc' \in [Threads -> Places]
    BY <1>2, PlaceAssumption DEF StartReadout, KernelTypeOK
  <2>2. KernelTypeOK'
    BY <1>2, <2>1 DEF StartReadout, KernelTypeOK
  <2>3. SensorTypeOK'
    BY <1>2 DEF StartReadout, sensor, SensorTypeOK
  <2> QED
    BY <1>0, <2>2, <2>3
<1>3. CASE SensorWake
  <2>1. pc' \in [Threads -> Places] /\ front' \in [Levels -> Threads]
    BY <1>3, StepTyped, Members, PlaceAssumption DEF SensorWake
  <2>2. KernelTypeOK'
    BY <1>3, <2>1 DEF SensorWake, KernelTypeOK
  <2>3. SensorTypeOK'
    BY <1>3 DEF SensorWake, sensor, SensorTypeOK
  <2> QED
    BY <1>0, <2>2, <2>3
<1>4. CASE TransferDone \/ TransferFails
  <2>1. pc' \in [Threads -> Places]
    BY <1>4, PlaceAssumption DEF TransferDone, TransferFails, KernelTypeOK
  <2>2. KernelTypeOK'
    BY <1>4, <2>1 DEF TransferDone, TransferFails, KernelTypeOK
  <2>3. faults' \in 0 .. MaxFaults
    <3>1. faults \in 0 .. MaxFaults /\ MaxFaults \in Nat
      BY ClockAssumption DEF SensorTypeOK
    <3>2. faults' = faults \/ (faults < MaxFaults /\ faults' = faults + 1)
      BY <1>4 DEF TransferDone, TransferFails
    <3> QED
      BY <3>1, <3>2
  <2>4. SensorTypeOK'
    BY <1>4, <2>3 DEF TransferDone, TransferFails, SensorTypeOK
  <2> QED
    BY <1>0, <2>2, <2>4
<1>5. CASE Convert
  <2>1. pc' \in [Threads -> Places] /\ front' \in [Levels -> Threads]
    BY <1>5, StepTyped, Members, PlaceAssumption DEF Convert
  <2>2. owner' \in [Mutexes -> Threads \cup {NoThread}]
    BY <1>5, AcquireTyped, Members DEF Convert
  <2>3. KernelTypeOK'
    BY <1>5, <2>1, <2>2 DEF Convert, KernelTypeOK
  <2>4. mem["imu"][1] + 1 \in Nat
    BY DEF SensorTypeOK
  <2>5. mem' \in [{"imu", "cal", "states"} -> [1 .. 2 -> Nat]]
    BY <1>5, <2>4, PartTyped DEF Convert, SensorTypeOK, Parts
  <2>6. SensorTypeOK'
    BY <1>5, <2>5 DEF Convert, SensorTypeOK
  <2> QED
    BY <1>0, <2>3, <2>6
<1>6. CASE Calibrate
  <2>1. pc' \in [Threads -> Places] /\ front' \in [Levels -> Threads]
    BY <1>6, StepTyped, Members, PlaceAssumption DEF Calibrate
  <2>2. owner' \in [Mutexes -> Threads \cup {NoThread}]
    BY <1>6, ReleaseTyped, Members DEF Calibrate
  <2>3. KernelTypeOK'
    BY <1>6, <2>1, <2>2, Members DEF Calibrate, Tell, KernelTypeOK
  <2>4. mem["imu"][1] \in Nat
    BY DEF SensorTypeOK
  <2>5. mem' \in [{"imu", "cal", "states"} -> [1 .. 2 -> Nat]]
    BY <1>6, <2>4, PartTyped DEF Calibrate, SensorTypeOK, Parts
  <2>6. SensorTypeOK'
    BY <1>6, <2>5 DEF Calibrate, SensorTypeOK
  <2> QED
    BY <1>0, <2>3, <2>6
<1> QED
  BY <1>1, <1>2, <1>3, <1>4, <1>5, <1>6 DEF SensorNext, SensorThread

LEMMA EstTyped == ASSUME TypeOK, EstThread PROVE TypeOK'
<1> USE DEF TypeOK
<1>1. CASE EstWake
  <2>1. pc' \in [Threads -> Places] /\ front' \in [Levels -> Threads]
    BY <1>1, StepTyped, Members, PlaceAssumption DEF EstWake
  <2>2. KernelTypeOK'
    BY <1>1, <2>1 DEF EstWake, KernelTypeOK
  <2> QED
    BY <1>1, <2>2 DEF EstWake, SensorTypeOK, estimation, control, telemetry
<1>2. CASE EstCopy
  <2>1. pc' \in [Threads -> Places] /\ front' \in [Levels -> Threads]
    BY <1>2, StepTyped, Members, PlaceAssumption DEF EstCopy
  <2>2. owner' \in [Mutexes -> Threads \cup {NoThread}]
    BY <1>2, AcquireTyped, Members DEF EstCopy, LockStructure
  <2>3. KernelTypeOK'
    BY <1>2, <2>1, <2>2 DEF EstCopy, KernelTypeOK
  <2>4. mem["imu"][1] \in Nat
    BY DEF SensorTypeOK
  <2>5. copy' \in [1 .. 2 -> Nat]
    BY <1>2, <2>4 DEF EstCopy
  <2> QED
    BY <1>2, <2>3, <2>5 DEF EstCopy, sensor, SensorTypeOK, control, telemetry
<1>3. CASE EstCopyRest
  <2>1. pc' \in [Threads -> Places] /\ front' \in [Levels -> Threads]
    BY <1>3, StepTyped, Members, PlaceAssumption DEF EstCopyRest
  <2>2. owner' \in [Mutexes -> Threads \cup {NoThread}]
    BY <1>3, ReleaseTyped, Members DEF EstCopyRest
  <2>3. KernelTypeOK'
    BY <1>3, <2>1, <2>2 DEF EstCopyRest, KernelTypeOK
  <2>4. mem["imu"][2] \in Nat
    BY DEF SensorTypeOK
  <2>5. copy' \in [1 .. 2 -> Nat]
    BY <1>3, <2>4 DEF EstCopyRest
  <2> QED
    BY <1>3, <2>3, <2>5 DEF EstCopyRest, sensor, SensorTypeOK, control, telemetry
<1>4. CASE EstAttitude
  <2>1. pc' \in [Threads -> Places] /\ front' \in [Levels -> Threads]
    BY <1>4, StepTyped, Members, PlaceAssumption DEF EstAttitude
  <2>2. KernelTypeOK'
    BY <1>4, <2>1 DEF EstAttitude, KernelTypeOK
  <2>3. mem["states"][1] + 1 \in Nat
    BY DEF SensorTypeOK
  <2>4. mem' \in [{"imu", "cal", "states"} -> [1 .. 2 -> Nat]]
    BY <1>4, <2>3, PartTyped DEF EstAttitude, SensorTypeOK, Parts
  <2>5. SensorTypeOK'
    BY <1>4, <2>4 DEF EstAttitude, SensorTypeOK
  <2> QED
    BY <1>4, <2>2, <2>5 DEF EstAttitude, control, telemetry
<1>5. CASE EstRate
  <2>1. pc' \in [Threads -> Places] /\ front' \in [Levels -> Threads]
    BY <1>5, StepTyped, Members, PlaceAssumption DEF EstRate
  <2>2. KernelTypeOK'
    BY <1>5, <2>1, Members DEF EstRate, Tell, KernelTypeOK
  <2>3. mem["states"][1] \in Nat
    BY DEF SensorTypeOK
  <2>4. mem' \in [{"imu", "cal", "states"} -> [1 .. 2 -> Nat]]
    BY <1>5, <2>3, PartTyped DEF EstRate, SensorTypeOK, Parts
  <2>5. SensorTypeOK'
    BY <1>5, <2>4 DEF EstRate, SensorTypeOK
  <2>6. based' \in Nat /\ unused' \in Nat
    BY <1>5 DEF EstRate
  <2> QED
    BY <1>5, <2>2, <2>5, <2>6 DEF EstRate, control, telemetry
<1> QED
  BY <1>1, <1>2, <1>3, <1>4, <1>5 DEF EstThread

LEMMA CtrlTyped == ASSUME TypeOK, CtrlThread PROVE TypeOK'
<1> USE DEF TypeOK
<1>1. CASE CtrlWake
  <2>1. pc' \in [Threads -> Places] /\ front' \in [Levels -> Threads]
    BY <1>1, StepTyped, Members, PlaceAssumption DEF CtrlWake
  <2>2. KernelTypeOK'
    BY <1>1, <2>1 DEF CtrlWake, KernelTypeOK
  <2>3. seen' \in Nat
    BY <1>1 DEF CtrlWake, SensorTypeOK
  <2> QED
    BY <1>1, <2>2, <2>3 DEF CtrlWake, sensor, SensorTypeOK, estimation, telemetry
<1>2. CASE CtrlAct
  <2>1. pc' \in [Threads -> Places] /\ front' \in [Levels -> Threads]
    BY <1>2, StepTyped, Members, PlaceAssumption DEF CtrlAct
  <2>2. KernelTypeOK'
    BY <1>2, <2>1 DEF CtrlAct, KernelTypeOK
  <2> QED
    BY <1>2, <2>2 DEF CtrlAct, sensor, SensorTypeOK, estimation, telemetry
<1> QED
  BY <1>1, <1>2 DEF CtrlThread

LEMMA PortTyped == ASSUME TypeOK, NEW p \in Ports, Receive(p) \/ PortThread(p) PROVE TypeOK'
<1> USE DEF TypeOK
<1>0. p \in Threads /\ Object(p) \in {"imu", "cal"} /\ Object(p) \in Mutexes
  BY Members
<1>1. CASE Receive(p)
  <2>1. PICK command \in Commands : /\ doing' = [doing EXCEPT ![p] = command]
                                    /\ pc' = [pc EXCEPT ![p] = FirstPlace(command)]
    BY <1>1 DEF Receive
  <2>2. FirstPlace(command) \in Places
    BY PlaceAssumption DEF FirstPlace, Commands
  <2>3. pc' \in [Threads -> Places]
    BY <1>0, <2>1, <2>2 DEF KernelTypeOK
  <2>4. KernelTypeOK'
    BY <1>1, <2>3 DEF Receive, KernelTypeOK
  <2>5. doing' \in [Ports -> Commands \cup {"nothing"}]
    BY <2>1
  <2> QED
    BY <1>1, <2>4, <2>5 DEF Receive, sensor, SensorTypeOK, estimation, control
<1>2. CASE CopyFirst(p)
  <2>1. pc' \in [Threads -> Places] /\ front' \in [Levels -> Threads]
    BY <1>0, <1>2, StepTyped, PlaceAssumption DEF CopyFirst
  <2>2. owner' \in [Mutexes -> Threads \cup {NoThread}]
    BY <1>0, <1>2, AcquireTyped DEF CopyFirst, LockStructure
  <2>3. KernelTypeOK'
    BY <1>2, <2>1, <2>2 DEF CopyFirst, KernelTypeOK
  <2>4. mem[Object(p)][1] \in Nat
    BY <1>0 DEF SensorTypeOK
  <2>5. holder' \in [{"imu", "cal"} -> [1 .. 2 -> Nat]]
    BY <1>0, <1>2, <2>4, PartTyped DEF CopyFirst, Parts
  <2> QED
    BY <1>2, <2>3, <2>5 DEF CopyFirst, sensor, SensorTypeOK, estimation, control
<1>3. CASE CopyRest(p)
  <2>1. pc' \in [Threads -> Places] /\ front' \in [Levels -> Threads]
    BY <1>0, <1>3, StepTyped, PlaceAssumption DEF CopyRest
  <2>2. owner' \in [Mutexes -> Threads \cup {NoThread}]
    BY <1>0, <1>3, ReleaseTyped DEF CopyRest
  <2>3. KernelTypeOK'
    BY <1>3, <2>1, <2>2 DEF CopyRest, KernelTypeOK
  <2>4. mem[Object(p)][2] \in Nat
    BY <1>0 DEF SensorTypeOK
  <2>5. holder' \in [{"imu", "cal"} -> [1 .. 2 -> Nat]]
    BY <1>0, <1>3, <2>4, PartTyped DEF CopyRest, Parts
  <2> QED
    BY <1>3, <2>3, <2>5 DEF CopyRest, sensor, SensorTypeOK, estimation, control
<1>4. CASE SetFirst(p)
  <2>1. pc' \in [Threads -> Places] /\ front' \in [Levels -> Threads]
    BY <1>0, <1>4, StepTyped, PlaceAssumption DEF SetFirst
  <2>2. owner' \in [Mutexes -> Threads \cup {NoThread}]
    BY <1>0, <1>4, AcquireTyped, Members DEF SetFirst, LockStructure
  <2>3. KernelTypeOK'
    BY <1>4, <2>1, <2>2 DEF SetFirst, KernelTypeOK
  <2>4. mem["cal"][1] + 1 \in Nat
    BY DEF SensorTypeOK
  <2>5. mem' \in [{"imu", "cal", "states"} -> [1 .. 2 -> Nat]]
    BY <1>4, <2>4, PartTyped DEF SetFirst, SensorTypeOK, Parts
  <2>6. SensorTypeOK'
    BY <1>4, <2>5 DEF SetFirst, SensorTypeOK
  <2> QED
    BY <1>4, <2>3, <2>6 DEF SetFirst, estimation, control, telemetry
<1>5. CASE SetRest(p)
  <2>1. pc' \in [Threads -> Places] /\ front' \in [Levels -> Threads]
    BY <1>0, <1>5, StepTyped, PlaceAssumption DEF SetRest
  <2>2. owner' \in [Mutexes -> Threads \cup {NoThread}]
    BY <1>0, <1>5, ReleaseTyped, Members DEF SetRest
  <2>3. KernelTypeOK'
    BY <1>5, <2>1, <2>2, Members DEF SetRest, Tell, KernelTypeOK
  <2>4. mem["cal"][1] \in Nat
    BY DEF SensorTypeOK
  <2>5. mem' \in [{"imu", "cal", "states"} -> [1 .. 2 -> Nat]]
    BY <1>5, <2>4, PartTyped DEF SetRest, SensorTypeOK, Parts
  <2>6. SensorTypeOK'
    BY <1>5, <2>5 DEF SetRest, SensorTypeOK
  <2> QED
    BY <1>5, <2>3, <2>6 DEF SetRest, estimation, control
<1>6. CASE Send(p)
  <2>1. pc' \in [Threads -> Places] /\ front' \in [Levels -> Threads]
    BY <1>0, <1>6, StepTyped, PlaceAssumption DEF Send
  <2>2. KernelTypeOK'
    BY <1>6, <2>1 DEF Send, KernelTypeOK
  <2>3. Source(p) \in [1 .. 2 -> Nat]
    BY <1>0 DEF Source, SensorTypeOK
  <2>4. (Len(got[p]) % 2) + 1 \in 1 .. 2
    OBVIOUS
  <2>5. ReadPart(p) \in Seq(Nat)
    BY <2>3, <2>4 DEF ReadPart
  <2>6. got' \in [Ports -> Seq(Nat)]
    BY <1>6, <2>5 DEF Send
  <2> QED
    BY <1>6, <2>2, <2>6 DEF Send, sensor, SensorTypeOK, estimation, control
<1>7. CASE Sent(p)
  <2>1. pc' \in [Threads -> Places] /\ front' \in [Levels -> Threads]
    BY <1>0, <1>7, StepTyped, PlaceAssumption DEF Sent
  <2>2. KernelTypeOK'
    BY <1>7, <2>1 DEF Sent, KernelTypeOK
  <2>3. got' \in [Ports -> Seq(Nat)]
    BY <1>7 DEF Sent
  <2> QED
    BY <1>7, <2>2, <2>3 DEF Sent, sensor, SensorTypeOK, estimation, control
<1> QED
  BY <1>1, <1>2, <1>3, <1>4, <1>5, <1>6, <1>7 DEF PortThread

LEMMA MotionCaptureTyped == ASSUME TypeOK, MotionCapture PROVE TypeOK'
  BY PortAssumption DEF MotionCapture, TypeOK, KernelTypeOK, SensorTypeOK, kernel, sensor,
                        control, telemetry

LEMMA StutterTyped == ASSUME TypeOK, UNCHANGED vars PROVE TypeOK'
  BY DEF vars, TypeOK, KernelTypeOK, SensorTypeOK, kernel, sensor, estimation, control, telemetry

LEMMA NextTyped == ASSUME TypeOK, [Next]_vars PROVE TypeOK'
  BY SensorTyped, EstTyped, CtrlTyped, PortTyped, MotionCaptureTyped, StutterTyped DEF Next

\* The variables keep their types.
THEOREM TypeCorrect == Spec => []TypeOK
  BY InitTyped, NextTyped, PTL DEF Spec
-----------------------------------------------------------------------------
(* The sample time.                                                        *)

\* The clock has counted every wrap, and no data are of a sample yet to come.
ClockInv ==
    /\ clock.old = now % Wrap
    /\ clock.base + clock.old = now
    /\ sample_time = now
    /\ temp_data <= now
    /\ stamp <= now

\* What is left of a multiple of Wrap determines the multiple.
LEMMA RemainderUnique ==
    ASSUME NEW j \in Nat, NEW k \in Nat, NEW r \in 0 .. Wrap - 1, NEW s \in 0 .. Wrap - 1,
           Wrap * j + r = Wrap * k + s
    PROVE  r = s
<1>1. Wrap \in Nat \ {0}
  BY ClockAssumption
<1>2. ASSUME NEW a \in Nat, NEW b \in Nat, a < b
      PROVE  Wrap * a + Wrap <= Wrap * b
  <2>1. PICK d \in Nat : b = a + 1 + d
    <3>1. b - a - 1 \in Nat /\ b = a + 1 + (b - a - 1)
      BY <1>2
    <3> QED
      BY <3>1
  <2>2. Wrap * b = Wrap * a + Wrap + Wrap * d
    BY <1>1, <2>1
  <2>3. Wrap * d \in Nat /\ Wrap * a \in Nat
    BY <1>1, <2>1
  <2> QED
    BY <1>1, <2>2, <2>3
<1>3. Wrap * j \in Nat /\ Wrap * k \in Nat
  BY <1>1
<1>4. CASE j < k
  <2>1. Wrap * j + Wrap <= Wrap * k
    BY <1>2, <1>4
  <2> QED
    BY <1>1, <1>3, <2>1
<1>5. CASE k < j
  <2>1. Wrap * k + Wrap <= Wrap * j
    BY <1>2, <1>5
  <2> QED
    BY <1>1, <1>3, <2>1
<1>6. CASE j = k
  BY <1>3, <1>6
<1> QED
  BY <1>4, <1>5, <1>6

LEMMA Remainder ==
    ASSUME NEW n \in Nat, NEW k \in Nat, NEW r \in 0 .. Wrap - 1, n = Wrap * k + r
    PROVE  n % Wrap = r
<1>1. Wrap \in Nat \ {0}
  BY ClockAssumption
<1>2. /\ n % Wrap \in 0 .. Wrap - 1 /\ n \div Wrap \in Nat
      /\ n = Wrap * (n \div Wrap) + (n % Wrap)
  BY <1>1
<1> QED
  BY <1>2, RemainderUnique

\* A counter that has gone on by at most one round shows a value that is not larger
\* exactly when it has wrapped.
LEMMA CounterWraps ==
    ASSUME NEW n \in Nat, NEW gap \in 1 .. Wrap
    PROVE  (n + gap) % Wrap = IF (n % Wrap) + gap < Wrap THEN (n % Wrap) + gap
                              ELSE (n % Wrap) + gap - Wrap
<1>1. Wrap \in Nat \ {0}
  BY ClockAssumption
<1>2. n % Wrap \in 0 .. Wrap - 1 /\ n = Wrap * (n \div Wrap) + (n % Wrap)
  BY <1>1
<1>3. n \div Wrap \in Nat
  BY <1>1
<1>4. CASE (n % Wrap) + gap < Wrap
  <2>1. (n % Wrap) + gap \in 0 .. Wrap - 1 /\ n + gap \in Nat
    BY <1>1, <1>2, <1>4
  <2>2. n + gap = Wrap * (n \div Wrap) + ((n % Wrap) + gap)
    BY <1>1, <1>2, <1>3
  <2> QED
    BY <1>3, <1>4, <2>1, <2>2, Remainder
<1>5. CASE ~((n % Wrap) + gap < Wrap)
  <2>1. (n % Wrap) + gap - Wrap \in 0 .. Wrap - 1
    BY <1>1, <1>2, <1>5
  <2>2. n + gap = Wrap * ((n \div Wrap) + 1) + ((n % Wrap) + gap - Wrap)
    BY <1>1, <1>2, <1>3
  <2>3. (n \div Wrap) + 1 \in Nat /\ n + gap \in Nat
    BY <1>3
  <2> QED
    BY <1>5, <2>1, <2>2, <2>3, Remainder
<1> QED
  BY <1>4, <1>5

LEMMA ClockStep == ASSUME TypeOK, ClockInv, [Next]_vars PROVE ClockInv'
<1>1. CASE Interrupt
  <2>1. PICK gap \in Gaps : now' = now + gap /\ clock' = GetIMUTime(clock, (now + gap) % Wrap)
    BY <1>1 DEF Interrupt
  <2>2. /\ now \in Nat /\ temp_data \in Nat /\ stamp \in Nat /\ clock.base \in Nat
        /\ clock.old \in 0 .. Wrap - 1
    BY DEF TypeOK, SensorTypeOK
  <2>3. gap \in 1 .. Wrap /\ Wrap \in Nat
    BY ClockAssumption
  <2>4. (now + gap) % Wrap = IF clock.old + gap < Wrap THEN clock.old + gap
                             ELSE clock.old + gap - Wrap
    BY <2>2, <2>3, CounterWraps DEF ClockInv
  <2>5. clock'.old = (now + gap) % Wrap
    BY <2>1 DEF GetIMUTime
  <2>6. clock'.base = IF (now + gap) % Wrap <= clock.old THEN clock.base + Wrap
                      ELSE clock.base
    BY <2>1 DEF GetIMUTime
  <2>7. clock'.base + clock'.old = now + gap
    BY <2>2, <2>3, <2>4, <2>5, <2>6 DEF ClockInv
  <2>8. sample_time' = now' /\ clock'.old = now' % Wrap /\ clock'.base + clock'.old = now'
    BY <1>1, <2>1, <2>5, <2>7 DEF Interrupt
  <2>9. temp_data' <= now' /\ stamp' <= now'
    BY <1>1, <2>1, <2>2, <2>3 DEF Interrupt, ClockInv
  <2> QED
    BY <2>8, <2>9 DEF ClockInv
<1>2. CASE TransferDone
  <2>1. now <= now
    BY DEF TypeOK, SensorTypeOK
  <2> QED
    BY <1>2, <2>1 DEF TransferDone, ClockInv
<1>3. CASE StartReadout \/ SensorWake \/ TransferFails \/ Convert \/ Calibrate
  BY <1>3 DEF StartReadout, SensorWake, TransferFails, Convert, Calibrate, sensor, ClockInv
<1>4. CASE EstThread \/ CtrlThread \/ MotionCapture
  BY <1>4 DEF EstThread, EstWake, EstCopy, EstCopyRest, EstAttitude, EstRate, CtrlThread, CtrlWake,
              CtrlAct, MotionCapture, sensor, ClockInv
<1>5. ASSUME NEW p \in Ports, Receive(p) \/ PortThread(p)
      PROVE  ClockInv'
  BY <1>5 DEF Receive, PortThread, CopyFirst, CopyRest, SetFirst, SetRest, Send, Sent, sensor,
              ClockInv
<1>6. CASE UNCHANGED vars
  BY <1>6 DEF vars, sensor, ClockInv
<1> QED
  BY <1>1, <1>2, <1>3, <1>4, <1>5, <1>6 DEF Next, SensorNext, SensorThread

LEMMA ClockStart == Init => ClockInv
<1> SUFFICES ASSUME Init
             PROVE  ClockInv
  OBVIOUS
<1>1. now \in 0 .. Wrap - 1 /\ now \in Nat
  BY ClockAssumption DEF Init
<1>2. now = Wrap * 0 + now
  BY <1>1, ClockAssumption
<1>3. now % Wrap = now
  BY <1>1, <1>2, Remainder
<1> QED
  BY <1>1, <1>3 DEF Init, ClockInv

\* For every width of the counter, the time of a sample is the true cycle of its
\* interrupt, and never before that of the data held.
THEOREM TimeIsExact == Spec => []TimeExact
<1>1. Init => TypeOK /\ ClockInv
  BY InitTyped, ClockStart
<1>2. TypeOK /\ ClockInv /\ [Next]_vars => TypeOK' /\ ClockInv'
  BY NextTyped, ClockStep
<1>3. TypeOK /\ ClockInv => TimeExact
  BY DEF ClockInv, TimeExact, TypeOK, SensorTypeOK
<1> QED
  BY <1>1, <1>2, <1>3, PTL DEF Spec
-----------------------------------------------------------------------------
(* The locks.                                                              *)

Copying(p, o) == pc[p] = "copy" /\ Object(p) = o

\* Whoever is between the two parts of a structure owns its lock, and a copier has
\* the part that is still there.
LockInv ==
    /\ pc[SENSOR] = "cal" => owner["imu"] = SENSOR
    /\ pc[SENSOR] # "cal" => Whole(mem["imu"])
    /\ pc[EST] = "copy" => owner["imu"] = EST /\ copy[1] = mem["imu"][1]
    /\ pc[EST] \in {"innovate", "rate"} => Whole(copy)
    /\ \A p \in Ports : pc[p] = "set" => owner["cal"] = p
    /\ (\A p \in Ports : pc[p] # "set") => Whole(mem["cal"])
    /\ \A p \in Ports : pc[p] = "copy" => /\ Copies(p)
                                          /\ owner[Object(p)] = p
                                          /\ holder[Object(p)][1] = mem[Object(p)][1]
    /\ \A o \in {"imu", "cal"} : (\A p \in Ports : ~Copying(p, o)) => Whole(holder[o])
    /\ Whole(applied)

\* A step of t leaves the other threads where they are, and the mutex it took or
\* released is the only one that changed hands.
LEMMA Moves ==
    ASSUME TypeOK, NEW t \in Threads, NEW next, Step(t, next)
    PROVE  pc'[t] = next /\ \A u \in Threads : u # t => pc'[u] = pc[u]
  BY DEF Step, TypeOK, KernelTypeOK

LEMMA Takes ==
    ASSUME TypeOK, NEW t, NEW m \in Mutexes, Acquire(t, m)
    PROVE  owner[m] = NoThread /\ owner'[m] = t /\ \A k \in Mutexes : k # m => owner'[k] = owner[k]
  BY DEF Acquire, TypeOK, KernelTypeOK

LEMMA Gives ==
    ASSUME TypeOK, NEW m \in Mutexes, Release(m)
    PROVE  owner'[m] = NoThread /\ \A k \in Mutexes : k # m => owner'[k] = owner[k]
  BY DEF Release, TypeOK, KernelTypeOK

\* One part of a structure is written.
LEMMA WritesPart ==
    ASSUME NEW S, NEW f \in [S -> [1 .. 2 -> Nat]], NEW s \in S, NEW i \in 1 .. 2, NEW v \in Nat,
           NEW g, g = [f EXCEPT ![s][i] = v]
    PROVE  /\ g[s][i] = v
           /\ \A j \in 1 .. 2 : j # i => g[s][j] = f[s][j]
           /\ \A r \in S : r # s => g[r] = f[r]
  OBVIOUS

\* No port is the readout, estimation or control thread, nor no thread at all.
LEMMA Strangers ==
    /\ SENSOR # EST /\ EST # CTRL /\ SENSOR # CTRL
    /\ SENSOR # NoThread /\ EST # NoThread
    /\ \A p \in Ports : p # NoThread
  BY Members, KernelAssumption, ThreadAssumption

LEMMA LockStart == Init => LockInv
<1> SUFFICES ASSUME Init
             PROVE  LockInv
  OBVIOUS
<1>1. pc[SENSOR] = "boot" /\ pc[EST] = "wait" /\ \A p \in Ports : pc[p] = "idle"
  BY Members, Strangers DEF Init
<1>2. Whole(mem["imu"]) /\ Whole(mem["cal"]) /\ Whole(applied)
  BY DEF Init, Whole
<1>3. \A o \in {"imu", "cal"} : Whole(holder[o])
  BY DEF Init, Whole
<1> QED
  BY <1>1, <1>2, <1>3 DEF LockInv

LEMMA ConvertLocks == ASSUME TypeOK, LockInv, Convert, UNCHANGED <<estimation, control, telemetry>>
                      PROVE  LockInv'
<1>1. owner["imu"] = NoThread /\ owner'["imu"] = SENSOR /\ owner'["cal"] = owner["cal"]
  BY Takes, Members DEF Convert
<1>2. pc'[SENSOR] = "cal" /\ \A u \in Threads : u # SENSOR => pc'[u] = pc[u]
  BY Moves, Members DEF Convert
<1>3. mem'["cal"] = mem["cal"] /\ mem'["imu"][2] = mem["imu"][2]
  <2>1. mem["imu"][1] + 1 \in Nat
    BY DEF TypeOK, SensorTypeOK
  <2> QED
    BY <2>1, WritesPart DEF Convert, TypeOK, SensorTypeOK
<1>4. UNCHANGED <<copy, holder, doing, applied>>
  BY DEF Convert, estimation, telemetry
<1>5. \A p \in Ports : pc'[p] = pc[p] /\ Object(p)' = Object(p) /\ Copies(p)' = Copies(p)
  BY <1>2, <1>4, Members DEF Object, Copies
<1>6. pc'[EST] = pc[EST] /\ pc[EST] # "copy"
  BY <1>1, <1>2, Members, Strangers DEF LockInv
<1>7. \A p \in Ports : pc[p] = "copy" => Object(p) = "cal"
  BY <1>1, Members, Strangers DEF LockInv
<1>8. (\A p \in Ports : pc[p] = "copy" => /\ Copies(p)
                                          /\ owner[Object(p)] = p
                                          /\ holder[Object(p)][1] = mem[Object(p)][1])'
  BY <1>1, <1>3, <1>4, <1>5, <1>7 DEF LockInv
<1>9. (\A o \in {"imu", "cal"} : (\A p \in Ports : ~Copying(p, o)) => Whole(holder[o]))'
  BY <1>4, <1>5 DEF LockInv, Copying
<1>10. (\A p \in Ports : pc[p] = "set" => owner["cal"] = p)'
  BY <1>1, <1>5 DEF LockInv
<1>11. ((\A p \in Ports : pc[p] # "set") => Whole(mem["cal"]))'
  BY <1>3, <1>5 DEF LockInv
<1> QED
  BY <1>1, <1>2, <1>4, <1>6, <1>8, <1>9, <1>10, <1>11 DEF LockInv, Whole

LEMMA CalibrateLocks == ASSUME TypeOK, LockInv, Calibrate, UNCHANGED <<estimation, control, telemetry>>
                        PROVE  LockInv'
<1>1. owner["imu"] = SENSOR /\ owner["cal"] = NoThread /\ owner'["cal"] = NoThread
  BY Gives, Members DEF Calibrate, LockInv
<1>2. pc'[SENSOR] = "wait" /\ \A u \in Threads : u # SENSOR => pc'[u] = pc[u]
  BY Moves, Members DEF Calibrate
<1>3. mem'["cal"] = mem["cal"] /\ mem'["imu"][1] = mem["imu"][1] /\ mem'["imu"][2] = mem["imu"][1]
  <2>1. mem["imu"][1] \in Nat
    BY DEF TypeOK, SensorTypeOK
  <2> QED
    BY <2>1, WritesPart DEF Calibrate, TypeOK, SensorTypeOK
<1>4. UNCHANGED <<copy, holder, doing>>
  BY DEF estimation, telemetry
<1>5. \A p \in Ports : pc'[p] = pc[p] /\ Object(p)' = Object(p) /\ Copies(p)' = Copies(p)
  BY <1>2, <1>4, Members DEF Object, Copies
<1>6. pc'[EST] = pc[EST] /\ pc[EST] # "copy"
  BY <1>1, <1>2, Members, Strangers DEF LockInv
<1>7. \A p \in Ports : pc[p] # "set" /\ pc[p] # "copy"
  BY <1>1, Members, Strangers DEF LockInv
<1>8. Whole(mem["cal"])
  BY <1>7 DEF LockInv
<1>9. Whole(applied)'
  BY <1>8 DEF Calibrate, Whole
<1>10. (\A o \in {"imu", "cal"} : (\A p \in Ports : ~Copying(p, o)) => Whole(holder[o]))'
  BY <1>4, <1>5 DEF LockInv, Copying
<1>11. Whole(mem["imu"])' /\ Whole(mem["cal"])'
  BY <1>3, <1>8 DEF Whole
<1>12. (pc[EST] \in {"innovate", "rate"} => Whole(copy))'
  BY <1>4, <1>6 DEF LockInv
<1> QED
  BY <1>2, <1>5, <1>6, <1>7, <1>9, <1>10, <1>11, <1>12 DEF LockInv

\* A step that writes nothing that has a lock, and moves no thread into or out of a
\* place where it owns one.
LEMMA QuietLocks ==
    ASSUME LockInv, UNCHANGED <<owner, copy, applied, holder>>,
           mem'["imu"] = mem["imu"], mem'["cal"] = mem["cal"],
           (pc'[SENSOR] = "cal") = (pc[SENSOR] = "cal"),
           (pc'[EST] = "copy") = (pc[EST] = "copy"),
           pc'[EST] \in {"innovate", "rate"} => pc[EST] \in {"innovate", "rate"},
           \A p \in Ports : /\ (pc'[p] = "set") = (pc[p] = "set")
                            /\ (pc'[p] = "copy") = (pc[p] = "copy")
                            /\ pc[p] = "copy" => doing'[p] = doing[p]
    PROVE  LockInv'
<1>1. \A p \in Ports : pc[p] = "copy" => Object(p)' = Object(p) /\ Copies(p)' = Copies(p)
  BY DEF Object, Copies
<1>2. (\A p \in Ports : pc[p] = "copy" => /\ Copies(p)
                                          /\ owner[Object(p)] = p
                                          /\ holder[Object(p)][1] = mem[Object(p)][1])'
  BY <1>1, Members DEF LockInv
<1>3. (\A o \in {"imu", "cal"} : (\A p \in Ports : ~Copying(p, o)) => Whole(holder[o]))'
  BY <1>1 DEF LockInv, Copying
<1>4. (\A p \in Ports : pc[p] = "set" => owner["cal"] = p)'
  BY DEF LockInv
<1>5. ((\A p \in Ports : pc[p] # "set") => Whole(mem["cal"]))'
  BY DEF LockInv
<1>6. (pc[SENSOR] = "cal" => owner["imu"] = SENSOR)' /\ (pc[SENSOR] # "cal" => Whole(mem["imu"]))'
  BY DEF LockInv
<1>7. (pc[EST] = "copy" => owner["imu"] = EST /\ copy[1] = mem["imu"][1])'
  BY DEF LockInv
<1>8. (pc[EST] \in {"innovate", "rate"} => Whole(copy))' /\ Whole(applied)'
  BY DEF LockInv
<1> QED
  BY <1>2, <1>3, <1>4, <1>5, <1>6, <1>7, <1>8 DEF LockInv

LEMMA SensorLocks == ASSUME TypeOK, LockInv, SensorNext, UNCHANGED <<estimation, control, telemetry>>
                     PROVE  LockInv'
<1>1. UNCHANGED <<copy, holder, doing>>
  BY DEF estimation, telemetry
<1>2. CASE Interrupt
  BY <1>1, <1>2, QuietLocks DEF Interrupt
<1>3. CASE StartReadout \/ TransferDone \/ TransferFails
  <2>1. UNCHANGED <<owner, mem, applied>>
    BY <1>3 DEF StartReadout, TransferDone, TransferFails, sensor
  <2>2. /\ pc'[SENSOR] # "cal" /\ pc[SENSOR] # "cal"
        /\ \A u \in Threads : u # SENSOR => pc'[u] = pc[u]
    BY <1>3, Members DEF StartReadout, TransferDone, TransferFails, TypeOK, KernelTypeOK
  <2>3. pc'[EST] = pc[EST] /\ \A p \in Ports : pc'[p] = pc[p]
    BY <2>2, Members, Strangers
  <2> QED
    BY <1>1, <2>1, <2>2, <2>3, QuietLocks
<1>4. CASE SensorWake
  <2>1. UNCHANGED <<owner, mem, applied>>
    BY <1>4 DEF SensorWake, sensor
  <2>2. /\ pc'[SENSOR] # "cal" /\ pc[SENSOR] # "cal"
        /\ \A u \in Threads : u # SENSOR => pc'[u] = pc[u]
    BY <1>4, Members, Moves DEF SensorWake
  <2>3. pc'[EST] = pc[EST] /\ \A p \in Ports : pc'[p] = pc[p]
    BY <2>2, Members, Strangers
  <2> QED
    BY <1>1, <2>1, <2>2, <2>3, QuietLocks
<1> QED
  BY <1>2, <1>3, <1>4, ConvertLocks, CalibrateLocks DEF SensorNext, SensorThread

LEMMA EstLocks == ASSUME TypeOK, LockInv, EstThread PROVE LockInv'
<1>1. ASSUME NEW next, Step(EST, next)
      PROVE  /\ pc'[EST] = next /\ pc'[SENSOR] = pc[SENSOR]
             /\ \A p \in Ports : pc'[p] = pc[p]
  BY <1>1, Moves, Members, Strangers
<1>2. CASE EstWake
  <2>1. pc[EST] = "wait" /\ pc'[EST] \in {"imu", "wait"}
    BY <1>1, <1>2 DEF EstWake
  <2>2. pc'[SENSOR] = pc[SENSOR] /\ \A p \in Ports : pc'[p] = pc[p]
    BY <1>1, <1>2 DEF EstWake
  <2> QED
    BY <1>2, <2>1, <2>2, QuietLocks DEF EstWake, estimation, telemetry
<1>3. CASE EstCopy
  <2>1. /\ pc[EST] = "imu" /\ pc'[EST] = "copy" /\ pc'[SENSOR] = pc[SENSOR]
        /\ \A p \in Ports : pc'[p] = pc[p]
    BY <1>1, <1>3 DEF EstCopy
  <2>2. owner["imu"] = NoThread /\ owner'["imu"] = EST /\ owner'["cal"] = owner["cal"]
    BY <1>3, Takes, Members DEF EstCopy, LockStructure
  <2>3. UNCHANGED <<mem, applied, holder, doing>>
    BY <1>3 DEF EstCopy, sensor, telemetry
  <2>4. copy'[1] = mem["imu"][1]
    BY <1>3 DEF EstCopy, TypeOK
  <2>5. \A p \in Ports : Object(p)' = Object(p) /\ Copies(p)' = Copies(p)
    BY <2>3 DEF Object, Copies
  <2>6. pc[SENSOR] # "cal" /\ \A p \in Ports : pc[p] = "copy" => Object(p) = "cal"
    BY <2>2, Members, Strangers DEF LockInv
  <2>7. (\A p \in Ports : pc[p] = "copy" => /\ Copies(p)
                                            /\ owner[Object(p)] = p
                                            /\ holder[Object(p)][1] = mem[Object(p)][1])'
    BY <2>1, <2>2, <2>3, <2>5, <2>6 DEF LockInv
  <2>8. (\A o \in {"imu", "cal"} : (\A p \in Ports : ~Copying(p, o)) => Whole(holder[o]))'
    BY <2>1, <2>3, <2>5 DEF LockInv, Copying
  <2>9. (\A p \in Ports : pc[p] = "set" => owner["cal"] = p)'
    BY <2>1, <2>2 DEF LockInv
  <2>10. ((\A p \in Ports : pc[p] # "set") => Whole(mem["cal"]))'
    BY <2>1, <2>3 DEF LockInv
  <2> QED
    BY <2>1, <2>2, <2>3, <2>4, <2>6, <2>7, <2>8, <2>9, <2>10 DEF LockInv
<1>4. CASE EstCopyRest
  <2>1. /\ pc[EST] = "copy" /\ pc'[EST] = "innovate" /\ pc'[SENSOR] = pc[SENSOR]
        /\ \A p \in Ports : pc'[p] = pc[p]
    BY <1>1, <1>4 DEF EstCopyRest
  <2>2. owner["imu"] = EST /\ owner'["cal"] = owner["cal"]
    BY <1>4, <2>1, Gives, Members DEF EstCopyRest, LockInv
  <2>3. UNCHANGED <<mem, applied, holder, doing>>
    BY <1>4 DEF EstCopyRest, sensor, telemetry
  <2>4. pc[SENSOR] # "cal" /\ \A p \in Ports : pc[p] = "copy" => Object(p) = "cal"
    BY <2>2, Members, Strangers DEF LockInv
  <2>5. Whole(mem["imu"]) /\ copy[1] = mem["imu"][1]
    BY <2>1, <2>4 DEF LockInv
  <2>6. copy'[1] = copy[1] /\ copy'[2] = mem["imu"][2]
    BY <1>4 DEF EstCopyRest, TypeOK
  <2>7. Whole(copy)'
    BY <2>5, <2>6 DEF Whole
  <2>8. \A p \in Ports : Object(p)' = Object(p) /\ Copies(p)' = Copies(p)
    BY <2>3 DEF Object, Copies
  <2>9. (\A p \in Ports : pc[p] = "copy" => /\ Copies(p)
                                            /\ owner[Object(p)] = p
                                            /\ holder[Object(p)][1] = mem[Object(p)][1])'
    BY <2>1, <2>2, <2>3, <2>4, <2>8 DEF LockInv
  <2>10. (\A o \in {"imu", "cal"} : (\A p \in Ports : ~Copying(p, o)) => Whole(holder[o]))'
    BY <2>1, <2>3, <2>8 DEF LockInv, Copying
  <2>11. (\A p \in Ports : pc[p] = "set" => owner["cal"] = p)'
    BY <2>1, <2>2 DEF LockInv
  <2>12. ((\A p \in Ports : pc[p] # "set") => Whole(mem["cal"]))'
    BY <2>1, <2>3 DEF LockInv
  <2>13. Whole(applied)' /\ Whole(mem["imu"])'
    BY <2>3, <2>5 DEF LockInv
  <2> QED
    BY <2>1, <2>4, <2>7, <2>9, <2>10, <2>11, <2>12, <2>13 DEF LockInv
<1>5. CASE EstAttitude \/ EstRate
  <2>1. mem["states"][1] + 1 \in Nat /\ mem["states"][1] \in Nat
    BY DEF TypeOK, SensorTypeOK
  <2>2. mem'["imu"] = mem["imu"] /\ mem'["cal"] = mem["cal"]
    BY <1>5, <2>1, WritesPart DEF EstAttitude, EstRate, TypeOK, SensorTypeOK
  <2>3. pc[EST] \in {"innovate", "rate"} /\ pc'[EST] # "copy"
    BY <1>1, <1>5 DEF EstAttitude, EstRate
  <2>4. pc'[SENSOR] = pc[SENSOR] /\ \A p \in Ports : pc'[p] = pc[p]
    BY <1>1, <1>5 DEF EstAttitude, EstRate
  <2>5. UNCHANGED <<owner, copy, applied, holder, doing>>
    BY <1>5 DEF EstAttitude, EstRate, telemetry
  <2> QED
    BY <2>2, <2>3, <2>4, <2>5, QuietLocks
<1> QED
  BY <1>2, <1>3, <1>4, <1>5 DEF EstThread

LEMMA CtrlLocks == ASSUME TypeOK, LockInv, CtrlThread PROVE LockInv'
<1>1. ASSUME NEW next, Step(CTRL, next)
      PROVE  /\ pc'[EST] = pc[EST] /\ pc'[SENSOR] = pc[SENSOR]
             /\ \A p \in Ports : pc'[p] = pc[p]
  BY <1>1, Moves, Members, Strangers
<1>2. pc'[EST] = pc[EST] /\ pc'[SENSOR] = pc[SENSOR] /\ \A p \in Ports : pc'[p] = pc[p]
  BY <1>1 DEF CtrlThread, CtrlWake, CtrlAct
<1> QED
  BY <1>2, QuietLocks DEF CtrlThread, CtrlWake, CtrlAct, sensor, estimation, telemetry

LEMMA PortLocks == ASSUME TypeOK, LockInv, NEW p \in Ports, Receive(p) \/ PortThread(p)
                   PROVE  LockInv'
<1>0. p \in Threads /\ p # NoThread /\ p # SENSOR /\ p # EST
      /\ Object(p) \in {"imu", "cal"} /\ Object(p) \in Mutexes
  BY Members, Strangers
<1>1. ASSUME NEW next, Step(p, next)
      PROVE  /\ pc'[p] = next /\ pc'[EST] = pc[EST] /\ pc'[SENSOR] = pc[SENSOR]
             /\ \A q \in Ports : q # p => pc'[q] = pc[q]
  BY <1>0, <1>1, Moves, Members
<1>2. CASE Receive(p)
  <2>1. PICK command \in Commands : /\ doing' = [doing EXCEPT ![p] = command]
                                    /\ pc' = [pc EXCEPT ![p] = FirstPlace(command)]
    BY <1>2 DEF Receive
  <2>2. pc[p] = "idle" /\ FirstPlace(command) \notin {"copy", "set"}
    BY <1>2 DEF Receive, FirstPlace
  <2>3. /\ pc'[p] \notin {"copy", "set"} /\ pc'[EST] = pc[EST] /\ pc'[SENSOR] = pc[SENSOR]
        /\ \A q \in Ports : q # p => pc'[q] = pc[q] /\ doing'[q] = doing[q]
    BY <1>0, <2>1, <2>2, Members DEF TypeOK, KernelTypeOK
  <2>4. UNCHANGED <<owner, copy, applied, holder, mem>>
    BY <1>2 DEF Receive, sensor, estimation
  <2> QED
    BY <2>2, <2>3, <2>4, QuietLocks
<1>3. CASE CopyFirst(p)
  <2>1. /\ pc[p] = Object(p) /\ pc'[p] = "copy" /\ pc'[EST] = pc[EST]
        /\ pc'[SENSOR] = pc[SENSOR] /\ \A q \in Ports : q # p => pc'[q] = pc[q]
    BY <1>1, <1>3 DEF CopyFirst
  <2>2. /\ owner[Object(p)] = NoThread /\ owner'[Object(p)] = p
        /\ \A k \in Mutexes : k # Object(p) => owner'[k] = owner[k]
    BY <1>0, <1>3, Takes DEF CopyFirst, LockStructure
  <2>3. UNCHANGED <<mem, applied, copy, doing>>
    BY <1>3 DEF CopyFirst, sensor, estimation
  <2>4. /\ holder'[Object(p)][1] = mem[Object(p)][1]
        /\ \A o \in {"imu", "cal"} : o # Object(p) => holder'[o] = holder[o]
    <3>1. mem[Object(p)][1] \in Nat
      BY <1>0 DEF TypeOK, SensorTypeOK
    <3> QED
      BY <1>0, <1>3, <3>1, WritesPart DEF CopyFirst, TypeOK
  <2>5. Copies(p)
    BY <1>3 DEF CopyFirst
  <2>6. \A q \in Ports : Object(q)' = Object(q) /\ Copies(q)' = Copies(q)
    BY <2>3 DEF Object, Copies
  <2>7. \A q \in Ports : pc[q] = "copy" => Object(q) # Object(p)
    BY <2>2, Strangers DEF LockInv
  <2>8. (\A q \in Ports : pc[q] = "copy" => /\ Copies(q)
                                            /\ owner[Object(q)] = q
                                            /\ holder[Object(q)][1] = mem[Object(q)][1])'
    BY <2>1, <2>2, <2>3, <2>4, <2>5, <2>6, <2>7, Members DEF LockInv
  <2>9. (\A o \in {"imu", "cal"} : (\A q \in Ports : ~Copying(q, o)) => Whole(holder[o]))'
    BY <2>1, <2>4, <2>6, <1>0 DEF LockInv, Copying
  <2>10. (\A q \in Ports : pc[q] = "set" => owner["cal"] = q)'
    BY <2>1, <2>2, Members, Strangers DEF LockInv
  <2>11. ((\A q \in Ports : pc[q] # "set") => Whole(mem["cal"]))'
    BY <1>0, <2>1, <2>3 DEF LockInv
  <2>12. (pc[SENSOR] = "cal" => owner["imu"] = SENSOR)'
    BY <1>0, <2>1, <2>2, Members, Strangers DEF LockInv
  <2>13. (pc[EST] = "copy" => owner["imu"] = EST /\ copy[1] = mem["imu"][1])'
    BY <1>0, <2>1, <2>2, <2>3, Members, Strangers DEF LockInv
  <2> QED
    BY <2>1, <2>3, <2>8, <2>9, <2>10, <2>11, <2>12, <2>13 DEF LockInv
<1>4. CASE CopyRest(p)
  <2>1. /\ pc[p] = "copy" /\ pc'[p] = "send" /\ pc'[EST] = pc[EST]
        /\ pc'[SENSOR] = pc[SENSOR] /\ \A q \in Ports : q # p => pc'[q] = pc[q]
    BY <1>1, <1>4 DEF CopyRest
  <2>2. owner[Object(p)] = p /\ holder[Object(p)][1] = mem[Object(p)][1]
    BY <2>1 DEF LockInv
  <2>3. \A k \in Mutexes : k # Object(p) => owner'[k] = owner[k]
    BY <1>0, <1>4, Gives DEF CopyRest
  <2>4. UNCHANGED <<mem, applied, copy, doing>>
    BY <1>4 DEF CopyRest, sensor, estimation
  <2>5. /\ holder'[Object(p)][1] = holder[Object(p)][1]
        /\ holder'[Object(p)][2] = mem[Object(p)][2]
        /\ \A o \in {"imu", "cal"} : o # Object(p) => holder'[o] = holder[o]
    <3>1. mem[Object(p)][2] \in Nat
      BY <1>0 DEF TypeOK, SensorTypeOK
    <3> QED
      BY <1>0, <1>4, <3>1, WritesPart DEF CopyRest, TypeOK
  <2>6. Whole(mem[Object(p)])
    <3>1. CASE Object(p) = "imu"
      BY <1>0, <2>2, <3>1 DEF LockInv
    <3>2. CASE Object(p) = "cal"
      <4>1. \A q \in Ports : pc[q] # "set"
        BY <2>1, <2>2, <3>2 DEF LockInv
      <4> QED
        BY <3>2, <4>1 DEF LockInv
    <3> QED
      BY <1>0, <3>1, <3>2
  <2>7. Whole(holder[Object(p)])'
    BY <2>2, <2>4, <2>5, <2>6 DEF Whole, Object
  <2>8. \A q \in Ports : Object(q)' = Object(q) /\ Copies(q)' = Copies(q)
    BY <2>4 DEF Object, Copies
  <2>9. \A q \in Ports : q # p /\ pc[q] = "copy" => Object(q) # Object(p)
    BY <2>2 DEF LockInv
  <2>10. (\A q \in Ports : pc[q] = "copy" => /\ Copies(q)
                                            /\ owner[Object(q)] = q
                                            /\ holder[Object(q)][1] = mem[Object(q)][1])'
    BY <2>1, <2>3, <2>4, <2>5, <2>8, <2>9, Members DEF LockInv
  <2>11. (\A o \in {"imu", "cal"} : (\A q \in Ports : ~Copying(q, o)) => Whole(holder[o]))'
    <3>1. ASSUME NEW o \in {"imu", "cal"}, o # Object(p), (\A q \in Ports : ~Copying(q, o))'
          PROVE  Whole(holder[o])'
      <4>1. \A q \in Ports : ~Copying(q, o)
        BY <2>1, <2>8, <3>1 DEF Copying
      <4>2. Whole(holder[o])
        BY <4>1 DEF LockInv
      <4> QED
        BY <2>5, <3>1, <4>2 DEF Whole
    <3> QED
      BY <2>7, <2>8, <3>1
  <2>12. (\A q \in Ports : pc[q] = "set" => owner["cal"] = q)'
    BY <1>0, <2>1, <2>2, <2>3, Members DEF LockInv
  <2>13. ((\A q \in Ports : pc[q] # "set") => Whole(mem["cal"]))'
    BY <1>0, <2>1, <2>4 DEF LockInv
  <2>14. (pc[SENSOR] = "cal" => owner["imu"] = SENSOR)'
    BY <1>0, <2>1, <2>2, <2>3, Members DEF LockInv
  <2>15. (pc[EST] = "copy" => owner["imu"] = EST /\ copy[1] = mem["imu"][1])'
    BY <1>0, <2>1, <2>2, <2>3, <2>4, Members DEF LockInv
  <2> QED
    BY <2>1, <2>4, <2>10, <2>11, <2>12, <2>13, <2>14, <2>15 DEF LockInv
<1>5. CASE SetFirst(p)
  <2>1. /\ pc[p] = "cal" /\ pc'[p] = "set" /\ pc'[EST] = pc[EST]
        /\ pc'[SENSOR] = pc[SENSOR] /\ \A q \in Ports : q # p => pc'[q] = pc[q]
    BY <1>1, <1>5 DEF SetFirst
  <2>2. owner["cal"] = NoThread /\ owner'["cal"] = p /\ owner'["imu"] = owner["imu"]
    BY <1>5, Takes, Members DEF SetFirst, LockStructure
  <2>3. UNCHANGED <<applied, copy, doing, holder>>
    BY <1>5 DEF SetFirst, estimation, telemetry
  <2>4. mem'["imu"] = mem["imu"]
    <3>1. mem["cal"][1] + 1 \in Nat
      BY DEF TypeOK, SensorTypeOK
    <3> QED
      BY <1>5, <3>1, WritesPart DEF SetFirst, TypeOK, SensorTypeOK
  <2>5. \A q \in Ports : pc[q] # "set" /\ (pc[q] = "copy" => Object(q) = "imu")
    BY <2>2, Members, Strangers DEF LockInv
  <2>6. \A q \in Ports : Object(q)' = Object(q) /\ Copies(q)' = Copies(q)
    BY <2>3 DEF Object, Copies
  <2>7. (\A q \in Ports : pc[q] = "copy" => /\ Copies(q)
                                            /\ owner[Object(q)] = q
                                            /\ holder[Object(q)][1] = mem[Object(q)][1])'
    BY <2>1, <2>2, <2>3, <2>4, <2>5, <2>6, Members DEF LockInv
  <2>8. (\A o \in {"imu", "cal"} : (\A q \in Ports : ~Copying(q, o)) => Whole(holder[o]))'
    BY <1>0, <2>1, <2>3, <2>6 DEF LockInv, Copying
  <2>9. (\A q \in Ports : pc[q] = "set" => owner["cal"] = q)'
    BY <2>1, <2>2, <2>5
  <2>10. ((\A q \in Ports : pc[q] # "set") => Whole(mem["cal"]))'
    BY <2>1
  <2>11. (pc[SENSOR] = "cal" => owner["imu"] = SENSOR)' /\ (pc[SENSOR] # "cal" => Whole(mem["imu"]))'
    BY <2>1, <2>2, <2>4 DEF LockInv
  <2>12. (pc[EST] = "copy" => owner["imu"] = EST /\ copy[1] = mem["imu"][1])'
    BY <2>1, <2>2, <2>3, <2>4 DEF LockInv
  <2> QED
    BY <2>1, <2>3, <2>7, <2>8, <2>9, <2>10, <2>11, <2>12 DEF LockInv
<1>6. CASE SetRest(p)
  <2>1. /\ pc[p] = "set" /\ pc'[p] = "idle" /\ pc'[EST] = pc[EST]
        /\ pc'[SENSOR] = pc[SENSOR] /\ \A q \in Ports : q # p => pc'[q] = pc[q]
    BY <1>1, <1>6 DEF SetRest
  <2>2. owner["cal"] = p /\ owner'["imu"] = owner["imu"]
    BY <1>6, <2>1, Gives, Members DEF SetRest, LockInv
  <2>3. UNCHANGED <<applied, copy, holder>> /\ \A q \in Ports : q # p => doing'[q] = doing[q]
    BY <1>6 DEF SetRest, estimation, TypeOK
  <2>4. mem'["imu"] = mem["imu"] /\ Whole(mem["cal"])'
    <3>1. mem["cal"][1] \in Nat
      BY DEF TypeOK, SensorTypeOK
    <3> QED
      BY <1>6, <3>1, WritesPart DEF SetRest, TypeOK, SensorTypeOK, Whole
  <2>5. \A q \in Ports : q # p => pc[q] # "set" /\ (pc[q] = "copy" => Object(q) = "imu")
    BY <2>2, Members DEF LockInv
  <2>6. \A q \in Ports : q # p => Object(q)' = Object(q) /\ Copies(q)' = Copies(q)
    BY <2>3 DEF Object, Copies
  <2>7. (\A q \in Ports : pc[q] = "copy" => /\ Copies(q)
                                            /\ owner[Object(q)] = q
                                            /\ holder[Object(q)][1] = mem[Object(q)][1])'
    BY <2>1, <2>2, <2>3, <2>4, <2>5, <2>6, Members DEF LockInv
  <2>8. (\A o \in {"imu", "cal"} : (\A q \in Ports : ~Copying(q, o)) => Whole(holder[o]))'
    BY <2>1, <2>3, <2>6 DEF LockInv, Copying
  <2>9. (\A q \in Ports : pc[q] = "set" => owner["cal"] = q)'
    BY <2>1, <2>5
  <2>10. (pc[SENSOR] = "cal" => owner["imu"] = SENSOR)' /\ (pc[SENSOR] # "cal" => Whole(mem["imu"]))'
    BY <2>1, <2>2, <2>4 DEF LockInv
  <2>11. (pc[EST] = "copy" => owner["imu"] = EST /\ copy[1] = mem["imu"][1])'
    BY <2>1, <2>2, <2>3, <2>4 DEF LockInv
  <2> QED
    BY <2>1, <2>3, <2>4, <2>7, <2>8, <2>9, <2>10, <2>11 DEF LockInv
<1>7. CASE Send(p) \/ Sent(p)
  <2>1. /\ pc[p] = "send" /\ pc'[p] \in {"send", "idle"} /\ pc'[EST] = pc[EST]
        /\ pc'[SENSOR] = pc[SENSOR] /\ \A q \in Ports : q # p => pc'[q] = pc[q]
    BY <1>1, <1>7 DEF Send, Sent
  <2>2. UNCHANGED <<owner, copy, applied, holder, mem>>
    BY <1>7 DEF Send, Sent, sensor, estimation
  <2>3. \A q \in Ports : q # p => doing'[q] = doing[q]
    BY <1>7 DEF Send, Sent, TypeOK
  <2> QED
    BY <2>1, <2>2, <2>3, QuietLocks
<1> QED
  BY <1>2, <1>3, <1>4, <1>5, <1>6, <1>7 DEF PortThread

LEMMA NextLocks == ASSUME TypeOK, LockInv, [Next]_vars PROVE LockInv'
<1>1. CASE MotionCapture \/ UNCHANGED vars
  <2>1. UNCHANGED <<pc, owner, copy, applied, holder, mem, doing>>
    BY <1>1 DEF MotionCapture, vars, kernel, sensor, estimation, telemetry
  <2> QED
    BY <2>1, QuietLocks
<1> QED
  BY <1>1, SensorLocks, EstLocks, CtrlLocks, PortLocks DEF Next

\* However many ports copy and set, and wherever they are preempted, what was copied
\* under a lock is of one reading.
THEOREM LocksKeepWhole == Spec => []OneReading
<1>1. Init => TypeOK /\ LockInv
  BY InitTyped, LockStart
<1>2. TypeOK /\ LockInv /\ [Next]_vars => TypeOK' /\ LockInv'
  BY NextTyped, NextLocks
<1>3. LockInv => OneReading
  BY DEF LockInv, OneReading, Copying
<1> QED
  BY <1>1, <1>2, <1>3, PTL DEF Spec
-----------------------------------------------------------------------------
(* The priorities.                                                         *)

\* A thread that waits for nothing is ready.
LEMMA BusyIsReady ==
    ASSUME NEW u \in Threads, pc[u] \in {"copy", "innovate", "rate", "control", "set", "send"}
    PROVE  Ready(u)
  BY PlaceAssumption DEF Ready, Asleep, Waits

\* Of the threads of one priority the one in front goes on for as long as it is ready.
LEMMA FrontRuns ==
    ASSUME TypeOK, NEW u \in Threads, front[Priority[u]] = u, Ready(u),
           NEW t \in Threads, NEW next, Step(t, next), t # u
    PROVE  Priority[t] # Priority[u] /\ front'[Priority[u]] = u
  BY KernelAssumption DEF Step, Runs, TypeOK, KernelTypeOK, Levels

LEMMA StepsToFront ==
    ASSUME TypeOK, NEW t \in Threads, NEW next, Step(t, next)
    PROVE  front'[Priority[t]] = t
  BY KernelAssumption DEF Step, TypeOK, KernelTypeOK, Levels

\* The estimation and the control thread are in front while they are in the middle of
\* the estimate.
FrontInv ==
    /\ pc[EST] = "rate" => front[Priority[EST]] = EST
    /\ pc[EST] # "rate" => Whole(mem["states"])
    /\ pc[CTRL] = "control" => front[Priority[CTRL]] = CTRL
    /\ ControlSeesWhole

LEMMA FrontStart == Init => FrontInv
<1> SUFFICES ASSUME Init
             PROVE  FrontInv
  OBVIOUS
<1>1. pc[EST] = "wait" /\ pc[CTRL] = "wait"
  BY Members, Strangers DEF Init
<1>2. Whole(mem["states"])
  BY DEF Init, Whole
<1> QED
  BY <1>1, <1>2 DEF FrontInv, ControlSeesWhole

\* No step of another thread comes between.
LEMMA OthersFront ==
    ASSUME TypeOK, FrontInv, mem'["states"] = mem["states"], seen' = seen,
           pc'[EST] = pc[EST], pc'[CTRL] = pc[CTRL],
           front' = front \/ \E t \in Threads \ {EST, CTRL}, next \in Places : Step(t, next)
    PROVE  FrontInv'
<1>1. pc[EST] = "rate" => front'[Priority[EST]] = EST
  BY BusyIsReady, FrontRuns, Members DEF FrontInv
<1>2. pc[CTRL] = "control" => front'[Priority[CTRL]] = CTRL
  BY BusyIsReady, FrontRuns, Members DEF FrontInv
<1> QED
  BY <1>1, <1>2 DEF FrontInv, ControlSeesWhole, Whole

LEMMA EstFront == ASSUME TypeOK, FrontInv, EstThread PROVE FrontInv'
<1>1. \E next : Step(EST, next)
  BY DEF EstThread, EstWake, EstCopy, EstCopyRest, EstAttitude, EstRate
<1>2. front'[Priority[EST]] = EST
  BY <1>1, StepsToFront, Members
<1>3. pc'[CTRL] = pc[CTRL]
  BY <1>1, Moves, Members, Strangers
<1>4. pc[CTRL] # "control"
  BY <1>1, FrontRuns, BusyIsReady, Members, Strangers, PriorityAssumption DEF FrontInv
<1>5. CASE EstWake \/ EstCopy \/ EstCopyRest
  <2>1. pc[EST] # "rate" /\ mem' = mem
    BY <1>5 DEF EstWake, EstCopy, EstCopyRest, sensor
  <2> QED
    BY <1>2, <1>3, <1>4, <2>1 DEF FrontInv, ControlSeesWhole, Whole
<1>6. CASE EstAttitude
  <2>1. pc'[EST] = "rate"
    BY <1>6, Moves, Members DEF EstAttitude
  <2> QED
    BY <1>2, <1>3, <1>4, <2>1 DEF FrontInv, ControlSeesWhole
<1>7. CASE EstRate
  <2>1. pc'[EST] = "wait"
    BY <1>7, Moves, Members DEF EstRate
  <2>2. mem["states"][1] \in Nat
    BY DEF TypeOK, SensorTypeOK
  <2>3. Whole(mem["states"])'
    BY <1>7, <2>2, WritesPart DEF EstRate, TypeOK, SensorTypeOK, Whole
  <2> QED
    BY <1>3, <1>4, <2>1, <2>3 DEF FrontInv, ControlSeesWhole
<1> QED
  BY <1>5, <1>6, <1>7 DEF EstThread

LEMMA CtrlFront == ASSUME TypeOK, FrontInv, CtrlThread PROVE FrontInv'
<1>1. \E next : Step(CTRL, next)
  BY DEF CtrlThread, CtrlWake, CtrlAct
<1>2. front'[Priority[CTRL]] = CTRL
  BY <1>1, StepsToFront, Members
<1>3. pc'[EST] = pc[EST]
  BY <1>1, Moves, Members, Strangers
<1>4. pc[EST] # "rate"
  BY <1>1, FrontRuns, BusyIsReady, Members, Strangers, PriorityAssumption DEF FrontInv
<1>5. Whole(mem["states"]) /\ mem' = mem
  BY <1>4 DEF FrontInv, CtrlThread, CtrlWake, CtrlAct, sensor
<1>6. ControlSeesWhole'
  <2>1. CASE CtrlWake
    BY <1>5, <2>1 DEF CtrlWake, ControlSeesWhole, Whole
  <2>2. CASE CtrlAct
    <3>1. pc'[CTRL] = "wait"
      BY <2>2, Moves, Members DEF CtrlAct
    <3> QED
      BY <3>1 DEF ControlSeesWhole
  <2> QED
    BY <2>1, <2>2 DEF CtrlThread
<1> QED
  BY <1>2, <1>3, <1>4, <1>5, <1>6 DEF FrontInv, Whole

\* What the other actions do to the scheduler and to the estimate.
LEMMA OtherSteps ==
    ASSUME TypeOK, \/ SensorNext /\ UNCHANGED <<estimation, control, telemetry>>
                   \/ \E p \in Ports : Receive(p) \/ PortThread(p)
                   \/ MotionCapture
                   \/ UNCHANGED vars
    PROVE  /\ mem'["states"] = mem["states"] /\ seen' = seen
           /\ pc'[EST] = pc[EST] /\ pc'[CTRL] = pc[CTRL]
           /\ \/ front' = front
              \/ \E t \in Threads \ {EST, CTRL}, next \in Places : Step(t, next)
<1>1. CASE Interrupt /\ UNCHANGED control
  BY <1>1 DEF Interrupt, control
<1>2. CASE (StartReadout \/ TransferDone \/ TransferFails) /\ UNCHANGED control
  <2>1. pc'[EST] = pc[EST] /\ pc'[CTRL] = pc[CTRL]
    BY <1>2, Members, Strangers DEF StartReadout, TransferDone, TransferFails, TypeOK, KernelTypeOK
  <2> QED
    BY <1>2, <2>1 DEF StartReadout, TransferDone, TransferFails, sensor, control
<1>3. CASE SensorThread /\ UNCHANGED control
  <2>1. \E next \in Places : Step(SENSOR, next)
    BY <1>3, PlaceAssumption DEF SensorThread, SensorWake, Convert, Calibrate
  <2>2. pc'[EST] = pc[EST] /\ pc'[CTRL] = pc[CTRL]
    BY <2>1, Moves, Members, Strangers
  <2>3. mem["imu"][1] \in Nat /\ mem["imu"][1] + 1 \in Nat
    BY DEF TypeOK, SensorTypeOK
  <2>4. mem'["states"] = mem["states"]
    BY <1>3, <2>3, WritesPart DEF SensorThread, SensorWake, Convert, Calibrate, sensor, TypeOK,
                                 SensorTypeOK
  <2> QED
    BY <1>3, <2>1, <2>2, <2>4, Members, Strangers DEF control
<1>4. ASSUME NEW p \in Ports, Receive(p)
      PROVE  /\ mem' = mem /\ seen' = seen /\ front' = front
             /\ pc'[EST] = pc[EST] /\ pc'[CTRL] = pc[CTRL]
  BY <1>4, Members DEF Receive, sensor, control, TypeOK, KernelTypeOK
<1>5. ASSUME NEW p \in Ports, PortThread(p)
      PROVE  /\ mem'["states"] = mem["states"] /\ seen' = seen
             /\ pc'[EST] = pc[EST] /\ pc'[CTRL] = pc[CTRL]
             /\ \E t \in Threads \ {EST, CTRL}, next \in Places : Step(t, next)
  <2>1. \E next \in Places : Step(p, next)
    BY <1>5, PlaceAssumption DEF PortThread, CopyFirst, CopyRest, SetFirst, SetRest, Send, Sent
  <2>2. pc'[EST] = pc[EST] /\ pc'[CTRL] = pc[CTRL]
    BY <2>1, Moves, Members
  <2>3. mem["cal"][1] \in Nat /\ mem["cal"][1] + 1 \in Nat
    BY DEF TypeOK, SensorTypeOK
  <2>4. mem'["states"] = mem["states"]
    BY <1>5, <2>3, WritesPart DEF PortThread, CopyFirst, CopyRest, SetFirst, SetRest, Send, Sent,
                                 sensor, TypeOK, SensorTypeOK
  <2>5. seen' = seen
    BY <1>5 DEF PortThread, CopyFirst, CopyRest, SetFirst, SetRest, Send, Sent, control
  <2> QED
    BY <2>1, <2>2, <2>4, <2>5, Members
<1>6. CASE MotionCapture \/ UNCHANGED vars
  BY <1>6 DEF MotionCapture, vars, kernel, sensor, control
<1> QED
  BY <1>1, <1>2, <1>3, <1>4, <1>5, <1>6 DEF SensorNext

LEMMA NextFront == ASSUME TypeOK, FrontInv, [Next]_vars PROVE FrontInv'
<1>1. CASE \/ SensorNext /\ UNCHANGED <<estimation, control, telemetry>>
           \/ \E p \in Ports : Receive(p) \/ PortThread(p)
           \/ MotionCapture
           \/ UNCHANGED vars
  BY <1>1, OtherSteps, OthersFront
<1> QED
  BY <1>1, EstFront, CtrlFront DEF Next

\* Without a lock, for any other threads and priorities: the estimate does not change
\* while the control thread computes, because the two threads have one priority.
THEOREM ControlWhole == Spec => []ControlSeesWhole
<1>1. Init => TypeOK /\ FrontInv
  BY InitTyped, FrontStart
<1>2. TypeOK /\ FrontInv /\ [Next]_vars => TypeOK' /\ FrontInv'
  BY NextTyped, NextFront
<1>3. FrontInv => ControlSeesWhole
  BY DEF FrontInv
<1> QED
  BY <1>1, <1>2, <1>3, PTL DEF Spec
-----------------------------------------------------------------------------
(* The messages.                                                           *)

\* A port that holds a lock, or that has filled or begun to read what it sends.
Engaged(p) == \/ pc[p] \in {"copy", "set"}
              \/ pc[p] = "send" /\ (Copies(p) \/ got[p] # <<>>)

\* The places at which a port owns mutex m.
Holds(p, m) == \/ pc[p] = "copy" /\ m = Object(p)
               \/ pc[p] = "set" /\ m = "cal"

\* The part of its source that a port reads i-th.
Half(i) == ((i - 1) % 2) + 1

\* Only one port is engaged, the one in front; what it has read so far is its holder, or
\* the estimate, which only grows.
SendInv ==
    /\ \A p \in Ports : Engaged(p) => front[Priority[p]] = p
    /\ \A p \in Ports, m \in Mutexes : owner[m] = p => Holds(p, m)
    /\ \A p \in Ports : got[p] # <<>> => pc[p] = "send"
    /\ \A p \in Ports : pc[p] = "send" => Copies(p) \/ doing[p] = "GetEstimation"
    /\ \A p \in Ports : Copies(p) =>
         \A i \in 1 .. Len(got[p]) : got[p][i] = holder[Object(p)][Half(i)]
    /\ \A p \in Ports : doing[p] = "GetEstimation" =>
         \A i \in 1 .. Len(got[p]) : /\ got[p][i] <= mem["states"][1]
                                    /\ \A j \in 1 .. i : got[p][j] <= got[p][i]

LEMMA EngagedIsReady == ASSUME NEW p \in Ports, Engaged(p) PROVE Ready(p)
  BY BusyIsReady, Members DEF Engaged

\* No other port takes a step while p is engaged.
LEMMA OneEngaged ==
    ASSUME TypeOK, SendInv, NEW p \in Ports, NEW q \in Ports, p # q, NEW next, Step(q, next)
    PROVE  ~Engaged(p)
  BY EngagedIsReady, FrontRuns, Members, PriorityAssumption DEF SendInv

\* While a port sends, the estimation thread is not in the middle of the estimate.
LEMMA SenderSeesWhole ==
    ASSUME TypeOK, SendInv, FrontInv, NEW p \in Ports, pc[p] = "send", NEW next, Step(p, next)
    PROVE  Whole(mem["states"])
<1>1. SUFFICES ASSUME pc[EST] = "rate"
               PROVE  FALSE
  BY DEF FrontInv
<1>2. Ready(EST)
  BY <1>1, BusyIsReady, Members
<1>3. Urgency(p) = {Priority[p]}
  <2>1. \A m \in Mutexes : owner[m] # p
    BY DEF SendInv, Holds
  <2> QED
    BY <2>1 DEF Urgency
<1>4. Priority[EST] \in Urgency(EST)
  BY Members DEF Urgency
<1>5. Priority[EST] > Priority[p]
  BY PriorityAssumption, Members, KernelAssumption
<1>6. Outranks(EST, p)
  BY <1>3, <1>4, <1>5 DEF Outranks
<1> QED
  BY <1>2, <1>6, Members DEF Step, Runs

LEMMA SendStart == Init => SendInv
<1> SUFFICES ASSUME Init
             PROVE  SendInv
  OBVIOUS
<1>1. \A p \in Ports : pc[p] = "idle" /\ got[p] = <<>> /\ doing[p] = "nothing"
  BY Members DEF Init
<1>2. \A p \in Ports, m \in Mutexes : owner[m] # p
  BY Strangers DEF Init
<1> QED
  BY <1>1, <1>2 DEF SendInv, Engaged, Copies

\* The steps of the other threads.
LEMMA OthersSend ==
    ASSUME TypeOK, SendInv, UNCHANGED <<holder, doing, got>>,
           mem'["states"][1] >= mem["states"][1], mem'["states"][1] \in Nat,
           \A p \in Ports : pc'[p] = pc[p],
           \A p \in Ports, m \in Mutexes : owner'[m] = p => owner[m] = p,
           front' = front \/ \E t \in Threads \ Ports, next \in Places : Step(t, next)
    PROVE  SendInv'
<1>1. \A p \in Ports : /\ Copies(p)' = Copies(p) /\ Object(p)' = Object(p)
                        /\ Engaged(p)' = Engaged(p)
  BY DEF Copies, Object, Engaged
<1>2. (\A p \in Ports : Engaged(p) => front[Priority[p]] = p)'
  <2>1. ASSUME NEW p \in Ports, Engaged(p)
        PROVE  front'[Priority[p]] = p
    <3>1. front[Priority[p]] = p /\ Ready(p) /\ p \in Threads
      BY <2>1, EngagedIsReady, Members DEF SendInv
    <3>2. CASE front' = front
      BY <3>1, <3>2
    <3>3. ASSUME NEW t \in Threads \ Ports, NEW next \in Places, Step(t, next)
          PROVE  front'[Priority[p]] = p
      BY <3>1, <3>3, FrontRuns
    <3> QED
      BY <3>2, <3>3
  <2> QED
    BY <1>1, <2>1
<1>3. (\A p \in Ports, m \in Mutexes : owner[m] = p => Holds(p, m))'
  BY <1>1 DEF SendInv, Holds
<1>4. (\A p \in Ports : Copies(p) =>
         \A i \in 1 .. Len(got[p]) : got[p][i] = holder[Object(p)][Half(i)])'
  BY <1>1 DEF SendInv
<1>5. (\A p \in Ports : doing[p] = "GetEstimation" =>
         \A i \in 1 .. Len(got[p]) : /\ got[p][i] <= mem["states"][1]
                                    /\ \A j \in 1 .. i : got[p][j] <= got[p][i])'
  <2>1. ASSUME NEW p \in Ports, doing[p] = "GetEstimation", NEW i \in 1 .. Len(got[p])
        PROVE  got[p][i] <= mem'["states"][1]
    <3>1. got[p][i] \in Nat /\ mem["states"][1] \in Nat
      <4>1. got[p] \in Seq(Nat)
        BY DEF TypeOK
      <4>2. got[p][i] \in Nat
        BY <4>1
      <4> QED
        BY <4>2 DEF TypeOK, SensorTypeOK
    <3>2. got[p][i] <= mem["states"][1]
      BY <2>1 DEF SendInv
    <3> QED
      BY <3>1, <3>2
  <2> QED
    BY <2>1 DEF SendInv
<1>6. (\A p \in Ports : got[p] # <<>> => pc[p] = "send")'
  BY DEF SendInv
<1>7. (\A p \in Ports : pc[p] = "send" => Copies(p) \/ doing[p] = "GetEstimation")'
  BY <1>1 DEF SendInv
<1> QED
  BY <1>2, <1>3, <1>4, <1>5, <1>6, <1>7 DEF SendInv

\* What port p has read is its holder, or estimates of which none is older than the
\* one before.
HasRead(p) ==
    /\ Copies(p) => \A i \in 1 .. Len(got[p]) : got[p][i] = holder[Object(p)][Half(i)]
    /\ doing[p] = "GetEstimation" =>
         \A i \in 1 .. Len(got[p]) : /\ got[p][i] <= mem["states"][1]
                                    /\ \A j \in 1 .. i : got[p][j] <= got[p][i]

LEMMA NothingRead == ASSUME NEW p, got[p] = <<>> PROVE HasRead(p)
  BY DEF HasRead

\* A step of port p: of the others none is engaged.
LEMMA PortStep ==
    ASSUME TypeOK, SendInv, NEW p \in Ports, NEW next, Step(p, next),
           \A q \in Ports \ {p} : doing'[q] = doing[q] /\ got'[q] = got[q],
           \A q \in Ports \ {p}, m \in Mutexes : owner'[m] = q => owner[m] = q,
           \A m \in Mutexes : owner'[m] = p => Holds(p, m)',
           got'[p] # <<>> => next = "send",
           next = "send" => Copies(p)' \/ doing'[p] = "GetEstimation",
           HasRead(p)'
    PROVE  SendInv'
<1>1. pc'[p] = next /\ \A q \in Ports \ {p} : pc'[q] = pc[q]
  BY Moves, Members
<1>2. \A q \in Ports \ {p} : ~Engaged(q)
  BY OneEngaged
<1>3. \A q \in Ports \ {p} : got[q] = <<>>
  BY <1>2 DEF Engaged, SendInv
<1>4. \A q \in Ports \ {p} : ~Engaged(q)'
  BY <1>1, <1>2 DEF Engaged, Copies
<1>5. (\A q \in Ports : Engaged(q) => front[Priority[q]] = q)'
  BY <1>4, StepsToFront, Members
<1>6. (\A q \in Ports, m \in Mutexes : owner[m] = q => Holds(q, m))'
  BY <1>1 DEF SendInv, Holds, Object
<1>7. (\A q \in Ports : got[q] # <<>> => pc[q] = "send")'
  BY <1>1, <1>3
<1>8. (\A q \in Ports : pc[q] = "send" => Copies(q) \/ doing[q] = "GetEstimation")'
  BY <1>1 DEF SendInv, Copies
<1>9. (\A q \in Ports : HasRead(q))'
  <2>1. ASSUME NEW q \in Ports \ {p}
        PROVE  got'[q] = <<>>
    BY <1>3
  <2> QED
    BY <2>1 DEF HasRead
<1> QED
  BY <1>5, <1>6, <1>7, <1>8, <1>9 DEF SendInv, HasRead

LEMMA Appended ==
    ASSUME NEW s \in Seq(Nat), NEW v \in Nat
    PROVE  /\ Len(Append(s, v)) = Len(s) + 1 /\ Append(s, v)[Len(s) + 1] = v
           /\ \A i \in 1 .. Len(s) : Append(s, v)[i] = s[i]
  OBVIOUS

LEMMA SendStep ==
    ASSUME TypeOK, SendInv, FrontInv, NEW p \in Ports, Send(p)
    PROVE  SendInv'
<1>1. Step(p, "send") /\ pc[p] = "send"
  BY DEF Send
<1>2. UNCHANGED <<owner, doing, holder, mem>> /\ got' = [got EXCEPT ![p] = ReadPart(p)]
  BY DEF Send, sensor
<1> DEFINE n == Len(got[p])
           v == Source(p)[(n % 2) + 1]
<1>3. got[p] \in Seq(Nat) /\ n \in Nat /\ (n % 2) + 1 \in 1 .. 2
  BY DEF TypeOK
<1>4. Source(p) \in [1 .. 2 -> Nat] /\ mem["states"] \in [1 .. 2 -> Nat]
  BY Members DEF Source, TypeOK, SensorTypeOK
<1>5. v \in Nat
  BY <1>3, <1>4
<1>6. got'[p] = Append(got[p], v) /\ \A q \in Ports \ {p} : got'[q] = got[q]
  BY <1>2 DEF ReadPart, TypeOK
<1>7. Len(got'[p]) = n + 1 /\ got'[p][n + 1] = v /\ \A i \in 1 .. n : got'[p][i] = got[p][i]
  <2>1. PICK w \in Nat : w = v
    BY <1>5
  <2>2. got'[p] = Append(got[p], w)
    BY <1>6, <2>1
  <2>3. /\ Len(got'[p]) = Len(got[p]) + 1 /\ got'[p][Len(got[p]) + 1] = w
        /\ \A i \in 1 .. Len(got[p]) : got'[p][i] = got[p][i]
    BY <1>3, <2>2, Appended
  <2> QED
    BY <2>1, <2>3
<1>8. Copies(p)' = Copies(p) /\ Object(p)' = Object(p)
  BY <1>2 DEF Copies, Object
<1>9. ASSUME Copies(p), NEW i \in 1 .. n + 1
      PROVE  got'[p][i] = holder'[Object(p)][Half(i)]
  <2>1. CASE i \in 1 .. n
    BY <1>2, <1>7, <1>9, <2>1 DEF SendInv
  <2>2. CASE i = n + 1
    <3>1. Source(p) = holder[Object(p)]
      BY <1>9 DEF Source, Copies
    <3>2. Half(i) = (n % 2) + 1
      <4>1. i - 1 = n
        BY <1>3, <2>2
      <4> QED
        BY <4>1 DEF Half
    <3> QED
      BY <1>2, <1>7, <2>2, <3>1, <3>2
  <2> QED
    BY <1>3, <2>1, <2>2
<1>10. ASSUME doing[p] = "GetEstimation", NEW i \in 1 .. n + 1
       PROVE  /\ got'[p][i] <= mem'["states"][1]
              /\ \A j \in 1 .. i : got'[p][j] <= got'[p][i]
  <2>1. Whole(mem["states"])
    BY <1>1, SenderSeesWhole
  <2>2. v = mem["states"][1]
    <3>1. Source(p) = mem["states"]
      BY <1>10 DEF Source
    <3>2. \A k \in 1 .. 2 : mem["states"][k] = mem["states"][1]
      BY <2>1 DEF Whole
    <3> QED
      BY <1>3, <3>1, <3>2
  <2>3. CASE i \in 1 .. n
    <3>1. got'[p][i] = got[p][i] /\ \A j \in 1 .. i : got'[p][j] = got[p][j]
      BY <1>3, <1>7, <2>3
    <3>2. got[p][i] <= mem["states"][1] /\ \A j \in 1 .. i : got[p][j] <= got[p][i]
      BY <1>10, <2>3 DEF SendInv
    <3> QED
      BY <1>2, <3>1, <3>2
  <2>4. CASE i = n + 1
    <3>1. got'[p][i] = v /\ v <= v
      <4>1. got'[p][i] = v
        BY <1>7, <2>4
      <4>2. \A k \in Nat : k <= k
        OBVIOUS
      <4> QED
        BY <1>5, <4>1, <4>2
    <3>2. \A j \in 1 .. n : got'[p][j] <= v
      BY <1>7, <1>10, <2>2 DEF SendInv
    <3>3. \A j \in 1 .. i : j \in 1 .. n \/ j = i
      BY <1>3, <2>4
    <3> QED
      BY <1>2, <2>2, <3>1, <3>2, <3>3
  <2> QED
    BY <1>3, <2>3, <2>4
<1>11. HasRead(p)'
  <2>1. (Copies(p) => \A i \in 1 .. Len(got[p]) : got[p][i] = holder[Object(p)][Half(i)])'
    BY <1>7, <1>8, <1>9
  <2>2. (doing[p] = "GetEstimation" =>
           \A i \in 1 .. Len(got[p]) : /\ got[p][i] <= mem["states"][1]
                                      /\ \A j \in 1 .. i : got[p][j] <= got[p][i])'
    BY <1>2, <1>7, <1>10
  <2> QED
    BY <2>1, <2>2 DEF HasRead
<1>12. \A m \in Mutexes : owner[m] # p
  BY <1>1 DEF SendInv, Holds
<1>13. Copies(p)' \/ doing'[p] = "GetEstimation"
  BY <1>1, <1>2, <1>8 DEF SendInv
<1> QED
  BY <1>1, <1>2, <1>6, <1>11, <1>12, <1>13, PortStep

LEMMA ReceiveSend == ASSUME TypeOK, SendInv, NEW p \in Ports, Receive(p) PROVE SendInv'
<1>1. PICK command \in Commands : /\ doing' = [doing EXCEPT ![p] = command]
                                  /\ pc' = [pc EXCEPT ![p] = FirstPlace(command)]
  BY DEF Receive
<1>2. UNCHANGED <<owner, front, holder, got, mem>> /\ pc[p] = "idle" /\ got[p] = <<>>
  BY DEF Receive, sensor, SendInv
<1>3. /\ pc'[p] = FirstPlace(command) /\ doing'[p] = command
      /\ \A q \in Ports \ {p} : pc'[q] = pc[q] /\ doing'[q] = doing[q]
  BY <1>1, Members DEF TypeOK, KernelTypeOK
<1>4. pc'[p] \notin {"copy", "set"} /\ (pc'[p] = "send" => doing'[p] = "GetEstimation")
  BY <1>3 DEF FirstPlace, Commands
<1>5. ~Engaged(p)' /\ \A q \in Ports \ {p} : Engaged(q)' = Engaged(q)
  BY <1>2, <1>3, <1>4 DEF Engaged, Copies
<1>6. (\A q \in Ports : Engaged(q) => front[Priority[q]] = q)'
  BY <1>2, <1>5 DEF SendInv
<1>7. (\A q \in Ports, m \in Mutexes : owner[m] = q => Holds(q, m))'
  BY <1>2, <1>3 DEF SendInv, Holds, Object
<1>8. (\A q \in Ports : got[q] # <<>> => pc[q] = "send")'
  BY <1>2, <1>3 DEF SendInv
<1>9. (\A q \in Ports : pc[q] = "send" => Copies(q) \/ doing[q] = "GetEstimation")'
  BY <1>3, <1>4 DEF SendInv, Copies
<1>10. ASSUME NEW q \in Ports
       PROVE  HasRead(q)'
  <2>1. CASE q = p
    BY <1>2, <2>1 DEF HasRead
  <2>2. CASE q # p
    BY <1>2, <1>3, <2>2 DEF SendInv, HasRead, Copies, Object
  <2> QED
    BY <2>1, <2>2
<1> QED
  BY <1>6, <1>7, <1>8, <1>9, <1>10 DEF SendInv, HasRead

LEMMA PortSend ==
    ASSUME TypeOK, SendInv, FrontInv, NEW p \in Ports, Receive(p) \/ PortThread(p)
    PROVE  SendInv'
<1>0. Object(p) \in Mutexes /\ "cal" \in Mutexes /\ p # NoThread /\ p \in Threads
  BY Members, Strangers
<1>1. CASE CopyFirst(p)
  <2>1. got[p] = <<>> /\ UNCHANGED <<doing, got>> /\ Object(p)' = Object(p)
    BY <1>1, PlaceAssumption, Members DEF CopyFirst, SendInv, Object
  <2>2. HasRead(p)' /\ pc'[p] = "copy"
    BY <1>0, <1>1, <2>1, Moves DEF HasRead, CopyFirst
  <2>3. \A m \in Mutexes : m # Object(p) => owner'[m] = owner[m]
    BY <1>0, <1>1, Takes DEF CopyFirst, LockStructure
  <2>4. \A m \in Mutexes : owner[m] # p
    BY <1>0, <1>1, PlaceAssumption DEF CopyFirst, SendInv, Holds
  <2>5. \A m \in Mutexes : owner'[m] = p => Holds(p, m)'
    BY <2>1, <2>2, <2>3, <2>4 DEF Holds
  <2>6. owner'[Object(p)] = p
    BY <1>0, <1>1, Takes DEF CopyFirst, LockStructure
  <2>7. \A q \in Ports \ {p}, m \in Mutexes : owner'[m] = q => owner[m] = q
    BY <2>3, <2>6
  <2> QED
    BY <1>1, <2>1, <2>2, <2>5, <2>7, PortStep DEF CopyFirst
<1>2. CASE CopyRest(p)
  <2>1. got[p] = <<>> /\ UNCHANGED <<doing, got>> /\ Copies(p)' = Copies(p) /\ Copies(p)
    BY <1>2 DEF CopyRest, SendInv, Copies
  <2>2. HasRead(p)'
    BY <2>1 DEF HasRead
  <2>3. /\ owner'[Object(p)] = NoThread
        /\ \A m \in Mutexes : m # Object(p) => owner'[m] = owner[m]
    BY <1>0, <1>2, Gives DEF CopyRest
  <2>4. \A m \in Mutexes : owner[m] = p => m = Object(p)
    BY <1>2 DEF CopyRest, SendInv, Holds
  <2>5. \A m \in Mutexes : owner'[m] # p
    BY <1>0, <2>3, <2>4
  <2>6. \A q \in Ports \ {p}, m \in Mutexes : owner'[m] = q => owner[m] = q
    BY <2>3, Strangers
  <2> QED
    BY <1>2, <2>1, <2>2, <2>5, <2>6, PortStep DEF CopyRest
<1>3. CASE SetFirst(p)
  <2>1. got[p] = <<>> /\ UNCHANGED <<doing, got>>
    BY <1>3 DEF SetFirst, SendInv, telemetry
  <2>2. HasRead(p)' /\ pc'[p] = "set"
    BY <1>0, <1>3, <2>1, Moves DEF HasRead, SetFirst
  <2>3. owner'["cal"] = p /\ \A m \in Mutexes : m # "cal" => owner'[m] = owner[m]
    BY <1>0, <1>3, Takes DEF SetFirst, LockStructure
  <2>4. \A m \in Mutexes : owner[m] # p
    BY <1>3 DEF SetFirst, SendInv, Holds
  <2>5. \A m \in Mutexes : owner'[m] = p => Holds(p, m)'
    BY <2>2, <2>3, <2>4 DEF Holds
  <2>6. \A q \in Ports \ {p}, m \in Mutexes : owner'[m] = q => owner[m] = q
    BY <2>3
  <2> QED
    BY <1>3, <2>1, <2>2, <2>5, <2>6, PortStep DEF SetFirst
<1>4. CASE SetRest(p)
  <2>1. got[p] = <<>> /\ UNCHANGED got /\ \A q \in Ports \ {p} : doing'[q] = doing[q]
    BY <1>4 DEF SetRest, SendInv, TypeOK
  <2>2. HasRead(p)'
    BY <2>1 DEF HasRead
  <2>3. owner'["cal"] = NoThread /\ \A m \in Mutexes : m # "cal" => owner'[m] = owner[m]
    BY <1>0, <1>4, Gives DEF SetRest
  <2>4. \A m \in Mutexes : owner[m] = p => m = "cal"
    BY <1>4 DEF SetRest, SendInv, Holds
  <2>5. \A m \in Mutexes : owner'[m] # p
    BY <1>0, <2>3, <2>4
  <2>6. \A q \in Ports \ {p}, m \in Mutexes : owner'[m] = q => owner[m] = q
    BY <2>3, Strangers
  <2> QED
    BY <1>4, <2>1, <2>2, <2>5, <2>6, PortStep DEF SetRest
<1>5. CASE Sent(p)
  <2>1. /\ got'[p] = <<>> /\ pc[p] = "send" /\ owner' = owner
        /\ \A q \in Ports \ {p} : doing'[q] = doing[q] /\ got'[q] = got[q]
    BY <1>5 DEF Sent, TypeOK
  <2>2. HasRead(p)'
    BY <2>1 DEF HasRead
  <2>3. \A m \in Mutexes : owner[m] # p
    BY <2>1 DEF SendInv, Holds
  <2> QED
    BY <1>5, <2>1, <2>2, <2>3, PortStep DEF Sent
<1> QED
  BY <1>1, <1>2, <1>3, <1>4, <1>5, SendStep, ReceiveSend DEF PortThread

LEMMA NextSend == ASSUME TypeOK, LockInv, FrontInv, SendInv, [Next]_vars PROVE SendInv'
<1>0. mem["states"][1] \in Nat /\ mem["states"][1] + 1 \in Nat
      /\ mem["imu"][1] \in Nat /\ mem["imu"][1] + 1 \in Nat
  BY DEF TypeOK, SensorTypeOK
<1>1. CASE SensorNext /\ UNCHANGED <<estimation, control, telemetry>>
  <2>1. CASE Interrupt
    BY <1>0, <1>1, <2>1, OthersSend DEF Interrupt, telemetry
  <2>2. CASE StartReadout \/ TransferDone \/ TransferFails
    <3>1. \A p \in Ports : pc'[p] = pc[p]
      BY <2>2, Members DEF StartReadout, TransferDone, TransferFails, TypeOK, KernelTypeOK
    <3> QED
      BY <1>0, <1>1, <2>2, <3>1, OthersSend DEF StartReadout, TransferDone, TransferFails, sensor,
                                               telemetry
  <2>3. CASE SensorThread
    <3>1. \E next \in Places : Step(SENSOR, next)
      BY <2>3, PlaceAssumption DEF SensorThread, SensorWake, Convert, Calibrate
    <3>2. \A p \in Ports : pc'[p] = pc[p]
      BY <3>1, Moves, Members
    <3>3. mem'["states"] = mem["states"]
      BY <1>0, <2>3, WritesPart DEF SensorThread, SensorWake, Convert, Calibrate, sensor, TypeOK,
                                   SensorTypeOK
    <3>4. \A p \in Ports, m \in Mutexes : owner'[m] = p => owner[m] = p
      <4>1. CASE SensorWake
        BY <4>1 DEF SensorWake
      <4>2. CASE Convert
        BY <4>2, Takes, Members DEF Convert
      <4>3. CASE Calibrate
        BY <4>3, Gives, Members, Strangers DEF Calibrate
      <4> QED
        BY <2>3, <4>1, <4>2, <4>3 DEF SensorThread
    <3> QED
      BY <1>0, <1>1, <3>1, <3>2, <3>3, <3>4, OthersSend, Members DEF telemetry
  <2> QED
    BY <1>1, <2>1, <2>2, <2>3 DEF SensorNext
<1>2. CASE EstThread
  <2>1. \E next \in Places : Step(EST, next)
    BY <1>2, PlaceAssumption DEF EstThread, EstWake, EstCopy, EstCopyRest, EstAttitude, EstRate
  <2>2. \A p \in Ports : pc'[p] = pc[p]
    BY <2>1, Moves, Members
  <2>3. mem'["states"][1] >= mem["states"][1] /\ mem'["states"][1] \in Nat
    <3>1. CASE EstAttitude
      BY <1>0, <3>1, WritesPart DEF EstAttitude, TypeOK, SensorTypeOK
    <3>2. CASE EstRate
      BY <1>0, <3>2, WritesPart DEF EstRate, TypeOK, SensorTypeOK
    <3>3. CASE EstWake \/ EstCopy \/ EstCopyRest
      BY <1>0, <3>3 DEF EstWake, EstCopy, EstCopyRest, sensor
    <3> QED
      BY <1>2, <3>1, <3>2, <3>3 DEF EstThread
  <2>4. \A p \in Ports, m \in Mutexes : owner'[m] = p => owner[m] = p
    <3>1. CASE EstWake \/ EstAttitude \/ EstRate
      BY <3>1 DEF EstWake, EstAttitude, EstRate
    <3>2. CASE EstCopy
      BY <3>2, Takes, Members DEF EstCopy, LockStructure
    <3>3. CASE EstCopyRest
      BY <3>3, Gives, Members, Strangers DEF EstCopyRest
    <3> QED
      BY <1>2, <3>1, <3>2, <3>3 DEF EstThread
  <2>5. UNCHANGED <<holder, doing, got>>
    BY <1>2 DEF EstThread, EstWake, EstCopy, EstCopyRest, EstAttitude, EstRate, telemetry
  <2> QED
    BY <2>1, <2>2, <2>3, <2>4, <2>5, OthersSend, Members
<1>3. CASE CtrlThread
  <2>1. \E next \in Places : Step(CTRL, next)
    BY <1>3, PlaceAssumption DEF CtrlThread, CtrlWake, CtrlAct
  <2>2. \A p \in Ports : pc'[p] = pc[p]
    BY <2>1, Moves, Members
  <2>3. UNCHANGED <<owner, mem, holder, doing, got>>
    BY <1>3 DEF CtrlThread, CtrlWake, CtrlAct, sensor, telemetry
  <2> QED
    BY <1>0, <2>1, <2>2, <2>3, OthersSend, Members
<1>4. CASE MotionCapture \/ UNCHANGED vars
  <2>1. UNCHANGED <<pc, owner, front, mem, holder, doing, got>>
    BY <1>4 DEF MotionCapture, vars, kernel, sensor, telemetry
  <2> QED
    BY <1>0, <2>1, OthersSend
<1> QED
  BY <1>1, <1>2, <1>3, <1>4, PortSend DEF Next

MessageInv == TypeOK /\ LockInv /\ FrontInv /\ SendInv

LEMMA MessageInvariant == Spec => []MessageInv
<1>1. Init => MessageInv
  BY InitTyped, LockStart, FrontStart, SendStart DEF MessageInv
<1>2. MessageInv /\ [Next]_vars => MessageInv'
  BY NextTyped, NextLocks, NextFront, NextSend DEF MessageInv
<1> QED
  BY <1>1, <1>2, PTL DEF Spec

\* The holders are shared, and yet what one port sends is never touched by another: the
\* message is the holder, read twice.
LEMMA CopiedAccepted == MessageInv => CopiedIsAccepted
<1> SUFFICES ASSUME MessageInv, NEW p \in Ports, Copies(p), Len(got[p]) = 4
             PROVE  got[p][1] = got[p][3] /\ got[p][2] = got[p][4]
  BY DEF CopiedIsAccepted, Accepted
<1>1. \A i \in 1 .. 4 : got[p][i] = holder[Object(p)][Half(i)]
  BY DEF MessageInv, SendInv
<1>2. Half(1) = 1 /\ Half(2) = 2 /\ Half(3) = 1 /\ Half(4) = 2
  BY DEF Half
<1> QED
  BY <1>1, <1>2

\* For any ports of one priority below that of the estimation.
THEOREM CopiesAreAccepted == Spec => []CopiedIsAccepted
  BY MessageInvariant, CopiedAccepted, PTL

\* For any ports of one priority below that of the estimation: also of the estimate,
\* which is read in place and without a lock.
THEOREM AcceptedIsWhole == Spec => []AcceptedMeansWhole
<1>1. MessageInv => AcceptedMeansWhole
  <2> SUFFICES ASSUME MessageInv, NEW p \in Ports, Accepted(p)
               PROVE  got[p][1] = got[p][2]
    BY DEF AcceptedMeansWhole
  <2>1. Len(got[p]) = 4 /\ got[p][1] = got[p][3] /\ got[p] # <<>>
    BY DEF Accepted
  <2>2. pc[p] = "send" /\ Engaged(p) /\ (Copies(p) \/ doing[p] = "GetEstimation")
    BY <2>1 DEF MessageInv, SendInv, Engaged
  <2>3. CASE Copies(p)
    <3>1. \A q \in Ports : ~Copying(q, Object(p))
      <4>1. ASSUME NEW q \in Ports, pc[q] = "copy"
            PROVE  FALSE
        <5>1. front[Priority[q]] = q /\ front[Priority[p]] = p
          BY <2>2, <4>1 DEF MessageInv, SendInv, Engaged
        <5> QED
          BY <2>2, <4>1, <5>1, PriorityAssumption
      <4> QED
        BY <4>1 DEF Copying
    <3>2. Whole(holder[Object(p)])
      BY <3>1, Members DEF MessageInv, LockInv
    <3>3. \A i \in 1 .. 4 : got[p][i] = holder[Object(p)][Half(i)]
      BY <2>1, <2>3 DEF MessageInv, SendInv
    <3>4. Half(1) = 1 /\ Half(2) = 2
      BY DEF Half
    <3> QED
      BY <3>2, <3>3, <3>4 DEF Whole
  <2>4. CASE doing[p] = "GetEstimation"
    <3>1. \A i \in 1 .. 4 : \A j \in 1 .. i : got[p][j] <= got[p][i]
      BY <2>1, <2>4 DEF MessageInv, SendInv
    <3>2. got[p][1] <= got[p][2] /\ got[p][2] <= got[p][3]
      BY <3>1
    <3>3. got[p][1] \in Nat /\ got[p][2] \in Nat
      <4>1. got[p] \in Seq(Nat)
        BY DEF MessageInv, TypeOK
      <4> QED
        BY <2>1, <4>1
    <3> QED
      BY <2>1, <3>2, <3>3
  <2> QED
    BY <2>2, <2>3, <2>4
<1> QED
  BY <1>1, MessageInvariant, PTL
-----------------------------------------------------------------------------
(* No reading is lost between the threads: the part of                     *)
(* ReadingReachesControl that needs no fairness.                           *)

Published == mem["imu"][2]

\* The control thread is never ahead of the estimate, nor the estimate of the data.
InOrder == /\ acted <= based
           /\ based <= copy[2]
           /\ unused <= copy[2]
           /\ copy[2] <= Published
           /\ Published <= mem["imu"][1]

\* The last reading that was published has been acted upon or passed over for the first
\* frame of the motion capture, or an event that nobody
\* has taken announces it or the estimate made of it, or a thread is at work on it.
OnItsWay == \/ acted = Published
            \/ unused = Published
            \/ flags /\ EST \in pending
            \/ pc[EST] \in {"imu", "copy"}
            \/ pc[EST] \in {"innovate", "rate"} /\ copy[2] = Published
            \/ based = Published /\ (CTRL \in pending \/ pc[CTRL] = "control")

ReadingInv == InOrder /\ OnItsWay

\* The numbers compared here.
LEMMA Numbers ==
    ASSUME TypeOK
    PROVE  /\ acted \in Nat /\ based \in Nat /\ copy[2] \in Nat /\ unused \in Nat
           /\ mem["imu"][1] \in Nat /\ Published \in Nat
  BY DEF TypeOK, SensorTypeOK, Published

\* Steps that are neither of the two threads nor write the data.
LEMMA ReadingElsewhere ==
    ASSUME ReadingInv, UNCHANGED <<acted, based, unused, copy, flags>>,
           mem'["imu"] = mem["imu"],
           pc'[EST] = pc[EST], pc'[CTRL] = pc[CTRL],
           EST \in pending => EST \in pending', CTRL \in pending => CTRL \in pending'
    PROVE  ReadingInv'
<1>1. InOrder'
  BY DEF ReadingInv, InOrder, Published
<1>2. OnItsWay'
  BY DEF ReadingInv, OnItsWay, Published
<1> QED
  BY <1>1, <1>2 DEF ReadingInv

LEMMA SensorReading ==
    ASSUME TypeOK, ReadingInv, SensorNext, UNCHANGED <<estimation, control, telemetry>>
    PROVE  ReadingInv'
<1>0. UNCHANGED <<copy, based, unused, acted>>
  BY DEF estimation, control
<1>1. CASE Interrupt
  BY <1>0, <1>1, ReadingElsewhere DEF Interrupt
<1>2. CASE StartReadout \/ TransferDone \/ TransferFails
  <2>1. UNCHANGED <<pending, mem, flags>>
    BY <1>2 DEF StartReadout, TransferDone, TransferFails, sensor
  <2>2. pc'[EST] = pc[EST] /\ pc'[CTRL] = pc[CTRL]
    BY <1>2, Members, Strangers
    DEF StartReadout, TransferDone, TransferFails, TypeOK, KernelTypeOK
  <2> QED
    BY <1>0, <2>1, <2>2, ReadingElsewhere
<1>3. CASE SensorWake
  <2>1. pc'[EST] = pc[EST] /\ pc'[CTRL] = pc[CTRL]
    BY <1>3, Members, Strangers, Moves, PlaceAssumption DEF SensorWake
  <2>2. UNCHANGED <<mem, flags>> /\ pending' = pending \ {SENSOR}
    BY <1>3 DEF SensorWake, sensor
  <2> QED
    BY <1>0, <2>1, <2>2, Strangers, ReadingElsewhere
<1>4. CASE Convert
  <2>1. pc'[EST] = pc[EST] /\ pc'[CTRL] = pc[CTRL]
    BY <1>4, Members, Strangers, Moves, PlaceAssumption DEF Convert
  <2>2. mem["imu"][1] \in Nat /\ mem["imu"][1] + 1 \in Nat
    BY Numbers
  <2>3. mem' = [mem EXCEPT !["imu"][1] = mem["imu"][1] + 1]
    BY <1>4 DEF Convert
  <2>4. mem'["imu"][1] = mem["imu"][1] + 1 /\ Published' = Published
    BY <2>2, <2>3, WritesPart DEF TypeOK, SensorTypeOK, Published
  <2>5. InOrder'
    BY <1>0, <2>2, <2>4, Numbers DEF ReadingInv, InOrder
  <2>6. OnItsWay'
    BY <1>0, <1>4, <2>1, <2>4 DEF Convert, ReadingInv, OnItsWay
  <2> QED
    BY <2>5, <2>6 DEF ReadingInv
<1>5. CASE Calibrate
  <2>1. mem["imu"][1] \in Nat
    BY Numbers
  <2>2. mem' = [mem EXCEPT !["imu"][2] = mem["imu"][1]]
    BY <1>5 DEF Calibrate
  <2>3. mem'["imu"][1] = mem["imu"][1] /\ Published' = mem["imu"][1]
    BY <2>1, <2>2, WritesPart DEF TypeOK, SensorTypeOK, Published
  <2>4. InOrder'
    BY <1>0, <2>1, <2>3, Numbers DEF ReadingInv, InOrder
  <2>5. flags' /\ EST \in pending'
    BY <1>5 DEF Calibrate, Tell
  <2> QED
    BY <2>4, <2>5 DEF ReadingInv, OnItsWay
<1> QED
  BY <1>1, <1>2, <1>3, <1>4, <1>5 DEF SensorNext, SensorThread

LEMMA EstReading == ASSUME TypeOK, ReadingInv, EstThread PROVE ReadingInv'
<1>0. UNCHANGED acted
  BY DEF EstThread, EstWake, EstCopy, EstCopyRest, EstAttitude, EstRate, control
<1>1. CASE EstWake
  <2>1. /\ pc[EST] = "wait" /\ pc'[EST] = (IF flags THEN "imu" ELSE "wait")
        /\ pc'[CTRL] = pc[CTRL]
    BY <1>1, Members, Strangers, Moves DEF EstWake
  <2>2. /\ UNCHANGED <<copy, based, unused, mem>>
        /\ pending' = pending \ {EST}
    BY <1>1 DEF EstWake, estimation
  <2>3. InOrder'
    BY <1>0, <2>2 DEF ReadingInv, InOrder, Published
  <2>4. OnItsWay'
    <3>1. CASE flags
      BY <2>1, <3>1 DEF OnItsWay
    <3>2. CASE ~flags
      BY <1>0, <2>1, <2>2, <3>2, Strangers DEF ReadingInv, OnItsWay, Published
    <3> QED
      BY <3>1, <3>2
  <2> QED
    BY <2>3, <2>4 DEF ReadingInv
<1>2. CASE EstCopy
  <2>1. pc'[EST] = "copy"
    BY <1>2, Members, Moves DEF EstCopy
  <2>2. UNCHANGED <<based, unused, mem>> /\ copy'[2] = copy[2]
    BY <1>2 DEF EstCopy, sensor, TypeOK
  <2>3. InOrder'
    BY <1>0, <2>2 DEF ReadingInv, InOrder, Published
  <2> QED
    BY <2>1, <2>3 DEF ReadingInv, OnItsWay
<1>3. CASE EstCopyRest
  <2>1. pc'[EST] = "innovate"
    BY <1>3, Members, Moves DEF EstCopyRest
  <2>2. UNCHANGED <<based, unused, mem>> /\ copy'[2] = Published /\ Published' = Published
    BY <1>3 DEF EstCopyRest, sensor, TypeOK, Published
  <2>3. InOrder'
    BY <1>0, <2>2, Numbers DEF ReadingInv, InOrder
  <2> QED
    BY <2>1, <2>2, <2>3 DEF ReadingInv, OnItsWay
<1>4. CASE EstAttitude
  <2>1. pc[EST] = "innovate" /\ pc'[EST] = "rate" /\ pc'[CTRL] = pc[CTRL]
    BY <1>4, Members, Strangers, Moves DEF EstAttitude
  <2>2. UNCHANGED <<copy, based, unused, pending, flags>>
    BY <1>4 DEF EstAttitude
  <2>3. mem'["imu"] = mem["imu"]
    BY <1>4 DEF EstAttitude, TypeOK, SensorTypeOK
  <2>4. InOrder'
    BY <1>0, <2>2, <2>3 DEF ReadingInv, InOrder, Published
  <2>5. OnItsWay'
    BY <1>0, <2>1, <2>2, <2>3 DEF ReadingInv, OnItsWay, Published
  <2> QED
    BY <2>4, <2>5 DEF ReadingInv
<1>5. CASE EstRate
  <2>1. pc[EST] = "rate" /\ pc'[EST] = "wait" /\ pc'[CTRL] = pc[CTRL]
    BY <1>5, Members, Strangers, Moves DEF EstRate
  <2>2. /\ \/ based' = copy[2] /\ unused' = unused
           \/ unused' = copy[2] /\ based' = based
        /\ UNCHANGED <<copy, flags>> /\ pending' = pending \cup {CTRL}
    BY <1>5 DEF EstRate, Tell
  <2>3. mem'["imu"] = mem["imu"]
    BY <1>5 DEF EstRate, TypeOK, SensorTypeOK
  <2>4. InOrder'
    BY <1>0, <2>2, <2>3, Numbers DEF ReadingInv, InOrder, Published
  <2>5. based = Published \/ unused = Published => copy[2] = Published
    BY Numbers DEF ReadingInv, InOrder
  <2>6. OnItsWay'
    BY <1>0, <2>1, <2>2, <2>3, <2>5 DEF ReadingInv, OnItsWay, Published
  <2> QED
    BY <2>4, <2>6 DEF ReadingInv
<1> QED
  BY <1>1, <1>2, <1>3, <1>4, <1>5 DEF EstThread

LEMMA CtrlReading == ASSUME TypeOK, ReadingInv, CtrlThread PROVE ReadingInv'
<1>0. UNCHANGED <<mem, copy, based, unused, flags>>
  BY DEF CtrlThread, CtrlWake, CtrlAct, sensor, estimation
<1>1. pc'[EST] = pc[EST]
  BY Members, Strangers, Moves DEF CtrlThread, CtrlWake, CtrlAct
<1>2. CASE CtrlWake
  <2>1. pc'[CTRL] = "control"
    BY <1>2, Members, Moves DEF CtrlWake
  <2>2. acted' = acted /\ pending' = pending \ {CTRL}
    BY <1>2 DEF CtrlWake
  <2>3. InOrder'
    BY <1>0, <2>2 DEF ReadingInv, InOrder, Published
  <2>4. OnItsWay'
    BY <1>0, <1>1, <2>1, <2>2, Strangers DEF ReadingInv, OnItsWay, Published
  <2> QED
    BY <2>3, <2>4 DEF ReadingInv
<1>3. CASE CtrlAct
  <2>1. acted' = based /\ pending' = pending
    BY <1>3 DEF CtrlAct
  <2>2. InOrder'
    BY <1>0, <2>1, Numbers DEF ReadingInv, InOrder, Published
  <2>3. acted = Published => based = Published
    BY Numbers DEF ReadingInv, InOrder
  <2>4. OnItsWay'
    BY <1>0, <1>1, <2>1, <2>3 DEF ReadingInv, OnItsWay, Published
  <2> QED
    BY <2>2, <2>4 DEF ReadingInv
<1> QED
  BY <1>2, <1>3 DEF CtrlThread

LEMMA PortReading ==
    ASSUME TypeOK, ReadingInv, NEW p \in Ports, Receive(p) \/ PortThread(p)
    PROVE  ReadingInv'
<1>1. UNCHANGED <<acted, based, unused, copy, flags>>
  BY DEF Receive, PortThread, CopyFirst, CopyRest, SetFirst, SetRest, Send, Sent, sensor,
         estimation, control
<1>2. mem'["imu"] = mem["imu"]
  <2>1. CASE SetFirst(p)
    BY <2>1 DEF SetFirst, TypeOK, SensorTypeOK
  <2>2. CASE SetRest(p)
    BY <2>2 DEF SetRest, TypeOK, SensorTypeOK
  <2>3. CASE Receive(p) \/ CopyFirst(p) \/ CopyRest(p) \/ Send(p) \/ Sent(p)
    BY <2>3 DEF Receive, CopyFirst, CopyRest, Send, Sent, sensor
  <2> QED
    BY <2>1, <2>2, <2>3 DEF PortThread
<1>3. \A u \in Threads : u # p => pc'[u] = pc[u]
  <2>1. CASE Receive(p)
    BY <2>1, Members DEF Receive, TypeOK, KernelTypeOK
  <2>2. CASE PortThread(p)
    BY <2>2, Members, Moves
    DEF PortThread, CopyFirst, CopyRest, SetFirst, SetRest, Send, Sent
  <2> QED
    BY <2>1, <2>2
<1>4. pending \subseteq pending'
  BY DEF Receive, PortThread, CopyFirst, CopyRest, SetFirst, SetRest, Send, Sent, Tell
<1> QED
  BY <1>1, <1>2, <1>3, <1>4, Members, ReadingElsewhere

LEMMA NextReading == ASSUME TypeOK, ReadingInv, [Next]_vars PROVE ReadingInv'
<1>1. CASE MotionCapture
  BY <1>1, ReadingElsewhere DEF MotionCapture, kernel, sensor, control
<1>2. CASE UNCHANGED vars
  BY <1>2, ReadingElsewhere DEF vars, kernel, sensor
<1> QED
  BY <1>1, <1>2, SensorReading, EstReading, CtrlReading, PortReading DEF Next

\* Between the readout, the estimation and the control thread no announcement of a
\* reading is lost, also not one that comes while the thread it is for is at work or is
\* woken by a reset (estimation.c:106), and no later reading is acted upon before an
\* earlier one.
THEOREM NoReadingLost == Spec => []ReadingInv
<1>1. Init => ReadingInv
  BY DEF Init, ReadingInv, InOrder, OnItsWay, Published
<1>2. TypeOK /\ ReadingInv /\ [Next]_vars => ReadingInv'
  BY NextReading
<1> QED
  BY <1>1, <1>2, TypeCorrect, PTL DEF Spec
=============================================================================
