--------------------------- MODULE Control_proofs ---------------------------
(***************************************************************************)
(* Proofs about the control module: the arming, for every rate of its      *)
(* thread, every width of its counters, every set of settings and of       *)
(* receiver inputs; the cycles of the control thread in any number; and    *)
(* the settings through any number of packets, saves and losses of power.  *)
(***************************************************************************)
EXTENDS Arming, ControlLoop, ControlSettings, TLAPS

\* A hold that is long enough stays so when it is longer.
LEMMA HoldIsMonotone ==
    ASSUME NEW t \in Nat, NEW u \in Nat, t <= u, TypeOK, HeldLongEnough(t)
    PROVE  HeldLongEnough(u)
<1>1. ArmRate \in Nat \ {0}
  BY RateAssumption
<1>2. (t * 10) \div ArmRate <= (u * 10) \div ArmRate
  <2> DEFINE a == t * 10
             b == u * 10
  <2>1. a \in Nat /\ b \in Nat /\ a <= b
    OBVIOUS
  <2> HIDE DEF a, b
  <2>2. \A x, y \in Nat : x <= y => x \div ArmRate <= y \div ArmRate
    BY <1>1, SMTT(30)
  <2>3. a \div ArmRate <= b \div ArmRate
    BY <2>1, <2>2
  <2> QED
    BY <2>3 DEF a, b
<1>3. arm_settings.arm_stick_time \in Nat
  BY SettingsAssumption DEF TypeOK, ArmSettings
<1>4. (t * 10) \div ArmRate \in Int /\ (u * 10) \div ArmRate \in Int
  BY <1>1
<1> QED
  BY <1>2, <1>3, <1>4 DEF HeldLongEnough

\* A counter stays in its range and grows by at most one.
LEMMA CountInRange ==
    ASSUME NEW c \in 0 .. CounterSize - 1
    PROVE  Count(c) \in 0 .. CounterSize - 1 /\ Count(c) <= c + 1
<1>1. CASE c = CounterSize - 1
  <2>1. Count(c) = 0
    BY <1>1, RateAssumption DEF Count
  <2> QED
    BY <2>1, RateAssumption
<1>2. CASE c < CounterSize - 1
  <2>1. Count(c) = c + 1
    BY <1>2, RateAssumption DEF Count
  <2> QED
    BY <2>1, <1>2, RateAssumption
<1> QED
  BY <1>1, <1>2, RateAssumption

\* Holding the timeout back touches nothing else.
LEMMA KeepStep ==
    ASSUME NEW a \in ArmingState, NEW r
    PROVE  /\ KeepForComputer(a, r) \in ArmingState
           /\ KeepForComputer(a, r).arm_time = a.arm_time
           /\ KeepForComputer(a, r).system_armed = a.system_armed
           /\ KeepForComputer(a, r).latch_released = a.latch_released
<1>1. CASE a.system_armed /\ ComputerControlEnabled(r)
  <2>1. KeepForComputer(a, r) = [a EXCEPT !.timeout_time = 0]
    BY <1>1 DEF KeepForComputer
  <2> QED
    BY <2>1, RateAssumption DEF ArmingState
<1>2. CASE ~(a.system_armed /\ ComputerControlEnabled(r))
  <2>1. KeepForComputer(a, r) = a
    BY <1>2 DEF KeepForComputer
  <2> QED
    BY <2>1
<1> QED
  BY <1>1, <1>2

\* The zero-throttle timeout never arms, and never lengthens a hold.
LEMMA ThrottleStep ==
    ASSUME NEW a \in ArmingState, NEW r
    PROVE  /\ ByThrottle(a, r) \in ArmingState
           /\ ByThrottle(a, r).arm_time <= a.arm_time
           /\ ByThrottle(a, r).system_armed => a.system_armed
           /\ ByThrottle(a, r).latch_released = a.latch_released
<1> DEFINE b == ByThrottle(a, r)
           counted == [a EXCEPT !.timeout_time = Count(a.timeout_time),
                                !.arm_time = 0, !.disarm_time = 0]
<1>1. b \in {a, [a EXCEPT !.timeout_time = 0], [a EXCEPT !.system_armed = FALSE], counted}
  BY DEF ByThrottle
<1> HIDE DEF b
<1>2. /\ a.arm_time \in 0 .. CounterSize - 1 /\ a.timeout_time \in 0 .. CounterSize - 1
      /\ a.disarm_time \in 0 .. CounterSize - 1
      /\ a.system_armed \in BOOLEAN /\ a.latch_released \in BOOLEAN
  BY DEF ArmingState
<1>3. Count(a.timeout_time) \in 0 .. CounterSize - 1 /\ 0 \in 0 .. CounterSize - 1
  BY <1>2, CountInRange, RateAssumption
<1>4. b \in ArmingState
  BY <1>1, <1>2, <1>3 DEF ArmingState
<1>5. b.arm_time = a.arm_time \/ b.arm_time = 0
  BY <1>1, <1>2 DEF ArmingState
<1>6. b.arm_time <= a.arm_time
  BY <1>2, <1>5, RateAssumption
<1>7. b.system_armed = a.system_armed \/ b.system_armed = FALSE
  BY <1>1 DEF ArmingState
<1>8. b.latch_released = a.latch_released
  BY <1>1 DEF ArmingState
<1> QED
  BY <1>4, <1>6, <1>7, <1>8 DEF b

\* What one look at the position does to the state `a`: how far the hold gets,
\* and what arming takes.
PositionTaken(a, b, region) ==
    /\ b \in ArmingState
    /\ \/ b.arm_time = 0
       \/ b.arm_time = a.arm_time
       \/ region \in {"ARM", "SWITCH_ACTIVE"} /\ ~HeldLongEnough(a.arm_time)
          /\ b.arm_time = Count(a.arm_time)
    /\ region = "NO_REGION" => b.arm_time = 0
    /\ ~a.system_armed /\ b.system_armed =>
          region \in {"ARM", "SWITCH_ACTIVE"} /\ HeldLongEnough(a.arm_time)

LEMMA SwitchStep ==
    ASSUME NEW a \in ArmingState, NEW region \in {"SWITCH_ACTIVE", "NO_REGION"}, NEW r
    PROVE  LET b == BySwitch(a, region, r)
           IN  /\ PositionTaken(a, b, region)
               /\ region = "SWITCH_ACTIVE" /\ (a.system_armed \/ b.system_armed)
                     => ~b.latch_released
               /\ region = "SWITCH_ACTIVE" /\ b.latch_released => a.latch_released
               /\ ~a.system_armed /\ b.system_armed => a.latch_released
<1> DEFINE b == BySwitch(a, region, r)
<1>1. /\ a.arm_time \in 0 .. CounterSize - 1 /\ a.timeout_time \in 0 .. CounterSize - 1
      /\ a.disarm_time \in 0 .. CounterSize - 1
      /\ a.system_armed \in BOOLEAN /\ a.latch_released \in BOOLEAN
  BY DEF ArmingState
<1>2. /\ Count(a.timeout_time) \in 0 .. CounterSize - 1
      /\ Count(a.arm_time) \in 0 .. CounterSize - 1 /\ 0 \in 0 .. CounterSize - 1
  BY <1>1, CountInRange, RateAssumption
<1> DEFINE presses == region = "SWITCH_ACTIVE"
           arms == ~a.system_armed /\ a.latch_released /\ r.low
<1>3. CASE ~presses
  <2>1. b = [a EXCEPT !.arm_time = 0, !.timeout_time = Count(a.timeout_time),
                      !.latch_released = TRUE]
    BY <1>3 DEF BySwitch
  <2> HIDE DEF b
  <2>2. b \in ArmingState /\ b.arm_time = 0 /\ b.system_armed = a.system_armed
    BY <2>1, <1>1, <1>2 DEF ArmingState
  <2>3. PositionTaken(a, b, region)
    BY <2>2 DEF PositionTaken
  <2> QED
    BY <1>3, <2>2, <2>3 DEF b
<1>4. CASE presses /\ arms /\ HeldLongEnough(a.arm_time)
  <2>1. b = [a EXCEPT !.system_armed = TRUE, !.latch_released = FALSE]
    BY <1>4 DEF BySwitch
  <2> HIDE DEF b
  <2>2. b \in ArmingState /\ b.arm_time = a.arm_time /\ b.latch_released = FALSE
    BY <2>1, <1>1 DEF ArmingState
  <2>3. PositionTaken(a, b, region)
    BY <1>4, <2>2 DEF PositionTaken
  <2> QED
    BY <1>4, <2>2, <2>3 DEF b
<1>5. CASE presses /\ arms /\ ~HeldLongEnough(a.arm_time)
  <2>1. b = [a EXCEPT !.arm_time = Count(a.arm_time), !.timeout_time = 0]
    BY <1>5 DEF BySwitch
  <2> HIDE DEF b
  <2>2. /\ b \in ArmingState /\ b.arm_time = Count(a.arm_time)
        /\ b.system_armed = a.system_armed /\ b.latch_released = a.latch_released
    BY <2>1, <1>1, <1>2 DEF ArmingState
  <2>3. PositionTaken(a, b, region)
    BY <1>5, <2>2 DEF PositionTaken
  <2> QED
    BY <1>5, <2>2, <2>3 DEF b
<1>6. CASE presses /\ ~arms /\ a.system_armed /\ a.latch_released
  <2>1. b = [a EXCEPT !.system_armed = FALSE, !.latch_released = FALSE,
                      !.arm_time = 0, !.timeout_time = 0]
    BY <1>6 DEF BySwitch
  <2> HIDE DEF b
  <2>2. /\ b \in ArmingState /\ b.arm_time = 0
        /\ b.system_armed = FALSE /\ b.latch_released = FALSE
    BY <2>1, <1>1, <1>2 DEF ArmingState
  <2>3. PositionTaken(a, b, region)
    BY <1>6, <2>2 DEF PositionTaken
  <2> QED
    BY <1>6, <2>2, <2>3 DEF b
<1>7. CASE presses /\ ~arms /\ ~(a.system_armed /\ a.latch_released)
  <2>1. b = a
    BY <1>7 DEF BySwitch
  <2>2. PositionTaken(a, b, region)
    BY <1>7, <2>1 DEF PositionTaken
  <2> QED
    BY <1>7, <2>1, <2>2
<1> QED
  BY <1>3, <1>4, <1>5, <1>6, <1>7

LEMMA StickStep ==
    ASSUME NEW a \in ArmingState, NEW region \in {"ARM", "DISARM", "NO_REGION"}
    PROVE  LET b == ByStick(a, region)
           IN  PositionTaken(a, b, region) /\ b.latch_released = a.latch_released
<1> DEFINE b == ByStick(a, region)
<1>1. /\ a.arm_time \in 0 .. CounterSize - 1 /\ a.timeout_time \in 0 .. CounterSize - 1
      /\ a.disarm_time \in 0 .. CounterSize - 1
      /\ a.system_armed \in BOOLEAN /\ a.latch_released \in BOOLEAN
  BY DEF ArmingState
<1>2. /\ Count(a.disarm_time) \in 0 .. CounterSize - 1
      /\ Count(a.arm_time) \in 0 .. CounterSize - 1 /\ 0 \in 0 .. CounterSize - 1
  BY <1>1, CountInRange, RateAssumption
<1>3. CASE region = "ARM" /\ HeldLongEnough(a.arm_time)
  <2>1. b = [a EXCEPT !.system_armed = TRUE]
    BY <1>3 DEF ByStick
  <2> HIDE DEF b
  <2>2. /\ b \in ArmingState /\ b.arm_time = a.arm_time
        /\ b.latch_released = a.latch_released
    BY <2>1, <1>1 DEF ArmingState
  <2> QED
    BY <1>3, <2>2 DEF PositionTaken, b
<1>4. CASE region = "ARM" /\ ~HeldLongEnough(a.arm_time)
  <2>1. b = [a EXCEPT !.arm_time = Count(a.arm_time), !.disarm_time = 0, !.timeout_time = 0]
    BY <1>4 DEF ByStick
  <2> HIDE DEF b
  <2>2. /\ b \in ArmingState /\ b.arm_time = Count(a.arm_time)
        /\ b.system_armed = a.system_armed /\ b.latch_released = a.latch_released
    BY <2>1, <1>1, <1>2 DEF ArmingState
  <2> QED
    BY <1>4, <2>2 DEF PositionTaken, b
<1>5. CASE region = "DISARM" /\ HeldLongEnough(a.disarm_time)
  <2>1. b = [a EXCEPT !.system_armed = FALSE]
    BY <1>5 DEF ByStick
  <2> HIDE DEF b
  <2>2. /\ b \in ArmingState /\ b.arm_time = a.arm_time
        /\ b.system_armed = FALSE /\ b.latch_released = a.latch_released
    BY <2>1, <1>1 DEF ArmingState
  <2> QED
    BY <1>5, <2>2 DEF PositionTaken, b
<1>6. CASE region = "DISARM" /\ ~HeldLongEnough(a.disarm_time)
  <2>1. b = [a EXCEPT !.disarm_time = Count(a.disarm_time), !.arm_time = 0,
                      !.timeout_time = 0]
    BY <1>6 DEF ByStick
  <2> HIDE DEF b
  <2>2. /\ b \in ArmingState /\ b.arm_time = 0
        /\ b.system_armed = a.system_armed /\ b.latch_released = a.latch_released
    BY <2>1, <1>1, <1>2 DEF ArmingState
  <2> QED
    BY <1>6, <2>2 DEF PositionTaken, b
<1>7. CASE region = "NO_REGION"
  <2>1. b = [a EXCEPT !.arm_time = 0, !.disarm_time = 0]
    BY <1>7 DEF ByStick
  <2> HIDE DEF b
  <2>2. /\ b \in ArmingState /\ b.arm_time = 0
        /\ b.system_armed = a.system_armed /\ b.latch_released = a.latch_released
    BY <2>1, <1>1, <1>2 DEF ArmingState
  <2> QED
    BY <1>7, <2>2 DEF PositionTaken, b
<1> QED
  BY <1>3, <1>4, <1>5, <1>6, <1>7

\* What a whole CheckArmingConditions does when it may arm.
LEMMA CheckStep ==
    ASSUME TypeOK, NEW seen \in [1 .. 4 -> Receiver], ~force_disarm, CanArm(seen[1])
    PROVE  LET b == CheckArmingConditions(seen)
               region == SticksInRegion(seen[2])
           IN  /\ b \in ArmingState
               /\ \/ b.arm_time <= arming.arm_time
                  \/ /\ region \in {"ARM", "SWITCH_ACTIVE"}
                     /\ ~HeldLongEnough(arming.arm_time)
                     /\ b.arm_time <= arming.arm_time + 1
               /\ region = "NO_REGION" => b.arm_time = 0
               /\ ~arming.system_armed /\ b.system_armed
                    => /\ HeldLongEnough(arming.arm_time)
                       /\ region \in {"ARM", "SWITCH_ACTIVE"}
                       /\ arm_settings.direction = "SWITCH" => arming.latch_released
               /\ region = "SWITCH_ACTIVE" /\ b.latch_released => arming.latch_released
               /\ region = "SWITCH_ACTIVE" /\ b.system_armed # arming.system_armed
                    => ~b.latch_released
               /\ arm_settings.direction # "SWITCH"
                    => b.latch_released = arming.latch_released
<1> DEFINE region == SticksInRegion(seen[2])
           k == KeepForComputer(arming, seen[2])
           c == ByPosition(k, region, seen[3])
           b == ByThrottle(c, seen[4])
<1>1. CheckArmingConditions(seen) = b
  BY DEF CheckArmingConditions
<1>2. arming \in ArmingState
  BY DEF TypeOK
<1>3. /\ k \in ArmingState /\ k.arm_time = arming.arm_time
      /\ k.system_armed = arming.system_armed /\ k.latch_released = arming.latch_released
  BY <1>2, KeepStep
<1>4. /\ region \in {"ARM", "DISARM", "NO_REGION", "SWITCH_ACTIVE"}
      /\ arm_settings.direction = "SWITCH" => region \in {"SWITCH_ACTIVE", "NO_REGION"}
      /\ arm_settings.direction # "SWITCH" => region \in {"ARM", "DISARM", "NO_REGION"}
  <2>1. seen[2] \in Receiver
    OBVIOUS
  <2>2. seen[2].stick \in {"ARM", "DISARM", "NO_REGION"}
    BY <2>1 DEF Receiver
  <2> QED
    BY <2>2 DEF SticksInRegion
<1> HIDE DEF k, region
<1>5. /\ PositionTaken(k, c, region)
      /\ region = "SWITCH_ACTIVE" /\ (k.system_armed \/ c.system_armed) => ~c.latch_released
      /\ region = "SWITCH_ACTIVE" /\ c.latch_released => k.latch_released
      /\ ~k.system_armed /\ c.system_armed /\ arm_settings.direction = "SWITCH"
            => k.latch_released
      /\ arm_settings.direction # "SWITCH" => c.latch_released = k.latch_released
  <2>1. CASE arm_settings.direction = "SWITCH"
    <3>1. c = BySwitch(k, region, seen[3])
      BY <2>1 DEF ByPosition
    <3> HIDE DEF c
    <3> QED
      BY <3>1, <2>1, <1>3, <1>4, SwitchStep
  <2>2. CASE arm_settings.direction # "SWITCH"
    <3>1. c = ByStick(k, region)
      BY <2>2 DEF ByPosition
    <3> HIDE DEF c
    <3> QED
      BY <3>1, <2>2, <1>3, <1>4, StickStep
  <2> QED
    BY <2>1, <2>2
<1> HIDE DEF c
<1>6. c \in ArmingState
  BY <1>5 DEF PositionTaken
<1>7. /\ b \in ArmingState /\ b.arm_time <= c.arm_time
      /\ b.system_armed => c.system_armed
      /\ b.latch_released = c.latch_released
  BY <1>6, ThrottleStep
<1> HIDE DEF b
<1>8. /\ arming.arm_time \in 0 .. CounterSize - 1 /\ c.arm_time \in Nat /\ b.arm_time \in Nat
      /\ arming.system_armed \in BOOLEAN /\ b.system_armed \in BOOLEAN
      /\ c.system_armed \in BOOLEAN
  BY <1>2, <1>6, <1>7, RateAssumption DEF ArmingState
<1>9. \/ b.arm_time <= arming.arm_time
      \/ /\ region \in {"ARM", "SWITCH_ACTIVE"}
         /\ ~HeldLongEnough(arming.arm_time)
         /\ b.arm_time <= arming.arm_time + 1
  <2>1. CASE c.arm_time = 0 \/ c.arm_time = k.arm_time
    BY <2>1, <1>3, <1>7, <1>8
  <2>2. CASE /\ region \in {"ARM", "SWITCH_ACTIVE"} /\ ~HeldLongEnough(k.arm_time)
             /\ c.arm_time = Count(k.arm_time)
    <3>1. c.arm_time <= arming.arm_time + 1
      BY <2>2, <1>3, <1>8, CountInRange
    <3>2. ~HeldLongEnough(arming.arm_time)
      BY <2>2, <1>3
    <3>3. b.arm_time <= arming.arm_time + 1
      BY <3>1, <1>7, <1>8
    <3> QED
      BY <2>2, <3>2, <3>3
  <2> QED
    BY <2>1, <2>2, <1>5 DEF PositionTaken
<1>10. region = "NO_REGION" => b.arm_time = 0
  BY <1>5, <1>7, <1>8 DEF PositionTaken
<1>11. ~arming.system_armed /\ b.system_armed
         => /\ HeldLongEnough(arming.arm_time)
            /\ region \in {"ARM", "SWITCH_ACTIVE"}
            /\ arm_settings.direction = "SWITCH" => arming.latch_released
  BY <1>3, <1>5, <1>7 DEF PositionTaken
<1>12. region = "SWITCH_ACTIVE" /\ b.latch_released => arming.latch_released
  BY <1>3, <1>5, <1>7
<1>13. region = "SWITCH_ACTIVE" /\ b.system_armed # arming.system_armed => ~b.latch_released
  BY <1>3, <1>5, <1>7, <1>8
<1>14. arm_settings.direction # "SWITCH" => b.latch_released = arming.latch_released
  BY <1>3, <1>5, <1>7
<1> QED
  BY <1>1, <1>7, <1>9, <1>10, <1>11, <1>12, <1>13, <1>14 DEF region
-----------------------------------------------------------------------------
\* The inductive invariant: the hold counted never exceeds the hold seen, a
\* press that was used has taken the latch, and the override's timeout is no
\* older than its command.
IInv ==
    /\ TypeOK
    /\ arming.arm_time <= held
    /\ toggled => ~arming.latch_released
    /\ override.timeout <= age

LEMMA InitIInv == Init => IInv
<1> SUFFICES ASSUME Init PROVE IInv
  OBVIOUS
<1>1. arming \in ArmingState
  BY RateAssumption DEF Init, ForcedDown, ArmingState
<1>2. HalfSecond \in Nat
  BY RateAssumption DEF HalfSecond
<1>3. TypeOK
  <2>1. arming \in ArmingState /\ arm_settings \in Settings
    BY <1>1, SettingsAssumption DEF Init
  <2>2. /\ override \in [active : BOOLEAN, timeout : 0 .. HalfSecond + 1]
        /\ age \in 0 .. HalfSecond + 1
    BY <1>2 DEF Init
  <2>3. /\ force_disarm \in BOOLEAN /\ parser = "IDLE" /\ link = "LOST" /\ rc = Lost
        /\ held \in Nat /\ toggled \in BOOLEAN
    BY DEF Init
  <2> QED
    BY <2>1, <2>2, <2>3 DEF TypeOK
<1> QED
  BY <1>3 DEF Init, IInv, ForcedDown

LEMMA LaterType ==
    ASSUME NEW t \in 0 .. HalfSecond + 1, NEW u \in 0 .. HalfSecond + 1, t <= u
    PROVE  Later(t) \in 0 .. HalfSecond + 1 /\ Later(t) <= Later(u) /\ t <= Later(u)
<1>1. HalfSecond \in Nat
  BY RateAssumption DEF HalfSecond
<1> QED
  BY <1>1 DEF Later

LEMMA TickIInv ==
    ASSUME IInv, NEW later \in RcInputs \cup {Lost}, NEW cut \in 2 .. 4, Tick(later, cut)
    PROVE  IInv'
<1> DEFINE seen == [n \in 1 .. 4 |-> IF n < cut THEN rc ELSE later]
<1>1. seen \in [1 .. 4 -> Receiver]
  BY RcAssumption DEF IInv, TypeOK
<1>2. /\ arming \in ArmingState /\ force_disarm \in BOOLEAN
      /\ held \in Nat /\ toggled \in BOOLEAN
  BY DEF IInv, TypeOK
<1>3. /\ override' \in [active : BOOLEAN, timeout : 0 .. HalfSecond + 1]
      /\ age' \in 0 .. HalfSecond + 1
      /\ override'.timeout <= age'
  <2>1. /\ override \in [active : BOOLEAN, timeout : 0 .. HalfSecond + 1]
        /\ age \in 0 .. HalfSecond + 1 /\ override.timeout <= age
    BY DEF IInv, TypeOK
  <2>2. /\ override.timeout \in 0 .. HalfSecond + 1
        /\ Later(override.timeout) \in 0 .. HalfSecond + 1
        /\ Later(override.timeout) <= Later(age) /\ override.timeout <= Later(age)
        /\ Later(age) \in 0 .. HalfSecond + 1
    BY <2>1, LaterType
  <2>3. override' \in {[override EXCEPT !.active = FALSE],
                       [override EXCEPT !.timeout = Later(override.timeout)]}
    BY DEF Tick, CheckMotorOverride
  <2>4. age' = Later(age)
    BY DEF Tick
  <2> QED
    BY <2>1, <2>2, <2>3, <2>4
<1>4. /\ arming' \in ArmingState /\ force_disarm' \in BOOLEAN
      /\ held' \in Nat /\ toggled' \in BOOLEAN
      /\ arming'.arm_time <= held'
      /\ toggled' => ~arming'.latch_released
  <2>1. CASE override.active
    <3>1. UNCHANGED <<arming, force_disarm, held, toggled>>
      BY <2>1 DEF Tick
    <3>2. arming.arm_time <= held /\ (toggled => ~arming.latch_released)
      BY DEF IInv
    <3> QED
      BY <3>1, <3>2, <1>2
  <2>2. CASE ~override.active /\ force_disarm
    <3>1. arming' = ForcedDown /\ force_disarm' = FALSE /\ held' = 0 /\ toggled' = toggled
      BY <2>2 DEF Tick, CheckArmingConditions, SeenByTick
    <3>2. ForcedDown \in ArmingState
      BY RateAssumption DEF ForcedDown, ArmingState
    <3>3. ForcedDown.arm_time <= 0 /\ ~ForcedDown.latch_released
      BY DEF ForcedDown
    <3> QED
      BY <3>1, <3>2, <3>3, <1>2
  <2>3. CASE ~override.active /\ ~force_disarm /\ ~CanArm(seen[1])
    <3>1. /\ arming' = [arming EXCEPT !.system_armed = FALSE]
          /\ force_disarm' = FALSE /\ held' = held /\ toggled' = toggled
      BY <2>3 DEF Tick, CheckArmingConditions, SeenByTick
    <3> QED
      BY <3>1, <1>2 DEF ArmingState, IInv
  <2>4. CASE ~override.active /\ ~force_disarm /\ CanArm(seen[1])
    <3> DEFINE region == SticksInRegion(seen[2])
               b == CheckArmingConditions(seen)
    <3>1. /\ arming' = b /\ force_disarm' = FALSE
          /\ held' = IF region = "NO_REGION" THEN 0
                      ELSE IF region = "DISARM" \/ HeldLongEnough(held) THEN held
                      ELSE held + 1
          /\ toggled' = IF region = "SWITCH_ACTIVE"
                        THEN toggled \/ b.system_armed # arming.system_armed
                        ELSE toggled /\ arm_settings.direction # "SWITCH"
      BY <2>4 DEF Tick, SeenByTick
    <3>2. TypeOK /\ arming.arm_time <= held /\ (toggled => ~arming.latch_released)
      BY DEF IInv
    <3> HIDE DEF seen
    <3>3. /\ b \in ArmingState
          /\ \/ b.arm_time <= arming.arm_time
             \/ /\ region \in {"ARM", "SWITCH_ACTIVE"}
                /\ ~HeldLongEnough(arming.arm_time)
                /\ b.arm_time <= arming.arm_time + 1
          /\ region = "NO_REGION" => b.arm_time = 0
          /\ region = "SWITCH_ACTIVE" /\ b.latch_released => arming.latch_released
          /\ region = "SWITCH_ACTIVE" /\ b.system_armed # arming.system_armed
               => ~b.latch_released
          /\ arm_settings.direction # "SWITCH"
               => b.latch_released = arming.latch_released
      BY <2>4, <1>1, <3>2, CheckStep
    <3> HIDE DEF b, region
    <3>4. arming.arm_time \in Nat /\ b.arm_time \in Nat
      BY <1>2, <3>3, RateAssumption DEF ArmingState
    <3>5. held' \in Nat /\ toggled' \in BOOLEAN
      <4>1. held' \in {0, held, held + 1}
        BY <3>1
      <4>2. toggled' \in BOOLEAN
        BY <3>1, <1>2
      <4> QED
        BY <4>1, <4>2, <1>2
    <3>6. b.arm_time <= held'
      <4>1. CASE region = "NO_REGION"
        <5>1. held' = 0
          BY <4>1, <3>1
        <5> QED
          BY <4>1, <5>1, <3>3
      <4>2. CASE region # "NO_REGION" /\ (region = "DISARM" \/ HeldLongEnough(held))
        <5>1. held' = held
          BY <4>2, <3>1
        <5>2. b.arm_time <= arming.arm_time \/ arming.arm_time # held
          BY <4>2, <3>3
        <5>3. b.arm_time <= arming.arm_time + 1
          BY <3>3, <3>4
        <5> QED
          BY <5>1, <5>2, <5>3, <3>2, <3>4, <1>2
      <4>3. CASE region # "NO_REGION" /\ ~(region = "DISARM" \/ HeldLongEnough(held))
        <5>1. held' = held + 1
          BY <4>3, <3>1
        <5>2. b.arm_time <= arming.arm_time + 1
          BY <3>3, <3>4
        <5> QED
          BY <5>1, <5>2, <3>2, <3>4, <1>2
      <4> QED
        BY <4>1, <4>2, <4>3
    <3>7. toggled' => ~b.latch_released
      BY <3>1, <3>2, <3>3
    <3> QED
      BY <3>1, <3>3, <3>5, <3>6, <3>7
  <2> QED
    BY <2>1, <2>2, <2>3, <2>4, <1>2
<1>5. /\ arm_settings' \in Settings /\ rc' \in RcInputs \cup {Lost}
      /\ parser' \in {"IDLE", "SANE", "INSANE", "ACTIVATE"}
      /\ link' \in {"LOST", "FLIES", "REFUSED"}
  BY DEF Tick, IInv, TypeOK
<1>6. TypeOK'
  BY <1>3, <1>4, <1>5 DEF TypeOK
<1> QED
  BY <1>3, <1>4, <1>6 DEF IInv

\* The other actions leave what the arming thread keeps alone, or restart the
\* override.
LEMMA NextIInv == IInv /\ [Next]_vars => IInv'
<1> SUFFICES ASSUME IInv, [Next]_vars PROVE IInv'
  OBVIOUS
<1> USE DEF IInv, history
<1>1. CASE ArmingThread
  BY <1>1, TickIInv DEF ArmingThread
<1>2. ASSUME NEW values \in {"SANE", "INSANE"}, OverrideCopy(values) PROVE IInv'
  BY <1>2 DEF OverrideCopy, TypeOK
<1>3. CASE OverrideRefuse
  BY <1>3 DEF OverrideRefuse, TypeOK
<1>4. CASE OverrideRestart
  <2>1. HalfSecond \in Nat
    BY RateAssumption DEF HalfSecond
  <2> QED
    BY <1>4, <2>1 DEF OverrideRestart, TypeOK
<1>5. CASE OverrideActivate
  BY <1>5 DEF OverrideActivate, TypeOK
<1>6. ASSUME NEW flies \in BOOLEAN, ComputerPacket(flies) PROVE IInv'
  BY <1>6 DEF ComputerPacket, TypeOK
<1>7. CASE LinkTimeout
  BY <1>7 DEF LinkTimeout, TypeOK
<1>8. ASSUME NEW s \in Settings, SetArmSettings(s) PROVE IInv'
  BY <1>8 DEF SetArmSettings, TypeOK
<1>9. CASE ForceDisarm
  BY <1>9 DEF ForceDisarm, TypeOK
<1>10. ASSUME NEW r \in RcInputs \cup {Lost}, Receive(r) PROVE IInv'
  BY <1>10 DEF Receive, TypeOK
<1>11. CASE UNCHANGED vars
  BY <1>11 DEF vars, TypeOK
<1> QED
  BY <1>1, <1>2, <1>3, <1>4, <1>5, <1>6, <1>7, <1>8, <1>9, <1>10, <1>11
     DEF Next, OverrideParser

THEOREM Invariance == Spec => []IInv
  BY InitIInv, NextIInv, PTL DEF Spec

\* The arming thread, the parsers and the receiver keep every variable in its
\* type, the wrapping counters of arming.c in theirs.
THEOREM TypeCorrect == Spec => []TypeOK
<1>1. IInv => TypeOK
  BY DEF IInv
<1> QED
  BY <1>1, Invariance, PTL

LEMMA ReceiversSeen ==
    ASSUME TypeOK, NEW later \in RcInputs \cup {Lost}, NEW cut \in 2 .. 4
    PROVE  [n \in 1 .. 4 |-> IF n < cut THEN rc ELSE later] \in [1 .. 4 -> Receiver]
BY RcAssumption DEF TypeOK

\* Only a tick that may arm changes system_armed from FALSE to TRUE.
LEMMA OnlyTicksArm ==
    ASSUME IInv, [Next]_vars, ~arming.system_armed, arming'.system_armed
    PROVE  \E seen \in [1 .. 4 -> Receiver] :
              /\ ~force_disarm /\ CanArm(seen[1])
              /\ arming' = CheckArmingConditions(seen)
<1>1. CASE ArmingThread
  <2>1. PICK later \in RcInputs \cup {Lost}, cut \in 2 .. 4 : Tick(later, cut)
    BY <1>1 DEF ArmingThread
  <2> DEFINE seen == [n \in 1 .. 4 |-> IF n < cut THEN rc ELSE later]
  <2>2. seen \in [1 .. 4 -> Receiver]
    BY ReceiversSeen DEF IInv
  <2>3. arming' = arming \/ arming' = CheckArmingConditions(seen)
    BY <2>1 DEF Tick
  <2> HIDE DEF seen
  <2>4. arming' = CheckArmingConditions(seen)
    BY <2>3
  <2>5. ~force_disarm
    BY <2>4 DEF CheckArmingConditions, ForcedDown
  <2>6. CanArm(seen[1])
    <3>1. ~CanArm(seen[1]) => arming' = [arming EXCEPT !.system_armed = FALSE]
      BY <2>4, <2>5 DEF CheckArmingConditions
    <3> QED
      BY <3>1 DEF IInv, TypeOK, ArmingState
  <2> QED
    BY <2>2, <2>4, <2>5, <2>6
<1>2. CASE ~ArmingThread
  <2>1. arming' = arming
    BY <1>2 DEF Next, OverrideParser, OverrideCopy, OverrideRefuse, OverrideRestart,
         OverrideActivate, ComputerPacket, LinkTimeout, SetArmSettings, ForceDisarm,
         Receive, vars
  <2> QED
    BY <2>1
<1> QED
  BY <1>1, <1>2

\* The system is armed only after the full hold that the settings ask for.
THEOREM FullHoldArms == Spec => ArmsAfterHold
<1>1. ASSUME IInv, [Next]_vars, ~arming.system_armed, arming'.system_armed
      PROVE  HeldLongEnough(held)
  <2>1. PICK seen \in [1 .. 4 -> Receiver] :
             /\ ~force_disarm /\ CanArm(seen[1])
             /\ arming' = CheckArmingConditions(seen)
    BY <1>1, OnlyTicksArm
  <2>2. HeldLongEnough(arming.arm_time)
    BY <1>1, <2>1, CheckStep DEF IInv
  <2>3. arming.arm_time \in Nat /\ held \in Nat /\ arming.arm_time <= held
    BY <1>1, RateAssumption DEF IInv, TypeOK, ArmingState
  <2> QED
    BY <1>1, <2>2, <2>3, HoldIsMonotone DEF IInv
<1>2. IInv /\ [Next]_vars
        => [~arming.system_armed /\ arming'.system_armed => HeldLongEnough(held)]_vars
  BY <1>1
<1> QED
  BY <1>2, Invariance, PTL DEF Spec, ArmsAfterHold

\* One press of the switch never arms after it has already taken effect.
THEOREM PressArmsOnce == Spec => OneArmPerPress
<1>1. ASSUME IInv, [Next]_vars, ~arming.system_armed, arming'.system_armed,
             arm_settings.direction = "SWITCH"
      PROVE  ~toggled
  <2>1. PICK seen \in [1 .. 4 -> Receiver] :
             /\ ~force_disarm /\ CanArm(seen[1])
             /\ arming' = CheckArmingConditions(seen)
    BY <1>1, OnlyTicksArm
  <2>2. arming.latch_released
    BY <1>1, <2>1, CheckStep DEF IInv
  <2> QED
    BY <1>1, <2>2 DEF IInv
<1>2. IInv /\ [Next]_vars
        => [~arming.system_armed /\ arming'.system_armed
              /\ arm_settings.direction = "SWITCH" => ~toggled]_vars
  BY <1>1
<1> QED
  BY <1>2, Invariance, PTL DEF Spec, OneArmPerPress

\* A sane override drives the motors for its half second, whenever the arming
\* thread preempts the parser that writes it.
THEOREM OverrideKeepsItsTime == Spec => OverrideLasts
<1>1. ASSUME IInv, [Next]_vars, override.active, ~override'.active
      PROVE  parser = "INSANE" \/ force_disarm \/ age > HalfSecond
  <2>1. CASE ArmingThread
    <3>1. PICK later \in RcInputs \cup {Lost}, cut \in 2 .. 4 : Tick(later, cut)
      BY <2>1 DEF ArmingThread
    <3>2. CheckMotorOverride(override.active /\ force_disarm)
      BY <3>1 DEF Tick
    <3>3. force_disarm \/ override.timeout > HalfSecond
      BY <1>1, <3>2 DEF CheckMotorOverride, IInv, TypeOK
    <3>4. HalfSecond \in Nat
      BY RateAssumption DEF HalfSecond
    <3> QED
      BY <1>1, <3>3, <3>4 DEF IInv, TypeOK
  <2>2. CASE OverrideRefuse
    BY <2>2 DEF OverrideRefuse
  <2>3. CASE OverrideRestart
    BY <1>1, <2>3 DEF OverrideRestart, IInv, TypeOK
  <2>4. CASE OverrideActivate
    BY <1>1, <2>4 DEF OverrideActivate, IInv, TypeOK
  <2>5. CASE ~(ArmingThread \/ OverrideRefuse \/ OverrideRestart \/ OverrideActivate)
    <3>1. override' = override
      BY <1>1, <2>5 DEF Next, OverrideParser, OverrideCopy, ComputerPacket, LinkTimeout,
           SetArmSettings, ForceDisarm, Receive, vars
    <3> QED
      BY <1>1, <3>1
  <2> QED
    BY <2>1, <2>2, <2>3, <2>4, <2>5
<1>2. IInv /\ [Next]_vars
        => [override.active /\ ~override'.active
              => parser = "INSANE" \/ force_disarm \/ age > HalfSecond]_vars
  BY <1>1
<1> QED
  BY <1>2, Invariance, PTL DEF Spec, OverrideLasts

\* One tick is less than the shortest zero-throttle timeout.
LEMMA OneTickIsShort ==
    ASSUME NEW t \in {0, Count(0)}, NEW limit \in 0 .. 255, limit # 0
    PROVE  ~(t \div ArmRate > limit)
<1>1. t \in {0, 1}
  BY RateAssumption DEF Count
<1>2. ArmRate \in Nat \ {0}
  BY RateAssumption
<1>3. 0 \div ArmRate = 0 /\ 1 \div ArmRate <= 1 /\ 1 \div ArmRate \in Int
  BY <1>2, SMTT(30)
<1> QED
  BY <1>1, <1>3

\* While the computer is in command the timeout never disarms.
THEOREM ComputerHoldsTimeout == Spec => ComputerKeepsArmed
<1>1. ASSUME IInv, [Next]_vars, arming.system_armed, Commanded, Commanded'
      PROVE  arming'.system_armed
  <2>1. CASE ArmingThread /\ ~override.active
    <3>1. PICK later \in RcInputs \cup {Lost}, cut \in 2 .. 4 : Tick(later, cut)
      BY <2>1 DEF ArmingThread
    <3> DEFINE seen == [n \in 1 .. 4 |-> IF n < cut THEN rc ELSE later]
               region == SticksInRegion(seen[2])
               k == KeepForComputer(arming, seen[2])
               c == ByPosition(k, region, seen[3])
    <3>2. /\ rc' = later /\ arm_settings' = arm_settings
          /\ arming' = CheckArmingConditions(seen)
      BY <3>1, <2>1 DEF Tick
    <3>3. \A n \in 1 .. 4 : /\ seen[n].connected /\ seen[n].serial
                            /\ seen[n].stick # "DISARM" /\ ~seen[n].pressed
      BY <1>1, <3>2 DEF Commanded
    <3>4. CanArm(seen[1]) /\ ~force_disarm
      BY <1>1, <3>3 DEF Commanded, CanArm
    <3>5. seen \in [1 .. 4 -> Receiver]
      BY ReceiversSeen, <1>1 DEF IInv
    <3> HIDE DEF seen
    <3>6. region \in {"ARM", "NO_REGION"}
      <4>1. seen[2].stick \in {"ARM", "NO_REGION"}
        BY <3>3, <3>5 DEF Receiver
      <4> QED
        BY <4>1, <3>3 DEF SticksInRegion
    <3>7. arming \in ArmingState
      BY <1>1 DEF IInv, TypeOK
    <3>8. k = [arming EXCEPT !.timeout_time = 0]
      BY <1>1, <3>3 DEF KeepForComputer, ComputerControlEnabled, IsSystemArmed, Commanded
    <3>9. k.timeout_time = 0 /\ k.system_armed /\ k \in ArmingState
      BY <3>7, <3>8, <1>1, RateAssumption DEF ArmingState
    <3> HIDE DEF k, region
    <3>10. c.system_armed /\ c.timeout_time \in {0, Count(0)} /\ c \in ArmingState
      <4>1. CASE arm_settings.direction = "SWITCH"
        <5>1. region = "NO_REGION"
          BY <4>1, <3>3 DEF SticksInRegion, region
        <5>2. c = [k EXCEPT !.arm_time = 0, !.timeout_time = Count(k.timeout_time),
                            !.latch_released = TRUE]
          BY <4>1, <5>1 DEF ByPosition, BySwitch
        <5>3. Count(0) \in 0 .. CounterSize - 1 /\ 0 \in 0 .. CounterSize - 1
          BY CountInRange, RateAssumption
        <5> QED
          BY <5>2, <5>3, <3>9 DEF ArmingState
      <4>2. CASE arm_settings.direction # "SWITCH"
        <5>1. c = ByStick(k, region)
          BY <4>2 DEF ByPosition
        <5>2. c \in {[k EXCEPT !.system_armed = TRUE],
                     [k EXCEPT !.arm_time = Count(k.arm_time), !.disarm_time = 0,
                               !.timeout_time = 0],
                     [k EXCEPT !.arm_time = 0, !.disarm_time = 0]}
          BY <5>1, <3>6 DEF ByStick
        <5>3. Count(k.arm_time) \in 0 .. CounterSize - 1 /\ 0 \in 0 .. CounterSize - 1
          BY <3>9, CountInRange, RateAssumption DEF ArmingState
        <5> HIDE DEF c
        <5> QED
          BY <5>2, <5>3, <3>9 DEF ArmingState
      <4> QED
        BY <4>1, <4>2
    <3>11. arming' = ByThrottle(c, seen[4])
      BY <3>2, <3>4 DEF CheckArmingConditions, k, region
    <3> HIDE DEF c
    <3>12. arm_settings.arm_zero_throttle_timeout \in 0 .. 255
      BY <1>1, SettingsAssumption DEF IInv, TypeOK, ArmSettings
    <3>13. CASE arm_settings.arm_zero_throttle_timeout = 0 \/ ~seen[4].low
      <4>1. arming' \in {c, [c EXCEPT !.timeout_time = 0]}
        BY <3>11, <3>13 DEF ByThrottle
      <4> QED
        BY <4>1, <3>10 DEF ArmingState
    <3>14. CASE arm_settings.arm_zero_throttle_timeout # 0 /\ seen[4].low
      <4>1. ~(c.timeout_time \div ArmRate > arm_settings.arm_zero_throttle_timeout)
        BY <3>10, <3>12, <3>14, OneTickIsShort
      <4>2. arming' = [c EXCEPT !.timeout_time = Count(c.timeout_time),
                                !.arm_time = 0, !.disarm_time = 0]
        BY <3>10, <3>11, <3>14, <4>1 DEF ByThrottle
      <4> QED
        BY <4>2, <3>10 DEF ArmingState
    <3> QED
      BY <3>13, <3>14
  <2>2. CASE ~(ArmingThread /\ ~override.active)
    <3>1. arming' = arming
      BY <1>1, <2>2 DEF Next, ArmingThread, Tick, OverrideParser, OverrideCopy,
           OverrideRefuse, OverrideRestart, OverrideActivate, ComputerPacket,
           LinkTimeout, SetArmSettings, ForceDisarm, Receive, vars
    <3> QED
      BY <1>1, <3>1
  <2> QED
    BY <2>1, <2>2
<1>2. IInv /\ [Next]_vars
        => [arming.system_armed /\ Commanded /\ Commanded' => arming'.system_armed]_vars
  BY <1>1
<1> QED
  BY <1>2, Invariance, PTL DEF Spec, ComputerKeepsArmed

-----------------------------------------------------------------------------
\* The part of PilotGone that needs no fairness: a bound in ticks.

NoPilot == ~rc.connected /\ parser = "IDLE"

\* The ticks it takes until nothing is armed: what an override has left, then one to
\* disarm.
TicksLeft == IF override.active THEN HalfSecond + 3 - override.timeout
             ELSE IF arming.system_armed THEN 1 ELSE 0

TicksLeftOK == /\ TicksLeft \in 0 .. HalfSecond + 3
               /\ TicksLeft = 0 => Outputs = "DEFAULT"

\* Without a pilot and without a command nothing puts the stop off, and each tick
\* brings it nearer.
TicksCount ==
    [][NoPilot /\ NoPilot' => /\ TicksLeft' <= TicksLeft
                              /\ ArmingThread => TicksLeft' < TicksLeft \/ TicksLeft' = 0]_vars

LEMMA TicksLeftRange == ASSUME TypeOK PROVE TicksLeftOK
<1>1. HalfSecond \in Nat /\ override.timeout \in 0 .. HalfSecond + 1
  BY RateAssumption DEF HalfSecond, TypeOK
<1>2. TicksLeft \in 0 .. HalfSecond + 3
  BY <1>1 DEF TicksLeft
<1>3. TicksLeft = 0 => ~override.active /\ ~arming.system_armed
  BY <1>1 DEF TicksLeft
<1> QED
  BY <1>2, <1>3 DEF TicksLeftOK, Outputs, IsSystemArmed

\* A tick that finds no receiver.
LEMMA TickWithoutPilot ==
    ASSUME TypeOK, ~rc.connected, ArmingThread
    PROVE  /\ TicksLeft' \in Int
           /\ TicksLeft' < TicksLeft \/ (TicksLeft' = 0 /\ TicksLeft = 0)
<1>1. PICK later \in RcInputs \cup {Lost}, cut \in 2 .. 4 : Tick(later, cut)
  BY DEF ArmingThread
<1> DEFINE seen == [n \in 1 .. 4 |-> IF n < cut THEN rc ELSE later]
<1>2. HalfSecond \in Nat /\ override.timeout \in 0 .. HalfSecond + 1 /\ override.active \in BOOLEAN
  BY RateAssumption DEF HalfSecond, TypeOK
<1>3. CASE override.active
  <2>1. arming' = arming
    BY <1>1, <1>3 DEF Tick
  <2>2. CASE force_disarm \/ override.timeout > HalfSecond
    <3>1. ~override'.active
      BY <1>1, <1>3, <2>2 DEF Tick, CheckMotorOverride, TypeOK
    <3>2. TicksLeft' \in {0, 1}
      BY <3>1 DEF TicksLeft
    <3> QED
      BY <1>2, <1>3, <3>2 DEF TicksLeft
  <2>3. CASE ~(force_disarm \/ override.timeout > HalfSecond)
    <3>1. override' = [override EXCEPT !.timeout = override.timeout + 1]
      BY <1>1, <1>3, <2>3 DEF Tick, CheckMotorOverride, Later
    <3>2. override'.active /\ override'.timeout = override.timeout + 1
      BY <1>3, <3>1 DEF TypeOK
    <3>3. HalfSecond' = HalfSecond
      BY DEF HalfSecond
    <3> QED
      BY <1>2, <1>3, <3>2, <3>3 DEF TicksLeft
  <2> QED
    BY <2>2, <2>3
<1>4. CASE ~override.active
  <2>1. arming' = CheckArmingConditions(seen)
    BY <1>1, <1>4 DEF Tick
  <2>2. seen[1] = rc
    OBVIOUS
  <2> HIDE DEF seen
  <2>3. ~CanArm(seen[1])
    BY <2>2 DEF CanArm
  <2>4. ~arming'.system_armed
    BY <2>1, <2>3 DEF CheckArmingConditions, ForcedDown, TypeOK, ArmingState
  <2>5. override'.active = FALSE
    BY <1>1, <1>4 DEF Tick, CheckMotorOverride, TypeOK
  <2>6. TicksLeft' = 0 /\ TicksLeft \in {0, 1}
    BY <1>4, <2>4, <2>5 DEF TicksLeft
  <2> QED
    BY <2>6
<1> QED
  BY <1>2, <1>3, <1>4

\* With no receiver and no command under way, the outputs are at their default within
\* half a second of ticks and three more, and stay there: whatever settings, packets of
\* the computer and forced disarms come, and however long an override still had to run.
THEOREM StopsWithoutPilot == Spec => []TicksLeftOK /\ TicksCount
<1>1. ASSUME TypeOK, [Next]_vars, NoPilot, NoPilot'
      PROVE  /\ TicksLeft' <= TicksLeft
             /\ ArmingThread => TicksLeft' < TicksLeft \/ TicksLeft' = 0
  <2>1. TicksLeft \in Int
    BY <1>1, TicksLeftRange DEF TicksLeftOK
  <2>2. CASE ArmingThread
    BY <1>1, <2>1, <2>2, TickWithoutPilot DEF NoPilot
  <2>3. CASE ~ArmingThread
    <3>1. UNCHANGED <<arming, override>>
      BY <1>1, <2>3 DEF Next, NoPilot, OverrideParser, OverrideCopy, OverrideRefuse,
           OverrideRestart, OverrideActivate, ComputerPacket, LinkTimeout, SetArmSettings,
           ForceDisarm, Receive, vars
    <3>2. TicksLeft' = TicksLeft
      BY <3>1 DEF TicksLeft, HalfSecond
    <3> QED
      BY <2>1, <2>3, <3>2
  <2> QED
    BY <2>2, <2>3
<1>2. TypeOK /\ [Next]_vars =>
        [NoPilot /\ NoPilot' =>
           /\ TicksLeft' <= TicksLeft
           /\ ArmingThread => TicksLeft' < TicksLeft \/ TicksLeft' = 0]_vars
  BY <1>1
<1>3. TypeOK => TicksLeftOK
  BY TicksLeftRange
<1> QED
  BY <1>2, <1>3, TypeCorrect, PTL DEF Spec, TicksCount

-----------------------------------------------------------------------------
\* The part of IdleDisarms that needs no fairness: a bound in ticks.

\* The counter gets beyond every timeout that may be set before it wraps.  On the
\* controller, with 20 ticks a second, 256 * 20 = 5120 and the counter has 16 bits.
CounterReaches ==
    \A s \in Settings :
        s.direction # "NONE" => (s.arm_zero_throttle_timeout + 1) * ArmRate < CounterSize - 1

\* Where the counter stands at its end, a released switch makes it start again.
ArmedFor == IF arming.timeout_time = CounterSize - 1 THEN CounterSize + 1
            ELSE CounterSize - arming.timeout_time
OverrideFor == IF override.active THEN HalfSecond + 2 - override.timeout ELSE 0

\* The ticks a vehicle that is left idle stays armed at most.
IdleLeft == IF arming.system_armed THEN ArmedFor + OverrideFor ELSE 0

IdleLeftOK == /\ IdleLeft \in 0 .. CounterSize + HalfSecond + 3
              /\ IdleLeft = 0 => ~arming.system_armed

\* While it is left idle nothing puts its disarming off.
IdleCounts ==
    [][Idle /\ Idle' => /\ IdleLeft' <= IdleLeft
                        /\ ArmingThread => IdleLeft' < IdleLeft \/ IdleLeft' = 0]_vars

\* What the code's test of the seconds says of the counter.
LEMMA SecondsNotOver ==
    ASSUME NEW c \in Nat, NEW limit \in Nat, ~(c \div ArmRate > limit)
    PROVE  c < (limit + 1) * ArmRate
<1>1. ArmRate \in Nat \ {0}
  BY RateAssumption
<1> DEFINE q == c \div ArmRate
<1>2. q \in Nat /\ c < (q + 1) * ArmRate
  <2>1. \A a \in Nat, r \in Nat \ {0} : a \div r \in Nat /\ a < (a \div r + 1) * r
    BY SMTT(30)
  <2> QED
    BY <1>1, <2>1
<1> HIDE DEF q
<1>3. q <= limit
  BY <1>2 DEF q
<1>4. (q + 1) * ArmRate <= (limit + 1) * ArmRate
  <2>1. \A a, b, r \in Nat : a <= b => a * r <= b * r
    BY SMTT(30)
  <2> QED
    BY <1>1, <1>2, <1>3, <2>1
<1>5. (q + 1) * ArmRate \in Nat /\ (limit + 1) * ArmRate \in Nat
  BY <1>1, <1>2, SMTT(30)
<1> QED
  BY <1>2, <1>4, <1>5

LEMMA IdleLeftRange == ASSUME TypeOK PROVE IdleLeftOK
<1>1. /\ HalfSecond \in Nat /\ override.timeout \in 0 .. HalfSecond + 1
      /\ CounterSize \in Nat \ {0} /\ arming.timeout_time \in 0 .. CounterSize - 1
  BY RateAssumption DEF HalfSecond, TypeOK, ArmingState
<1>2. ArmedFor \in 1 .. CounterSize + 1 /\ OverrideFor \in 0 .. HalfSecond + 2
  BY <1>1 DEF ArmedFor, OverrideFor
<1> QED
  BY <1>1, <1>2 DEF IdleLeftOK, IdleLeft

\* CheckArmingConditions with zero throttle and no gesture, while the system is armed.
LEMMA IdleCheck ==
    ASSUME TypeOK, CounterReaches, arming.system_armed, ~force_disarm,
           arm_settings.arm_zero_throttle_timeout # 0,
           NEW seen \in [1 .. 4 -> Receiver],
           \A n \in 1 .. 4 : /\ seen[n].low /\ seen[n].stick = "NO_REGION" /\ ~seen[n].pressed
                             /\ ~(LinkActive /\ seen[n].serial),
           NEW a, a = CheckArmingConditions(seen), a.system_armed
    PROVE  LET t == arming.timeout_time
           IN  a.timeout_time \in 1 .. CounterSize - 2
                 /\ (t = CounterSize - 1 \/ a.timeout_time > t)
<1> DEFINE region == SticksInRegion(seen[2])
           c == ByPosition(arming, region, seen[3])
           limit == arm_settings.arm_zero_throttle_timeout
           t == arming.timeout_time
<1>1. arming \in ArmingState /\ t \in 0 .. CounterSize - 1 /\ CounterSize \in Nat \ {0}
  BY RateAssumption DEF TypeOK, ArmingState
<1>2. arm_settings \in Settings /\ limit \in Nat
  BY SettingsAssumption DEF TypeOK, ArmSettings
<1>3. CanArm(seen[1])
  <2>1. ~CanArm(seen[1]) => a = [arming EXCEPT !.system_armed = FALSE]
    BY DEF CheckArmingConditions
  <2> QED
    BY <1>1, <2>1 DEF ArmingState
<1>4. KeepForComputer(arming, seen[2]) = arming
  BY DEF KeepForComputer, ComputerControlEnabled
<1>5. region = "NO_REGION"
  BY DEF SticksInRegion
<1>6. a = ByThrottle(c, seen[4])
  BY <1>3, <1>4 DEF CheckArmingConditions
<1>7. Count(t) \in 0 .. CounterSize - 1 /\ 0 \in 0 .. CounterSize - 1
  BY <1>1, CountInRange, RateAssumption
<1>8. /\ c \in ArmingState /\ c.system_armed
      /\ c.timeout_time = t \/ c.timeout_time = Count(t)
  <2>1. CASE arm_settings.direction = "SWITCH"
    <3>1. c = [arming EXCEPT !.arm_time = 0, !.timeout_time = Count(t), !.latch_released = TRUE]
      BY <1>5, <2>1 DEF ByPosition, BySwitch
    <3> QED
      BY <1>1, <1>7, <3>1 DEF ArmingState
  <2>2. CASE arm_settings.direction # "SWITCH"
    <3>1. c = [arming EXCEPT !.arm_time = 0, !.disarm_time = 0]
      BY <1>5, <2>2 DEF ByPosition, ByStick
    <3> QED
      BY <1>1, <1>7, <3>1 DEF ArmingState
  <2> QED
    BY <2>1, <2>2
<1> HIDE DEF c, region, limit
<1>9. /\ ~(c.timeout_time \div ArmRate > limit)
      /\ a = [c EXCEPT !.timeout_time = Count(c.timeout_time), !.arm_time = 0, !.disarm_time = 0]
  BY <1>6, <1>8 DEF ByThrottle, ArmingState, limit
<1>10. c.timeout_time \in 0 .. CounterSize - 1
  BY <1>8 DEF ArmingState
<1>11. c.timeout_time < (limit + 1) * ArmRate
  BY <1>2, <1>9, <1>10, SecondsNotOver
<1>12. (limit + 1) * ArmRate < CounterSize - 1
  BY <1>2, <1>3 DEF CounterReaches, CanArm, limit
<1>13. (limit + 1) * ArmRate \in Int
  BY <1>2, RateAssumption, SMTT(30)
<1>14. c.timeout_time < CounterSize - 2
  BY <1>1, <1>10, <1>11, <1>12, <1>13
<1>15. \A n \in 0 .. CounterSize - 2 : Count(n) = n + 1
  BY <1>1 DEF Count
<1>16. a.timeout_time = c.timeout_time + 1
  BY <1>1, <1>8, <1>9, <1>10, <1>14, <1>15 DEF ArmingState
<1>17. t = CounterSize - 1 \/ c.timeout_time >= t
  <2>1. t # CounterSize - 1 => Count(t) = t + 1
    BY <1>1, <1>15
  <2> QED
    BY <1>1, <1>8, <1>10, <2>1
<1> QED
  BY <1>1, <1>10, <1>14, <1>16, <1>17

LEMMA IdleTick ==
    ASSUME TypeOK, CounterReaches, Idle, Idle', ArmingThread
    PROVE  /\ IdleLeft' \in Int
           /\ IdleLeft' < IdleLeft \/ (IdleLeft' = 0 /\ IdleLeft = 0)
<1>1. PICK later \in RcInputs \cup {Lost}, cut \in 2 .. 4 : Tick(later, cut)
  BY DEF ArmingThread
<1> DEFINE seen == [n \in 1 .. 4 |-> IF n < cut THEN rc ELSE later]
<1>2. /\ HalfSecond \in Nat /\ override.timeout \in 0 .. HalfSecond + 1
      /\ override.active \in BOOLEAN /\ HalfSecond' = HalfSecond
      /\ CounterSize \in Nat \ {0} /\ arming.timeout_time \in 0 .. CounterSize - 1
  BY RateAssumption DEF HalfSecond, TypeOK, ArmingState
<1>3. ArmedFor \in 1 .. CounterSize + 1 /\ OverrideFor \in 0 .. HalfSecond + 2
  BY <1>2 DEF ArmedFor, OverrideFor
<1>4. seen \in [1 .. 4 -> Receiver]
  BY ReceiversSeen
<1>5. \A n \in 1 .. 4 : /\ seen[n].low /\ seen[n].stick = "NO_REGION" /\ ~seen[n].pressed
                        /\ ~(LinkActive /\ seen[n].serial)
  <2>1. rc' = later /\ link' = link
    BY <1>1 DEF Tick
  <2>2. ~(LinkActive /\ later.serial)
    BY <2>1 DEF Idle, LinkActive
  <2> QED
    BY <2>1, <2>2 DEF Idle
<1> HIDE DEF seen
<1>10. IF arming.system_armed THEN IdleLeft = ArmedFor + OverrideFor ELSE IdleLeft = 0
  BY DEF IdleLeft
<1>11. IF arming'.system_armed THEN IdleLeft' = ArmedFor' + OverrideFor' ELSE IdleLeft' = 0
  BY DEF IdleLeft
<1>6. CASE override.active
  <2>1. arming' = arming
    BY <1>1, <1>6 DEF Tick
  <2>2. OverrideFor' \in Int /\ OverrideFor' < OverrideFor
    <3>1. CASE force_disarm \/ override.timeout > HalfSecond
      <4>1. ~override'.active
        BY <1>1, <1>6, <3>1 DEF Tick, CheckMotorOverride, TypeOK
      <4> QED
        BY <1>2, <1>6, <4>1 DEF OverrideFor
    <3>2. CASE ~(force_disarm \/ override.timeout > HalfSecond)
      <4>1. override' = [override EXCEPT !.timeout = override.timeout + 1]
        BY <1>1, <1>6, <3>2 DEF Tick, CheckMotorOverride, Later
      <4>2. override'.active /\ override'.timeout = override.timeout + 1
        BY <1>6, <4>1 DEF TypeOK
      <4> QED
        BY <1>2, <1>6, <4>2 DEF OverrideFor
    <3> QED
      BY <3>1, <3>2
  <2>3. ArmedFor' = ArmedFor
    BY <2>1 DEF ArmedFor
  <2> QED
    BY <1>3, <1>10, <1>11, <2>1, <2>2, <2>3
<1>7. CASE ~override.active
  <2>1. arming' = CheckArmingConditions(seen)
    BY <1>1, <1>7 DEF Tick, seen
  <2>2. ~override'.active
    BY <1>1, <1>7 DEF Tick, CheckMotorOverride, TypeOK
  <2>3. OverrideFor = 0 /\ OverrideFor' = 0
    BY <1>7, <2>2 DEF OverrideFor
  <2>4. CASE ~arming'.system_armed
    BY <1>3, <1>10, <1>11, <2>3, <2>4
  <2>5. CASE arming'.system_armed
    <3>1. ~force_disarm
      BY <2>1, <2>5 DEF CheckArmingConditions, ForcedDown
    <3>2. CASE arming.system_armed
      <4>1. /\ arming'.timeout_time \in 1 .. CounterSize - 2
            /\ \/ arming.timeout_time = CounterSize - 1
               \/ arming'.timeout_time > arming.timeout_time
        BY <1>4, <1>5, <2>1, <2>5, <3>1, <3>2, IdleCheck DEF Idle
      <4>2. ArmedFor' \in Int /\ ArmedFor' < ArmedFor
        BY <1>2, <4>1 DEF ArmedFor
      <4>3. ArmedFor \in Int /\ ArmedFor' \in Int
        BY <1>2, <4>1 DEF ArmedFor
      <4>4. IdleLeft = ArmedFor + 0 /\ IdleLeft' = ArmedFor' + 0
        BY <1>10, <1>11, <2>3, <2>5, <3>2, Zenon
      <4>5. \A i \in Int : i + 0 = i
        OBVIOUS
      <4>6. IdleLeft = ArmedFor /\ IdleLeft' = ArmedFor'
        BY <4>3, <4>4, <4>5, Zenon
      <4> QED
        BY <4>2, <4>6, Zenon
    <3>3. CASE ~arming.system_armed
      <4>1. SticksInRegion(seen[2]) = "NO_REGION"
        BY <1>5 DEF SticksInRegion
      <4>2. KeepForComputer(arming, seen[2]) = arming
        BY <3>3 DEF KeepForComputer
      <4> DEFINE c == ByPosition(arming, "NO_REGION", seen[3])
      <4>3. ~c.system_armed
        BY <3>3 DEF ByPosition, BySwitch, ByStick, TypeOK, ArmingState
      <4> HIDE DEF c
      <4>4. ~ByThrottle(c, seen[4]).system_armed
        BY <4>3 DEF ByThrottle
      <4>5. arming' = ByThrottle(c, seen[4]) \/ arming' = [arming EXCEPT !.system_armed = FALSE]
        BY <2>1, <3>1, <4>1, <4>2 DEF CheckArmingConditions, c
      <4>6. arming \in ArmingState
        BY DEF TypeOK
      <4>7. ~[arming EXCEPT !.system_armed = FALSE].system_armed
        BY <4>6 DEF ArmingState
      <4> QED
        BY <2>5, <4>4, <4>5, <4>7
    <3> QED
      BY <3>2, <3>3
  <2> QED
    BY <2>4, <2>5
<1> QED
  BY <1>2, <1>6, <1>7

\* A vehicle left idle is disarmed within CounterSize + HalfSecond + 3 ticks, whatever
\* was in the counter, and stays so: if the counter can get beyond the timeout.
THEOREM DisarmsWhenIdle ==
    ASSUME CounterReaches
    PROVE  Spec => []IdleLeftOK /\ IdleCounts
<1>1. ASSUME TypeOK, [Next]_vars, Idle, Idle'
      PROVE  /\ IdleLeft' <= IdleLeft
             /\ ArmingThread => IdleLeft' < IdleLeft \/ IdleLeft' = 0
  <2>1. IdleLeft \in Int
    BY <1>1, IdleLeftRange DEF IdleLeftOK
  <2>2. CASE ArmingThread
    BY <1>1, <2>1, <2>2, IdleTick
  <2>3. CASE ~ArmingThread
    <3>1. UNCHANGED <<arming, override>>
      BY <1>1, <2>3 DEF Next, Idle, OverrideParser, OverrideCopy, OverrideRefuse,
           OverrideRestart, OverrideActivate, ComputerPacket, LinkTimeout, SetArmSettings,
           ForceDisarm, Receive, vars
    <3>2. IdleLeft' = IdleLeft
      BY <3>1 DEF IdleLeft, ArmedFor, OverrideFor, HalfSecond
    <3> QED
      BY <2>1, <2>3, <3>2
  <2> QED
    BY <2>2, <2>3
<1>2. TypeOK /\ [Next]_vars =>
        [Idle /\ Idle' =>
           /\ IdleLeft' <= IdleLeft
           /\ ArmingThread => IdleLeft' < IdleLeft \/ IdleLeft' = 0]_vars
  BY <1>1
<1>3. TypeOK => IdleLeftOK
  BY IdleLeftRange
<1> QED
  BY <1>2, <1>3, TypeCorrect, PTL DEF Spec, IdleCounts

-----------------------------------------------------------------------------
(***************************************************************************)
(* The cycles of the control thread                                        *)
(***************************************************************************)

\* What the controllers keep is of errors since the motors last stood or idled, but for the
\* last errors and the filters: whenever an integral goes out of date it is zeroed in the
\* same cycle.
Sources == {"NEW", "PAST"}
Kept == [I_state : SUBSET Sources, error_old : SUBSET Sources, filter : SUBSET Sources]
Controllers == [attitude : Kept, rate : Kept]

LoopInv == inputs \in Inputs /\ pid \in Controllers /\ CycleIsItsOwn

\* What a cycle sends is of the driver whose references it was given, in every mode in
\* which that driver may give them.
LEMMA SentIsOfDriver ==
    /\ Sent("DIRECT", FromOverride) = "OVERRIDE"
    /\ Sent("RATE", FromPilot) = "PILOT"
    /\ \A mode \in Commands :
         Sent(mode, FromComputer(mode)) = "COMPUTER"
<1> USE DEF Sent, UpdateOutputs, RateControl, AttitudeControl, Join, Controlled, Attitudes,
            Commands, Stale
<1>1. Sent("DIRECT", FromOverride) = "OVERRIDE"
  BY DEF FromOverride
<1>2. Sent("RATE", FromPilot) = "PILOT"
  BY DEF FromPilot
<1>3. Sent("ATTITUDE", FromComputer("ATTITUDE")) = "COMPUTER"
  BY DEF FromComputer
<1>4. Sent("ATTITUDE_EULER", FromComputer("ATTITUDE_EULER")) = "COMPUTER"
  BY DEF FromComputer
<1>5. Sent("RATE", FromComputer("RATE")) = "COMPUTER"
  BY DEF FromComputer
<1>6. Sent("INDIRECT", FromComputer("INDIRECT")) = "COMPUTER"
  BY DEF FromComputer
<1>7. Sent("DIRECT", FromComputer("DIRECT")) = "COMPUTER"
  BY DEF FromComputer
<1> QED
  BY <1>1, <1>2, <1>3, <1>4, <1>5, <1>6, <1>7

\* One controller, run or not.
LEMMA OneController ==
    ASSUME NEW c \in Kept
    PROVE  /\ Paused(c) \in Kept
           /\ \A filtered \in BOOLEAN : Integrate(c, filtered) \in Kept
<1>1. /\ c.I_state \subseteq Sources /\ c.error_old \subseteq Sources /\ c.filter \subseteq Sources
      /\ c = [I_state |-> c.I_state, error_old |-> c.error_old, filter |-> c.filter]
  BY DEF Kept
<1>2. Paused(c) \in Kept
  <2>1. Paused(c) = [I_state |-> c.I_state, error_old |-> Aged(c.error_old, "PAST"),
                     filter |-> Aged(c.filter, "PAST")]
    <3> DEFINE first == [c EXCEPT !.error_old = Aged(c.error_old, "PAST")]
    <3>1. first = [I_state |-> c.I_state, error_old |-> Aged(c.error_old, "PAST"),
                   filter |-> c.filter]
      BY <1>1
    <3>2. Paused(c) = [first EXCEPT !.filter = Aged(first.filter, "PAST")]
      BY DEF Paused
    <3> HIDE DEF first
    <3> QED
      BY <3>1, <3>2
  <2> QED
    BY <1>1, <2>1 DEF Kept, Sources, Aged
<1>3. ASSUME NEW filtered \in BOOLEAN PROVE Integrate(c, filtered) \in Kept
  <2> DEFINE D_state == {"NEW"} \cup c.error_old \cup c.filter
  <2>1. D_state \subseteq Sources /\ {"NEW"} \subseteq Sources
    BY <1>1 DEF Sources
  <2>2. Integrate(c, filtered) = [I_state |-> c.I_state \cup D_state, error_old |-> {"NEW"},
                                  filter |-> IF filtered THEN D_state ELSE {}]
    BY DEF Integrate
  <2> HIDE DEF D_state
  <2> QED
    BY <1>1, <2>1, <2>2 DEF Kept
<1> QED
  BY <1>2, <1>3

\* The controllers of a mode, and no integral among theirs that is out of date.
LEMMA AllControllers ==
    ASSUME NEW mode, NEW data \in Controllers
    PROVE  Updated(mode, data) \in Controllers /\ "OLD" \notin Used(mode, data)
<1>1. data.attitude \in Kept /\ data.rate \in Kept
  BY DEF Controllers
<1>2. [Integrate(data.attitude, FALSE) EXCEPT !.error_old = @ \cup Paused(data.attitude).error_old]
        \in Kept
  BY <1>1, OneController DEF Kept
<1>3. Updated(mode, data) \in Controllers
  BY <1>1, <1>2, OneController DEF Updated, Controllers
<1>4. /\ "OLD" \notin Updated(mode, data).attitude.I_state
      /\ "OLD" \notin Updated(mode, data).rate.I_state
  BY <1>3 DEF Controllers, Kept, Sources
<1> QED
  BY <1>3, <1>4 DEF Used

\* The motors stand or idle: what was gathered before is forgotten.
LEMMA Forgotten ==
    ASSUME NEW data \in Controllers
    PROVE  /\ ZeroControlIntegrals(Outdated(data)) \in Controllers
           /\ ZeroControlIntegrals(Updated("DISARMED", Outdated(data))) \in Controllers
<1> DEFINE Old(c) == [c EXCEPT !.I_state = Aged(@, "OLD")]
           Zeroed(c) == [c EXCEPT !.I_state = {}]
<1>1. data.attitude \in Kept /\ data.rate \in Kept
      /\ data = [attitude |-> data.attitude, rate |-> data.rate]
  BY DEF Controllers
<1>2. ASSUME NEW c \in Kept PROVE Zeroed(Old(c)) \in Kept
  BY <1>2 DEF Kept
<1>3. ASSUME NEW c \in Kept PROVE Zeroed(Paused(Old(c))) \in Kept
  <2>1. Zeroed(Paused(Old(c))) = Zeroed(Paused(c))
    BY <1>3 DEF Kept, Paused
  <2>2. Paused(c) \in Kept
    BY <1>3, OneController
  <2> QED
    BY <2>1, <2>2 DEF Kept
<1>4. Outdated(data) = [attitude |-> Old(data.attitude), rate |-> Old(data.rate)]
  BY <1>1 DEF Outdated
<1>5. ASSUME NEW a, NEW r
      PROVE  ZeroControlIntegrals([attitude |-> a, rate |-> r])
               = [attitude |-> Zeroed(a), rate |-> Zeroed(r)]
  BY DEF ZeroControlIntegrals
<1>6. ASSUME NEW a, NEW r
      PROVE  Updated("DISARMED", [attitude |-> a, rate |-> r])
               = [attitude |-> Paused(a), rate |-> Paused(r)]
  BY DEF Updated, Controlled, Attitudes
<1> HIDE DEF Old, Zeroed
<1>7. ZeroControlIntegrals(Outdated(data))
        = [attitude |-> Zeroed(Old(data.attitude)), rate |-> Zeroed(Old(data.rate))]
  BY <1>4, <1>5
<1>8. ZeroControlIntegrals(Updated("DISARMED", Outdated(data)))
        = [attitude |-> Zeroed(Paused(Old(data.attitude))), rate |-> Zeroed(Paused(Old(data.rate)))]
  BY <1>4, <1>5, <1>6
<1> QED
  BY <1>1, <1>2, <1>3, <1>7, <1>8 DEF Controllers

\* Driving the motors uses no integral that is out of date and makes none.
LEMMA DriveOK ==
    ASSUME NEW mode, NEW ref, NEW data \in Controllers, NEW later, Drive(mode, ref, data, later),
           Sent(mode, ref) \in Entitled(inputs, later)
    PROVE  pid' \in Controllers /\ CycleIsItsOwn'
  BY AllControllers DEF Drive, CycleIsItsOwn

LEMMA DisarmedOK ==
    ASSUME pid \in Controllers, NEW later, Disarmed(later), "DEFAULT" \in Entitled(inputs, later)
    PROVE  pid' \in Controllers /\ CycleIsItsOwn'
  BY Forgotten DEF Disarmed, CycleIsItsOwn

\* A cycle, whatever of its inputs changes while it runs.
LEMMA CycleOK ==
    ASSUME LoopInv, NEW later \in Preempted, NEW cut \in 1 .. 5, UpdateControlAction(later, cut)
    PROVE  LoopInv'
<1> DEFINE seen == [n \in 1 .. 5 |-> IF n < cut THEN inputs ELSE later]
           armed == seen[2].armed \/ seen[2].override
           pilot == IF seen[5].idle THEN ZeroControlIntegrals(Outdated(pid)) ELSE pid
           free == {m \in {inputs, later} : ~m.override}
<1>1. inputs' \in Inputs
  BY DEF UpdateControlAction, Preempted
<1>2. inputs \in Inputs /\ later \in Inputs /\ pid \in Controllers
  BY DEF LoopInv, Preempted
\* Once the override has been read as off it stays off, so all that is read later counts.
<1>3. seen[1].override => inputs.override
  BY <1>2 DEF Preempted, Inputs
<1>4. ASSUME ~seen[1].override
      PROVE  seen[2] \in free /\ seen[3] \in free /\ seen[4] \in free /\ seen[5] \in free
  BY <1>2, <1>4 DEF Preempted, Inputs
<1>5. ASSUME ~seen[1].override PROVE armed <=> seen[2].armed
  BY <1>4, <1>5
<1>6. pilot \in Controllers
  BY <1>2, Forgotten
<1>7. IF seen[1].override THEN Drive("DIRECT", FromOverride, pid, later)
      ELSE IF ~armed THEN Disarmed(later)
      ELSE IF seen[3].link /\ seen[4].serial
      THEN IF inputs.mode \in Commands
           THEN Drive(inputs.mode, FromComputer(inputs.mode), pid, later)
           ELSE Disarmed(later)
      ELSE Drive("RATE", FromPilot, pilot, later)
  BY DEF UpdateControlAction
<1>8. /\ inputs.override => "OVERRIDE" \in Entitled(inputs, later)
      /\ \A m \in free : ~m.armed => "DEFAULT" \in Entitled(inputs, later)
      /\ \A m, n, o \in free : m.armed /\ n.link /\ o.serial =>
           IF inputs.mode \in Commands THEN "COMPUTER" \in Entitled(inputs, later)
                                       ELSE "DEFAULT" \in Entitled(inputs, later)
      /\ \A m, n \in free : m.armed /\ (~n.link \/ ~n.serial) => "PILOT" \in Entitled(inputs, later)
  BY DEF Entitled
<1> HIDE DEF seen, armed, pilot, free
<1>9. CASE seen[1].override
  BY <1>1, <1>2, <1>3, <1>7, <1>8, <1>9, SentIsOfDriver, DriveOK DEF LoopInv
<1>10. CASE ~seen[1].override /\ ~armed
  <2>1. "DEFAULT" \in Entitled(inputs, later)
    BY <1>4, <1>5, <1>8, <1>10
  <2> QED
    BY <1>1, <1>2, <1>7, <1>10, <2>1, DisarmedOK DEF LoopInv
<1>11. CASE ~seen[1].override /\ armed /\ seen[3].link /\ seen[4].serial
  <2>1. IF inputs.mode \in Commands THEN "COMPUTER" \in Entitled(inputs, later)
                                    ELSE "DEFAULT" \in Entitled(inputs, later)
    BY <1>4, <1>5, <1>8, <1>11
  <2>2. CASE inputs.mode \in Commands
    BY <1>1, <1>2, <1>7, <1>11, <2>1, <2>2, SentIsOfDriver, DriveOK DEF LoopInv
  <2>3. CASE inputs.mode \notin Commands
    BY <1>1, <1>2, <1>7, <1>11, <2>1, <2>3, DisarmedOK DEF LoopInv
  <2> QED
    BY <2>2, <2>3
<1>12. CASE ~seen[1].override /\ armed /\ ~(seen[3].link /\ seen[4].serial)
  <2>1. "PILOT" \in Entitled(inputs, later)
    BY <1>4, <1>5, <1>8, <1>12
  <2> QED
    BY <1>1, <1>6, <1>7, <1>12, <2>1, SentIsOfDriver, DriveOK DEF LoopInv
<1> QED
  BY <1>9, <1>10, <1>11, <1>12

\* Whatever the packets, the switches and the arming thread do between and within the
\* cycles, a cycle sends what one driver wanted who was entitled to drive within it, and
\* rests on no integral gathered before the motors last stood or idled.
THEOREM CyclesAreTheirOwn == LoopSpec => []CycleIsItsOwn
<1>1. LoopInit => LoopInv
  <2>1. ASSUME LoopInit PROVE pid \in Controllers
    BY <2>1 DEF LoopInit, Controllers, Kept
  <2> QED
    BY <2>1 DEF LoopInit, LoopInv, Inputs, FlightModes, CycleIsItsOwn
<1>2. ASSUME LoopInv, [LoopNext]_loopVars PROVE LoopInv'
  <2>1. CASE Cycle
    BY <1>2, <2>1, CycleOK DEF Cycle
  <2>2. CASE \E sane \in BOOLEAN : OverrideCommand(sane)
    BY <1>2, <2>2 DEF OverrideCommand, LoopInv, CycleIsItsOwn, Inputs
  <2>3. CASE \E mode \in FlightModes : ReferencePacket(mode)
    BY <1>2, <2>3 DEF ReferencePacket, LoopInv, CycleIsItsOwn, Inputs
  <2>4. CASE FilterSettings
    <3>1. pid \in Controllers /\ pid' = [pid EXCEPT !.rate = [pid.rate EXCEPT !.filter = {}]]
      BY <1>2, <2>4 DEF FilterSettings, LoopInv
    <3>2. [pid.rate EXCEPT !.filter = {}] \in Kept
      BY <3>1 DEF Controllers, Kept
    <3>3. pid' \in Controllers
      BY <3>1, <3>2 DEF Controllers
    <3> QED
      BY <1>2, <2>4, <3>3 DEF FilterSettings, LoopInv, CycleIsItsOwn
  <2>5. CASE UNCHANGED loopVars
    BY <1>2, <2>5 DEF loopVars, LoopInv, CycleIsItsOwn
  <2> QED
    BY <1>2, <2>1, <2>2, <2>3, <2>4, <2>5 DEF LoopNext
<1>3. LoopInv => CycleIsItsOwn
  BY DEF LoopInv
<1> QED
  BY <1>1, <1>2, <1>3, PTL DEF LoopSpec

-----------------------------------------------------------------------------
(***************************************************************************)
(* The settings, from the ground station to the flash and back             *)
(***************************************************************************)

\* What may be in the filters' settings once ControlFiltersInit has checked them, and before;
\* the texts once they are cut at their end.
SaneFilters == {"50", "80"} \X {"BIQUAD", "PT1"}
Filters == SaneFilters \cup {AtReset.FILTERS}
Texts == {<<"ZERO">>, <<"DEFAULT">>, <<"NEW">>}

Valid(s) == s.FILTERS \in Filters /\ s.NAME \in Texts /\ s.TYPE \in Texts

MemoryOK ==
    /\ memory = [p \in Parts |-> memory[p]] /\ Valid(memory)
    /\ boot = "INFO" => memory = AtReset /\ touched = {}

\* The fields of the answer to a Get command: the identity and the version behind the texts,
\* or else those its Set counterpart takes.
Answered(g) ==
    IF g = "GetSystemStrings" THEN <<"NAME", "TYPE", "ID", "VERSION">> ELSE About[SetterOf[g]]

\* An answer the station holds is filed under the command that asked, with its fields, and
\* first among them, as they were, those its Set counterpart takes.
StationOK ==
    /\ DOMAIN station = {"command", "about", "fields", "data"}
    /\ station.about = "NONE" => station.fields = <<>>
    /\ DOMAIN asked = Parts
    /\ station.about # "NONE" =>
         LET parts == About[SetterOf[station.about]]
         IN  /\ station.about \in DOMAIN SetterOf
             /\ station.fields = Answered(station.about)
             /\ \A i \in DOMAIN parts : station.data[i] = asked[parts[i]]
             /\ "FILTERS" \in Range(parts) => asked.FILTERS \in Filters
             /\ "NAME" \in Range(parts) => asked.NAME \in Texts
             /\ "TYPE" \in Range(parts) => asked.TYPE \in Texts

\* A record, if there is one, holds its parts as they were last saved.
RecordOf(r, settings) ==
    IF r = "CONP" THEN [rate_parameters |-> settings.RATE, attitude_parameters |-> settings.ATTITUDE,
                        dterm |-> settings.FILTERS]
    ELSE settings[CHOOSE p \in PartsOf[r] : TRUE]

FlashOK ==
    /\ DOMAIN flash = DOMAIN PartsOf
    /\ kept = [p \in Parts |-> kept[p]] /\ Valid(kept) /\ kept.FILTERS \in SaneFilters
    /\ \A r \in DOMAIN PartsOf :
         \/ flash[r] = <<>> /\ \A p \in PartsOf[r] : kept[p] = Defaults[p]
         \/ flash[r] = <<RecordOf(r, kept)>>

\* Only a thread that has been started is woken or saves.
SaversOK ==
    /\ event \in [Savers -> BOOLEAN] /\ saving \in [Savers -> Nat]
    /\ \A t \in Savers : saving[t] <= Len(RecordsOf[t])
    /\ \A t \in Savers : event[t] \/ saving[t] # 0 =>
         boot = "DONE" \/ (t = "SysInfo" /\ boot # "INFO")

\* The parts that have been read from the flash when the initialisation comes to a stage.
ReadBy == [INFO |-> {}, CONTROL |-> {"NAME", "TYPE"}, CONA |-> {"NAME", "TYPE"},
           CONP |-> {"NAME", "TYPE", "ARM"},
           CONL |-> {"NAME", "TYPE", "ARM", "RATE", "ATTITUDE", "FILTERS"},
           CONM |-> {"NAME", "TYPE", "ARM", "RATE", "ATTITUDE", "FILTERS", "LIMITS"},
           DONE |-> Parts]

\* What no packet has named is as it was saved once it is read, and the default before.
ReadOK ==
    /\ boot \in DOMAIN ReadBy
    /\ \A p \in Parts \ touched :
         /\ p \in ReadBy[boot] => memory[p] = kept[p]
         /\ boot \notin {"INFO", "CONTROL"} /\ p \notin ReadBy[boot] => memory[p] = Defaults[p]
    /\ boot = "DONE" => memory.FILTERS \in SaneFilters /\ inForce = memory.FILTERS

SettingsInv == MemoryOK /\ StationOK /\ FlashOK /\ SaversOK /\ ReadOK

\* The tables agree: the handler a Set command is dispatched to stores what the command is
\* about ...
LEMMA SetTablesAgree ==
    ASSUME NEW c \in DOMAIN About
    PROVE  /\ StoredIn[parser_lookup[Cmd[c]]] = About[c]
           /\ parser_lookup[Cmd[c]] = "ParseSetControlFilters" <=> c = "SetControlFilters"
           /\ parser_lookup[Cmd[c]] = "ParseSetDeviceStrings" <=> c = "SetDeviceStrings"
<1> USE DEF About, Cmd, parser_lookup, StoredIn
<1>1. CASE c = "SetDeviceStrings"
  BY <1>1
<1>2. CASE c = "SetControllerLimits"
  BY <1>2
<1>3. CASE c = "SetArmSettings"
  BY <1>3
<1>4. CASE c = "SetRateControllerData"
  BY <1>4
<1>5. CASE c = "SetAttitudeControllerData"
  BY <1>5
<1>6. CASE c = "SetChannelMix"
  BY <1>6
<1>7. CASE c = "SetControlFilters"
  BY <1>7
<1> QED
  BY <1>1, <1>2, <1>3, <1>4, <1>5, <1>6, <1>7

\* ... and the generator a Get command leads to answers under that command, with what its
\* Set counterpart is about, first.
LEMMA GetTablesAgree ==
    ASSUME NEW g \in DOMAIN SetterOf
    PROVE  /\ SetterOf[g] \in DOMAIN About
           /\ Generated[generator_lookup[Cmd[MessageOf[parser_lookup[Cmd[g]]]]]]
                = [command |-> g, of |-> Answered(g)]
<1> USE DEF Answered, About, SetterOf, Cmd, parser_lookup, generator_lookup, MessageOf, Generated
<1>1. CASE g = "GetSystemStrings"
  BY <1>1
<1>2. CASE g = "GetControllerLimits"
  BY <1>2
<1>3. CASE g = "GetArmSettings"
  BY <1>3
<1>4. CASE g = "GetRateControllerData"
  BY <1>4
<1>5. CASE g = "GetAttitudeControllerData"
  BY <1>5
<1>6. CASE g = "GetChannelMix"
  BY <1>6
<1>7. CASE g = "GetControlFilters"
  BY <1>7
<1> QED
  BY <1>1, <1>2, <1>3, <1>4, <1>5, <1>6, <1>7

LEMMA FirstFields ==
    ASSUME NEW g \in DOMAIN SetterOf
    PROVE  LET parts == About[SetterOf[g]]
           IN  /\ DOMAIN parts = 1 .. Len(parts) /\ Len(parts) <= Len(Answered(g))
               /\ DOMAIN Answered(g) = 1 .. Len(Answered(g))
               /\ \A i \in DOMAIN parts : Answered(g)[i] = parts[i]
<1>1. CASE g = "GetSystemStrings"
  <2>1. /\ Answered(g) = <<"NAME", "TYPE", "ID", "VERSION">>
        /\ About[SetterOf[g]] = <<"NAME", "TYPE">>
    BY <1>1 DEF Answered, About, SetterOf
  <2> QED
    BY <2>1
<1>2. CASE g # "GetSystemStrings"
  <2>1. Answered(g) = About[SetterOf[g]] /\ SetterOf[g] \in DOMAIN About
    BY <1>2, GetTablesAgree DEF Answered
  <2>2. \A c \in DOMAIN About : DOMAIN About[c] = 1 .. Len(About[c]) /\ Len(About[c]) \in Nat
    BY DEF About
  <2> QED
    BY <2>1, <2>2
<1> QED
  BY <1>1, <1>2

\* Sent back in the fields its Set counterpart takes an answer has the right length; sent
\* back in more it has not.
LEMMA LengthSentBack ==
    ASSUME NEW g \in DOMAIN SetterOf, NEW n \in {Len(Answered(g)), Len(About[SetterOf[g]])}
    PROVE  LET parts == About[SetterOf[g]]
               length == DataLength([i \in 1 .. n |-> Answered(g)[i]])
           IN  length = DataLength(parts) <=> n = Len(parts)
<1> USE DEF Answered, About, SetterOf, DataLength, SizeAt, SizeOf
<1>1. CASE g = "GetSystemStrings"
  BY <1>1
<1>2. CASE g = "GetControllerLimits"
  BY <1>2
<1>3. CASE g = "GetArmSettings"
  BY <1>3
<1>4. CASE g = "GetRateControllerData"
  BY <1>4
<1>5. CASE g = "GetAttitudeControllerData"
  BY <1>5
<1>6. CASE g = "GetChannelMix"
  BY <1>6
<1>7. CASE g = "GetControlFilters"
  BY <1>7
<1> QED
  BY <1>1, <1>2, <1>3, <1>4, <1>5, <1>6, <1>7

\* Which commands are about the filters and the texts.
LEMMA Subjects ==
    ASSUME NEW c \in DOMAIN About
    PROVE  /\ Range(About[c]) \subseteq Parts
           /\ "FILTERS" \in Range(About[c]) <=> c = "SetControlFilters"
           /\ "NAME" \in Range(About[c]) <=> c = "SetDeviceStrings"
           /\ "TYPE" \in Range(About[c]) <=> c = "SetDeviceStrings"
  BY DEF About, Range, Parts

Place(c, p) == CHOOSE i \in DOMAIN About[c] : About[c][i] = p

LEMMA Places ==
    ASSUME NEW c \in DOMAIN About, NEW p \in Range(About[c])
    PROVE  Place(c, p) \in DOMAIN About[c] /\ About[c][Place(c, p)] = p
  BY DEF Range, Place

\* What is stored of a value.
Cleaned(p, v) ==
    IF p = "FILTERS" THEN Sane(v) ELSE IF p \in {"NAME", "TYPE"} THEN Strncpy(v) ELSE v

LEMMA CleanedFilters ==
    /\ \A v \in Filters \cup ContentsOf("FILTERS") : Sane(v) \in SaneFilters
    /\ \A v \in SaneFilters : Sane(v) = v
    /\ Sane(AtReset.FILTERS) = Defaults.FILTERS
    /\ Defaults.FILTERS \in SaneFilters /\ SaneFilters \subseteq Filters
  BY DEF Filters, SaneFilters, ContentsOf, Sane, AtReset, Defaults, Parts

LEMMA CleanedTexts ==
    /\ \A v \in Texts \cup ContentsOf("NAME") : Strncpy(v) \in Texts
    /\ \A v \in Texts : Strncpy(v) = v
    /\ ContentsOf("TYPE") = ContentsOf("NAME")
  BY DEF Texts, ContentsOf, Strncpy

\* A Set handler stores all its command is about, and nothing else, or nothing.
LEMMA Stores ==
    ASSUME MemoryOK, NEW c \in DOMAIN About, NEW payload, Store(parser_lookup[Cmd[c]], payload)
    PROVE  \/ payload.length # DataLength(About[c]) /\ UNCHANGED <<memory, inForce>>
           \/ /\ payload.length = DataLength(About[c])
              /\ memory' = [p \in Parts |-> IF p \notin Range(About[c]) THEN memory[p]
                                            ELSE Cleaned(p, payload.data[Place(c, p)])]
              /\ inForce' = IF c = "SetControlFilters" THEN memory'.FILTERS ELSE inForce
<1> DEFINE handler == parser_lookup[Cmd[c]]
           copied == [p \in Parts |-> IF p \notin Range(About[c]) THEN memory[p]
                                      ELSE payload.data[Place(c, p)]]
           stored == [p \in Parts |-> IF p \notin Range(About[c]) THEN memory[p]
                                      ELSE Cleaned(p, payload.data[Place(c, p)])]
<1>1. /\ StoredIn[handler] = About[c]
      /\ handler = "ParseSetControlFilters" <=> c = "SetControlFilters"
      /\ handler = "ParseSetDeviceStrings" <=> c = "SetDeviceStrings"
  BY SetTablesAgree
<1>2. IF payload.length # DataLength(About[c]) THEN UNCHANGED <<memory, inForce>>
      ELSE IF c = "SetControlFilters" THEN ControlFiltersInit(copied)
      ELSE /\ memory' = IF c = "SetDeviceStrings"
                        THEN [copied EXCEPT !.NAME = Strncpy(@), !.TYPE = Strncpy(@)]
                        ELSE copied
           /\ UNCHANGED inForce
  BY <1>1 DEF Store, Place
<1>3. "FILTERS" \in Parts /\ "NAME" \in Parts /\ "TYPE" \in Parts
  BY DEF Parts
<1>4. CASE payload.length = DataLength(About[c]) /\ c = "SetControlFilters"
  <2>1. memory' = [copied EXCEPT !.FILTERS = Sane(copied.FILTERS)] /\ inForce' = Sane(copied.FILTERS)
    BY <1>2, <1>4 DEF ControlFiltersInit
  <2>2. stored = [copied EXCEPT !.FILTERS = Sane(copied.FILTERS)]
    BY <1>3, <1>4, Subjects DEF Cleaned
  <2>3. memory'.FILTERS = Sane(copied.FILTERS)
    BY <1>3, <2>1
  <2> QED
    BY <1>4, <2>1, <2>2, <2>3
<1>5. CASE payload.length = DataLength(About[c]) /\ c = "SetDeviceStrings"
  <2> DEFINE step == [copied EXCEPT !.NAME = Strncpy(copied.NAME)]
  <2>1. memory' = [step EXCEPT !.TYPE = Strncpy(step.TYPE)] /\ inForce' = inForce
    BY <1>2, <1>5
  <2>2. stored = [step EXCEPT !.TYPE = Strncpy(step.TYPE)]
    BY <1>3, <1>5, Subjects DEF Cleaned
  <2> QED
    BY <1>5, <2>1, <2>2
<1>6. CASE payload.length = DataLength(About[c]) /\ c \notin {"SetControlFilters", "SetDeviceStrings"}
  <2>1. stored = copied
    BY <1>6, Subjects DEF Cleaned
  <2> QED
    BY <1>2, <1>6, <2>1
<1> QED
  BY <1>2, <1>4, <1>5, <1>6

\* A payload of the right length has what the handler of its command can take.
PayloadOK(c, payload) ==
    payload.length = DataLength(About[c]) =>
      \A p \in Range(About[c]) :
        /\ p = "FILTERS" => payload.data[Place(c, p)] \in Filters \cup ContentsOf("FILTERS")
        /\ p \in {"NAME", "TYPE"} => payload.data[Place(c, p)] \in Texts \cup ContentsOf("NAME")

\* A packet with a Set command.
LEMMA ReceivesOK ==
    ASSUME SettingsInv, NEW c \in DOMAIN About, NEW payload, PayloadOK(c, payload),
           boot # "INFO", Receives(c, payload)
    PROVE  SettingsInv' /\ OnlyByItsCommand
<1>0. MemoryOK /\ StationOK /\ FlashOK /\ SaversOK /\ ReadOK
  BY DEF SettingsInv
<1>1. /\ Store(parser_lookup[Cmd[c]], payload)
      /\ station' = [station EXCEPT !.command = c]
      /\ touched' = touched \cup Range(About[c])
      /\ UNCHANGED <<flash, boot, event, saving, asked, kept>>
  BY DEF Receives
<1>2. /\ Range(About[c]) \subseteq Parts
      /\ "FILTERS" \in Range(About[c]) <=> c = "SetControlFilters"
      /\ "FILTERS" \in Parts /\ "NAME" \in Parts /\ "TYPE" \in Parts
  BY Subjects DEF Parts
<1>3. /\ memory' = [p \in Parts |-> memory'[p]]
      /\ \A p \in Parts : p \notin Range(About[c]) => memory'[p] = memory[p]
      /\ \/ memory'.FILTERS = memory.FILTERS /\ inForce' = inForce
         \/ memory'.FILTERS \in SaneFilters /\ inForce' = memory'.FILTERS
      /\ memory'.NAME \in Texts /\ memory'.TYPE \in Texts
  <2>1. CASE UNCHANGED <<memory, inForce>>
    BY <1>0, <2>1 DEF MemoryOK, Valid
  <2>2. CASE /\ payload.length = DataLength(About[c])
             /\ memory' = [p \in Parts |-> IF p \notin Range(About[c]) THEN memory[p]
                                           ELSE Cleaned(p, payload.data[Place(c, p)])]
             /\ inForce' = IF c = "SetControlFilters" THEN memory'.FILTERS ELSE inForce
    <3>1. /\ "FILTERS" \in Range(About[c]) => memory'.FILTERS \in SaneFilters
          /\ "FILTERS" \notin Range(About[c]) => memory'.FILTERS = memory.FILTERS
      BY <1>2, <2>2, CleanedFilters DEF PayloadOK, Cleaned
    <3>2. memory'.NAME \in Texts /\ memory'.TYPE \in Texts
      BY <1>0, <1>2, <2>2, CleanedTexts DEF PayloadOK, Cleaned, MemoryOK, Valid
    <3>3. memory' = [p \in Parts |-> memory'[p]] /\ \A p \in Parts : p \notin Range(About[c]) => memory'[p] = memory[p]
      BY <2>2
    <3>4. inForce' = IF c = "SetControlFilters" THEN memory'.FILTERS ELSE inForce
      BY <2>2
    <3> QED
      BY <1>2, <3>1, <3>2, <3>3, <3>4
  <2> QED
    BY <1>0, <1>1, <2>1, <2>2, Stores
<1>4. MemoryOK'
  BY <1>0, <1>1, <1>3, CleanedFilters DEF MemoryOK, Valid
<1>5. StationOK'
  <2>1. station'.about = station.about /\ station'.fields = station.fields
        /\ station'.data = station.data /\ DOMAIN station' = DOMAIN station
    BY <1>0, <1>1 DEF StationOK
  <2> QED
    BY <1>0, <1>1, <2>1 DEF StationOK
<1>6. FlashOK' /\ SaversOK'
  BY <1>0, <1>1 DEF FlashOK, SaversOK
<1>7. ReadOK'
  BY <1>0, <1>1, <1>3 DEF ReadOK
<1>8. OnlyByItsCommand
  <2>1. station'.command = c
    BY <1>0, <1>1 DEF StationOK
  <2> QED
    BY <1>3, <2>1 DEF OnlyByItsCommand
<1> QED
  BY <1>4, <1>5, <1>6, <1>7, <1>8 DEF SettingsInv

LEMMA SetCommandOK ==
    ASSUME SettingsInv, NEW c \in DOMAIN About, SetCommand(c)
    PROVE  SettingsInv' /\ OnlyByItsCommand
<1>1. PICK new \in [DOMAIN About[c] -> UNION {ContentsOf(p) : p \in Range(About[c])}],
           length \in {DataLength(About[c]), DataLength(About[c]) - 1} :
        Receives(c, [length |-> length, data |-> new])
  BY DEF SetCommand
<1>2. boot # "INFO"
  BY DEF SetCommand, SerialRuns
<1>3. ASSUME NEW p \in Range(About[c])
      PROVE  new[Place(c, p)] \in UNION {ContentsOf(q) : q \in Range(About[c])}
  BY <1>3, Places
<1>4. c = "SetControlFilters" => Range(About[c]) = {"FILTERS"}
  BY DEF About, Range
<1>5. c = "SetDeviceStrings" => Range(About[c]) = {"NAME", "TYPE"}
  BY DEF About, Range
<1>6. PayloadOK(c, [length |-> length, data |-> new])
  <2>1. ASSUME NEW p \in Range(About[c]), p = "FILTERS" PROVE new[Place(c, p)] \in ContentsOf("FILTERS")
    BY <1>3, <1>4, <2>1, Subjects
  <2>2. ASSUME NEW p \in Range(About[c]), p \in {"NAME", "TYPE"}
        PROVE  new[Place(c, p)] \in ContentsOf("NAME")
    BY <1>3, <1>5, <2>2, Subjects, CleanedTexts
  <2> QED
    BY <2>1, <2>2 DEF PayloadOK
<1> QED
  BY <1>1, <1>2, <1>6, ReceivesOK

\* An answer sent back.
LEMMA SendBackOK ==
    ASSUME SettingsInv, NEW n \in DOMAIN station.fields, SendBack(n)
    PROVE  /\ SettingsInv' /\ OnlyByItsCommand
           /\ LET parts == About[SetterOf[station.about]]
              IN  IF n = Len(parts)
                  THEN \A p \in Range(parts) : memory'[p] \in {asked[p], Defaults[p]}
                  ELSE UNCHANGED memory
<1> DEFINE c == SetterOf[station.about]
           payload == [length |-> DataLength([i \in 1 .. n |-> station.fields[i]]),
                       data |-> [i \in 1 .. n |-> station.data[i]]]
<1>1. /\ boot # "INFO" /\ station.about # "NONE" /\ Receives(c, payload)
      /\ n \in {Len(station.fields), Len(About[c])}
  BY DEF SendBack, SerialRuns
<1>2. /\ station.about \in DOMAIN SetterOf
      /\ station.fields = Answered(station.about)
      /\ \A i \in DOMAIN About[c] : station.data[i] = asked[About[c][i]]
      /\ "FILTERS" \in Range(About[c]) => asked.FILTERS \in Filters
      /\ "NAME" \in Range(About[c]) => asked.NAME \in Texts
      /\ "TYPE" \in Range(About[c]) => asked.TYPE \in Texts
  BY <1>1 DEF SettingsInv, StationOK
<1>3. c \in DOMAIN About
  BY <1>2, GetTablesAgree
<1>4. payload.length = DataLength(About[c]) <=> n = Len(About[c])
  BY <1>1, <1>2, LengthSentBack
<1>5. ASSUME n = Len(About[c])
      PROVE  \A p \in Range(About[c]) : payload.data[Place(c, p)] = asked[p]
  <2>1. ASSUME NEW i \in DOMAIN About[c] PROVE payload.data[i] = station.data[i]
    BY <1>2, <1>5, <2>1, FirstFields
  <2> HIDE DEF c, payload
  <2> QED
    BY <1>2, <1>3, <2>1, Places
<1> HIDE DEF c, payload
<1>6. PayloadOK(c, payload)
  BY <1>2, <1>4, <1>5 DEF PayloadOK
<1>7. SettingsInv' /\ OnlyByItsCommand
  BY <1>1, <1>3, <1>6, ReceivesOK
<1>8. /\ n # Len(About[c]) => UNCHANGED memory
      /\ n = Len(About[c]) =>
           memory' = [p \in Parts |-> IF p \notin Range(About[c]) THEN memory[p]
                                      ELSE Cleaned(p, payload.data[Place(c, p)])]
  BY <1>1, <1>3, <1>4, Stores DEF Receives, SettingsInv
<1>9. ASSUME n = Len(About[c]), NEW p \in Range(About[c])
      PROVE  memory'[p] \in {asked[p], Defaults[p]}
  <2>1. memory'[p] = Cleaned(p, asked[p])
    BY <1>3, <1>5, <1>8, <1>9, Subjects
  <2>2. CASE p = "FILTERS"
    BY <1>2, <1>9, <2>1, <2>2, CleanedFilters DEF Cleaned, Filters
  <2>3. CASE p \in {"NAME", "TYPE"}
    BY <1>2, <1>9, <2>1, <2>3, CleanedTexts DEF Cleaned
  <2>4. CASE p \notin {"FILTERS", "NAME", "TYPE"}
    BY <2>1, <2>4 DEF Cleaned
  <2> QED
    BY <2>2, <2>3, <2>4
<1> QED
  BY <1>7, <1>8, <1>9 DEF c

\* An answer comes: it holds what the command that asked is about.
LEMMA GetCommandOK ==
    ASSUME SettingsInv, NEW g \in DOMAIN SetterOf, GetCommand(g)
    PROVE  SettingsInv' /\ OnlyByItsCommand
<1> DEFINE parts == About[SetterOf[g]]
           message == Generated[generator_lookup[Cmd[MessageOf[parser_lookup[Cmd[g]]]]]]
<1>0. MemoryOK /\ StationOK /\ FlashOK /\ SaversOK /\ ReadOK
  BY DEF SettingsInv
<1>1. SetterOf[g] \in DOMAIN About /\ message.command = g /\ message.of = Answered(g)
  <2>1. SetterOf[g] \in DOMAIN About /\ message = [command |-> g, of |-> Answered(g)]
    BY GetTablesAgree
  <2> HIDE DEF message, parts
  <2> QED
    BY <2>1
<1>2. /\ station' = [command |-> g, about |-> g, fields |-> Answered(g),
                     data |-> [i \in DOMAIN Answered(g) |->
                                  IF Answered(g)[i] \in Parts THEN memory[Answered(g)[i]]
                                  ELSE <<"CONSTANT">>]]
      /\ asked' = [p \in Parts |-> IF p \in Range(parts) THEN memory[p] ELSE <<>>]
      /\ UNCHANGED <<memory, inForce, flash, boot, event, saving, kept, touched>>
  <2>1. /\ station' = [command |-> g, about |-> message.command, fields |-> message.of,
                       data |-> [i \in DOMAIN message.of |->
                                    IF message.of[i] \in Parts THEN memory[message.of[i]]
                                    ELSE <<"CONSTANT">>]]
        /\ asked' = [p \in Parts |-> IF p \in Range(parts) THEN memory[p] ELSE <<>>]
        /\ UNCHANGED <<memory, inForce, flash, boot, event, saving, kept, touched>>
    BY DEF GetCommand
  <2> HIDE DEF message, parts
  <2> QED
    BY <1>1, <2>1
<1>3. Range(parts) \subseteq Parts /\ \A i \in DOMAIN parts : parts[i] \in Range(parts)
  BY <1>1, Subjects DEF Range
<1>4. station'.about = g /\ station'.fields = Answered(g)
      /\ DOMAIN station' = {"command", "about", "fields", "data"}
  BY <1>2
<1>5. ASSUME NEW i \in DOMAIN parts PROVE station'.data[i] = memory[parts[i]]
  <2>1. i \in DOMAIN Answered(g) /\ Answered(g)[i] = parts[i]
    BY <1>5, FirstFields
  <2>2. parts[i] \in Parts
    BY <1>3
  <2> QED
    BY <1>2, <2>1, <2>2
<1> HIDE DEF parts
<1>6. DOMAIN asked' = Parts /\ \A p \in Range(parts) : asked'[p] = memory[p]
  BY <1>2, <1>3
<1>7. \A i \in DOMAIN parts : station'.data[i] = asked'[parts[i]]
  BY <1>3, <1>5, <1>6
<1>8. StationOK'
  <2>1. parts = About[SetterOf[station'.about]]
    BY <1>4 DEF parts
  <2>2. station'.about # "NONE" /\ station'.about \in DOMAIN SetterOf
    BY <1>4 DEF SetterOf
  <2>3. /\ "FILTERS" \in Range(parts) => asked'.FILTERS \in Filters
        /\ "NAME" \in Range(parts) => asked'.NAME \in Texts
        /\ "TYPE" \in Range(parts) => asked'.TYPE \in Texts
    BY <1>0, <1>6 DEF MemoryOK, Valid
  <2> QED
    BY <1>4, <1>6, <1>7, <2>1, <2>2, <2>3 DEF StationOK
<1>9. MemoryOK' /\ FlashOK' /\ SaversOK' /\ ReadOK'
  BY <1>0, <1>2 DEF MemoryOK, FlashOK, SaversOK, ReadOK
<1>10. OnlyByItsCommand
  BY <1>2 DEF OnlyByItsCommand
<1> QED
  BY <1>8, <1>9, <1>10 DEF SettingsInv

\* The stages of the initialisation: each record's parts are read once, after those before.
LEMMA Stages ==
    ASSUME NEW b \in {"CONA", "CONP", "CONL", "CONM"}
    PROVE  LET next == [CONA |-> "CONP", CONP |-> "CONL", CONL |-> "CONM", CONM |-> "DONE"][b]
           IN  /\ next \in DOMAIN ReadBy /\ next \notin {"INFO", "CONTROL"}
               /\ next = "DONE" <=> b = "CONM"
               /\ b \in DOMAIN PartsOf /\ PartsOf[b] \cap ReadBy[b] = {}
               /\ PartsOf[b] \subseteq Parts /\ ReadBy[next] = ReadBy[b] \cup PartsOf[b]
  BY DEF ReadBy, PartsOf, Parts

\* The records other than that of the controllers' gains have one part each.
LEMMA PartsOfRecords ==
    /\ DOMAIN PartsOf = {"SIVN", "SIVT", "CONA", "CONL", "CONP", "CONM"}
    /\ PartsOf["SIVN"] = {"NAME"} /\ PartsOf["SIVT"] = {"TYPE"} /\ PartsOf["CONA"] = {"ARM"}
    /\ PartsOf["CONL"] = {"LIMITS"} /\ PartsOf["CONM"] = {"MIXER"}
    /\ PartsOf["CONP"] = {"RATE", "ATTITUDE", "FILTERS"}
  BY DEF PartsOf

\* A record read: its parts become what was saved, or stay where nothing was.
LEMMA ReadOne ==
    ASSUME FlashOK, NEW r \in DOMAIN PartsOf, NEW s, s = [p \in Parts |-> s[p]]
    PROVE  LET t == ReadRecord(s, r)
           IN  /\ t = [p \in Parts |-> t[p]]
               /\ \A p \in Parts \ PartsOf[r] : t[p] = s[p]
               /\ \A p \in PartsOf[r] : t[p] = kept[p] \/ (t[p] = s[p] /\ kept[p] = Defaults[p])
<1> DEFINE t == ReadRecord(s, r)
           rate == [s EXCEPT !.RATE = kept.RATE]
           attitude == [rate EXCEPT !.ATTITUDE = kept.ATTITUDE]
           gains == [attitude EXCEPT !.FILTERS = kept.FILTERS]
           other == [p \in Parts |-> IF p \in PartsOf[r] THEN kept[p] ELSE s[p]]
<1>0. \A p \in PartsOf[r] : p \in Parts
  BY PartsOfRecords DEF Parts
<1>1. CASE flash[r] = <<>> /\ \A p \in PartsOf[r] : kept[p] = Defaults[p]
  <2>1. t = s
    BY <1>1 DEF ReadRecord
  <2> QED
    BY <1>1, <2>1
<1>2. CASE flash[r] = <<RecordOf(r, kept)>>
  <2>1. flash[r] # <<>> /\ Head(flash[r]) = RecordOf(r, kept)
    BY <1>2
  <2>2. CASE r = "CONP"
    <3> DEFINE param == [rate_parameters |-> kept.RATE, attitude_parameters |-> kept.ATTITUDE,
                         dterm |-> kept.FILTERS]
    <3>1. t = SetControlParameters(s, param)
      BY <2>1, <2>2 DEF ReadRecord, RecordOf
    <3>2. t = gains
      BY <3>1 DEF SetControlParameters
    <3>3. rate = [p \in Parts |-> IF p = "RATE" THEN kept[p] ELSE s[p]]
      BY DEF Parts
    <3>4. attitude = [p \in Parts |-> IF p \in {"RATE", "ATTITUDE"} THEN kept[p] ELSE s[p]]
      BY <3>3 DEF Parts
    <3>5. gains = [p \in Parts |-> IF p \in {"RATE", "ATTITUDE", "FILTERS"} THEN kept[p] ELSE s[p]]
      BY <3>4 DEF Parts
    <3> HIDE DEF t, gains
    <3>6. t = [p \in Parts |-> IF p \in PartsOf[r] THEN kept[p] ELSE s[p]]
      BY <2>2, <3>2, <3>5, PartsOfRecords
    <3> QED
      BY <1>0, <3>6 DEF t
  <2>3. CASE r # "CONP"
    <3>1. PICK q : PartsOf[r] = {q}
      BY <2>3, PartsOfRecords
    <3>2. Head(flash[r]) = kept[q]
      BY <2>1, <2>3, <3>1 DEF RecordOf
    <3>3. t = other
      BY <2>1, <2>3, <3>1, <3>2 DEF ReadRecord
    <3> HIDE DEF t
    <3> QED
      BY <1>0, <3>3 DEF t
  <2> QED
    BY <2>2, <2>3
<1> QED
  BY <1>1, <1>2 DEF FlashOK

\* SystemInformationInit brings the texts back.
LEMMA InformationOK ==
    ASSUME SettingsInv, SystemInformationInit
    PROVE  SettingsInv' /\ OnlyByItsCommand
<1> DEFINE name == [memory EXCEPT !.NAME = Defaults.NAME]
           s == [name EXCEPT !.TYPE = Defaults.TYPE]
           t == ReadRecord(s, "SIVN")
<1>0. MemoryOK /\ StationOK /\ FlashOK /\ SaversOK /\ ReadOK
  BY DEF SettingsInv
<1>1. /\ boot = "INFO" /\ boot' = "CONTROL" /\ memory' = ReadRecord(t, "SIVT")
      /\ UNCHANGED <<inForce, flash, event, saving, station, asked, kept, touched>>
  BY DEF SystemInformationInit
<1>2. memory = AtReset /\ AtReset = [p \in Parts |-> AtReset[p]] /\ touched = {}
  BY <1>0, <1>1 DEF MemoryOK, AtReset
<1>3. s = [p \in Parts |-> IF p \in {"NAME", "TYPE"} THEN Defaults[p] ELSE AtReset[p]]
  <2>1. name = [p \in Parts |-> IF p = "NAME" THEN Defaults[p] ELSE AtReset[p]]
    BY <1>2 DEF Parts
  <2> QED
    BY <2>1 DEF Parts
<1>4. s = [p \in Parts |-> s[p]] /\ s.NAME = Defaults.NAME /\ s.TYPE = Defaults.TYPE
      /\ s.FILTERS = AtReset.FILTERS
  BY <1>3 DEF Parts
<1> HIDE DEF s
<1>5. /\ t = [p \in Parts |-> t[p]]
      /\ \A p \in Parts \ {"NAME"} : t[p] = s[p]
      /\ t.NAME = kept.NAME \/ (t.NAME = s.NAME /\ kept.NAME = Defaults.NAME)
  BY <1>0, <1>4, ReadOne, PartsOfRecords
<1> HIDE DEF t
<1>6. /\ memory' = [p \in Parts |-> memory'[p]]
      /\ \A p \in Parts \ {"TYPE"} : memory'[p] = t[p]
      /\ memory'.TYPE = kept.TYPE \/ (memory'.TYPE = t.TYPE /\ kept.TYPE = Defaults.TYPE)
  BY <1>0, <1>1, <1>5, ReadOne, PartsOfRecords
<1>7. memory'.NAME = kept.NAME /\ memory'.TYPE = kept.TYPE /\ memory'.FILTERS = AtReset.FILTERS
  BY <1>4, <1>5, <1>6 DEF Parts
<1>8. MemoryOK'
  BY <1>0, <1>1, <1>6, <1>7 DEF MemoryOK, FlashOK, Valid, Filters
<1>9. StationOK' /\ FlashOK'
  BY <1>0, <1>1 DEF StationOK, FlashOK
<1>10. SaversOK'
  BY <1>0, <1>1 DEF SaversOK
<1>11. ReadOK'
  BY <1>1, <1>7 DEF ReadOK, ReadBy
<1> QED
  BY <1>1, <1>8, <1>9, <1>10, <1>11 DEF SettingsInv, OnlyByItsCommand

\* ControlInit sets its defaults.
LEMMA ControlInitOK ==
    ASSUME SettingsInv, ControlInit
    PROVE  SettingsInv' /\ OnlyByItsCommand
<1>0. MemoryOK /\ StationOK /\ FlashOK /\ SaversOK /\ ReadOK
  BY DEF SettingsInv
<1>1. /\ boot = "CONTROL" /\ boot' = "CONA" /\ touched' = touched \cap {"NAME", "TYPE"}
      /\ memory' = [p \in Parts |-> IF p \in {"NAME", "TYPE"} THEN memory[p] ELSE Defaults[p]]
      /\ UNCHANGED <<inForce, flash, event, saving, station, asked, kept>>
  BY DEF ControlInit
<1>2. MemoryOK'
  BY <1>0, <1>1, CleanedFilters DEF MemoryOK, Valid, Parts
<1>3. StationOK' /\ FlashOK'
  BY <1>0, <1>1 DEF StationOK, FlashOK
<1>4. SaversOK'
  BY <1>0, <1>1 DEF SaversOK
<1>5. ReadOK'
  BY <1>0, <1>1 DEF ReadOK, ReadBy
<1> QED
  BY <1>1, <1>2, <1>3, <1>4, <1>5 DEF SettingsInv, OnlyByItsCommand

\* The next record of the controllers is read, with packets before and after it.
LEMMA ReadControlOK ==
    ASSUME SettingsInv, ReadControlRecord
    PROVE  SettingsInv' /\ OnlyByItsCommand
<1> DEFINE next == [CONA |-> "CONP", CONP |-> "CONL", CONL |-> "CONM", CONM |-> "DONE"][boot]
           t == ReadRecord(memory, boot)
<1>0. MemoryOK /\ StationOK /\ FlashOK /\ SaversOK /\ ReadOK
  BY DEF SettingsInv
<1>1. /\ boot \in {"CONA", "CONP", "CONL", "CONM"} /\ boot' = next
      /\ IF boot = "CONM" THEN memory' = [t EXCEPT !.FILTERS = Sane(@)] /\ inForce' = Sane(t.FILTERS)
         ELSE memory' = t
      /\ UNCHANGED <<flash, event, saving, station, asked, kept, touched>>
  BY DEF ReadControlRecord, ControlFiltersInit
<1>2. /\ next \in DOMAIN ReadBy /\ next \notin {"INFO", "CONTROL"}
      /\ next = "DONE" <=> boot = "CONM"
      /\ boot \in DOMAIN PartsOf /\ PartsOf[boot] \cap ReadBy[boot] = {}
      /\ PartsOf[boot] \subseteq Parts /\ ReadBy[next] = ReadBy[boot] \cup PartsOf[boot]
  BY <1>1, Stages
<1> HIDE DEF next
<1>3. memory = [p \in Parts |-> memory[p]]
  BY <1>0 DEF MemoryOK
<1>4. /\ t = [p \in Parts |-> t[p]]
      /\ \A p \in Parts \ PartsOf[boot] : t[p] = memory[p]
      /\ \A p \in PartsOf[boot] : t[p] = kept[p] \/ (t[p] = memory[p] /\ kept[p] = Defaults[p])
  BY <1>0, <1>2, <1>3, ReadOne
<1> HIDE DEF t
<1>5. t.FILTERS \in Filters /\ t.NAME \in Texts /\ t.TYPE \in Texts
  BY <1>0, <1>4, CleanedFilters DEF MemoryOK, FlashOK, Valid, Parts
<1>6. ASSUME NEW p \in Parts \ touched
      PROVE  /\ p \in ReadBy[next] => t[p] = kept[p]
             /\ p \notin ReadBy[next] => t[p] = Defaults[p]
  BY <1>0, <1>1, <1>2, <1>4 DEF ReadOK
<1>7. /\ memory' = [p \in Parts |-> memory'[p]]
      /\ \A p \in Parts \ {"FILTERS"} : memory'[p] = t[p]
      /\ memory'.FILTERS = IF boot = "CONM" THEN Sane(t.FILTERS) ELSE t.FILTERS
  BY <1>1, <1>4 DEF Parts
<1>8. MemoryOK'
  BY <1>1, <1>2, <1>5, <1>7, CleanedFilters DEF MemoryOK, Valid, Parts
<1>9. StationOK' /\ FlashOK'
  BY <1>0, <1>1 DEF StationOK, FlashOK
<1>10. SaversOK'
  BY <1>0, <1>1, <1>2 DEF SaversOK
<1>11. ReadOK'
  <2>1. boot' = next /\ touched' = touched /\ kept' = kept
    BY <1>1
  <2>2. boot = "CONM" => memory'.FILTERS \in SaneFilters /\ inForce' = memory'.FILTERS
    BY <1>1, <1>5, <1>7, CleanedFilters
  <2>3. ASSUME "FILTERS" \notin touched, boot = "CONM" PROVE memory'.FILTERS = t.FILTERS
    <3>1. t.FILTERS = kept.FILTERS
      BY <1>2, <1>6, <2>3 DEF Parts, ReadBy
    <3> QED
      BY <1>0, <1>7, <2>3, <3>1, CleanedFilters DEF FlashOK
  <2>4. \A p \in Parts \ touched : memory'[p] = t[p]
    BY <1>7, <2>3
  <2> QED
    BY <1>2, <1>6, <2>1, <2>2, <2>4 DEF ReadOK
<1>12. boot' # boot
  BY <1>1 DEF next
<1> QED
  BY <1>8, <1>9, <1>10, <1>11, <1>12 DEF SettingsInv, OnlyByItsCommand

\* What is in a record depends on its own parts, and no part is in two records.
LEMMA RecordsApart ==
    /\ \A r \in DOMAIN PartsOf : \A q \in DOMAIN PartsOf \ {r} : PartsOf[r] \cap PartsOf[q] = {}
    /\ \A r \in DOMAIN PartsOf : PartsOf[r] \subseteq Parts
  BY PartsOfRecords DEF Parts

LEMMA OfItsParts ==
    ASSUME NEW r \in DOMAIN PartsOf, NEW s, NEW u, \A p \in PartsOf[r] : s[p] = u[p]
    PROVE  RecordOf(r, s) = RecordOf(r, u)
<1>1. CASE r = "CONP"
  BY <1>1, PartsOfRecords DEF RecordOf
<1>2. CASE r # "CONP"
  <2>1. PICK q : PartsOf[r] = {q}
    BY <1>2, PartsOfRecords
  <2> QED
    BY <1>2, <2>1 DEF RecordOf
<1> QED
  BY <1>1, <1>2

\* The records a thread saves; the filters' settings are in none of the texts' thread.
LEMMA RecordsSaved ==
    ASSUME NEW t \in Savers, NEW i \in 1 .. Len(RecordsOf[t])
    PROVE  /\ RecordsOf[t][i] \in DOMAIN PartsOf
           /\ t = "SysInfo" => "FILTERS" \notin PartsOf[RecordsOf[t][i]]
<1>1. CASE t = "SysInfo"
  BY <1>1, PartsOfRecords DEF RecordsOf
<1>2. CASE t = "Control"
  BY <1>2, PartsOfRecords DEF RecordsOf
<1> QED
  BY <1>1, <1>2 DEF Savers

LEMMA SaveToFlashOK ==
    ASSUME SettingsInv, SaveToFlash
    PROVE  SettingsInv' /\ OnlyByItsCommand
<1>0. MemoryOK /\ StationOK /\ FlashOK /\ SaversOK /\ ReadOK
  BY DEF SettingsInv
<1>1. /\ boot # "INFO" /\ event' = [t \in Savers |-> event[t] \/ t = "SysInfo" \/ boot = "DONE"]
      /\ UNCHANGED <<memory, inForce, flash, boot, saving, station, asked, kept, touched>>
  BY DEF SaveToFlash, SerialRuns
<1>2. SaversOK'
  <2>1. event' \in [Savers -> BOOLEAN] /\ \A t \in Savers : event'[t] => event[t] \/ t = "SysInfo" \/ boot = "DONE"
    BY <1>1
  <2> QED
    BY <1>0, <1>1, <2>1 DEF SaversOK
<1>3. MemoryOK' /\ StationOK' /\ FlashOK' /\ ReadOK'
  BY <1>0, <1>1 DEF MemoryOK, StationOK, FlashOK, ReadOK
<1> QED
  BY <1>1, <1>2, <1>3 DEF SettingsInv, OnlyByItsCommand

LEMMA WakeOK ==
    ASSUME SettingsInv, NEW t \in Savers, Wake(t)
    PROVE  SettingsInv' /\ OnlyByItsCommand
<1>0. MemoryOK /\ StationOK /\ FlashOK /\ SaversOK /\ ReadOK
  BY DEF SettingsInv
<1>1. /\ event[t] /\ event' = [event EXCEPT ![t] = FALSE] /\ saving' = [saving EXCEPT ![t] = 1]
      /\ UNCHANGED <<memory, inForce, flash, boot, station, asked, kept, touched>>
  BY DEF Wake
<1>2. SaversOK'
  <2>1. Len(RecordsOf["SysInfo"]) = 2 /\ Len(RecordsOf["Control"]) = 4
    BY DEF RecordsOf
  <2>2. \A u \in Savers : 1 <= Len(RecordsOf[u])
    BY <2>1 DEF Savers
  <2> QED
    BY <1>0, <1>1, <2>2 DEF SaversOK
<1>3. MemoryOK' /\ StationOK' /\ FlashOK' /\ ReadOK'
  BY <1>0, <1>1 DEF MemoryOK, StationOK, FlashOK, ReadOK
<1> QED
  BY <1>1, <1>2, <1>3 DEF SettingsInv, OnlyByItsCommand

\* A thread saves a record: its parts are saved as they are, the others stay.
LEMMA SaveRecordOK ==
    ASSUME SettingsInv, NEW t \in Savers, SaveRecord(t)
    PROVE  SettingsInv' /\ OnlyByItsCommand
<1> DEFINE r == RecordsOf[t][saving[t]]
<1>0. MemoryOK /\ StationOK /\ FlashOK /\ SaversOK /\ ReadOK
  BY DEF SettingsInv
<1>1. /\ saving[t] # 0
      /\ flash' = [flash EXCEPT ![r] = <<RecordOf(r, memory)>>]
      /\ kept' = [p \in Parts |-> IF p \in PartsOf[r] THEN memory[p] ELSE kept[p]]
      /\ saving' = [saving EXCEPT ![t] = IF @ = Len(RecordsOf[t]) THEN 0 ELSE @ + 1]
      /\ UNCHANGED <<memory, inForce, boot, event, station, asked, touched>>
  BY DEF SaveRecord, RecordOf, GetControlParameters
<1>2. saving[t] \in 1 .. Len(RecordsOf[t])
  <2>1. Len(RecordsOf[t]) \in Nat
    BY DEF Savers, RecordsOf
  <2> QED
    BY <1>0, <1>1, <2>1 DEF SaversOK
<1>3. r \in DOMAIN PartsOf /\ (t = "SysInfo" => "FILTERS" \notin PartsOf[r])
  BY <1>2, RecordsSaved
<1>4. SaversOK'
  <2>1. Len(RecordsOf[t]) \in Nat
    BY DEF Savers, RecordsOf
  <2>2. /\ saving' \in [Savers -> Nat] /\ saving'[t] <= Len(RecordsOf[t])
        /\ \A u \in Savers \ {t} : saving'[u] = saving[u]
    BY <1>0, <1>1, <1>2, <2>1 DEF SaversOK
  <2> QED
    BY <1>0, <1>1, <2>2 DEF SaversOK
<1> HIDE DEF r
<1>5. "FILTERS" \in PartsOf[r] => memory.FILTERS \in SaneFilters
  BY <1>0, <1>1, <1>3 DEF SaversOK, ReadOK, Savers
<1>6. FlashOK'
  <2>1. kept' = [p \in Parts |-> kept'[p]] /\ DOMAIN flash' = DOMAIN PartsOf
    BY <1>0, <1>1 DEF FlashOK
  <2>2. Valid(kept') /\ kept'.FILTERS \in SaneFilters
    <3>1. \A p \in Parts : kept'[p] = memory[p] \/ kept'[p] = kept[p]
      BY <1>1
    <3>2. kept'.FILTERS \in SaneFilters
      BY <1>0, <1>1, <1>5 DEF FlashOK, Parts
    <3> QED
      BY <1>0, <3>1, <3>2, CleanedFilters DEF FlashOK, MemoryOK, Valid, Parts
  <2>3. ASSUME NEW q \in DOMAIN PartsOf
        PROVE  \/ flash'[q] = <<>> /\ \A p \in PartsOf[q] : kept'[p] = Defaults[p]
               \/ flash'[q] = <<RecordOf(q, kept')>>
    <3>1. CASE q = r
      <4>1. \A p \in PartsOf[q] : kept'[p] = memory[p]
        BY <1>1, <3>1, RecordsApart
      <4>2. RecordOf(q, kept') = RecordOf(q, memory)
        BY <4>1, OfItsParts
      <4> QED
        BY <1>0, <1>1, <3>1, <4>2 DEF FlashOK
    <3>2. CASE q # r
      <4>1. \A p \in PartsOf[q] : kept'[p] = kept[p]
        BY <1>1, <1>3, <3>2, RecordsApart
      <4>2. RecordOf(q, kept') = RecordOf(q, kept)
        BY <4>1, OfItsParts
      <4>3. flash'[q] = flash[q]
        BY <1>0, <1>1, <3>2 DEF FlashOK
      <4> QED
        BY <1>0, <4>1, <4>2, <4>3 DEF FlashOK
    <3> QED
      BY <3>1, <3>2
  <2> QED
    BY <2>1, <2>2, <2>3 DEF FlashOK
<1>7. ReadOK'
  <2>1. \A p \in Parts : memory[p] = kept[p] => memory[p] = kept'[p]
    BY <1>1
  <2> QED
    BY <1>0, <1>1, <2>1 DEF ReadOK
<1>8. MemoryOK' /\ StationOK'
  BY <1>0, <1>1 DEF MemoryOK, StationOK
<1> QED
  BY <1>1, <1>4, <1>6, <1>7, <1>8 DEF SettingsInv, OnlyByItsCommand

\* After a loss of power or a reset the settings are zeros until the initialisation runs.
LEMMA Reset ==
    ASSUME memory' = AtReset, boot' = "INFO", touched' = {},
           event' = [t \in Savers |-> FALSE], saving' = [t \in Savers |-> 0]
    PROVE  MemoryOK' /\ SaversOK' /\ ReadOK'
<1>1. Valid(AtReset) /\ AtReset = [p \in Parts |-> AtReset[p]]
  BY DEF Valid, AtReset, Filters, Texts, Parts
<1>2. \A t \in Savers : 0 <= Len(RecordsOf[t])
  BY DEF Savers, RecordsOf
<1>3. MemoryOK'
  BY <1>1 DEF MemoryOK
<1>4. SaversOK'
  BY <1>2 DEF SaversOK
<1>5. ReadOK'
  BY DEF ReadOK, ReadBy
<1> QED
  BY <1>3, <1>4, <1>5

LEMMA DefaultsOK == Valid(Defaults) /\ Defaults = [p \in Parts |-> Defaults[p]]
  BY DEF Valid, Defaults, Filters, SaneFilters, Texts, Parts

LEMMA PowerLossOK ==
    ASSUME SettingsInv, PowerLoss
    PROVE  SettingsInv' /\ OnlyByItsCommand
<1>0. MemoryOK /\ StationOK /\ FlashOK
  BY DEF SettingsInv
<1>1. /\ memory' = AtReset /\ boot' = "INFO" /\ touched' = {}
      /\ event' = [t \in Savers |-> FALSE] /\ saving' = [t \in Savers |-> 0]
      /\ UNCHANGED <<flash, station, asked, kept>>
  BY DEF PowerLoss, Restart
<1>2. MemoryOK' /\ SaversOK' /\ ReadOK'
  BY <1>1, Reset
<1>3. StationOK' /\ FlashOK'
  BY <1>0, <1>1 DEF StationOK, FlashOK
<1>4. OnlyByItsCommand
  BY <1>0, <1>1 DEF OnlyByItsCommand, MemoryOK
<1> QED
  BY <1>2, <1>3, <1>4 DEF SettingsInv

LEMMA EraseFlashOK ==
    ASSUME SettingsInv, EraseFlash
    PROVE  SettingsInv' /\ OnlyByItsCommand
<1>0. StationOK /\ FlashOK
  BY DEF SettingsInv
<1>1. /\ boot # "INFO" /\ memory' = AtReset /\ boot' = "INFO" /\ touched' = {}
      /\ event' = [t \in Savers |-> FALSE] /\ saving' = [t \in Savers |-> 0]
      /\ flash' = [r \in DOMAIN flash |-> <<>>] /\ kept' = Defaults
      /\ UNCHANGED <<station, asked>>
  BY DEF EraseFlash, Restart, SerialRuns
<1>2. MemoryOK' /\ SaversOK' /\ ReadOK'
  BY <1>1, Reset
<1>3. StationOK'
  BY <1>0, <1>1 DEF StationOK
<1>4. FlashOK'
  BY <1>0, <1>1, DefaultsOK, CleanedFilters DEF FlashOK
<1> QED
  BY <1>1, <1>2, <1>3, <1>4 DEF SettingsInv, OnlyByItsCommand

LEMMA SettingsStart == SettingsInit => SettingsInv
<1> SUFFICES ASSUME SettingsInit PROVE SettingsInv
  OBVIOUS
<1>1. Valid(AtReset) /\ AtReset = [p \in Parts |-> AtReset[p]]
  BY DEF Valid, AtReset, Filters, Texts, Parts
<1>2. MemoryOK
  BY <1>1 DEF SettingsInit, MemoryOK
<1>3. StationOK
  BY DEF SettingsInit, StationOK
<1>4. FlashOK
  BY DefaultsOK, CleanedFilters DEF SettingsInit, FlashOK
<1>5. SaversOK
  <2>1. \A t \in Savers : 0 <= Len(RecordsOf[t])
    BY DEF Savers, RecordsOf
  <2> QED
    BY <2>1 DEF SettingsInit, SaversOK
<1>6. ReadOK
  BY DEF SettingsInit, ReadOK, ReadBy
<1> QED
  BY <1>2, <1>3, <1>4, <1>5, <1>6 DEF SettingsInv

LEMMA SettingsStep ==
    ASSUME SettingsInv, [SettingsNext]_settingsVars
    PROVE  SettingsInv' /\ OnlyByItsCommand /\ BackupRestores
<1>1. BackupRestores
  BY SendBackOK DEF BackupRestores
<1>2. CASE \E c \in DOMAIN About : SetCommand(c)
  BY <1>1, <1>2, SetCommandOK
<1>3. CASE \E g \in DOMAIN SetterOf : GetCommand(g)
  BY <1>1, <1>3, GetCommandOK
<1>4. CASE \E n \in DOMAIN station.fields : SendBack(n)
  BY <1>1, <1>4, SendBackOK
<1>5. CASE SaveToFlash
  BY <1>1, <1>5, SaveToFlashOK
<1>6. CASE PowerLoss
  BY <1>1, <1>6, PowerLossOK
<1>7. CASE EraseFlash
  BY <1>1, <1>7, EraseFlashOK
<1>8. CASE SystemInformationInit
  BY <1>1, <1>8, InformationOK
<1>9. CASE ControlInit
  BY <1>1, <1>9, ControlInitOK
<1>10. CASE ReadControlRecord
  BY <1>1, <1>10, ReadControlOK
<1>11. CASE \E t \in Savers : Wake(t) \/ SaveRecord(t)
  BY <1>1, <1>11, WakeOK, SaveRecordOK
<1>12. CASE UNCHANGED settingsVars
  BY <1>1, <1>12 DEF settingsVars, SettingsInv, MemoryOK, StationOK, FlashOK, SaversOK, ReadOK,
                     OnlyByItsCommand
<1> QED
  BY <1>2, <1>3, <1>4, <1>5, <1>6, <1>7, <1>8, <1>9, <1>10, <1>11, <1>12 DEF SettingsNext

\* Settings are neither lost nor mixed up between the ground station, the tables of handlers,
\* the flash and the controllers, however many packets, saves and losses of power there are:
\* a setting changes by its own command only; an answer sent back in the fields its Set
\* command takes restores them, and one sent back in more changes nothing; after a start what
\* no packet has named is what was last saved.
THEOREM SettingsAreKept == SettingsSpec => SettingsKept
<1>1. SettingsInit => SettingsInv
  BY SettingsStart
<1>2. SettingsInv /\ [SettingsNext]_settingsVars => SettingsInv' /\ OnlyByItsCommand /\ BackupRestores
  BY SettingsStep
<1>3. SettingsInv => InForce
  BY DEF SettingsInv, ReadOK, ReadBy, InForce
<1> QED
  BY <1>1, <1>2, <1>3, PTL DEF SettingsSpec, SettingsKept
=============================================================================
