------------------------------ MODULE MCArming ------------------------------
(***************************************************************************)
(* Small instances of Arming for TLC.  Two ticks to a second: the hold is  *)
(* two ticks, the zero-throttle timeout runs out at four, the override     *)
(* after two.                                                              *)
(***************************************************************************)
EXTENDS Arming

Setting(direction, timeout) ==
    [direction |-> direction, arm_stick_time |-> 10, arm_zero_throttle_timeout |-> timeout]

Unset == Setting("NONE", 30)                   \* what ArmingInit writes
BothWays == {Unset, Setting("STICK", 0), Setting("STICK", 1), Setting("SWITCH", 1)}
StickOnly == {Unset, Setting("STICK", 1)}

Shows(low, stick, pressed, serial) ==
    [connected |-> TRUE, low |-> low, stick |-> stick, pressed |-> pressed, serial |-> serial]

\* Once the connection is lost every level reads 0 and every switch undefined.
LostInput == [Shows(TRUE, "NO_REGION", FALSE, FALSE) EXCEPT !.connected = FALSE]

Sticks == {Shows(TRUE, stick, FALSE, FALSE) : stick \in {"ARM", "DISARM", "NO_REGION"}}
Presses == {Shows(TRUE, "NO_REGION", TRUE, FALSE)}
Flights == {Shows(FALSE, "NO_REGION", FALSE, FALSE), Shows(TRUE, "NO_REGION", FALSE, TRUE)}
AllInputs == Sticks \cup Presses \cup Flights
=============================================================================
