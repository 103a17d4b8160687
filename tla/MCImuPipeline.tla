--------------------------- MODULE MCImuPipeline ---------------------------
(***************************************************************************)
(* Two ports, a counter that wraps after three cycles, and the priorities  *)
(* of the code.                                                            *)
(***************************************************************************)
EXTENDS ImuPipeline

CONSTANTS AUX, USB

TwoPorts == {AUX, USB}
AllThreads == {SENSOR, EST, CTRL, AUX, USB}
ThePlaces == {"boot", "idle", "read", "wait", "imu", "cal", "copy", "innovate", "rate",
              "control", "send", "set"}
TheMutexes == {"imu", "cal"}

\* HIGHPRIO - 1, HIGHPRIO - 2, HIGHPRIO - 2 and NORMALPRIO.
ThePriorities == [t \in AllThreads |-> CASE t = SENSOR -> 3
                                         [] t \in {EST, CTRL} -> 2
                                         [] OTHER -> 1]
=============================================================================
