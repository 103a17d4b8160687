----------------------------- MODULE MCRCInput -----------------------------
(***************************************************************************)
(* Small instances of RCInput for TLC: two channels, three roles of which  *)
(* two are switches, frames of two data bytes, RSSI lost after two weak    *)
(* captures.                                                               *)
(***************************************************************************)
EXTENDS RCInput, TLC

Assign(first, second, analog, rssi) ==
    [role |-> (0 :> first @@ 1 :> second), analog |-> analog, use_rssi |-> rssi]

\* What RCInputSettingsReset writes
Unset == Assign("OFF", "OFF", {0, 1}, FALSE)

\* A throttle and a switch, the switch with another role, both channels with one
\* role, and RSSI in use
Changes == {Unset, Assign("THROTTLE", "ARM", {0}, FALSE),
            Assign("THROTTLE", "SERIAL", {0}, TRUE), Assign("ARM", "ARM", {}, FALSE)}
Moves == {Unset, Assign("THROTTLE", "ARM", {0}, FALSE), Assign("THROTTLE", "SERIAL", {0}, FALSE)}
=============================================================================
