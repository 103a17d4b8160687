------------------------------ MODULE MCParts -------------------------------
(***************************************************************************)
(* Parts that share no state, one behaviour for each: a packet with its    *)
(* CRC, a packet stuffed with COBS, the throttles of DShot, a stick of the *)
(* pilot, the cycles of the control thread, the settings of the vehicle.   *)
(***************************************************************************)
EXTENDS Crc, Cobs, Dshot, RCLevels, ControlLoop, ControlSettings

Calibration(bottom, center, top) == [bottom |-> bottom, center |-> center, top |-> top]

\* A stick of an SBUS transmitter with its center, only above it and only below it, and
\* what RCInputSettingsReset writes
MCCalibrations == {Calibration(172, 992, 1811), Calibration(172, 172, 1811),
                   Calibration(172, 1811, 1811), Calibration(1000, 1500, 2000)}

VARIABLE part

vars == <<part, crcVars, cobsVars, dshotVars, levelVars, loopVars, settingsVars>>

Init == /\ part \in {"crc", "cobs", "dshot", "levels", "control", "settings"}
        /\ CrcInit /\ CobsInit /\ DshotInit /\ LevelInit /\ LoopInit
        /\ SettingsInit
        \* The many beginnings of a stick are for its own part only.
        /\ part # "levels" => /\ moved = 0
                              /\ setting = CHOOSE s \in LevelSettings : TRUE
                              /\ sticks[0] = CHOOSE r \in Rests : TRUE

Next == /\ UNCHANGED part
        /\ \/ /\ part = "crc" /\ CrcNext
              /\ UNCHANGED <<cobsVars, dshotVars, levelVars, loopVars, settingsVars>>
           \/ /\ part = "cobs" /\ CobsNext
              /\ UNCHANGED <<crcVars, dshotVars, levelVars, loopVars, settingsVars>>
           \/ /\ part = "dshot" /\ DshotNext
              /\ UNCHANGED <<crcVars, cobsVars, levelVars, loopVars, settingsVars>>
           \/ /\ part = "levels" /\ LevelNext
              /\ UNCHANGED <<crcVars, cobsVars, dshotVars, loopVars, settingsVars>>
           \/ /\ part = "control" /\ LoopNext
              /\ UNCHANGED <<crcVars, cobsVars, dshotVars, levelVars, settingsVars>>
           \/ /\ part = "settings" /\ SettingsNext
              /\ UNCHANGED <<crcVars, cobsVars, dshotVars, levelVars, loopVars>>

Spec == Init /\ [][Next]_vars
=============================================================================
