------------------------------- MODULE Dshot --------------------------------
(***************************************************************************)
(* A throttle on its way to a motor controller in a DShot mode             *)
(* (rc_output.c): the value, the packet with its checksum, the lengths of  *)
(* the sixteen pulses, and what a controller makes of them.                *)
(***************************************************************************)
EXTENDS Integers

CONSTANT Steps      \* the throttle goes from 0 to 1 in so many steps

ASSUME StepsAssumption == Steps \in Nat \ {0}

DSHOT_PERIOD == 70
DSHOT_BIAS == 48
DSHOT_GAIN == 1999
DSHOT_BIT_0 == 26
DSHOT_BIT_1 == 53

\* Mutant: the throttle is not bounded.
ValueUnbounded(throttle) ==
    IF throttle = 0 THEN 0 ELSE ((throttle * DSHOT_GAIN) \div Steps + DSHOT_BIAS) % 65536

\* RCOutputSetChannelWidth bounds the throttle, 0 stops the motor.
ValueOf(throttle) ==
    LET value == IF throttle > Steps THEN Steps ELSE IF throttle < 0 THEN 0 ELSE throttle
    IN  IF value = 0 THEN 0 ELSE (value * DSHOT_GAIN) \div Steps + DSHOT_BIAS

\* Exclusive or of four bits.
XorNibbles(a, b) ==
    LET Flip(k) == (((a \div k) % 2) + ((b \div k) % 2)) % 2
    IN  8 * Flip(8) + 4 * Flip(4) + 2 * Flip(2) + Flip(1)

\* PrepareDshotPacket, of the checksum the four bits that are sent.
PrepareDshotPacket(value, request_telemetry) ==
    LET packet == (value * 2 + (IF request_telemetry THEN 1 ELSE 0)) % 65536
        csum == XorNibbles(XorNibbles(packet % 16, (packet \div 16) % 16), (packet \div 256) % 16)
    IN  ((packet * 16) % 65536) + csum

\* The loop of SetChannelWidthGeneric: the most significant bit first.
Pulses(packet) == [i \in 1 .. 16 |-> IF (packet \div 2^(16 - i)) % 2 = 1 THEN DSHOT_BIT_1
                                     ELSE DSHOT_BIT_0]

\* The motor controller: a pulse of more than half a period is a 1; the last four bits
\* are the checksum of the twelve before, of which the last asks for telemetry.
Nibble(pulses, n) ==
    LET One(i) == IF 2 * pulses[i] > DSHOT_PERIOD THEN 1 ELSE 0
    IN  8 * One(4 * n - 3) + 4 * One(4 * n - 2) + 2 * One(4 * n - 1) + One(4 * n)
Heard(pulses) == IF Nibble(pulses, 4) = XorNibbles(XorNibbles(Nibble(pulses, 1), Nibble(pulses, 2)), Nibble(pulses, 3))
                 THEN (Nibble(pulses, 1) * 256 + Nibble(pulses, 2) * 16 + Nibble(pulses, 3)) \div 2
                 ELSE -1
-----------------------------------------------------------------------------
VARIABLES throttle,     \* of the control thread, in steps
          telemetry     \* request_telemetry

dshotVars == <<throttle, telemetry>>

DshotInit == throttle = -Steps /\ telemetry \in BOOLEAN
DshotNext == throttle < 2 * Steps /\ throttle' = throttle + 1 /\ telemetry' \in BOOLEAN

DshotSpec == DshotInit /\ [][DshotNext]_dshotVars
-----------------------------------------------------------------------------
\* A motor controller accepts every packet and hears a stop or a throttle, more the more
\* was asked for, and never one of the commands 1 to 47.
HeardAsThrottle ==
    LET heard == Heard(Pulses(PrepareDshotPacket(ValueOf(throttle), telemetry)))
    IN  /\ heard = 0 <=> throttle <= 0
        /\ throttle > 0 => heard \in DSHOT_BIAS .. 2047
        /\ throttle >= Steps => heard = 2047
        /\ heard <= Heard(Pulses(PrepareDshotPacket(ValueOf(throttle + 1), telemetry)))
=============================================================================
