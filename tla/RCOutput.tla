------------------------------ MODULE RCOutput ------------------------------
(***************************************************************************)
(* The motor outputs (rc_output.c): the control thread fills the buffer of *)
(* each bank and tells the DMAs to send it, a DMA moves one row to the     *)
(* compare registers of its timer at each update of the timer, where it    *)
(* takes effect at the next update, and the settings command stops and     *)
(* reprograms the timers.                                                  *)
(*                                                                         *)
(* The control thread (HIGHPRIO - 2) preempts the parser of the command    *)
(* (NORMALPRIO) at any point and is never preempted by it; the DMAs go on  *)
(* between any two steps of either.                                        *)
(*                                                                         *)
(* A width is known by the mode it was computed for and by its age: the    *)
(* control cycles begun since the one that computed it.  A buffer has one  *)
(* row in a PWM mode, two in a one-shot mode (the width, then off) and     *)
(* DshotRows in a DShot mode (the bits of a packet, then off).  A command  *)
(* may also set the mode to a byte that is none of these.                  *)
(***************************************************************************)
EXTENDS Integers, Sequences, FiniteSets

CONSTANTS
    Banks,          \* 1 .. 2, bank 1 is dealt with first
    Channels,       \* of each bank
    Settings,       \* the modes of the banks that commands ask for
    DshotRows       \* 17: sixteen bits and the row that ends them

ASSUME BankAssumption ==
    IsFiniteSet(Banks) /\ Banks = 1 .. Cardinality(Banks) /\ Banks # {}
ASSUME ChannelAssumption ==
    IsFiniteSet(Channels) /\ Channels = 1 .. Cardinality(Channels) /\ Channels # {}
Modes == {"50HZ", "400HZ", "ONESHOT", "DSHOT"}
Shots == {"ONESHOT", "DSHOT"}
ModeBytes == Modes \cup {"OTHER"}

ASSUME SettingsAssumption == Settings \subseteq [Banks -> ModeBytes]
ASSUME RowsAssumption == DshotRows \in Nat /\ DshotRows > 2

VARIABLES
    settings,       \* rcoutput_settings: the mode of each bank
    timer,          \* the mode each timer runs in, or "stopped"
    buffer,         \* bank1_buffer and bank2_buffer
    dma,            \* of each stream, the next row to move and the rows asked for
    ccr,            \* the compare registers of each timer, as they were written
    out,            \* the compare values in effect, which make the pulses
    control,        \* the call the control thread makes next, 0 between two cycles
    parser,         \* where the parser of a settings command is
    frame           \* of each bank, the frame the DMA sends or has sent last:
                    \* its mode, its widths, and whether a settings command came
                    \* between

vars == <<settings, timer, buffer, dma, ccr, out, control, parser, frame>>
-----------------------------------------------------------------------------
Rows == 1 .. DshotRows
Off == [mode |-> "off", age |-> 0]
Old == 2
Older(width) == IF width.mode = "off" \/ width.age = Old THEN width
                ELSE [width EXCEPT !.age = @ + 1]

\* Mutant: the closing row of a packet is not sent.
SizeUnclosed(set, b) == CASE set[b] \in {"50HZ", "400HZ"} -> 1
                          [] set[b] = "ONESHOT" -> 2
                          [] OTHER -> DshotRows - 1

\* RCOutputSync: the rows to send.
PayloadSize(set, b) == CASE set[b] \in {"50HZ", "400HZ"} -> 1
                         [] set[b] = "ONESHOT" -> 2
                         [] OTHER -> DshotRows

\* SetChannelWidthGeneric: the last row of a one-shot or DShot mode is off, and the
\* rows beyond are left as they are; for another byte all rows are.
ColumnOf(mode) == CASE mode \in {"50HZ", "400HZ"} -> <<[mode |-> mode, age |-> 0]>>
                    [] mode = "ONESHOT" -> <<[mode |-> mode, age |-> 0], Off>>
                    [] mode = "OTHER" -> <<>>
                    [] OTHER -> [r \in Rows |-> IF r = DshotRows THEN Off
                                                ELSE [mode |-> mode, age |-> 0]]

SetColumn(rows, c, column) ==
    [r \in Rows |-> IF r \in DOMAIN column THEN [rows[r] EXCEPT ![c] = column[r]]
                    ELSE rows[r]]

Sending(b) == dma[b].next <= dma[b].size

\* Mutant: a buffer that is being sent is not touched.
FillIdle(b, c) ==
    IF Sending(b) THEN buffer
    ELSE [buffer EXCEPT ![b] = SetColumn(@, c, ColumnOf(settings[b]))]

\* RCOutputSetChannelWidth: whether the buffer is being sent or not.
Fill(b, c) == [buffer EXCEPT ![b] = SetColumn(@, c, ColumnOf(settings[b]))]
-----------------------------------------------------------------------------
\* The calls of RCOutputSetChannelWidth in vSendPWMCommands, of which each sets a channel.
Outputs == Cardinality(Banks) * Cardinality(Channels)
EachChannel == [k \in 1 .. Outputs |-> <<((k - 1) \div Cardinality(Channels)) + 1,
                                         ((k - 1) % Cardinality(Channels)) + 1>>]

\* Mutant: the sync comes before the new widths.
SyncThenSet == <<<<"sync">>>> \o EachChannel

\* vSendPWMCommands: all channels, then RCOutputSync.
Calls == EachChannel \o <<<<"sync">>>>

\* The control thread makes its next call.
Call == /\ control > 0
        /\ control' = (control + 1) % (Len(Calls) + 1)

\* Pace: in every mode but 50 Hz a frame takes less than the 5 ms from one cycle to the
\* next, in a one-shot or DShot mode with the pulses of its last row.  Of the periods of
\* another byte nothing is known.
InTime(b) ==
    \/ frame[b].cut
    \/ frame[b].mode \in {"50HZ", "OTHER"}
    \/ ~Sending(b) /\ (frame[b].mode \in Shots => out[b] = ccr[b])

AllOlder(widths) == [c \in Channels |-> Older(widths[c])]

\* A new estimate starts a cycle, and every width set before is one cycle older.
BeginCycle ==
    /\ control = 0
    /\ \A b \in Banks : InTime(b)
    /\ control' = 1
    /\ buffer' = [b \in Banks |-> [r \in Rows |-> AllOlder(buffer[b][r])]]
    /\ ccr' = [b \in Banks |-> AllOlder(ccr[b])]
    /\ out' = [b \in Banks |-> AllOlder(out[b])]
    /\ frame' = [b \in Banks |-> [frame[b] EXCEPT !.widths = {Older(w) : w \in @}]]
    /\ UNCHANGED <<settings, timer, dma, parser>>

SetChannelWidth ==
    /\ Call
    /\ Calls[control] # <<"sync">>
    /\ buffer' = Fill(Calls[control][1], Calls[control][2])
    /\ UNCHANGED <<settings, timer, dma, ccr, out, parser, frame>>

\* RCOutputSync and SendDMAPayload: a stream that is enabled is left alone.  TIM_EGR_UG
\* restarts the counter and puts into effect what the registers hold, without a request
\* to the DMA (URS).
Sync ==
    /\ Call
    /\ Calls[control] = <<"sync">>
    /\ dma' = [b \in Banks |-> IF Sending(b) THEN dma[b]
                               ELSE [next |-> 1, size |-> PayloadSize(settings, b)]]
    /\ out' = [b \in Banks |-> IF Sending(b) THEN out[b] ELSE ccr[b]]
    /\ frame' = [b \in Banks |-> IF Sending(b) THEN frame[b]
                                 ELSE [mode |-> settings[b], widths |-> {},
                                       cut |-> timer[b] # settings[b]]]
    /\ UNCHANGED <<settings, timer, buffer, ccr, parser>>

\* The counter of the timer comes round: what the registers hold takes effect (OCxPE),
\* and the DMA is asked for a row, which it moves into the registers if it is enabled.
Burst(b) ==
    /\ timer[b] # "stopped"
    /\ out' = [out EXCEPT ![b] = ccr[b]]
    /\ \/ /\ ~Sending(b)
          /\ UNCHANGED <<dma, ccr, frame>>
       \/ /\ Sending(b)
          /\ LET row == buffer[b][dma[b].next]
             IN  /\ ccr' = [ccr EXCEPT ![b] = row]
                 /\ frame' = [frame EXCEPT ![b].widths = @ \cup {row[c] : c \in Channels}]
          /\ dma' = [dma EXCEPT ![b].next = @ + 1]
    /\ UNCHANGED <<settings, timer, buffer, control, parser>>
-----------------------------------------------------------------------------
\* The parser runs while the control thread waits.
Parse(from, to) == control = 0 /\ parser = from /\ parser' = to

\* vParseSetRCOutputSettings: new settings, whatever their mode bytes, or none if the size
\* is wrong.
Command ==
    /\ Parse(<<"idle">>, <<"stop", 1>>)
    /\ settings' \in Settings \cup {settings}
    /\ UNCHANGED <<timer, buffer, dma, ccr, out, control, frame>>

After(place, b) == IF b + 1 \in Banks THEN <<place, b + 1>>
                   ELSE IF place = "stop" THEN <<"start", 1>> ELSE <<"idle">>

\* RCOutputTimerInit, first half: the timer is reset, its stream is not.
StopTimer(b) ==
    /\ Parse(<<"stop", b>>, After("stop", b))
    /\ timer' = [timer EXCEPT ![b] = "stopped"]
    /\ ccr' = [ccr EXCEPT ![b] = [c \in Channels |-> Off]]
    /\ out' = [out EXCEPT ![b] = [c \in Channels |-> Off]]
    /\ frame' = IF Sending(b) THEN [frame EXCEPT ![b].cut = TRUE] ELSE frame
    /\ UNCHANGED <<settings, buffer, dma, control>>

\* Mutant: only the timer of bank 1 is enabled.
ModeOnlyBank1(b) == IF b = 1 THEN settings[b] ELSE "stopped"

\* RCOutputTimerInit: ARR and PSC are taken from the tables, or from what lies behind them.
ModeOf(b) == settings[b]

\* RCOutputTimerInit, second half: the counter is enabled.
StartTimer(b) ==
    /\ Parse(<<"start", b>>, After("start", b))
    /\ timer' = [timer EXCEPT ![b] = ModeOf(b)]
    /\ UNCHANGED <<settings, buffer, dma, ccr, out, control, frame>>
-----------------------------------------------------------------------------
\* RCOutputInit.
Init ==
    /\ settings \in Settings
    /\ timer = settings
    /\ buffer = [b \in Banks |-> [r \in Rows |-> [c \in Channels |-> Off]]]
    /\ dma = [b \in Banks |-> [next |-> 1, size |-> 0]]
    /\ ccr = [b \in Banks |-> [c \in Channels |-> Off]]
    /\ out = ccr
    /\ control = 0
    /\ parser = <<"idle">>
    /\ frame = [b \in Banks |-> [mode |-> settings[b], widths |-> {}, cut |-> FALSE]]

Control == BeginCycle \/ SetChannelWidth \/ Sync
TimerInit == \E b \in Banks : StopTimer(b) \/ StartTimer(b)

Next == Control \/ (\E b \in Banks : Burst(b)) \/ Command \/ TimerInit

Spec == Init /\ [][Next]_vars

\* Estimates keep coming and the control thread runs on each, a timer that counts with a
\* period of the tables asks for rows, and the parser is not kept from the processor for
\* ever.
FairSpec ==
    /\ Spec
    /\ WF_vars(Control)
    /\ \A b \in Banks : WF_vars(timer[b] \in Modes /\ Burst(b))
    /\ SF_vars(TimerInit)
-----------------------------------------------------------------------------
Widths(b) == frame[b].widths \ {Off}

\* A frame of a one-shot or DShot mode, which no settings command cut, is one packet:
\* all its widths are of one control cycle and of its mode.
FrameIsOnePacket ==
    \A b \in Banks :
        frame[b].cut \/ frame[b].mode \notin Shots
        \/ \E age \in 0 .. Old : Widths(b) \subseteq {[mode |-> frame[b].mode, age |-> age]}

\* A transfer restarts the counter only while the outputs are off, after a frame of such a
\* mode, and they stay off: it cuts no pulse short and stretches none.
RestsBetweenFrames ==
    [][\A b \in Banks :
         ~Sending(b) /\ Sending(b)' /\ frame[b].mode \in Shots /\ ~frame[b].cut
            => \A c \in Channels : out[b][c] = Off /\ out'[b][c] = Off]_vars

\* Rows wait for the timer, up to 20 ms in the slow mode, but what they carry when they
\* are moved was computed in the last control cycle or in the one going on, in every mode
\* the code knows.
BurstIsFresh ==
    [][\A b \in Banks :
         dma'[b].next > dma[b].next /\ ~frame[b].cut /\ {frame[b].mode, settings[b]} \subseteq Modes
            => \A c \in Channels : ccr'[b][c].mode # "off" => ccr'[b][c].age < Old]_vars

\* Whatever the commands did to the frames under way, also with a byte that is no mode,
\* once they stop each bank whose mode is one ends up in it, with whole frames and fresh
\* widths.
OutputsRecover ==
    <>[](parser = <<"idle">>) =>
        \A b \in Banks :
            /\ <>[](settings[b] \in Modes => timer[b] = settings[b] /\ ~frame[b].cut)
            /\ []<>(settings[b] \in Modes => \E w \in Widths(b) : w.age < Old)
=============================================================================
