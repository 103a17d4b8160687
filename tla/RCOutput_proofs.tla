--------------------------- MODULE RCOutput_proofs ---------------------------
(***************************************************************************)
(* The motor outputs of RCOutput, for every number of banks and channels,  *)
(* every length of a DShot packet and all settings.                        *)
(*                                                                         *)
(* A frame is whole because three things meet: at the sync all channels    *)
(* have been filled for the settings in force (FilledSoFar), nobody fills  *)
(* a buffer of a shot mode before it is sent, since the next cycle begins  *)
(* later (SendingWhole), and a timer that does not run in the mode of the  *)
(* frame has cut it (TimersStopped).  The outputs rest because the last    *)
(* row of such a frame is off and a cycle begins only when it has taken    *)
(* effect (AtRest).                                                        *)
(*                                                                         *)
(* And of a single throttle in a DShot mode (Dshot): what a controller     *)
(* reads from the sixteen pulses is the value that was sent, whose share   *)
(* of the range grows with the throttle, however fine the throttle is.     *)
(***************************************************************************)
EXTENDS RCOutput, Dshot, FiniteSetTheorems, SequenceTheorems, TLAPS

Width == [mode : Modes \cup {"off"}, age : 0 .. Old]
Frame == [mode : ModeBytes, widths : SUBSET Width, cut : BOOLEAN]

(* The rows a transfer of a mode has. *)
RowsOf(mode) == CASE mode \in {"50HZ", "400HZ"} -> 1
                  [] mode = "ONESHOT" -> 2
                  [] OTHER -> DshotRows

(* The types of the state, and a transfer that stays in its buffer. *)
TypeOK ==
  /\ settings \in [Banks -> ModeBytes]
  /\ timer \in [Banks -> ModeBytes \cup {"stopped"}]
  /\ buffer \in [Banks -> [Rows -> [Channels -> Width]]]
  /\ dma \in [Banks -> [next : 1 .. DshotRows + 1, size : 0 .. DshotRows]]
  /\ \A b \in Banks : dma[b].next <= dma[b].size + 1
  /\ ccr \in [Banks -> [Channels -> Width]]
  /\ out \in [Banks -> [Channels -> Width]]
  /\ control \in 0 .. Outputs + 1
  /\ parser \in {<<"idle">>} \cup ({"stop", "start"} \X Banks)
  /\ frame \in [Banks -> Frame]

(* The column of channel c has the widths of a mode, as they are computed. *)
Filled(rows, mode, c) ==
  \A r \in DOMAIN ColumnOf(mode) : rows[r][c] = ColumnOf(mode)[r]

(* The timers the command has stopped and not yet started. *)
TimersStopped ==
  \A b, i \in Banks :
    \/ parser = <<"stop", i>> /\ b < i
    \/ parser = <<"start", i>> /\ b >= i
    => timer[b] = "stopped"

(* A frame that is being sent and not cut is sent in its mode; in a shot mode *)
(* its rows are those the control thread left and no other cycle has begun.   *)
SendingWhole ==
  \A b \in Banks :
    Sending(b) /\ ~frame[b].cut =>
      /\ timer[b] = frame[b].mode
      /\ dma[b].size = RowsOf(frame[b].mode)
      /\ frame[b].mode \in Shots =>
           /\ control = 0
           /\ \A c \in Channels : Filled(buffer[b], frame[b].mode, c)
           /\ Widths(b) \subseteq {[mode |-> frame[b].mode, age |-> 0]}

(* The calls the control thread has made have filled their channels. *)
FilledSoFar ==
  control > 0 => \A k \in 1 .. Outputs :
    k < control => Filled(buffer[EachChannel[k][1]], settings[EachChannel[k][1]],
                          EachChannel[k][2])

(* The first row of a frame that is being sent, in a mode the code knows, is of *)
(* the cycle going on or, where it is still to be filled, of the one before.    *)
FirstRowFresh ==
  \A k \in 1 .. Outputs :
    LET b == EachChannel[k][1]
        w == buffer[b][1][EachChannel[k][2]]
    IN  Sending(b) /\ ~frame[b].cut /\ {frame[b].mode, settings[b]} \subseteq Modes =>
          w.mode = "off" \/ w.age = 0 \/ (w.age = 1 /\ 0 < control /\ control <= k)

(* After a frame of a shot mode the registers are off, and what they hold *)
(* is in effect when the control thread is at work again.                 *)
AtRest ==
  \A b \in Banks :
    frame[b].mode \in Shots /\ ~frame[b].cut /\ ~Sending(b) =>
      \A c \in Channels : ccr[b][c] = Off /\ (control > 0 => out[b][c] = Off)

(* The timers a command is done with run in the modes of the settings. *)
InForce ==
  \A b \in Banks :
    \/ parser = <<"idle">>
    \/ \E i \in Banks : parser = <<"start", i>> /\ b < i
    => timer[b] = settings[b]

Inv == TypeOK /\ TimersStopped /\ SendingWhole /\ FilledSoFar /\ FirstRowFresh
         /\ FrameIsOnePacket /\ AtRest /\ InForce
-----------------------------------------------------------------------------
(* The order of the calls. *)
LEMMA Sizes ==
  /\ Cardinality(Banks) \in Nat \ {0} /\ Cardinality(Channels) \in Nat \ {0}
  /\ Outputs \in Nat
<1>1. Cardinality(Banks) \in Nat /\ Cardinality(Channels) \in Nat
  BY FS_CardinalityType, BankAssumption, ChannelAssumption
<1>2. Cardinality(Channels) # 0 /\ Cardinality(Banks) # 0
  BY BankAssumption, <1>1, FS_EmptySet, ChannelAssumption
<1>3. QED
  BY <1>1, <1>2 DEF Outputs

LEMMA Quotient ==
  ASSUME NEW C \in Nat \ {0}, NEW q \in Nat, NEW r \in 0 .. C - 1
  PROVE  (q * C + r) \div C = q /\ (q * C + r) % C = r
  OBVIOUS

LEMMA Remainder ==
  ASSUME NEW B \in Nat, NEW C \in Nat \ {0}, NEW k \in 1 .. B * C
  PROVE  (k - 1) \div C \in 0 .. B - 1 /\ (k - 1) % C \in 0 .. C - 1
  OBVIOUS

LEMMA Place ==
  ASSUME NEW B \in Nat, NEW C \in Nat \ {0}, NEW b \in 1 .. B, NEW c \in 1 .. C
  PROVE  (b - 1) * C + c \in 1 .. B * C
<1>1. /\ (b - 1) * C \in Nat /\ (B - b) * C \in Nat
      /\ B * C = (b - 1) * C + (B - b) * C + C
  BY Z3
<1>2. QED
  BY <1>1

(* Each call sets a channel. *)
LEMMA CallsAChannel ==
  ASSUME NEW k \in 1 .. Outputs
  PROVE  EachChannel[k][1] \in Banks /\ EachChannel[k][2] \in Channels
<1>1. EachChannel[k] = <<((k - 1) \div Cardinality(Channels)) + 1,
                         ((k - 1) % Cardinality(Channels)) + 1>>
  BY DEF EachChannel
<1>2. /\ (k - 1) \div Cardinality(Channels) \in 0 .. Cardinality(Banks) - 1
      /\ (k - 1) % Cardinality(Channels) \in 0 .. Cardinality(Channels) - 1
  BY Sizes, Remainder DEF Outputs
<1>3. QED
  BY <1>1, <1>2, Sizes, BankAssumption, ChannelAssumption

(* No channel is left out. *)
LEMMA CallsEveryChannel ==
  ASSUME NEW b \in Banks, NEW c \in Channels
  PROVE  \E k \in 1 .. Outputs : EachChannel[k] = <<b, c>>
<1> DEFINE k == (b - 1) * Cardinality(Channels) + c
<1>1. b \in 1 .. Cardinality(Banks) /\ c \in 1 .. Cardinality(Channels)
  BY BankAssumption, ChannelAssumption
<1>2. k \in 1 .. Outputs
  BY <1>1, Sizes, Place DEF Outputs
<1>3. k - 1 = (b - 1) * Cardinality(Channels) + (c - 1)
  BY <1>1, Sizes
<1>4. b - 1 \in Nat /\ c - 1 \in 0 .. Cardinality(Channels) - 1
  BY <1>1, Sizes
<1>5. /\ (k - 1) \div Cardinality(Channels) = b - 1
      /\ (k - 1) % Cardinality(Channels) = c - 1
  BY <1>3, <1>4, Sizes, Quotient
<1>6. EachChannel[k] = <<b, c>>
  BY <1>1, <1>2, <1>5 DEF EachChannel
<1>7. QED
  BY <1>2, <1>6

(* The sync comes after the last channel, and then the cycle ends. *)
LEMMA CallOrder ==
  /\ Len(Calls) = Outputs + 1
  /\ \A k \in 1 .. Outputs : Calls[k] = EachChannel[k] /\ Calls[k] # <<"sync">>
  /\ Calls[Outputs + 1] = <<"sync">>
<1> DEFINE S == {EachChannel[k] : k \in 1 .. Outputs} \cup {<<"sync">>}
           last == <<<<"sync">>>>
<1>1. EachChannel \in [1 .. Outputs -> S]
  BY DEF EachChannel
<1>2. EachChannel \in Seq(S) /\ Len(EachChannel) = Outputs
  BY <1>1, Sizes, SeqDef
<1>3. last \in Seq(S) /\ Len(last) = 1 /\ last[1] = <<"sync">>
  OBVIOUS
<1>4. \A k \in 1 .. Outputs : EachChannel[k] # <<"sync">>
  <2>1. SUFFICES ASSUME NEW k \in 1 .. Outputs PROVE EachChannel[k] # <<"sync">>
    OBVIOUS
  <2>2. Len(EachChannel[k]) = 2
    BY DEF EachChannel
  <2>3. Len(<<"sync">>) = 1
    OBVIOUS
  <2>4. QED
    BY <2>2, <2>3
<1> HIDE DEF S, last
<1>5. /\ Len(EachChannel \o last) = Outputs + 1
      /\ \A k \in 1 .. Outputs : (EachChannel \o last)[k] = EachChannel[k]
      /\ (EachChannel \o last)[Outputs + 1] = <<"sync">>
  <2>1. /\ Len(EachChannel \o last) = Outputs + 1
        /\ \A i \in 1 .. Outputs + 1 :
             (EachChannel \o last)[i] = IF i <= Outputs THEN EachChannel[i] ELSE last[i - Outputs]
    BY <1>2, <1>3, ConcatProperties
  <2>2. QED
    BY <1>3, <2>1, Sizes
<1>6. Calls = EachChannel \o last
  BY DEF Calls, last
<1>7. QED
  BY <1>4, <1>5, <1>6

LEMMA NextPlace ==
  ASSUME NEW n \in Nat, NEW k \in 1 .. n
  PROVE  (k + 1) % (n + 1) = IF k = n THEN 0 ELSE k + 1
<1>1. CASE k = n
  BY <1>1
<1>2. CASE k # n
  BY <1>2
<1>3. QED
  BY <1>1, <1>2

LEMMA CallEffect ==
  ASSUME TypeOK, Call
  PROVE  \/ /\ control \in 1 .. Outputs /\ control' = control + 1
            /\ Calls[control] = EachChannel[control] /\ Calls[control] # <<"sync">>
         \/ /\ control = Outputs + 1 /\ control' = 0
            /\ Calls[control] = <<"sync">>
<1>1. control \in 1 .. Outputs + 1 /\ control' = (control + 1) % (Outputs + 2)
  BY CallOrder, Sizes DEF Call, TypeOK
<1>2. control' = IF control = Outputs + 1 THEN 0 ELSE control + 1
  BY <1>1, Sizes, NextPlace
<1>3. QED
  BY <1>1, <1>2, CallOrder, Sizes

(* What a width computed now looks like. *)
LEMMA ColumnFacts ==
  ASSUME NEW mode \in Modes
  PROVE  /\ DOMAIN ColumnOf(mode) = 1 .. RowsOf(mode)
         /\ RowsOf(mode) \in 1 .. DshotRows
         /\ 1 .. RowsOf(mode) \subseteq Rows
         /\ \A r \in 1 .. RowsOf(mode) :
              ColumnOf(mode)[r] = Off \/ ColumnOf(mode)[r] = [mode |-> mode, age |-> 0]
         /\ mode \in Shots => ColumnOf(mode)[RowsOf(mode)] = Off
         /\ mode \notin Shots => RowsOf(mode) = 1
<1>1. CASE mode \in {"50HZ", "400HZ"}
  <2>1. ColumnOf(mode) = <<[mode |-> mode, age |-> 0]>> /\ RowsOf(mode) = 1
    BY <1>1 DEF ColumnOf, RowsOf
  <2>2. 1 .. 1 \subseteq Rows /\ 1 \in 1 .. DshotRows
    BY RowsAssumption DEF Rows
  <2>3. mode \notin Shots
    BY <1>1 DEF Shots
  <2>4. \A r \in 1 .. 1 : r = 1
    OBVIOUS
  <2>5. QED
    BY <2>1, <2>2, <2>3, <2>4
<1>2. CASE mode = "ONESHOT"
  <2>1. ColumnOf(mode) = <<[mode |-> mode, age |-> 0], Off>> /\ RowsOf(mode) = 2
    BY <1>2 DEF ColumnOf, RowsOf
  <2>2. 1 .. 2 \subseteq Rows /\ 2 \in 1 .. DshotRows
    BY RowsAssumption DEF Rows
  <2>3. mode \in Shots
    BY <1>2 DEF Shots
  <2>4. QED
    BY <2>1, <2>2, <2>3
<1>3. CASE mode = "DSHOT"
  <2>1. /\ ColumnOf(mode) = [r \in Rows |-> IF r = DshotRows THEN Off
                                           ELSE [mode |-> mode, age |-> 0]]
        /\ RowsOf(mode) = DshotRows /\ mode \in Shots
    BY <1>3 DEF ColumnOf, RowsOf, Shots
  <2>2. QED
    BY <2>1, RowsAssumption DEF Rows
<1>4. QED
  BY <1>1, <1>2, <1>3 DEF Modes

(* No column is longer than the buffer, and that of no mode is empty. *)
LEMMA AnyColumn ==
  ASSUME NEW mode \in ModeBytes
  PROVE  /\ DOMAIN ColumnOf(mode) \subseteq Rows
         /\ RowsOf(mode) \in 1 .. DshotRows
         /\ \A r \in DOMAIN ColumnOf(mode) :
              /\ ColumnOf(mode)[r] \in Width
              /\ ColumnOf(mode)[r].mode = "off" \/ ColumnOf(mode)[r].age = 0
<1>1. CASE mode \in Modes
  <2>1. [mode |-> mode, age |-> 0] \in Width
    BY <1>1 DEF Width, Old
  <2>2. Off \in Width /\ Off.mode = "off"
    BY DEF Off, Width, Old
  <2>3. QED
    BY <1>1, <2>1, <2>2, ColumnFacts
<1>2. CASE mode = "OTHER"
  <2>1. ColumnOf(mode) = <<>> /\ RowsOf(mode) = DshotRows
    BY <1>2 DEF ColumnOf, RowsOf
  <2>2. DOMAIN ColumnOf(mode) = {}
    BY <2>1
  <2>3. QED
    BY <2>1, <2>2, RowsAssumption
<1>3. QED
  BY <1>1, <1>2 DEF ModeBytes

LEMMA FirstRow ==
  ASSUME NEW mode \in Modes
  PROVE  /\ 1 \in DOMAIN ColumnOf(mode)
         /\ ColumnOf(mode)[1].mode = "off" \/ ColumnOf(mode)[1].age = 0
<1>1. DOMAIN ColumnOf(mode) = 1 .. RowsOf(mode) /\ RowsOf(mode) \in 1 .. DshotRows
  BY ColumnFacts
<1>2. 1 \in 1 .. RowsOf(mode)
  BY <1>1, RowsAssumption
<1>3. mode \in ModeBytes
  BY DEF ModeBytes
<1>4. QED
  BY <1>1, <1>2, <1>3, AnyColumn

LEMMA OlderFacts ==
  ASSUME NEW w \in Width
  PROVE  /\ Older(w) \in Width
         /\ Older(w).mode = w.mode
         /\ w.mode = "off" => Older(w) = w
         /\ (w.mode # "off" /\ w.age = 0) => Older(w).age = 1
  BY DEF Older, Width, Old

LEMMA OffIsWidth == Off \in Width /\ Off.mode = "off"
  BY DEF Off, Width, Old
-----------------------------------------------------------------------------
LEMMA InitInv == Init => Inv
<1> SUFFICES ASSUME Init PROVE Inv
  OBVIOUS
<1>1. settings \in [Banks -> ModeBytes]
  BY SettingsAssumption DEF Init
<1>2. TypeOK
  BY <1>1, OffIsWidth, RowsAssumption, Sizes DEF Init, TypeOK, Frame
<1>3. \A b \in Banks : ~Sending(b) /\ frame[b].widths = {}
  BY DEF Init, Sending
<1>4. TimersStopped
  BY DEF Init, TimersStopped
<1>5. SendingWhole
  BY <1>3 DEF SendingWhole
<1>6. FilledSoFar
  BY DEF Init, FilledSoFar
<1>7. FirstRowFresh
  BY CallsAChannel, <1>3 DEF FirstRowFresh
<1>8. FrameIsOnePacket
  BY <1>3 DEF FrameIsOnePacket, Widths, Old
<1>9. AtRest /\ InForce
  BY DEF Init, AtRest, InForce
<1>10. QED
  BY <1>2, <1>4, <1>5, <1>6, <1>7, <1>8, <1>9 DEF Inv

(* The next bank, or the end of the loop. *)
LEMMA AfterBank ==
  ASSUME NEW place \in {"stop", "start"}, NEW b \in Banks
  PROVE  /\ After(place, b) \in {<<"idle">>} \cup ({"stop", "start"} \X Banks)
         /\ \A i \in Banks : After(place, b) = <<"stop", i>> => (place = "stop" /\ i = b + 1)
         /\ \A i \in Banks : After(place, b) = <<"start", i>> =>
              \/ place = "start" /\ i = b + 1
              \/ place = "stop" /\ \A j \in Banks : j <= b
<1>1. Banks = 1 .. Cardinality(Banks) /\ Cardinality(Banks) \in Nat
  BY BankAssumption, Sizes
<1>2. CASE b + 1 \in Banks
  BY <1>2 DEF After
<1>3. CASE b + 1 \notin Banks
  <2>1. 1 \in Banks /\ \A j \in Banks : j <= b
    BY <1>1, <1>3
  <2>2. QED
    BY <1>3, <2>1 DEF After
<1>4. QED
  BY <1>2, <1>3

(* A command starts the timers one after the other. *)
LEMMA InForceStep == ASSUME TypeOK, InForce, [Next]_vars PROVE InForce'
<1>1. CASE UNCHANGED <<settings, timer, parser>>
  BY <1>1 DEF InForce
<1>2. CASE Command
  <2>1. parser' = <<"stop", 1>>
    BY <1>2 DEF Command, Parse
  <2>2. QED
    BY <2>1 DEF InForce
<1>3. ASSUME NEW k \in Banks, StopTimer(k) PROVE InForce'
  <2>1. parser' = After("stop", k)
    BY <1>3 DEF StopTimer, Parse
  <2>2. parser' = <<"stop", k + 1>> \/ parser' = <<"start", 1>>
    BY <2>1 DEF After
  <2>3. \A b \in Banks : ~(b < 1)
    BY BankAssumption, Sizes
  <2>4. QED
    BY <2>2, <2>3 DEF InForce
<1>4. ASSUME NEW k \in Banks, StartTimer(k) PROVE InForce'
  <2>1. /\ parser = <<"start", k>> /\ parser' = After("start", k)
        /\ timer' = [timer EXCEPT ![k] = settings[k]] /\ settings' = settings
    BY <1>4 DEF StartTimer, Parse, ModeOf
  <2>2. \A b \in Banks : b < k => timer[b] = settings[b]
    BY <2>1 DEF InForce
  <2>3. \A b \in Banks : b <= k => timer'[b] = settings'[b]
    <3>1. \A b \in Banks : b \in Int
      BY BankAssumption, Sizes
    <3>2. timer'[k] = settings'[k] /\ \A b \in Banks : b # k => timer'[b] = timer[b]
      BY <2>1 DEF TypeOK
    <3>3. QED
      BY <2>1, <2>2, <3>1, <3>2
  <2>4. CASE k + 1 \in Banks
    <3>1. parser' = <<"start", k + 1>>
      BY <2>1, <2>4 DEF After
    <3>2. \A b \in Banks : b < k + 1 => b <= k
      BY BankAssumption, Sizes
    <3>3. QED
      BY <2>3, <3>1, <3>2 DEF InForce
  <2>5. CASE k + 1 \notin Banks
    <3>1. \A b \in Banks : b <= k
      BY <2>5, BankAssumption, Sizes
    <3>2. QED
      BY <2>3, <3>1 DEF InForce
  <2>6. QED
    BY <2>4, <2>5
<1>5. QED
  BY <1>1, <1>2, <1>3, <1>4
  DEF Next, Control, TimerInit, BeginCycle, SetChannelWidth, Sync, Burst, vars

(* A new cycle finds no frame of a shot mode under way. *)
LEMMA CycleKeeps == ASSUME Inv, BeginCycle PROVE Inv'
<1> USE DEF Inv
<1>1. TypeOK'
  <2>1. \A w \in Width : Older(w) \in Width
    BY OlderFacts
  <2>2. buffer' \in [Banks -> [Rows -> [Channels -> Width]]]
    BY <2>1 DEF TypeOK, BeginCycle, AllOlder
  <2>3. ccr' \in [Banks -> [Channels -> Width]] /\ out' \in [Banks -> [Channels -> Width]]
    BY <2>1 DEF TypeOK, BeginCycle, AllOlder
  <2>4. frame' \in [Banks -> Frame]
    <3>1. \A b \in Banks : {Older(w) : w \in frame[b].widths} \in SUBSET Width
      BY <2>1 DEF TypeOK, Frame
    <3>2. frame' = [b \in Banks |-> [frame[b] EXCEPT !.widths = {Older(w) : w \in @}]]
      BY DEF BeginCycle
    <3>3. \A b \in Banks : [frame[b] EXCEPT !.widths = {Older(w) : w \in @}] \in Frame
      <4>1. SUFFICES ASSUME NEW b \in Banks
                     PROVE  [frame[b] EXCEPT !.widths = {Older(w) : w \in @}] \in Frame
        OBVIOUS
      <4> DEFINE W == {Older(w) : w \in frame[b].widths}
      <4>2. W \in SUBSET Width /\ frame[b] \in Frame
        BY <3>1 DEF TypeOK
      <4> HIDE DEF W
      <4>3. [frame[b] EXCEPT !.widths = W] \in Frame
        BY <4>2 DEF Frame
      <4>4. QED
        BY <4>3 DEF W
    <3>4. QED
      BY <3>2, <3>3
  <2>5. control' \in 0 .. Outputs + 1
    BY Sizes DEF BeginCycle
  <2>6. QED
    BY <2>2, <2>3, <2>4, <2>5 DEF TypeOK, BeginCycle
<1>2. TimersStopped'
  BY DEF TimersStopped, BeginCycle
<1>3. \A b \in Banks : Sending(b)' = Sending(b)
  BY DEF Sending, BeginCycle
<1>4. \A b \in Banks : frame'[b].mode = frame[b].mode /\ frame'[b].cut = frame[b].cut
                        /\ frame'[b].widths = {Older(w) : w \in frame[b].widths}
  BY DEF BeginCycle, TypeOK, Frame
<1>5. \A b \in Banks : Sending(b) /\ ~frame[b].cut => frame[b].mode \notin Shots
  BY DEF SendingWhole, BeginCycle, InTime, Shots
<1>6. SendingWhole'
  <2>1. timer' = timer /\ dma' = dma
    BY DEF BeginCycle
  <2>2. QED
    BY <1>3, <1>4, <1>5, <2>1 DEF SendingWhole
<1>7. FilledSoFar'
  BY DEF FilledSoFar, BeginCycle
<1>8. FirstRowFresh'
  <2>1. SUFFICES ASSUME NEW k \in 1 .. Outputs, Sending(EachChannel[k][1]),
                        ~frame[EachChannel[k][1]].cut,
                        {frame[EachChannel[k][1]].mode, settings[EachChannel[k][1]]}
                          \subseteq Modes
                 PROVE  LET w == buffer'[EachChannel[k][1]][1][EachChannel[k][2]]
                        IN  w.mode = "off" \/ w.age = 0
                              \/ (w.age = 1 /\ 0 < control' /\ control' <= k)
    <3>1. \A k \in 1 .. Outputs : EachChannel[k][1] \in Banks
      BY CallsAChannel
    <3>2. settings' = settings
      BY DEF BeginCycle
    <3>3. QED
      BY <1>3, <1>4, <3>1, <3>2 DEF FirstRowFresh
  <2> DEFINE w == buffer[EachChannel[k][1]][1][EachChannel[k][2]]
  <2>2. EachChannel[k][1] \in Banks /\ EachChannel[k][2] \in Channels /\ 1 \in Rows
    BY CallsAChannel, RowsAssumption DEF Rows
  <2>3. w \in Width /\ (w.mode = "off" \/ w.age = 0)
    BY <2>1, <2>2 DEF TypeOK, FirstRowFresh, BeginCycle
  <2>4. buffer'[EachChannel[k][1]][1][EachChannel[k][2]] = Older(w)
    BY <2>2 DEF BeginCycle, AllOlder
  <2>5. control' = 1
    BY DEF BeginCycle
  <2> HIDE DEF w
  <2>6. QED
    BY <2>3, <2>4, <2>5, OlderFacts
<1>9. FrameIsOnePacket'
  <2>1. SUFFICES ASSUME NEW b \in Banks, ~frame[b].cut, frame[b].mode \in Shots
                 PROVE  \E age \in 0 .. Old :
                          Widths(b)' \subseteq {[mode |-> frame[b].mode, age |-> age]}
    BY <1>4 DEF FrameIsOnePacket
  <2>2. PICK age \in 0 .. Old : Widths(b) \subseteq {[mode |-> frame[b].mode, age |-> age]}
    BY <2>1 DEF FrameIsOnePacket
  <2>3. Older(Off) = Off
    BY OffIsWidth, OlderFacts
  <2>4. \A w \in frame[b].widths : Older(w) = Off
                                  \/ Older(w) = Older([mode |-> frame[b].mode, age |-> age])
    BY <2>2, <2>3 DEF Widths
  <2>5. Widths(b)' \subseteq {Older([mode |-> frame[b].mode, age |-> age])}
    BY <1>4, <2>4 DEF Widths
  <2>6. \E later \in 0 .. Old : Older([mode |-> frame[b].mode, age |-> age])
                                  = [mode |-> frame[b].mode, age |-> later]
    BY <2>1 DEF Older, Old, Shots
  <2>7. QED
    BY <2>5, <2>6
<1>10. AtRest' /\ InForce'
  <2>1. SUFFICES ASSUME NEW b \in Banks, frame[b].mode \in Shots, ~frame[b].cut, ~Sending(b),
                        NEW c \in Channels
                 PROVE  ccr'[b][c] = Off /\ out'[b][c] = Off
    BY <1>3, <1>4 DEF AtRest, InForce, BeginCycle
  <2>2. ccr[b][c] = Off
    BY <2>1 DEF AtRest
  <2>3. out[b] = ccr[b]
    BY <2>1 DEF BeginCycle, InTime, Shots
  <2>4. Older(Off) = Off
    BY OffIsWidth, OlderFacts
  <2>5. QED
    BY <2>2, <2>3, <2>4 DEF BeginCycle, AllOlder
<1>11. QED
  BY <1>1, <1>2, <1>6, <1>7, <1>8, <1>9, <1>10

(* A channel is filled: no shot frame is under way, for the cycle goes on. *)
LEMMA FillKeeps == ASSUME Inv, SetChannelWidth PROVE Inv'
<1> USE DEF Inv
<1> DEFINE bank == EachChannel[control][1]
           chan == EachChannel[control][2]
           column == ColumnOf(settings[bank])
<1>1. /\ control \in 1 .. Outputs /\ control' = control + 1
      /\ Calls[control] = EachChannel[control]
  BY CallEffect DEF SetChannelWidth
<1>2. bank \in Banks /\ chan \in Channels
  BY <1>1, CallsAChannel
<1>3. buffer' = [buffer EXCEPT ![bank] = SetColumn(@, chan, column)]
  BY <1>1 DEF SetChannelWidth, Fill
<1>4. settings[bank] \in ModeBytes
  BY <1>2 DEF TypeOK
<1>5. /\ DOMAIN column \subseteq Rows
      /\ settings[bank] \in Modes => 1 \in DOMAIN column
      /\ \A r \in DOMAIN column :
           column[r] \in Width /\ (column[r].mode = "off" \/ column[r].age = 0)
  <2>1. settings[bank] \in Modes => 1 \in DOMAIN column
    BY FirstRow
  <2>2. QED
    BY <1>4, <2>1, AnyColumn
<1> HIDE DEF column, bank, chan
<1>6. /\ \A b \in Banks \ {bank} : buffer'[b] = buffer[b]
      /\ \A r \in Rows, c \in Channels :
           buffer'[bank][r][c] = IF c = chan /\ r \in DOMAIN column THEN column[r]
                                ELSE buffer[bank][r][c]
  BY <1>2, <1>3 DEF TypeOK, SetColumn
<1>7. UNCHANGED <<settings, timer, dma, ccr, out, parser, frame>>
  BY DEF SetChannelWidth
<1>8. TypeOK'
  <2>1. SetColumn(buffer[bank], chan, column) \in [Rows -> [Channels -> Width]]
    BY <1>2, <1>5 DEF TypeOK, SetColumn
  <2>2. buffer' \in [Banks -> [Rows -> [Channels -> Width]]]
    BY <1>2, <1>3, <2>1 DEF TypeOK
  <2>3. control' \in 0 .. Outputs + 1
    BY <1>1, Sizes
  <2>4. QED
    BY <1>7, <2>2, <2>3 DEF TypeOK
<1>9. TimersStopped'
  BY <1>7 DEF TimersStopped
<1>10. \A b \in Banks : Sending(b)' = Sending(b) /\ Widths(b)' = Widths(b)
  BY <1>7 DEF Sending, Widths
<1>11. SendingWhole'
  BY <1>1, <1>7, <1>10 DEF SendingWhole
<1>12. FilledSoFar'
  <2>1. SUFFICES ASSUME NEW k \in 1 .. Outputs, k < control',
                        NEW r \in DOMAIN ColumnOf(settings[EachChannel[k][1]])
                 PROVE  buffer'[EachChannel[k][1]][r][EachChannel[k][2]]
                          = ColumnOf(settings[EachChannel[k][1]])[r]
    BY <1>7 DEF FilledSoFar, Filled
  <2>2. EachChannel[k][1] \in Banks /\ EachChannel[k][2] \in Channels /\ r \in Rows
    BY <2>1, CallsAChannel, AnyColumn DEF TypeOK
  <2>3. CASE k = control
    BY <1>5, <1>6, <2>1, <2>2, <2>3 DEF bank, chan, column
  <2>4. CASE k # control
    <3>1. k < control /\ control > 0
      BY <1>1, <2>1, <2>4
    <3>2. buffer[EachChannel[k][1]][r][EachChannel[k][2]]
            = ColumnOf(settings[EachChannel[k][1]])[r]
      BY <2>1, <3>1 DEF FilledSoFar, Filled
    <3>3. CASE EachChannel[k][1] = bank /\ EachChannel[k][2] = chan
      BY <1>5, <1>6, <2>1, <2>2, <3>2, <3>3 DEF column
    <3>4. CASE ~(EachChannel[k][1] = bank /\ EachChannel[k][2] = chan)
      BY <1>6, <2>2, <3>2, <3>4
    <3>5. QED
      BY <3>3, <3>4
  <2>5. QED
    BY <2>3, <2>4
<1>13. FirstRowFresh'
  <2>1. SUFFICES ASSUME NEW k \in 1 .. Outputs, Sending(EachChannel[k][1]),
                        ~frame[EachChannel[k][1]].cut,
                        {frame[EachChannel[k][1]].mode, settings[EachChannel[k][1]]}
                          \subseteq Modes
                 PROVE  LET w == buffer'[EachChannel[k][1]][1][EachChannel[k][2]]
                        IN  w.mode = "off" \/ w.age = 0
                              \/ (w.age = 1 /\ 0 < control' /\ control' <= k)
    BY <1>7, <1>10, CallsAChannel DEF FirstRowFresh
  <2>2. EachChannel[k][1] \in Banks /\ EachChannel[k][2] \in Channels /\ 1 \in Rows
    BY CallsAChannel, RowsAssumption DEF Rows
  <2>3. CASE EachChannel[k][1] = bank /\ EachChannel[k][2] = chan
    BY <1>5, <1>6, <2>1, <2>2, <2>3
  <2>4. CASE ~(EachChannel[k][1] = bank /\ EachChannel[k][2] = chan)
    <3>1. k # control
      BY <2>4 DEF bank, chan
    <3>2. buffer'[EachChannel[k][1]][1][EachChannel[k][2]]
            = buffer[EachChannel[k][1]][1][EachChannel[k][2]]
      BY <1>6, <2>2, <2>4
    <3>3. QED
      BY <1>1, <2>1, <3>1, <3>2 DEF FirstRowFresh
  <2>5. QED
    BY <2>3, <2>4
<1>14. FrameIsOnePacket'
  BY <1>7, <1>10 DEF FrameIsOnePacket
<1>15. AtRest' /\ InForce'
  BY <1>1, <1>7, <1>10 DEF AtRest, InForce
<1>16. QED
  BY <1>8, <1>9, <1>11, <1>12, <1>13, <1>14, <1>15

(* A frame begins, of the mode set and with all channels filled for it. *)
LEMMA SyncKeeps == ASSUME Inv, Sync PROVE Inv'
<1> USE DEF Inv
<1>1. control = Outputs + 1 /\ control' = 0
  BY CallEffect DEF Sync
<1>2. UNCHANGED <<settings, timer, buffer, ccr, parser>>
  BY DEF Sync
<1>3. \A b \in Banks : Sending(b) => dma'[b] = dma[b] /\ frame'[b] = frame[b]
  BY DEF Sync
<1>4. \A b \in Banks : ~Sending(b) =>
        /\ dma'[b] = [next |-> 1, size |-> PayloadSize(settings, b)]
        /\ frame'[b] = [mode |-> settings[b], widths |-> {}, cut |-> timer[b] # settings[b]]
  BY DEF Sync
<1>5. \A b \in Banks : PayloadSize(settings, b) = RowsOf(settings[b])
                         /\ RowsOf(settings[b]) \in 1 .. DshotRows
  BY AnyColumn DEF PayloadSize, RowsOf, TypeOK
<1>6. TypeOK'
  <2>1. ASSUME NEW b \in Banks
        PROVE  /\ dma'[b] \in [next : 1 .. DshotRows + 1, size : 0 .. DshotRows]
               /\ dma'[b].next <= dma'[b].size + 1
               /\ frame'[b] \in Frame
    <3>1. CASE Sending(b)
      BY <1>3, <3>1 DEF TypeOK
    <3>2. CASE ~Sending(b)
      <4> DEFINE n == PayloadSize(settings, b)
      <4>1. n \in 1 .. DshotRows
        BY <1>5
      <4>2. settings[b] \in ModeBytes /\ (timer[b] # settings[b]) \in BOOLEAN
        BY DEF TypeOK
      <4>3. /\ dma'[b] = [next |-> 1, size |-> n]
            /\ frame'[b] = [mode |-> settings[b], widths |-> {}, cut |-> timer[b] # settings[b]]
        BY <1>4, <3>2
      <4> HIDE DEF n
      <4>4. /\ dma'[b] \in [next : 1 .. DshotRows + 1, size : 0 .. DshotRows]
            /\ dma'[b].next <= dma'[b].size + 1
        BY <4>1, <4>3, RowsAssumption
      <4>5. frame'[b] \in Frame
        BY <4>2, <4>3 DEF Frame
      <4>6. QED
        BY <4>4, <4>5
    <3>3. QED
      BY <3>1, <3>2
  <2>3. dma' \in [Banks -> [next : 1 .. DshotRows + 1, size : 0 .. DshotRows]]
    BY <2>1 DEF Sync
  <2>4. frame' \in [Banks -> Frame]
    BY <2>1 DEF Sync
  <2>5. out' \in [Banks -> [Channels -> Width]]
    BY DEF Sync, TypeOK
  <2>6. QED
    BY <1>1, <1>2, <2>1, <2>3, <2>4, <2>5, Sizes DEF TypeOK
<1>7. TimersStopped'
  BY <1>2 DEF TimersStopped
<1>8. \A b \in Banks : Sending(b) => Sending(b)' /\ Widths(b)' = Widths(b)
  BY <1>3 DEF Sending, Widths
<1>9. \A b \in Banks : ~Sending(b) => Sending(b)' /\ Widths(b)' = {}
  <2>1. SUFFICES ASSUME NEW b \in Banks, ~Sending(b)
                 PROVE  Sending(b)' /\ Widths(b)' = {}
    OBVIOUS
  <2> DEFINE n == PayloadSize(settings, b)
  <2>2. n \in 1 .. DshotRows
    BY <1>5
  <2> DEFINE q == timer[b] # settings[b]
  <2>3. /\ dma'[b] = [next |-> 1, size |-> n]
        /\ frame'[b] = [mode |-> settings[b], widths |-> {}, cut |-> q]
    BY <1>4, <2>1
  <2> HIDE DEF n, q
  <2>4. dma'[b].next <= dma'[b].size
    BY <2>2, <2>3, RowsAssumption
  <2>5. QED
    BY <2>3, <2>4 DEF Sending, Widths
<1>10. \A b \in Banks, c \in Channels : Filled(buffer[b], settings[b], c)
  <2>1. SUFFICES ASSUME NEW b \in Banks, NEW c \in Channels
                 PROVE  Filled(buffer[b], settings[b], c)
    OBVIOUS
  <2>2. PICK k \in 1 .. Outputs : EachChannel[k] = <<b, c>>
    BY CallsEveryChannel
  <2>3. QED
    BY <1>1, <2>2, Sizes DEF FilledSoFar
<1>11. SendingWhole'
  <2>1. SUFFICES ASSUME NEW b \in Banks, ~frame'[b].cut
                 PROVE  /\ timer[b] = frame'[b].mode
                        /\ dma'[b].size = RowsOf(frame'[b].mode)
                        /\ frame'[b].mode \in Shots =>
                             /\ \A c \in Channels : Filled(buffer[b], frame'[b].mode, c)
                             /\ Widths(b)' \subseteq {[mode |-> frame'[b].mode, age |-> 0]}
    BY <1>1, <1>2 DEF SendingWhole
  <2>2. CASE Sending(b)
    BY <1>3, <1>8, <2>1, <2>2 DEF SendingWhole
  <2>3. CASE ~Sending(b)
    <3>1. frame'[b].mode = settings[b] /\ timer[b] = settings[b]
            /\ dma'[b].size = RowsOf(settings[b])
      <4> DEFINE m == settings[b]
                 n == PayloadSize(settings, b)
                 q == timer[b] # m
      <4>1. n = RowsOf(m)
        BY <1>5
      <4>2. /\ dma'[b] = [next |-> 1, size |-> n]
            /\ frame'[b] = [mode |-> m, widths |-> {}, cut |-> q]
        BY <1>4, <2>3
      <4>3. ~q => timer[b] = m
        OBVIOUS
      <4> HIDE DEF n, m, q
      <4>4. frame'[b].mode = m /\ dma'[b].size = RowsOf(m) /\ frame'[b].cut = q
        BY <4>1, <4>2
      <4>5. timer[b] = m
        BY <2>1, <4>3, <4>4
      <4>6. QED
        BY <4>4, <4>5 DEF m
    <3>2. QED
      BY <1>9, <1>10, <2>3, <3>1
  <2>4. QED
    BY <2>2, <2>3
<1>12. FilledSoFar'
  BY <1>1 DEF FilledSoFar
<1>13. FirstRowFresh'
  <2>1. SUFFICES ASSUME NEW k \in 1 .. Outputs,
                        {frame'[EachChannel[k][1]].mode, settings[EachChannel[k][1]]}
                          \subseteq Modes
                 PROVE  LET w == buffer[EachChannel[k][1]][1][EachChannel[k][2]]
                        IN  w.mode = "off" \/ w.age = 0
    BY <1>1, <1>2 DEF FirstRowFresh
  <2> DEFINE b == EachChannel[k][1]
             c == EachChannel[k][2]
  <2>2. b \in Banks /\ c \in Channels /\ settings[b] \in Modes
    BY <2>1, CallsAChannel
  <2>3. Filled(buffer[b], settings[b], c)
    BY <1>10, <2>2
  <2>4. /\ 1 \in DOMAIN ColumnOf(settings[b])
        /\ ColumnOf(settings[b])[1].mode = "off" \/ ColumnOf(settings[b])[1].age = 0
    BY <2>2, FirstRow
  <2>5. QED
    BY <2>3, <2>4 DEF Filled
<1>14. FrameIsOnePacket'
  <2>1. SUFFICES ASSUME NEW b \in Banks, ~frame'[b].cut, frame'[b].mode \in Shots
                 PROVE  \E age \in 0 .. Old :
                          Widths(b)' \subseteq {[mode |-> frame'[b].mode, age |-> age]}
    BY DEF FrameIsOnePacket
  <2>2. CASE Sending(b)
    BY <1>3, <1>8, <2>1, <2>2 DEF FrameIsOnePacket
  <2>3. CASE ~Sending(b)
    BY <1>9, <2>3 DEF Old
  <2>4. QED
    BY <2>2, <2>3
<1>15. AtRest' /\ InForce'
  BY <1>1, <1>2, <1>3, <1>8, <1>9 DEF AtRest, InForce
<1>16. QED
  BY <1>6, <1>7, <1>11, <1>12, <1>13, <1>14, <1>15

(* No row is moved: what the registers hold takes effect. *)
LEMMA IdleBurstKeeps == ASSUME Inv, NEW b \in Banks, Burst(b), ~Sending(b) PROVE Inv'
<1> USE DEF Inv
<1>1. /\ out' = [out EXCEPT ![b] = ccr[b]]
      /\ UNCHANGED <<settings, timer, buffer, dma, ccr, control, parser, frame>>
  BY DEF Burst
<1>2. \A i \in Banks : Sending(i)' = Sending(i) /\ Widths(i)' = Widths(i)
  BY <1>1 DEF Sending, Widths
<1>3. TypeOK'
  BY <1>1 DEF TypeOK
<1>4. TimersStopped' /\ SendingWhole' /\ FrameIsOnePacket' /\ InForce'
  BY <1>1, <1>2 DEF TimersStopped, SendingWhole, FrameIsOnePacket, InForce
<1>5. FilledSoFar' /\ FirstRowFresh'
  BY <1>1, <1>2, CallsAChannel DEF FilledSoFar, FirstRowFresh
<1>6. AtRest'
  BY <1>1, <1>2 DEF AtRest, TypeOK
<1>7. QED
  BY <1>3, <1>4, <1>5, <1>6

(* A row is moved: a computed width or, after the last width, off. *)
LEMMA RowMovedKeeps == ASSUME Inv, NEW b \in Banks, Burst(b), Sending(b) PROVE Inv'
<1> USE DEF Inv
<1> DEFINE n == dma[b].next
           row == buffer[b][n]
           sent == {row[c] : c \in Channels}
<1>1. n \in 1 .. dma[b].size /\ dma[b].size \in 1 .. DshotRows /\ n \in Rows
  BY RowsAssumption DEF Burst, Sending, TypeOK, Rows
<1>2. row \in [Channels -> Width] /\ sent \in SUBSET Width
  BY <1>1 DEF TypeOK
<1>3. /\ ccr' = [ccr EXCEPT ![b] = row]
      /\ frame' = [frame EXCEPT ![b].widths = @ \cup sent]
      /\ dma' = [dma EXCEPT ![b].next = @ + 1]
      /\ out' = [out EXCEPT ![b] = ccr[b]]
      /\ UNCHANGED <<settings, timer, buffer, control, parser>>
  BY DEF Burst
<1> HIDE DEF n, row, sent
<1>4. /\ ccr'[b] = row
      /\ frame'[b].mode = frame[b].mode /\ frame'[b].cut = frame[b].cut
      /\ frame'[b].widths = frame[b].widths \cup sent
      /\ dma'[b].next = n + 1 /\ dma'[b].size = dma[b].size
      /\ Sending(b)
  BY <1>3 DEF TypeOK, Frame, Burst, n
<1>5. \A i \in Banks \ {b} : /\ ccr'[i] = ccr[i] /\ out'[i] = out[i]
                            /\ frame'[i] = frame[i] /\ dma'[i] = dma[i]
  BY <1>3 DEF TypeOK
<1>6. \A i \in Banks \ {b} : Sending(i)' = Sending(i) /\ Widths(i)' = Widths(i)
  BY <1>5 DEF Sending, Widths
<1>7. TypeOK'
  <2>1. frame'[b] \in Frame /\ frame' = [i \in Banks |-> frame'[i]]
    BY <1>2, <1>3 DEF TypeOK, Frame
  <2>2. frame' \in [Banks -> Frame]
    BY <1>5, <2>1 DEF TypeOK
  <2>3. ccr' \in [Banks -> [Channels -> Width]]
    BY <1>2, <1>3 DEF TypeOK
  <2>4. dma' \in [Banks -> [next : 1 .. DshotRows + 1, size : 0 .. DshotRows]]
    <3>1. n + 1 \in 1 .. DshotRows + 1
      BY <1>1, RowsAssumption
    <3>2. dma' = [dma EXCEPT ![b].next = n + 1]
      BY <1>3 DEF n
    <3>3. QED
      BY <3>1, <3>2 DEF TypeOK
  <2>5. ASSUME NEW i \in Banks PROVE dma'[i].next <= dma'[i].size + 1
    <3>1. CASE i = b
      <4>1. n <= dma[b].size /\ n \in Int /\ dma[b].size \in Int
        BY <1>1
      <4>2. QED
        BY <1>4, <3>1, <4>1
    <3>2. CASE i # b
      BY <1>5, <3>2 DEF TypeOK
    <3>3. QED
      BY <3>1, <3>2
  <2>6. out' \in [Banks -> [Channels -> Width]]
    BY <1>3 DEF TypeOK
  <2>7. QED
    BY <1>3, <2>2, <2>3, <2>4, <2>5, <2>6 DEF TypeOK
<1>8. TimersStopped' /\ InForce'
  BY <1>3 DEF TimersStopped, InForce
<1>9. FilledSoFar' /\ FirstRowFresh'
  <2>1. \A i \in Banks : /\ Sending(i)' => Sending(i)
                        /\ frame'[i].mode = frame[i].mode /\ frame'[i].cut = frame[i].cut
    BY <1>4, <1>5, <1>6
  <2>2. FirstRowFresh'
    BY <1>3, <2>1, CallsAChannel DEF FirstRowFresh
  <2>3. QED
    BY <1>3, <2>2 DEF FilledSoFar
<1>10. ASSUME ~frame[b].cut, frame[b].mode \in Shots
       PROVE  /\ sent \ {Off} \subseteq {[mode |-> frame[b].mode, age |-> 0]}
              /\ n = dma[b].size => \A c \in Channels : row[c] = Off
              /\ Widths(b) \subseteq {[mode |-> frame[b].mode, age |-> 0]}
  <2>1. /\ dma[b].size = RowsOf(frame[b].mode)
        /\ \A c \in Channels : Filled(buffer[b], frame[b].mode, c)
        /\ Widths(b) \subseteq {[mode |-> frame[b].mode, age |-> 0]}
    BY <1>4, <1>10 DEF SendingWhole
  <2>2. frame[b].mode \in Modes
    BY <1>10 DEF Shots, Modes
  <2>3. \A c \in Channels : row[c] = ColumnOf(frame[b].mode)[n]
    BY <1>1, <2>1, <2>2, ColumnFacts DEF Filled, row
  <2>4. \/ ColumnOf(frame[b].mode)[n] = Off
        \/ ColumnOf(frame[b].mode)[n] = [mode |-> frame[b].mode, age |-> 0]
    BY <1>1, <2>1, <2>2, ColumnFacts
  <2>5. n = dma[b].size => ColumnOf(frame[b].mode)[n] = Off
    BY <1>10, <2>1, <2>2, ColumnFacts
  <2>6. QED
    BY <2>1, <2>3, <2>4, <2>5 DEF sent
<1>11. ~frame[b].cut /\ frame[b].mode \in Shots
         => Widths(b)' \subseteq {[mode |-> frame[b].mode, age |-> 0]}
  BY <1>4, <1>10 DEF Widths
<1>12. SendingWhole'
  <2>1. SUFFICES ASSUME NEW i \in Banks, Sending(i)', ~frame'[i].cut
                 PROVE  /\ timer[i] = frame'[i].mode
                        /\ dma'[i].size = RowsOf(frame'[i].mode)
                        /\ frame'[i].mode \in Shots =>
                             /\ control = 0
                             /\ \A c \in Channels : Filled(buffer[i], frame'[i].mode, c)
                             /\ Widths(i)' \subseteq {[mode |-> frame'[i].mode, age |-> 0]}
    BY <1>3 DEF SendingWhole
  <2>2. CASE i = b
    BY <1>4, <1>11, <2>1, <2>2 DEF SendingWhole
  <2>3. CASE i # b
    BY <1>5, <1>6, <2>1, <2>3 DEF SendingWhole
  <2>4. QED
    BY <2>2, <2>3
<1>13. FrameIsOnePacket'
  <2>1. SUFFICES ASSUME NEW i \in Banks, ~frame'[i].cut, frame'[i].mode \in Shots
                 PROVE  \E age \in 0 .. Old :
                          Widths(i)' \subseteq {[mode |-> frame'[i].mode, age |-> age]}
    BY DEF FrameIsOnePacket
  <2>2. CASE i = b
    BY <1>4, <1>11, <2>1, <2>2 DEF Old
  <2>3. CASE i # b
    BY <1>5, <1>6, <2>1, <2>3 DEF FrameIsOnePacket
  <2>4. QED
    BY <2>2, <2>3
<1>14. AtRest'
  <2>1. SUFFICES ASSUME NEW i \in Banks, frame'[i].mode \in Shots, ~frame'[i].cut,
                        ~Sending(i)', NEW c \in Channels
                 PROVE  ccr'[i][c] = Off /\ (control > 0 => out'[i][c] = Off)
    BY <1>3 DEF AtRest
  <2>2. CASE i = b
    <3>1. ~(n + 1 <= dma[b].size)
      BY <1>4, <2>1, <2>2 DEF Sending
    <3>2. n = dma[b].size
      BY <1>1, <3>1
    <3>3. ccr'[b][c] = Off
      BY <1>4, <1>10, <2>1, <2>2, <3>2
    <3>4. control = 0
      BY <1>4, <2>1, <2>2 DEF SendingWhole
    <3>5. QED
      BY <2>2, <3>3, <3>4
  <2>3. CASE i # b
    BY <1>5, <1>6, <2>1, <2>3 DEF AtRest
  <2>4. QED
    BY <2>2, <2>3
<1>15. QED
  BY <1>7, <1>8, <1>9, <1>12, <1>13, <1>14

LEMMA BurstKeeps == ASSUME Inv, NEW b \in Banks, Burst(b) PROVE Inv'
  BY IdleBurstKeeps, RowMovedKeeps

(* New settings do not touch what is under way. *)
LEMMA CommandKeeps == ASSUME Inv, Command PROVE Inv'
<1> USE DEF Inv
<1>1. /\ control = 0 /\ parser = <<"idle">> /\ parser' = <<"stop", 1>>
      /\ UNCHANGED <<timer, buffer, dma, ccr, out, control, frame>>
  BY DEF Command, Parse
<1>2. settings' \in [Banks -> ModeBytes]
  BY SettingsAssumption DEF Command, TypeOK
<1>3. \A b \in Banks : Sending(b)' = Sending(b) /\ Widths(b)' = Widths(b)
  BY <1>1 DEF Sending, Widths
<1>4. SendingWhole' /\ FrameIsOnePacket' /\ AtRest'
  BY <1>1, <1>3 DEF SendingWhole, FrameIsOnePacket, AtRest
<1>5. FirstRowFresh'
  <2>1. SUFFICES ASSUME NEW k \in 1 .. Outputs, Sending(EachChannel[k][1]),
                        ~frame[EachChannel[k][1]].cut,
                        frame[EachChannel[k][1]].mode \in Modes
                 PROVE  LET w == buffer[EachChannel[k][1]][1][EachChannel[k][2]]
                        IN  w.mode = "off" \/ w.age = 0
    <3>1. \A k \in 1 .. Outputs : Sending(EachChannel[k][1])' = Sending(EachChannel[k][1])
      BY <1>3, CallsAChannel
    <3>2. QED
      BY <1>1, <3>1 DEF FirstRowFresh
  <2>2. EachChannel[k][1] \in Banks
    BY CallsAChannel
  <2>3. timer[EachChannel[k][1]] = settings[EachChannel[k][1]]
    BY <1>1, <2>2 DEF InForce
  <2>4. timer[EachChannel[k][1]] = frame[EachChannel[k][1]].mode
    BY <2>1, <2>2 DEF SendingWhole
  <2>5. {frame[EachChannel[k][1]].mode, settings[EachChannel[k][1]]} \subseteq Modes
    BY <2>1, <2>3, <2>4
  <2>6. ~(0 < control)
    BY <1>1
  <2>7. QED
    BY <2>1, <2>5, <2>6 DEF FirstRowFresh
<1>6. TimersStopped' /\ InForce' /\ FilledSoFar'
  BY <1>1, BankAssumption, Sizes DEF TimersStopped, InForce, FilledSoFar
<1>7. TypeOK'
  <2>1. <<"stop", 1>> \in {"stop", "start"} \X Banks
    BY BankAssumption, Sizes
  <2>2. QED
    BY <1>1, <1>2, <2>1 DEF TypeOK
<1>8. QED
  BY <1>4, <1>5, <1>6, <1>7

(* Stopping a timer cuts the frame under way, and its outputs go off. *)
LEMMA StopKeeps == ASSUME Inv, NEW b \in Banks, StopTimer(b) PROVE Inv'
<1> USE DEF Inv
<1>1. /\ parser = <<"stop", b>> /\ parser' = After("stop", b)
      /\ timer' = [timer EXCEPT ![b] = "stopped"]
      /\ ccr' = [ccr EXCEPT ![b] = [c \in Channels |-> Off]]
      /\ out' = [out EXCEPT ![b] = [c \in Channels |-> Off]]
      /\ UNCHANGED <<settings, buffer, dma, control>>
  BY DEF StopTimer, Parse
<1>2. /\ Sending(b) => frame'[b] = [frame[b] EXCEPT !.cut = TRUE]
      /\ ~Sending(b) => frame'[b] = frame[b]
      /\ \A i \in Banks \ {b} : frame'[i] = frame[i]
      /\ frame' = [i \in Banks |-> frame'[i]]
  BY DEF StopTimer, TypeOK
<1>3. \A i \in Banks :
        /\ Sending(i)' = Sending(i) /\ Widths(i)' = Widths(i)
        /\ frame'[i].mode = frame[i].mode
        /\ ~frame'[i].cut => ~frame[i].cut
  <2>1. SUFFICES ASSUME NEW i \in Banks
                 PROVE  /\ Sending(i)' = Sending(i) /\ Widths(i)' = Widths(i)
                        /\ frame'[i].mode = frame[i].mode
                        /\ ~frame'[i].cut => ~frame[i].cut
    OBVIOUS
  <2>2. Sending(i)' = Sending(i)
    BY <1>1 DEF Sending
  <2>3. CASE i = b /\ Sending(b)
    <3>1. frame[b] \in Frame /\ frame'[b] = [frame[b] EXCEPT !.cut = TRUE]
      BY <1>2, <2>3 DEF TypeOK
    <3>2. frame'[b].mode = frame[b].mode /\ frame'[b].widths = frame[b].widths
            /\ frame'[b].cut
      BY <3>1 DEF Frame
    <3>3. QED
      BY <2>2, <2>3, <3>2 DEF Widths
  <2>4. CASE ~(i = b /\ Sending(b))
    BY <1>2, <2>2, <2>4 DEF Widths
  <2>5. QED
    BY <2>3, <2>4
<1>4. TypeOK'
  <2>1. frame'[b] \in Frame
    <3>1. frame[b] \in Frame
      BY DEF TypeOK
    <3>2. QED
      BY <1>2, <3>1 DEF Frame
  <2>2. frame' \in [Banks -> Frame]
    BY <1>2, <2>1 DEF TypeOK
  <2>3. parser' \in {<<"idle">>} \cup ({"stop", "start"} \X Banks)
    BY <1>1, AfterBank
  <2>4. timer' \in [Banks -> ModeBytes \cup {"stopped"}]
    BY <1>1 DEF TypeOK
  <2>5. ccr' \in [Banks -> [Channels -> Width]] /\ out' \in [Banks -> [Channels -> Width]]
    BY <1>1, OffIsWidth DEF TypeOK
  <2>6. QED
    BY <1>1, <2>2, <2>3, <2>4, <2>5 DEF TypeOK
<1>5. TimersStopped'
  <2>1. SUFFICES ASSUME NEW j \in Banks, NEW i \in Banks,
                        (parser' = <<"stop", i>> /\ j < i) \/ (parser' = <<"start", i>> /\ j >= i)
                 PROVE  timer'[j] = "stopped"
    BY DEF TimersStopped
  <2>2. j <= b
    <3>1. b \in Int /\ j \in Int
      BY BankAssumption, Sizes
    <3>2. CASE parser' = <<"stop", i>> /\ j < i
      <4>1. i = b + 1
        BY <1>1, <3>2, AfterBank
      <4>2. QED
        BY <3>1, <3>2, <4>1
    <3>3. CASE parser' = <<"start", i>>
      BY <1>1, <3>3, AfterBank
    <3>4. QED
      BY <2>1, <3>2, <3>3
  <2>3. CASE j = b
    BY <1>1, <2>3 DEF TypeOK
  <2>4. CASE j # b
    <3>1. j < b
      BY <2>2, <2>4, BankAssumption, Sizes
    <3>2. timer[j] = "stopped"
      BY <1>1, <3>1 DEF TimersStopped
    <3>3. QED
      BY <1>1, <2>4, <3>2 DEF TypeOK
  <2>5. QED
    BY <2>3, <2>4
<1>6. SendingWhole'
  <2>1. SUFFICES ASSUME NEW i \in Banks, Sending(i)', ~frame'[i].cut
                 PROVE  /\ timer'[i] = frame'[i].mode
                        /\ dma'[i].size = RowsOf(frame'[i].mode)
                        /\ frame'[i].mode \in Shots =>
                             /\ control' = 0
                             /\ \A c \in Channels : Filled(buffer'[i], frame'[i].mode, c)
                             /\ Widths(i)' \subseteq {[mode |-> frame'[i].mode, age |-> 0]}
    BY DEF SendingWhole
  <2>2. Sending(i) /\ frame'[i].mode = frame[i].mode /\ Widths(i)' = Widths(i)
          /\ ~frame[i].cut
    BY <1>3, <2>1
  <2>3. i # b
    <3>1. frame[b] \in Frame
      BY DEF TypeOK
    <3>2. [frame[b] EXCEPT !.cut = TRUE].cut
      BY <3>1 DEF Frame
    <3>3. Sending(b) => frame'[b].cut
      BY <1>2, <3>2
    <3>4. QED
      BY <2>1, <2>2, <3>3
  <2>4. timer'[i] = timer[i]
    BY <1>1, <2>3 DEF TypeOK
  <2>5. /\ timer[i] = frame[i].mode
        /\ dma[i].size = RowsOf(frame[i].mode)
        /\ frame[i].mode \in Shots =>
             /\ control = 0
             /\ \A c \in Channels : Filled(buffer[i], frame[i].mode, c)
             /\ Widths(i) \subseteq {[mode |-> frame[i].mode, age |-> 0]}
    BY <2>2 DEF SendingWhole
  <2>6. QED
    BY <1>1, <2>2, <2>4, <2>5
<1>7. FilledSoFar' /\ FirstRowFresh'
  BY <1>1, <1>3, CallsAChannel DEF FilledSoFar, FirstRowFresh
<1>8. FrameIsOnePacket'
  <2>1. SUFFICES ASSUME NEW i \in Banks, ~frame'[i].cut, frame'[i].mode \in Shots
                 PROVE  \E age \in 0 .. Old :
                          Widths(i)' \subseteq {[mode |-> frame'[i].mode, age |-> age]}
    BY DEF FrameIsOnePacket
  <2>2. frame'[i].mode = frame[i].mode /\ Widths(i)' = Widths(i) /\ ~frame[i].cut
    BY <1>3, <2>1
  <2>3. QED
    BY <2>1, <2>2 DEF FrameIsOnePacket
<1>9. AtRest'
  <2>1. SUFFICES ASSUME NEW i \in Banks, frame'[i].mode \in Shots, ~frame'[i].cut,
                        ~Sending(i)', NEW c \in Channels
                 PROVE  ccr'[i][c] = Off /\ (control > 0 => out'[i][c] = Off)
    BY <1>1 DEF AtRest
  <2>2. frame[i].mode \in Shots /\ ~frame[i].cut /\ ~Sending(i)
    BY <1>3, <2>1
  <2>3. ccr[i][c] = Off /\ (control > 0 => out[i][c] = Off)
    BY <2>2 DEF AtRest
  <2>4. QED
    BY <1>1, <2>3 DEF TypeOK
<1>10. QED
  BY <1>4, <1>5, <1>6, <1>7, <1>8, <1>9, InForceStep DEF Next, TimerInit

(* A timer is started when the frame it had under way has been cut. *)
LEMMA StartKeeps == ASSUME Inv, NEW b \in Banks, StartTimer(b) PROVE Inv'
<1> USE DEF Inv
<1>1. /\ parser = <<"start", b>> /\ parser' = After("start", b)
      /\ timer' = [timer EXCEPT ![b] = ModeOf(b)]
      /\ UNCHANGED <<settings, buffer, dma, ccr, out, control, frame>>
  BY DEF StartTimer, Parse
<1>2. \A i \in Banks : Sending(i)' = Sending(i) /\ Widths(i)' = Widths(i)
  BY <1>1 DEF Sending, Widths
<1>3. timer[b] = "stopped"
  BY <1>1, BankAssumption, Sizes DEF TimersStopped
<1>4. TypeOK'
  <2>1. parser' \in {<<"idle">>} \cup ({"stop", "start"} \X Banks)
    BY <1>1, AfterBank
  <2>2. timer' \in [Banks -> ModeBytes \cup {"stopped"}]
    BY <1>1 DEF TypeOK, ModeOf
  <2>3. QED
    BY <1>1, <2>1, <2>2 DEF TypeOK
<1>5. TimersStopped'
  <2>1. SUFFICES ASSUME NEW j \in Banks, NEW i \in Banks,
                        (parser' = <<"stop", i>> /\ j < i) \/ (parser' = <<"start", i>> /\ j >= i)
                 PROVE  timer'[j] = "stopped"
    BY DEF TimersStopped
  <2>2. parser' = <<"start", i>> /\ j >= i /\ i = b + 1
    <3>1. parser' # <<"stop", i>>
      BY <1>1, AfterBank
    <3>2. QED
      BY <1>1, <2>1, <3>1, AfterBank
  <2>3. j # b /\ j >= b
    BY <2>2, BankAssumption, Sizes
  <2>4. QED
    BY <1>1, <2>3 DEF TimersStopped, TypeOK
<1>6. SendingWhole'
  <2>1. \A i \in Banks : Sending(i) /\ ~frame[i].cut => i # b
    BY <1>3 DEF SendingWhole, TypeOK, Frame, Modes, ModeBytes
  <2>2. \A i \in Banks \ {b} : timer'[i] = timer[i]
    BY <1>1 DEF TypeOK
  <2>3. QED
    BY <1>1, <1>2, <2>1, <2>2 DEF SendingWhole
<1>7. FilledSoFar' /\ FirstRowFresh'
  BY <1>1, <1>2, CallsAChannel DEF FilledSoFar, FirstRowFresh
<1>8. FrameIsOnePacket' /\ AtRest'
  BY <1>1, <1>2 DEF FrameIsOnePacket, AtRest
<1>9. QED
  BY <1>4, <1>5, <1>6, <1>7, <1>8, InForceStep DEF Next, TimerInit

LEMMA InvStep == Inv /\ [Next]_vars => Inv'
<1> SUFFICES ASSUME Inv, [Next]_vars PROVE Inv'
  OBVIOUS
<1>1. CASE BeginCycle
  BY <1>1, CycleKeeps
<1>2. CASE SetChannelWidth
  BY <1>2, FillKeeps
<1>3. CASE Sync
  BY <1>3, SyncKeeps
<1>4. CASE \E b \in Banks : Burst(b)
  BY <1>4, BurstKeeps
<1>5. CASE Command
  BY <1>5, CommandKeeps
<1>6. CASE \E b \in Banks : StopTimer(b) \/ StartTimer(b)
  BY <1>6, StopKeeps, StartKeeps
<1>7. CASE UNCHANGED vars
  <2>1. \A b \in Banks : Sending(b)' = Sending(b) /\ Widths(b)' = Widths(b)
    BY <1>7 DEF Sending, Widths, vars
  <2>2. TypeOK' /\ TimersStopped' /\ FilledSoFar' /\ InForce'
    BY <1>7 DEF vars, Inv, TypeOK, TimersStopped, FilledSoFar, InForce
  <2>3. SendingWhole' /\ FrameIsOnePacket' /\ AtRest' /\ FirstRowFresh'
    BY <1>7, <2>1, CallsAChannel
    DEF vars, Inv, SendingWhole, FrameIsOnePacket, AtRest, FirstRowFresh
  <2>4. QED
    BY <2>2, <2>3 DEF Inv
<1>8. QED
  BY <1>1, <1>2, <1>3, <1>4, <1>5, <1>6, <1>7 DEF Next, Control, TimerInit

LEMMA Invariant == Spec => []Inv
  BY InitInv, InvStep, PTL DEF Spec
-----------------------------------------------------------------------------
(* The types hold, and no DMA moves a row beyond the buffer of its bank. *)
THEOREM TypeCorrect == Spec => []TypeOK
<1>1. Inv => TypeOK
  BY DEF Inv
<1>2. QED
  BY <1>1, Invariant, PTL

(* An uncut frame of a one-shot or DShot mode is one packet: see FrameIsOnePacket. *)
THEOREM FramesAreWhole == Spec => []FrameIsOnePacket
<1>1. Inv => FrameIsOnePacket
  BY DEF Inv
<1>2. QED
  BY <1>1, Invariant, PTL

(* Only the sync starts a transfer, after the end of the frame before. *)
LEMMA OnlySyncStarts ==
  ASSUME Inv, [Next]_vars, NEW b \in Banks, ~Sending(b), Sending(b)'
  PROVE  Sync
<1>1. ASSUME NEW k \in Banks, Burst(k) PROVE FALSE
  <2>1. \/ dma' = dma
        \/ dma' = [dma EXCEPT ![k].next = @ + 1] /\ Sending(k)
    BY <1>1 DEF Burst
  <2>2. k # b => dma'[b] = dma[b]
    BY <2>1 DEF Inv, TypeOK
  <2>3. QED
    BY <2>1, <2>2 DEF Sending
<1>2. ASSUME UNCHANGED dma PROVE FALSE
  BY <1>2 DEF Sending
<1>3. QED
  BY <1>1, <1>2
  DEF Next, Control, TimerInit, BeginCycle, SetChannelWidth, Command, StopTimer, StartTimer, vars

LEMMA RestStep ==
  ASSUME Inv, [Next]_vars, NEW b \in Banks, ~Sending(b), Sending(b)',
         frame[b].mode \in Shots, ~frame[b].cut, NEW c \in Channels
  PROVE  out[b][c] = Off /\ out'[b][c] = Off
<1>1. Sync
  BY OnlySyncStarts
<1>2. control > 0 /\ out'[b] = ccr[b]
  BY <1>1 DEF Sync, Call
<1>3. QED
  BY <1>2 DEF Inv, AtRest

(* Between two such frames the outputs are off: see RestsBetweenFrames. *)
THEOREM OutputsRest == Spec => RestsBetweenFrames
<1>1. Inv /\ [Next]_vars =>
        [\A b \in Banks :
           ~Sending(b) /\ Sending(b)' /\ frame[b].mode \in Shots /\ ~frame[b].cut
              => \A c \in Channels : out[b][c] = Off /\ out'[b][c] = Off]_vars
  BY RestStep
<1>2. QED
  BY <1>1, Invariant, PTL DEF Spec, RestsBetweenFrames

(* No row that is moved carries an old width: see BurstIsFresh. *)
LEMMA FreshStep ==
  ASSUME Inv, [Next]_vars, NEW b \in Banks, dma'[b].next > dma[b].next, ~frame[b].cut,
         {frame[b].mode, settings[b]} \subseteq Modes,
         NEW c \in Channels, ccr'[b][c].mode # "off"
  PROVE  ccr'[b][c].age < Old
<1>1. Burst(b) /\ Sending(b)
  <2>1. CASE \E i \in Banks : Burst(i)
    <3>1. PICK i \in Banks : Burst(i)
      BY <2>1
    <3>2. \/ dma' = dma
          \/ dma' = [dma EXCEPT ![i].next = @ + 1] /\ Sending(i)
      BY <3>1 DEF Burst
    <3>3. i = b /\ Sending(i)
      BY <3>2 DEF Inv, TypeOK
    <3>4. QED
      BY <3>1, <3>3
  <2>2. CASE Sync
    <3>1. CASE Sending(b)
      BY <2>2, <3>1 DEF Sync, Inv, TypeOK
    <3>2. CASE ~Sending(b)
      <4>1. dma'[b].next = 1
        BY <2>2, <3>2 DEF Sync
      <4>2. dma[b].next \in 1 .. DshotRows + 1
        BY DEF Inv, TypeOK
      <4>3. QED
        BY <4>1, <4>2
    <3>3. QED
      BY <3>1, <3>2
  <2>3. CASE UNCHANGED dma
    BY <2>3 DEF Inv, TypeOK
  <2>4. QED
    BY <2>1, <2>2, <2>3
    DEF Next, Control, TimerInit, BeginCycle, SetChannelWidth, Command, StopTimer,
        StartTimer, vars
<1> DEFINE n == dma[b].next
           mode == frame[b].mode
<1>2. /\ mode \in Modes /\ Sending(b)
      /\ dma[b].size = RowsOf(mode) /\ n \in 1 .. RowsOf(mode)
      /\ mode \in Shots => \A d \in Channels : Filled(buffer[b], mode, d)
  <2>1. Sending(b)
    BY <1>1
  <2>2. frame[b] \in Frame /\ dma[b] \in [next : 1 .. DshotRows + 1, size : 0 .. DshotRows]
    BY DEF Inv, TypeOK
  <2>3. mode \in Modes
    OBVIOUS
  <2>4. dma[b].size = RowsOf(mode)
          /\ (mode \in Shots => \A d \in Channels : Filled(buffer[b], mode, d))
    BY <2>1 DEF Inv, SendingWhole
  <2>5. n \in 1 .. RowsOf(mode)
    BY <2>1, <2>2, <2>4, RowsAssumption DEF Sending
  <2>6. QED
    BY <2>1, <2>3, <2>4, <2>5
<1>3. ccr'[b][c] = buffer[b][n][c]
  BY <1>1 DEF Burst, Inv, TypeOK
<1> HIDE DEF n, mode
<1>4. CASE mode \in Shots
  <2>1. buffer[b][n][c] = ColumnOf(mode)[n]
    BY <1>2, <1>4, ColumnFacts DEF Filled
  <2>2. ColumnOf(mode)[n] = Off \/ ColumnOf(mode)[n] = [mode |-> mode, age |-> 0]
    BY <1>2, ColumnFacts
  <2>3. QED
    BY <1>3, <2>1, <2>2, OffIsWidth DEF Old
<1>5. CASE mode \notin Shots
  <2>1. n = 1
    <3>1. RowsOf(mode) = 1
      BY <1>2, <1>5, ColumnFacts
    <3>2. QED
      BY <1>2, <3>1
  <2>2. PICK k \in 1 .. Outputs : EachChannel[k] = <<b, c>>
    BY CallsEveryChannel
  <2>3. {frame[b].mode, settings[b]} \subseteq Modes
    OBVIOUS
  <2>4. QED
    BY <1>2, <1>3, <2>1, <2>2, <2>3 DEF Inv, FirstRowFresh, Old
<1>6. QED
  BY <1>4, <1>5

THEOREM BurstsAreFresh == Spec => BurstIsFresh
<1>1. Inv /\ [Next]_vars =>
        [\A b \in Banks :
           dma'[b].next > dma[b].next /\ ~frame[b].cut
             /\ {frame[b].mode, settings[b]} \subseteq Modes
              => \A c \in Channels : ccr'[b][c].mode # "off" => ccr'[b][c].age < Old]_vars
  BY FreshStep
<1>2. QED
  BY <1>1, Invariant, PTL DEF Spec, BurstIsFresh
-----------------------------------------------------------------------------
(* Recovery: the part of OutputsRecover that needs no fairness. *)

(* A frame that begins while no command is under way is of the mode in     *)
(* force and whole so far, and no step but that of a command cuts one.     *)
OnlyCommandsCut ==
  [][parser = <<"idle">> =>
       \A b \in Banks :
         /\ frame'[b].cut => frame[b].cut
         /\ ~Sending(b) /\ Sending(b)' =>
              frame'[b].mode = settings[b] /\ timer[b] = settings[b] /\ ~frame'[b].cut]_vars

LEMMA NothingElseCuts ==
  ASSUME Inv, [Next]_vars, parser = <<"idle">>, NEW b \in Banks
  PROVE  /\ frame'[b].cut => frame[b].cut
         /\ ~Sending(b) /\ Sending(b)' =>
              frame'[b].mode = settings[b] /\ timer[b] = settings[b] /\ ~frame'[b].cut
<1>1. timer[b] = settings[b] /\ frame[b] \in Frame
  BY DEF InForce, Inv, TypeOK
<1>2. CASE BeginCycle
  BY <1>1, <1>2 DEF BeginCycle, Sending, Frame
<1>3. CASE Sync
  BY <1>1, <1>3 DEF Sync, Sending, Inv, TypeOK, Frame
<1>4. ASSUME NEW k \in Banks, Burst(k)
      PROVE  frame'[b].cut = frame[b].cut /\ (Sending(b)' => Sending(b))
  <2>1. \/ dma' = dma /\ frame' = frame
        \/ /\ dma' = [dma EXCEPT ![k].next = @ + 1]
           /\ \E w : frame' = [frame EXCEPT ![k].widths = w]
           /\ Sending(k)
    BY <1>4 DEF Burst
  <2>2. frame'[b].cut = frame[b].cut
    <3>1. ASSUME NEW w, frame' = [frame EXCEPT ![k].widths = w]
          PROVE  frame'[b].cut = frame[b].cut
      <4>1. frame[k] \in Frame /\ frame \in [Banks -> Frame]
        BY DEF Inv, TypeOK
      <4>2. k = b => frame'[b] = [frame[b] EXCEPT !.widths = w]
        BY <3>1, <4>1
      <4>3. k # b => frame'[b] = frame[b]
        BY <3>1, <4>1
      <4>4. QED
        BY <1>1, <4>2, <4>3 DEF Frame
    <3>2. QED
      BY <2>1, <3>1
  <2>3. Sending(b)' => Sending(b)
    <3>1. CASE k = b
      BY <2>1, <3>1 DEF Sending
    <3>2. CASE k # b
      BY <2>1, <3>2 DEF Inv, TypeOK, Sending
    <3>3. QED
      BY <3>1, <3>2
  <2>4. QED
    BY <2>2, <2>3
<1>5. CASE SetChannelWidth \/ Command \/ UNCHANGED vars
  BY <1>5 DEF SetChannelWidth, Command, Sending, vars
<1>6. ASSUME TimerInit PROVE FALSE
  BY <1>6 DEF TimerInit, StopTimer, StartTimer, Parse
<1>7. QED
  BY <1>2, <1>3, <1>4, <1>5, <1>6 DEF Next, Control

(* Once a settings command is through, both timers run in the modes it set *)
(* (rc_output.c:611), every frame the control thread starts is of its mode,*)
(* and nothing cuts it before the next command.                            *)
THEOREM SettingsTakeHold == Spec => []InForce /\ OnlyCommandsCut
<1>1. Inv => InForce
  BY DEF Inv
<1>2. Inv /\ [Next]_vars =>
        [parser = <<"idle">> =>
           \A b \in Banks :
             /\ frame'[b].cut => frame[b].cut
             /\ ~Sending(b) /\ Sending(b)' =>
                  frame'[b].mode = settings[b] /\ timer[b] = settings[b] /\ ~frame'[b].cut]_vars
  BY NothingElseCuts
<1>3. QED
  BY <1>1, <1>2, Invariant, PTL DEF Spec, OnlyCommandsCut
-----------------------------------------------------------------------------
(***************************************************************************)
(* A throttle in a DShot mode, from its value to what a controller hears   *)
(***************************************************************************)

Nibbles == 0 .. 15
Packets == 0 .. 65535
Shorts == 0 .. 4095
Values == 0 .. 2047

\* A number of four bits is made of them.
LEMMA FourBits ==
    ASSUME NEW a \in Nibbles
    PROVE  /\ a = 8 * ((a \div 8) % 2) + 4 * ((a \div 4) % 2) + 2 * ((a \div 2) % 2) + ((a \div 1) % 2)
           /\ \A k \in {1, 2, 4, 8} : (a \div k) % 2 \in 0 .. 1
  BY DEF Nibbles

\* The bits of an exclusive or.
LEMMA XorBits ==
    ASSUME NEW a \in Nibbles, NEW b \in Nibbles
    PROVE  /\ XorNibbles(a, b) \in Nibbles
           /\ \A k \in {1, 2, 4, 8} :
                (XorNibbles(a, b) \div k) % 2 = (((a \div k) % 2) + ((b \div k) % 2)) % 2
<1> DEFINE f(k) == (((a \div k) % 2) + ((b \div k) % 2)) % 2
<1>1. f(1) \in 0 .. 1 /\ f(2) \in 0 .. 1 /\ f(4) \in 0 .. 1 /\ f(8) \in 0 .. 1
  BY DEF Nibbles
<1>2. XorNibbles(a, b) = 8 * f(8) + 4 * f(4) + 2 * f(2) + f(1)
  BY DEF XorNibbles
<1>3. \A p, q, r, s \in 0 .. 1 :
        LET n == 8 * p + 4 * q + 2 * r + s
        IN  /\ n \in 0 .. 15
            /\ (n \div 8) % 2 = p /\ (n \div 4) % 2 = q /\ (n \div 2) % 2 = r /\ (n \div 1) % 2 = s
  OBVIOUS
<1> HIDE DEF f
<1>4. /\ XorNibbles(a, b) \in Nibbles
      /\ (XorNibbles(a, b) \div 8) % 2 = f(8) /\ (XorNibbles(a, b) \div 4) % 2 = f(4)
      /\ (XorNibbles(a, b) \div 2) % 2 = f(2) /\ (XorNibbles(a, b) \div 1) % 2 = f(1)
  BY <1>1, <1>2, <1>3 DEF Nibbles
<1> QED
  BY <1>4 DEF f

\* The order of the nibbles does not matter to the checksum.
LEMMA XorTurned ==
    ASSUME NEW a \in Nibbles, NEW b \in Nibbles, NEW c \in Nibbles
    PROVE  XorNibbles(XorNibbles(a, b), c) = XorNibbles(XorNibbles(c, b), a) /\ XorNibbles(XorNibbles(a, b), c) \in Nibbles
<1>1. \A x, y, z \in 0 .. 1 : (((x + y) % 2) + z) % 2 = (((z + y) % 2) + x) % 2
  OBVIOUS
<1>2. XorNibbles(a, b) \in Nibbles /\ XorNibbles(c, b) \in Nibbles
  BY XorBits
<1>3. ASSUME NEW k \in {1, 2, 4, 8}
      PROVE  (XorNibbles(XorNibbles(a, b), c) \div k) % 2 = (XorNibbles(XorNibbles(c, b), a) \div k) % 2
  <2> DEFINE x == (a \div k) % 2
             y == (b \div k) % 2
             z == (c \div k) % 2
  <2>1. x \in 0 .. 1 /\ y \in 0 .. 1 /\ z \in 0 .. 1
    BY FourBits
  <2>2. (XorNibbles(a, b) \div k) % 2 = (x + y) % 2 /\ (XorNibbles(c, b) \div k) % 2 = (z + y) % 2
    BY XorBits
  <2>3. /\ (XorNibbles(XorNibbles(a, b), c) \div k) % 2 = (((XorNibbles(a, b) \div k) % 2) + z) % 2
        /\ (XorNibbles(XorNibbles(c, b), a) \div k) % 2 = (((XorNibbles(c, b) \div k) % 2) + x) % 2
    BY <1>2, XorBits
  <2> HIDE DEF x, y, z
  <2> QED
    BY <1>1, <2>1, <2>2, <2>3
<1>4. XorNibbles(XorNibbles(a, b), c) \in Nibbles /\ XorNibbles(XorNibbles(c, b), a) \in Nibbles
  BY <1>2, XorBits
<1> DEFINE u == XorNibbles(XorNibbles(a, b), c)
           v == XorNibbles(XorNibbles(c, b), a)
<1>5. u \in Nibbles /\ v \in Nibbles /\ \A k \in {1, 2, 4, 8} : (u \div k) % 2 = (v \div k) % 2
  BY <1>3, <1>4
<1> HIDE DEF u, v
<1>6. u = v
  BY <1>5, FourBits
<1> QED
  BY <1>4, <1>6 DEF u, v

\* The last four bits of a number.
LEMMA LowBits ==
    ASSUME NEW x \in Nat
    PROVE  /\ x % 16 \in Nibbles
           /\ x % 16 = 8 * ((x \div 8) % 2) + 4 * ((x \div 4) % 2) + 2 * ((x \div 2) % 2) + (x % 2)
<1> DEFINE q == x \div 16
           r == x % 16
<1>1. q \in Nat /\ r \in 0 .. 15 /\ x = 16 * q + r
  OBVIOUS
<1> HIDE DEF q, r
<1>2. /\ x \div 8 = 2 * q + (r \div 8) /\ x \div 4 = 4 * q + (r \div 4)
      /\ x \div 2 = 8 * q + (r \div 2)
  BY <1>1
<1>3. /\ r \div 8 \in Nat /\ r \div 4 \in Nat /\ r \div 2 \in Nat
      /\ r = 8 * ((r \div 8) % 2) + 4 * ((r \div 4) % 2) + 2 * ((r \div 2) % 2) + (r % 2)
  BY <1>1
<1>4. \A m, n \in Nat : (2 * m + n) % 2 = n % 2
  OBVIOUS
<1>5. (x \div 8) % 2 = (r \div 8) % 2
  BY <1>1, <1>2, <1>3, <1>4
<1>6. (x \div 4) % 2 = (r \div 4) % 2
  <2>1. x \div 4 = 2 * (2 * q) + (r \div 4) /\ 2 * q \in Nat
    BY <1>1, <1>2
  <2> QED
    BY <1>3, <1>4, <2>1
<1>7. (x \div 2) % 2 = (r \div 2) % 2
  <2>1. x \div 2 = 2 * (4 * q) + (r \div 2) /\ 4 * q \in Nat
    BY <1>1, <1>2
  <2> QED
    BY <1>3, <1>4, <2>1
<1>8. x % 2 = r % 2
  BY <1>1
<1>9. x % 16 = r
  BY DEF r
<1> QED
  BY <1>1, <1>3, <1>5, <1>6, <1>7, <1>8, <1>9 DEF Nibbles

\* Shifts of a packet by whole nibbles and by bits.
LEMMA NibbleShifts ==
    ASSUME NEW p \in Nat
    PROVE  /\ p \div 16 \in Nat /\ p \div 256 \in Nat /\ p \div 4096 \in Nat
           /\ p \div 256 = (p \div 16) \div 16 /\ p \div 4096 = (p \div 256) \div 16
           /\ p \div 4096 = (p \div 16) \div 256
  OBVIOUS

BitAt(p, k) == (p \div k) % 2

LEMMA BitShifts ==
    ASSUME NEW p \in Nat
    PROVE  /\ BitAt(p \div 16, 8) = BitAt(p, 128) /\ BitAt(p \div 16, 4) = BitAt(p, 64)
           /\ BitAt(p \div 16, 2) = BitAt(p, 32) /\ BitAt(p \div 16, 1) = BitAt(p, 16)
           /\ BitAt(p \div 256, 8) = BitAt(p, 2048) /\ BitAt(p \div 256, 4) = BitAt(p, 1024)
           /\ BitAt(p \div 256, 2) = BitAt(p, 512) /\ BitAt(p \div 256, 1) = BitAt(p, 256)
           /\ BitAt(p \div 4096, 8) = BitAt(p, 32768) /\ BitAt(p \div 4096, 4) = BitAt(p, 16384)
           /\ BitAt(p \div 4096, 2) = BitAt(p, 8192) /\ BitAt(p \div 4096, 1) = BitAt(p, 4096)
<1>1. BitAt(p \div 16, 8) = BitAt(p, 128)
  <2>1. (p \div 16) \div 8 = p \div 128
    OBVIOUS
  <2> QED
    BY <2>1 DEF BitAt
<1>2. BitAt(p \div 16, 4) = BitAt(p, 64)
  <2>1. (p \div 16) \div 4 = p \div 64
    OBVIOUS
  <2> QED
    BY <2>1 DEF BitAt
<1>3. BitAt(p \div 16, 2) = BitAt(p, 32)
  <2>1. (p \div 16) \div 2 = p \div 32
    OBVIOUS
  <2> QED
    BY <2>1 DEF BitAt
<1>4. BitAt(p \div 16, 1) = BitAt(p, 16)
  <2>1. (p \div 16) \div 1 = p \div 16
    OBVIOUS
  <2> QED
    BY <2>1 DEF BitAt
<1>5. BitAt(p \div 256, 8) = BitAt(p, 2048)
  <2>1. (p \div 256) \div 8 = p \div 2048
    OBVIOUS
  <2> QED
    BY <2>1 DEF BitAt
<1>6. BitAt(p \div 256, 4) = BitAt(p, 1024)
  <2>1. (p \div 256) \div 4 = p \div 1024
    OBVIOUS
  <2> QED
    BY <2>1 DEF BitAt
<1>7. BitAt(p \div 256, 2) = BitAt(p, 512)
  <2>1. (p \div 256) \div 2 = p \div 512
    OBVIOUS
  <2> QED
    BY <2>1 DEF BitAt
<1>8. BitAt(p \div 256, 1) = BitAt(p, 256)
  <2>1. (p \div 256) \div 1 = p \div 256
    OBVIOUS
  <2> QED
    BY <2>1 DEF BitAt
<1>9. BitAt(p \div 4096, 8) = BitAt(p, 32768)
  <2>1. (p \div 4096) \div 8 = p \div 32768
    OBVIOUS
  <2> QED
    BY <2>1 DEF BitAt
<1>10. BitAt(p \div 4096, 4) = BitAt(p, 16384)
  <2>1. (p \div 4096) \div 4 = p \div 16384
    OBVIOUS
  <2> QED
    BY <2>1 DEF BitAt
<1>11. BitAt(p \div 4096, 2) = BitAt(p, 8192)
  <2>1. (p \div 4096) \div 2 = p \div 8192
    OBVIOUS
  <2> QED
    BY <2>1 DEF BitAt
<1>12. BitAt(p \div 4096, 1) = BitAt(p, 4096)
  <2>1. (p \div 4096) \div 1 = p \div 4096
    OBVIOUS
  <2> QED
    BY <2>1 DEF BitAt
<1> QED
  BY <1>1, <1>2, <1>3, <1>4, <1>5, <1>6, <1>7, <1>8, <1>9, <1>10, <1>11, <1>12

LEMMA LowBitsAt ==
    ASSUME NEW x \in Nat
    PROVE  x % 16 = 8 * BitAt(x, 8) + 4 * BitAt(x, 4) + 2 * BitAt(x, 2) + BitAt(x, 1)
<1>1. x \div 1 = x
  OBVIOUS
<1> QED
  BY <1>1, LowBits DEF BitAt

LEMMA BitIsBit ==
    ASSUME NEW p \in Nat, NEW k \in Nat \ {0}
    PROVE  BitAt(p, k) = 0 \/ BitAt(p, k) = 1
<1> DEFINE q == p \div k
<1>1. q \in Int
  OBVIOUS
<1> HIDE DEF q
<1>2. q % 2 = 0 \/ q % 2 = 1
  BY <1>1
<1> QED
  BY <1>2 DEF BitAt, q

LEMMA Appended ==
    ASSUME NEW p \in Shorts, NEW n \in Nibbles
    PROVE  /\ p * 16 + n \in Packets
           /\ (p * 16 + n) % 16 = n
           /\ (p * 16 + n) \div 16 = p
<1>1. p \in 0 .. 4095 /\ n \in 0 .. 15
  BY DEF Shorts, Nibbles
<1>2. p * 16 + n \in Packets
  BY <1>1 DEF Packets
<1>3. (p * 16 + n) % 16 = n
  BY <1>1
<1>4. (p * 16 + n) \div 16 = p
  BY <1>1
<1> QED
  BY <1>2, <1>3, <1>4

LEMMA TopNibbles ==
    /\ \A p \in Shorts : p \div 256 \in Nibbles
    /\ \A p \in Packets : p \div 4096 \in Nibbles
    /\ \A n \in Nibbles : n \in Nat /\ n % 16 = n
  BY DEF Shorts, Packets, Nibbles

\* A controller hears the bits of the packet, four at a time.
LEMMA NibblesHeard ==
    ASSUME NEW packet \in Packets
    PROVE  /\ Nibble(Pulses(packet), 1) = packet \div 4096
           /\ Nibble(Pulses(packet), 2) = (packet \div 256) % 16
           /\ Nibble(Pulses(packet), 3) = (packet \div 16) % 16
           /\ Nibble(Pulses(packet), 4) = packet % 16
<1> DEFINE one(i) == IF 2 * Pulses(packet)[i] > DSHOT_PERIOD THEN 1 ELSE 0
<1>1. packet \in Nat
  BY DEF Packets
<1>2. \A i \in 1 .. 16 : one(i) = IF BitAt(packet, 2^(16 - i)) = 1 THEN 1 ELSE 0
  BY DEF Pulses, BitAt, DSHOT_PERIOD, DSHOT_BIT_0, DSHOT_BIT_1
<1>3. /\ Nibble(Pulses(packet), 1) = 8 * one(1) + 4 * one(2) + 2 * one(3) + one(4)
      /\ Nibble(Pulses(packet), 2) = 8 * one(5) + 4 * one(6) + 2 * one(7) + one(8)
      /\ Nibble(Pulses(packet), 3) = 8 * one(9) + 4 * one(10) + 2 * one(11) + one(12)
      /\ Nibble(Pulses(packet), 4) = 8 * one(13) + 4 * one(14) + 2 * one(15) + one(16)
  BY DEF Nibble
<1> HIDE DEF one
<1>4. /\ one(1) = BitAt(packet, 32768) /\ one(2) = BitAt(packet, 16384)
      /\ one(3) = BitAt(packet, 8192) /\ one(4) = BitAt(packet, 4096)
  BY <1>1, <1>2, BitIsBit
<1>5. /\ one(5) = BitAt(packet, 2048) /\ one(6) = BitAt(packet, 1024)
      /\ one(7) = BitAt(packet, 512) /\ one(8) = BitAt(packet, 256)
  BY <1>1, <1>2, BitIsBit
<1>6. /\ one(9) = BitAt(packet, 128) /\ one(10) = BitAt(packet, 64)
      /\ one(11) = BitAt(packet, 32) /\ one(12) = BitAt(packet, 16)
  BY <1>1, <1>2, BitIsBit
<1>7. /\ one(13) = BitAt(packet, 8) /\ one(14) = BitAt(packet, 4)
      /\ one(15) = BitAt(packet, 2) /\ one(16) = BitAt(packet, 1)
  BY <1>1, <1>2, BitIsBit
<1>8. ASSUME NEW x \in Nat
      PROVE  x % 16 = 8 * BitAt(x, 8) + 4 * BitAt(x, 4) + 2 * BitAt(x, 2) + BitAt(x, 1)
  BY LowBitsAt
<1>9. Nibble(Pulses(packet), 1) = packet \div 4096
  <2>1. packet \div 4096 \in Nat /\ (packet \div 4096) % 16 = packet \div 4096
    BY TopNibbles
  <2>2. (packet \div 4096) % 16 = 8 * BitAt(packet \div 4096, 8) + 4 * BitAt(packet \div 4096, 4)
                                    + 2 * BitAt(packet \div 4096, 2) + BitAt(packet \div 4096, 1)
    BY <2>1, LowBitsAt
  <2> QED
    <3>1. Nibble(Pulses(packet), 1) = (packet \div 4096) % 16
      BY <1>1, <1>3, <1>4, <2>2, BitShifts
    <3> QED
      BY <2>1, <3>1
<1>10. Nibble(Pulses(packet), 2) = (packet \div 256) % 16
  <2>1. packet \div 256 \in Nat
    BY <1>1
  <2>2. (packet \div 256) % 16 = 8 * BitAt(packet \div 256, 8) + 4 * BitAt(packet \div 256, 4)
                                   + 2 * BitAt(packet \div 256, 2) + BitAt(packet \div 256, 1)
    BY <1>8, <2>1, Zenon
  <2> QED
    BY <1>1, <1>3, <1>5, <2>2, BitShifts
<1>11. Nibble(Pulses(packet), 3) = (packet \div 16) % 16
  <2>1. packet \div 16 \in Nat
    BY <1>1
  <2>2. (packet \div 16) % 16 = 8 * BitAt(packet \div 16, 8) + 4 * BitAt(packet \div 16, 4)
                                  + 2 * BitAt(packet \div 16, 2) + BitAt(packet \div 16, 1)
    BY <1>8, <2>1, Zenon
  <2> QED
    BY <1>1, <1>3, <1>6, <2>2, BitShifts
<1>12. Nibble(Pulses(packet), 4) = packet % 16
  BY <1>1, <1>3, <1>7, <1>8
<1> QED
  BY <1>9, <1>10, <1>11, <1>12

\* What a controller hears of a value that was sent is the value.
LEMMA ValueHeard ==
    ASSUME NEW value \in Values, NEW tel \in BOOLEAN
    PROVE  Heard(Pulses(PrepareDshotPacket(value, tel))) = value
<1> USE DEF Values
<1> DEFINE low == IF tel THEN 1 ELSE 0
           p == value * 2 + low
           a == p % 16
           b == (p \div 16) % 16
           c == (p \div 256) % 16
           csum == XorNibbles(XorNibbles(a, b), c)
           packet == p * 16 + csum
<1>1. low \in 0 .. 1 /\ p \in 0 .. 4095 /\ p \div 2 = value
  OBVIOUS
<1>2. PrepareDshotPacket(value, tel) = (((p % 65536) * 16) % 65536)
                                        + XorNibbles(XorNibbles((p % 65536) % 16, ((p % 65536) \div 16) % 16), ((p % 65536) \div 256) % 16)
  BY DEF PrepareDshotPacket
<1> HIDE DEF low, p
<1>3. p % 65536 = p /\ (p * 16) % 65536 = p * 16
  BY <1>1
<1>4. PrepareDshotPacket(value, tel) = packet
  BY <1>2, <1>3
<1>5. /\ a \in Nibbles /\ b \in Nibbles /\ c \in Nibbles
      /\ c = p \div 256 /\ p = c * 256 + b * 16 + a
  <2> DEFINE q == p \div 16
             h == p \div 256
  <2>1. q \in 0 .. 255 /\ p = q * 16 + a /\ a \in 0 .. 15
    BY <1>1
  <2>2. h \in 0 .. 15 /\ h = q \div 16
    <3>1. p \in Shorts /\ p \in Nat
      BY <1>1 DEF Shorts
    <3>2. h \in Nibbles
      BY <3>1, TopNibbles
    <3>3. h = q \div 16
      BY <3>1, NibbleShifts
    <3> QED
      BY <3>2, <3>3 DEF Nibbles
  <2>3. b = q % 16 /\ c = h % 16
    OBVIOUS
  <2> HIDE DEF q, h, a, b, c
  <2>4. q = h * 16 + b /\ b \in 0 .. 15
    BY <2>1, <2>2, <2>3
  <2>5. c = h
    BY <2>2, <2>3
  <2> QED
    BY <2>1, <2>2, <2>4, <2>5 DEF h, Nibbles
<1> HIDE DEF a, b, c
<1>6. csum \in Nibbles /\ csum = XorNibbles(XorNibbles(c, b), a)
  BY <1>5, XorTurned
<1> HIDE DEF csum
<1>7. /\ packet \in Packets
      /\ packet % 16 = csum /\ (packet \div 16) = p
  <2>1. csum \in Nibbles /\ p \in Shorts
    BY <1>1, <1>6 DEF Shorts
  <2>2. /\ p * 16 + csum \in Packets
        /\ (p * 16 + csum) % 16 = csum
        /\ (p * 16 + csum) \div 16 = p
    BY <2>1, Appended
  <2> QED
    BY <2>2
<1>8. /\ (packet \div 16) % 16 = a /\ (packet \div 256) % 16 = b /\ packet \div 4096 = c
  <2> HIDE DEF packet
  <2>1. packet \in Nat
    BY <1>7 DEF Packets
  <2>2. packet \div 256 = p \div 16 /\ packet \div 4096 = p \div 256
    BY <1>7, <2>1, NibbleShifts
  <2> QED
    BY <1>5, <1>7, <2>2 DEF a, b
<1> HIDE DEF packet
<1>9. /\ Nibble(Pulses(packet), 1) = c /\ Nibble(Pulses(packet), 2) = b
      /\ Nibble(Pulses(packet), 3) = a /\ Nibble(Pulses(packet), 4) = csum
  <2>1. /\ Nibble(Pulses(packet), 1) = packet \div 4096
        /\ Nibble(Pulses(packet), 2) = (packet \div 256) % 16
        /\ Nibble(Pulses(packet), 3) = (packet \div 16) % 16
        /\ Nibble(Pulses(packet), 4) = packet % 16
    <3>1. packet \in Packets
      BY <1>7
    <3> QED
      BY <3>1, NibblesHeard
  <2> QED
    BY <1>7, <1>8, <2>1
<1>10. Heard(Pulses(packet)) = (c * 256 + b * 16 + a) \div 2
  BY <1>6, <1>9 DEF Heard
<1> QED
  BY <1>1, <1>4, <1>5, <1>10

\* Between a stop and the full throttle a value grows with the throttle.
LEMMA ValueGrows ==
    ASSUME NEW t \in Int
    PROVE  /\ ValueOf(t) \in Values
           /\ ValueOf(t) = 0 <=> t <= 0
           /\ t > 0 => ValueOf(t) >= DSHOT_BIAS
           /\ t >= Steps => ValueOf(t) = 2047
           /\ ValueOf(t) <= ValueOf(t + 1)
<1>1. Steps \in Nat /\ Steps > 0
  BY StepsAssumption
<1> DEFINE share(x) == (x * 1999) \div Steps
<1>2. \A x : x \in 1 .. Steps => share(x) \in 0 .. 1999
  <2> SUFFICES ASSUME NEW x, x \in 1 .. Steps
               PROVE  share(x) \in 0 .. 1999
    OBVIOUS
  <2>1. x * 1999 \in Int /\ x * 1999 >= 0 /\ x * 1999 <= Steps * 1999
    BY <1>1
  <2>2. share(x) \in Int /\ Steps * share(x) <= x * 1999 /\ x * 1999 < Steps * (share(x) + 1)
    BY <1>1, <2>1
  <2> HIDE DEF share
  <2>3. share(x) <= 1999
    <3> SUFFICES ASSUME share(x) >= 2000 PROVE FALSE
      BY <2>2
    <3>1. Steps * share(x) >= Steps * 2000
      BY <1>1, <2>2
    <3> QED
      BY <1>1, <2>1, <2>2, <3>1
  <2>4. share(x) >= 0
    <3> SUFFICES ASSUME share(x) + 1 <= 0 PROVE FALSE
      BY <2>2
    <3>1. Steps * (share(x) + 1) <= 0
      BY <1>1, <2>2
    <3> QED
      BY <1>1, <2>1, <2>2, <3>1
  <2> QED
    BY <2>2, <2>3, <2>4
<1>3. share(Steps) = 1999
  <2>1. share(Steps) \in Int /\ Steps * share(Steps) <= Steps * 1999 /\ Steps * 1999 < Steps * (share(Steps) + 1)
    BY <1>1
  <2>2. share(Steps) \in 0 .. 1999
    BY <1>1, <1>2
  <2> HIDE DEF share
  <2> SUFFICES ASSUME share(Steps) + 1 <= 1999 PROVE FALSE
    BY <2>2
  <2>3. Steps * (share(Steps) + 1) <= Steps * 1999
    BY <1>1, <2>2
  <2> QED
    BY <1>1, <2>1, <2>2, <2>3
<1>4. ASSUME NEW x \in 1 .. Steps, x < Steps
      PROVE  share(x) <= share(x + 1)
  <2>1. /\ share(x) \in Int /\ Steps * share(x) <= x * 1999
        /\ share(x + 1) \in Int /\ (x + 1) * 1999 < Steps * (share(x + 1) + 1)
    BY <1>1
  <2> HIDE DEF share
  <2> SUFFICES ASSUME share(x + 1) + 1 <= share(x) PROVE FALSE
    BY <2>1
  <2>2. Steps * (share(x + 1) + 1) <= Steps * share(x)
    BY <1>1, <2>1
  <2> QED
    BY <1>1, <2>1, <2>2
<1>5. /\ t > Steps => ValueOf(t) = share(Steps) + 48
      /\ t <= 0 => ValueOf(t) = 0
      /\ t \in 1 .. Steps => ValueOf(t) = share(t) + 48
  BY <1>1 DEF ValueOf, DSHOT_GAIN, DSHOT_BIAS
<1>6. /\ t + 1 > Steps => ValueOf(t + 1) = share(Steps) + 48
      /\ t + 1 <= 0 => ValueOf(t + 1) = 0
      /\ t + 1 \in 1 .. Steps => ValueOf(t + 1) = share(t + 1) + 48
  BY <1>1 DEF ValueOf, DSHOT_GAIN, DSHOT_BIAS
<1> HIDE DEF share
<1> USE DEF DSHOT_BIAS, Values
<1>7. CASE t > Steps
  BY <1>1, <1>3, <1>5, <1>6, <1>7
<1>8. CASE t = Steps
  BY <1>1, <1>3, <1>5, <1>6, <1>8
<1>9. CASE t \in 1 .. Steps /\ t < Steps
  <2>1. t \in 1 .. Steps /\ t + 1 \in 1 .. Steps
    BY <1>1, <1>9
  <2>2. share(t) \in 0 .. 1999
    BY <1>2, <2>1
  <2>3. share(t + 1) \in 0 .. 1999
    BY <1>2, <2>1
  <2>4. share(t) <= share(t + 1)
    BY <1>4, <1>9, <2>1
  <2>5. ValueOf(t) = share(t) + 48 /\ ValueOf(t + 1) = share(t + 1) + 48
    BY <1>5, <1>6, <2>1
  <2>6. ValueOf(t) \in 48 .. 2047 /\ ValueOf(t + 1) \in Int /\ ValueOf(t) <= ValueOf(t + 1)
    <3>1. ValueOf(t) \in 48 .. 2047
      BY <2>2, <2>5
    <3>2. ValueOf(t + 1) \in 48 .. 2047
      BY <2>3, <2>5
    <3>3. ValueOf(t) <= ValueOf(t + 1)
      <4> DEFINE m == share(t)
                 n == share(t + 1)
      <4>1. m \in 0 .. 1999 /\ n \in 0 .. 1999 /\ m <= n
        BY <2>2, <2>3, <2>4
      <4>2. ValueOf(t) = m + 48 /\ ValueOf(t + 1) = n + 48
        BY <2>5
      <4> HIDE DEF m, n
      <4> QED
        BY <4>1, <4>2
    <3> QED
      BY <3>1, <3>2, <3>3
  <2> QED
    BY <1>1, <1>9, <2>6
<1>10. CASE t <= 0
  <2>1. ASSUME t + 1 \in 1 .. Steps PROVE share(t + 1) \in 0 .. 1999
    BY <1>2, <2>1
  <2>2. ValueOf(t) = 0 /\ ValueOf(t + 1) >= 0
    BY <1>1, <1>5, <1>6, <1>10, <2>1
  <2> QED
    BY <1>1, <1>10, <2>2
<1> QED
  BY <1>1, <1>7, <1>8, <1>9, <1>10

\* A motor controller hears a stop or a throttle of every packet (SetChannelWidthGeneric and
\* PrepareDshotPacket): the checksum is right, the value is no command, and it does not fall
\* while the throttle rises.
THEOREM ThrottleIsHeard == DshotSpec => []HeardAsThrottle
<1> DEFINE ThrottleOK == throttle \in Int /\ telemetry \in BOOLEAN
<1>1. DshotInit => ThrottleOK
  BY StepsAssumption DEF DshotInit
<1>2. ThrottleOK /\ [DshotNext]_dshotVars => ThrottleOK'
  BY DEF DshotNext, dshotVars
<1>3. ThrottleOK => HeardAsThrottle
  <2> SUFFICES ASSUME ThrottleOK PROVE HeardAsThrottle
    OBVIOUS
  <2> DEFINE heard(t) == Heard(Pulses(PrepareDshotPacket(ValueOf(t), telemetry)))
  <2>1. throttle + 1 \in Int /\ throttle \in Int
    OBVIOUS
  <2>2. ASSUME NEW t \in Int PROVE heard(t) = ValueOf(t)
    <3>1. ValueOf(t) \in Values
      BY ValueGrows
    <3> QED
      BY <3>1, ValueHeard
  <2>3. HeardAsThrottle <=> /\ heard(throttle) = 0 <=> throttle <= 0
                            /\ throttle > 0 => heard(throttle) \in DSHOT_BIAS .. 2047
                            /\ throttle >= Steps => heard(throttle) = 2047
                            /\ heard(throttle) <= heard(throttle + 1)
    BY DEF HeardAsThrottle
  <2> HIDE DEF heard
  <2>4. heard(throttle) = ValueOf(throttle) /\ heard(throttle + 1) = ValueOf(throttle + 1)
    BY <2>1, <2>2
  <2> QED
    <3>1. /\ ValueOf(throttle) \in Values
          /\ ValueOf(throttle) = 0 <=> throttle <= 0
          /\ throttle > 0 => ValueOf(throttle) >= DSHOT_BIAS
          /\ throttle >= Steps => ValueOf(throttle) = 2047
          /\ ValueOf(throttle) <= ValueOf(throttle + 1)
      BY <2>1, ValueGrows
    <3> QED
      BY <2>1, <2>3, <2>4, <3>1 DEF DSHOT_BIAS, Values
<1> QED
  BY <1>1, <1>2, <1>3, PTL DEF DshotSpec
=============================================================================
