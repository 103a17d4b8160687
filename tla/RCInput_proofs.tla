-------------------------- MODULE RCInput_proofs --------------------------
(***************************************************************************)
(* Proofs about RCInput, for every number of channels, length of a frame,  *)
(* RSSI timeout, set of roles and set of settings; and about RCLevels, for *)
(* every value of every channel and every calibration.                     *)
(***************************************************************************)
EXTENDS RCInput, RCLevels, TLAPS

\* While a frame is received there is room for its next byte; only the step that
\* ends reception is between a full buffer and the state that says so.
RoomForByte ==
    /\ serving = "STORE" => sbus.data_count < FrameLength
    /\ sbus.state = "RECEIVING" /\ serving # "FULL" => sbus.data_count < FrameLength

IInv == TypeOK /\ RoomForByte /\ ActiveIsWatched /\ ModeIsWatched /\ LookupFindsAssigned

\* After ValidateRoleSettings no two channels have one role.
LEMMA ValidIsUnique ==
    ASSUME NEW s \in RCSettings
    PROVE  /\ ValidateRoleSettings(s) \in RCSettings
           /\ \A c, d \in Channels :
                 c # d /\ ValidateRoleSettings(s).role[c] \in Roles
                    => ValidateRoleSettings(s).role[c] # ValidateRoleSettings(s).role[d]
<1>1. CASE \E c, d \in Channels : c # d /\ s.role[c] = s.role[d] /\ s.role[c] \in Roles
  <2> DEFINE off == [c \in Channels |-> Off]
  <2>1. ValidateRoleSettings(s) = [s EXCEPT !.role = off]
    BY <1>1 DEF ValidateRoleSettings
  <2>2. ValidateRoleSettings(s).role = off
    BY <2>1 DEF RCSettings
  <2>3. off \in [Channels -> Roles \cup {Off}]
    OBVIOUS
  <2>4. ValidateRoleSettings(s) \in RCSettings
    BY <2>1, <2>3 DEF RCSettings
  <2> QED
    BY <2>2, <2>4, RoleAssumption
<1>2. CASE ~ \E c, d \in Channels : c # d /\ s.role[c] = s.role[d] /\ s.role[c] \in Roles
  <2>1. ValidateRoleSettings(s) = s
    BY <1>2 DEF ValidateRoleSettings
  <2> QED
    BY <1>2, <2>1
<1> QED
  BY <1>1, <1>2

\* Every switch is read from the channel the lookup has for it, or is undefined.
LEMMA SwitchesTyped ==
    ASSUME lookup \in [Roles -> Channels]
    PROVE  SwitchStates \in [SwitchRoles -> Channels \cup {Undefined}]
<1>1. \A r \in SwitchRoles : lookup[r] \in Channels
  BY RoleAssumption
<1> QED
  BY <1>1 DEF SwitchStates

LEMMA NoSwitchesTyped == NoSwitches \in [SwitchRoles -> Channels \cup {Undefined}]
<1> QED
  BY DEF NoSwitches

\* The lookup made from valid settings has a channel for every role, and for one
\* that is assigned the channel that has it.
LEMMA LookupOfValid ==
    ASSUME NEW s \in RCSettings, NEW old \in [Roles -> Channels],
           \A c, d \in Channels : c # d /\ s.role[c] \in Roles => s.role[c] # s.role[d]
    PROVE  /\ RoleLookup(s, old) \in [Roles -> Channels]
           /\ \A c \in Channels : s.role[c] \in Roles => RoleLookup(s, old)[s.role[c]] = c
<1> DEFINE Last(r) == CHOOSE c \in Channels :
                          s.role[c] = r /\ \A d \in Channels : d > c => s.role[d] # r
<1>1. ASSUME NEW c \in Channels, s.role[c] \in Roles
      PROVE  Last(s.role[c]) = c
  <2>1. \A d \in Channels : d > c => s.role[d] # s.role[c]
    BY <1>1 DEF Channels
  <2>2. \A e \in Channels : s.role[e] = s.role[c] => e = c
    BY <1>1
  <2> QED
    BY <1>1, <2>1, <2>2
<1>2. ASSUME NEW r \in Roles
      PROVE  RoleLookup(s, old)[r] = IF \E c \in Channels : s.role[c] = r THEN Last(r) ELSE old[r]
  BY DEF RoleLookup
<1>3. ASSUME NEW r \in Roles
      PROVE  RoleLookup(s, old)[r] \in Channels
  <2>1. CASE \E c \in Channels : s.role[c] = r
    <3>1. PICK c \in Channels : s.role[c] = r
      BY <2>1
    <3>2. Last(r) = c
      BY <1>1, <3>1
    <3> QED
      BY <1>2, <2>1, <3>2
  <2>2. CASE ~ \E c \in Channels : s.role[c] = r
    BY <1>2, <2>2
  <2> QED
    BY <2>1, <2>2
<1>4. RoleLookup(s, old) = [r \in Roles |-> RoleLookup(s, old)[r]]
  BY DEF RoleLookup
<1>5. ASSUME NEW c \in Channels, s.role[c] \in Roles
      PROVE  RoleLookup(s, old)[s.role[c]] = c
  BY <1>1, <1>2, <1>5
<1> QED
  BY <1>3, <1>4, <1>5

LEMMA InitEstablishes == Init => IInv
<1> SUFFICES ASSUME Init
             PROVE  IInv
  OBVIOUS
<1>1. PICK s \in Settings : /\ settings = ValidateRoleSettings(s)
                            /\ lookup = RoleLookup(settings, [r \in Roles |-> 0])
                            /\ captures = IF s.use_rssi THEN {"CPPM", "RSSI"} ELSE {"CPPM"}
  BY DEF Init
<1>2. s \in RCSettings
  BY SettingsAssumption
<1>3. /\ settings \in RCSettings
      /\ \A c, d \in Channels : c # d /\ settings.role[c] \in Roles
                                   => settings.role[c] # settings.role[d]
  BY <1>1, <1>2, ValidIsUnique
<1>4. [r \in Roles |-> 0] \in [Roles -> Channels]
  BY SizeAssumption DEF Channels
<1>5. lookup \in [Roles -> Channels] /\ LookupFindsAssigned
  BY <1>1, <1>3, <1>4, LookupOfValid DEF LookupFindsAssigned
<1>6. captures \in SUBSET {"CPPM", "RSSI"}
  BY <1>1
<1>7. TypeOK
  <2>1. sbus \in [state : {"WAITING_FOR_START", "RECEIVING", "WAITING_FOR_END"},
                 data_count : 0 .. FrameLength]
    BY SizeAssumption DEF Init
  <2>2. cppm_count \in 0 .. NumChannels /\ rssi_counter \in 0 .. RssiTimeout + 1
    BY SizeAssumption DEF Init
  <2>3. next \in 0 .. FrameLength + 1
    BY SizeAssumption DEF Init
  <2> QED
    BY <1>3, <1>5, <1>6, <2>1, <2>2, <2>3, NoSwitchesTyped DEF Init, TypeOK
<1>8. RoomForByte /\ ActiveIsWatched /\ ModeIsWatched
  BY DEF Init, RoomForByte, ActiveIsWatched, ModeIsWatched
<1> QED
  BY <1>5, <1>7, <1>8 DEF IInv

LEMMA NextPreserves == IInv /\ [Next]_vars => IInv'
<1> SUFFICES ASSUME IInv, [Next]_vars
             PROVE  IInv'
  OBVIOUS
<1> USE DEF IInv
<1>0. Restarted \in {"ON", "FED"}
  BY DEF Restarted
<1> DEFINE Empty == [state |-> "WAITING_FOR_START", data_count |-> 0]
<1>a. /\ Empty \in [state : {"WAITING_FOR_START", "RECEIVING", "WAITING_FOR_END"},
                   data_count : 0 .. FrameLength]
      /\ Empty.state # "RECEIVING" /\ Empty.data_count < FrameLength
  BY SizeAssumption
<1>b. 0 \in 0 .. NumChannels /\ 0 \in 0 .. RssiTimeout + 1
  BY SizeAssumption
<1>1. ASSUME NEW b \in {"START", "END", "OTHER"}, Byte(b)
      PROVE  IInv'
  <2>1. next' \in 0 .. FrameLength + 1
    BY <1>1, SizeAssumption DEF Byte, TypeOK
  <2>2. CASE sbus.state = "WAITING_FOR_START"
    BY <1>1, <2>1, <2>2, SizeAssumption
       DEF Byte, TypeOK, RoomForByte, ActiveIsWatched, ModeIsWatched, LookupFindsAssigned,
           EndsFrame, reception, command
  <2>3. CASE sbus.state = "RECEIVING"
    BY <1>1, <2>1, <2>3
       DEF Byte, TypeOK, RoomForByte, ActiveIsWatched, ModeIsWatched, LookupFindsAssigned,
           EndsFrame, reception, command
  <2>4. CASE sbus.state = "WAITING_FOR_END"
    BY <1>1, <2>1, <2>4
       DEF Byte, TypeOK, RoomForByte, ActiveIsWatched, ModeIsWatched, LookupFindsAssigned,
           EndsFrame, reception, command
  <2> QED
    BY <2>2, <2>3, <2>4 DEF TypeOK
<1>2. ASSUME StoreByte
      PROVE  IInv'
  BY <1>2, SizeAssumption
     DEF StoreByte, TypeOK, RoomForByte, ActiveIsWatched, ModeIsWatched, LookupFindsAssigned,
         EndsFrame, reception, command, transmitter
<1>3. ASSUME FrameFull
      PROVE  IInv'
  BY <1>3
     DEF FrameFull, TypeOK, RoomForByte, ActiveIsWatched, ModeIsWatched, LookupFindsAssigned,
         EndsFrame, reception, command, transmitter
<1>4. ASSUME Activate
      PROVE  IInv'
  BY <1>4
     DEF Activate, TypeOK, RoomForByte, ActiveIsWatched, ModeIsWatched, LookupFindsAssigned,
         EndsFrame, command, transmitter
<1>5. ASSUME SetMode
      PROVE  IInv'
  BY <1>5, SwitchesTyped
     DEF SetMode, TypeOK, RoomForByte, ActiveIsWatched, ModeIsWatched, LookupFindsAssigned,
         EndsFrame, command, transmitter
<1>6. ASSUME RestartTimeout
      PROVE  IInv'
  BY <1>0, <1>6
     DEF RestartTimeout, TypeOK, RoomForByte, ActiveIsWatched, ModeIsWatched,
         LookupFindsAssigned, EndsFrame, reception, command, transmitter
<1>7. ASSUME Timeout
      PROVE  IInv'
  <2>1. sbus' = Empty
    BY <1>7 DEF Timeout, RCInputDataReset
  <2>2. TypeOK' /\ RoomForByte'
    <3> HIDE DEF Empty
    <3> QED
      BY <1>7, <1>a, <2>1, NoSwitchesTyped DEF Timeout, RCInputDataReset, TypeOK, RoomForByte, command, transmitter
  <2>3. ActiveIsWatched' /\ ModeIsWatched' /\ LookupFindsAssigned'
    BY <1>7 DEF Timeout, RCInputDataReset, ActiveIsWatched, ModeIsWatched, LookupFindsAssigned,
                command
  <2> QED
    BY <2>2, <2>3
<1>8. ASSUME NEW interval \in Intervals, CppmCapture(interval)
      PROVE  IInv'
  <2>1. CASE ~active
    <3>1. TypeOK'
      BY <1>0, <1>8, <1>b, <2>1 DEF CppmCapture, CppmSearch, TypeOK, command, transmitter
    <3>2. RoomForByte' /\ ActiveIsWatched' /\ ModeIsWatched' /\ LookupFindsAssigned'
      BY <1>0, <1>8, <2>1
         DEF CppmCapture, CppmSearch, RoomForByte, ActiveIsWatched, ModeIsWatched,
             LookupFindsAssigned, command
    <3> QED
      BY <3>1, <3>2
  <2>2. CASE active /\ interval # "PULSE"
    <3>1. TypeOK'
      BY <1>0, <1>8, <1>b, <2>2, SwitchesTyped
         DEF CppmCapture, CppmInConnection, TypeOK, command, transmitter
    <3>2. RoomForByte' /\ ActiveIsWatched' /\ ModeIsWatched' /\ LookupFindsAssigned'
      BY <1>0, <1>8, <2>2
         DEF CppmCapture, CppmInConnection, RoomForByte, ActiveIsWatched, ModeIsWatched,
             LookupFindsAssigned, command
    <3> QED
      BY <3>1, <3>2
  <2>3. CASE active /\ interval = "PULSE" /\ cppm_count >= NumChannels
    BY <1>8, <2>3
       DEF CppmCapture, CppmInConnection, TypeOK, RoomForByte, ActiveIsWatched, ModeIsWatched,
           LookupFindsAssigned, EndsFrame, command, transmitter
  <2>4. CASE active /\ interval = "PULSE" /\ ~(cppm_count >= NumChannels)
    BY <1>8, <2>4, SizeAssumption
       DEF CppmCapture, CppmInConnection, TypeOK, RoomForByte, ActiveIsWatched, ModeIsWatched,
           LookupFindsAssigned, EndsFrame, reception, command, transmitter
  <2> QED
    BY <2>1, <2>2, <2>3, <2>4
<1>9. ASSUME NEW strong \in BOOLEAN, RssiCapture(strong)
      PROVE  IInv'
  <2>1. rssi_counter' \in 0 .. RssiTimeout + 1
    BY <1>9, <1>b, SizeAssumption DEF RssiCapture, TypeOK
  <2>2. active' \in BOOLEAN /\ timer' \in {"OFF", "ON", "FED"} /\ rssi_lost' \in BOOLEAN
    BY <1>9 DEF RssiCapture, TypeOK
  <2>3. TypeOK'
    BY <1>9, <2>1, <2>2 DEF RssiCapture, TypeOK, command, transmitter
  <2>4. RoomForByte' /\ LookupFindsAssigned'
    BY <1>9 DEF RssiCapture, RoomForByte, LookupFindsAssigned, command
  <2>5. ActiveIsWatched' /\ ModeIsWatched'
    BY <1>9 DEF RssiCapture, ActiveIsWatched, ModeIsWatched, EndsFrame
  <2> QED
    BY <2>3, <2>4, <2>5
<1>10. ASSUME NEW s \in Settings \cup {settings}, SetSettings(s)
       PROVE  IInv'
  <2>1. s \in RCSettings
    BY SettingsAssumption DEF TypeOK
  <2> QED
    BY <1>10, <2>1
       DEF SetSettings, TypeOK, RoomForByte, ActiveIsWatched, ModeIsWatched,
           LookupFindsAssigned, EndsFrame, reception, transmitter
<1>11. ASSUME Reinitialise, ~ GenerateRoleLookupTable
       PROVE  IInv'
  <2> USE <1>11 DEF Reinitialise, At, EndsFrame, reception, transmitter
  <2>1. ASSUME ResetActive
        PROVE  IInv'
    BY <2>1 DEF ResetActive, TypeOK, RoomForByte, ActiveIsWatched, ModeIsWatched,
                LookupFindsAssigned
  <2>2. ASSUME ResetMode
        PROVE  IInv'
    BY <2>2 DEF ResetMode, TypeOK, RoomForByte, ActiveIsWatched, ModeIsWatched,
                LookupFindsAssigned
  <2>3. ASSUME ResetState
        PROVE  IInv'
    BY <2>3 DEF ResetState, TypeOK, RoomForByte, ActiveIsWatched, ModeIsWatched,
                LookupFindsAssigned
  <2>4. ASSUME ResetCount
        PROVE  IInv'
    BY <2>4, <1>a, NoSwitchesTyped DEF ResetCount, TypeOK, RoomForByte, ActiveIsWatched, ModeIsWatched,
                LookupFindsAssigned
  <2>5. ASSUME DisableCaptures
        PROVE  IInv'
    BY <2>5 DEF DisableCaptures, TypeOK, RoomForByte, ActiveIsWatched, ModeIsWatched,
                LookupFindsAssigned
  <2>6. ASSUME EnableCaptures
        PROVE  IInv'
    BY <2>6 DEF EnableCaptures, TypeOK, RoomForByte, ActiveIsWatched, ModeIsWatched,
                LookupFindsAssigned
  <2> QED
    BY <2>1, <2>2, <2>3, <2>4, <2>5, <2>6
<1>12. ASSUME Reinitialise, GenerateRoleLookupTable
       PROVE  IInv'
  <2>1. /\ settings' \in RCSettings
        /\ \A c, d \in Channels : c # d /\ settings'.role[c] \in Roles
                                     => settings'.role[c] # settings'.role[d]
    BY <1>12, ValidIsUnique DEF GenerateRoleLookupTable, TypeOK
  <2>2. lookup \in [Roles -> Channels] /\ lookup' = RoleLookup(settings', lookup)
    BY <1>12 DEF GenerateRoleLookupTable, TypeOK
  <2>3. /\ lookup' \in [Roles -> Channels]
        /\ \A c \in Channels : settings'.role[c] \in Roles => lookup'[settings'.role[c]] = c
    <3> DEFINE s == settings'
               old == lookup
    <3> HIDE DEF s, old
    <3>1. /\ RoleLookup(s, old) \in [Roles -> Channels]
          /\ \A c \in Channels : s.role[c] \in Roles => RoleLookup(s, old)[s.role[c]] = c
      BY <2>1, <2>2, LookupOfValid DEF s, old
    <3> QED
      BY <2>2, <3>1 DEF s, old
  <2>4. LookupFindsAssigned'
    BY <2>3 DEF LookupFindsAssigned
  <2>5. TypeOK' /\ RoomForByte' /\ ActiveIsWatched' /\ ModeIsWatched'
    BY <1>12, <2>1, <2>3
       DEF Reinitialise, GenerateRoleLookupTable, At, TypeOK, RoomForByte, ActiveIsWatched,
           ModeIsWatched, EndsFrame, reception, transmitter
  <2> QED
    BY <2>4, <2>5
<1>13. ASSUME LineChanges
       PROVE  IInv'
  BY <1>13, SizeAssumption
     DEF LineChanges, TypeOK, RoomForByte, ActiveIsWatched, ModeIsWatched,
         LookupFindsAssigned, EndsFrame, reception, command
<1>14. CASE UNCHANGED vars
  BY <1>14
     DEF vars, TypeOK, RoomForByte, ActiveIsWatched, ModeIsWatched, LookupFindsAssigned,
         EndsFrame, reception, command, transmitter
<1> QED
  BY <1>1, <1>2, <1>3, <1>4, <1>5, <1>6, <1>7, <1>8, <1>9, <1>10, <1>11, <1>12, <1>13, <1>14
     DEF Next, ServeByte

\* The inductive invariant holds of every behaviour.
THEOREM Invariance == Spec => []IInv
<1> QED
  BY InitEstablishes, NextPreserves, PTL DEF Spec

\* The SBUS parser writes only its own data bytes and every static stays in
\* range, whatever interrupts and commands come between its statements.
THEOREM TypeCorrect == Spec => []TypeOK
<1>1. IInv => TypeOK
  BY DEF IInv
<1> QED
  BY Invariance, <1>1, PTL

\* A connection is guarded by the timeout.
THEOREM ConnectionWatched == Spec => []ActiveIsWatched
<1>1. IInv => ActiveIsWatched
  BY DEF IInv
<1> QED
  BY Invariance, <1>1, PTL

\* The SBUS mode does not outlive its connection unwatched, but for RSSI.
THEOREM ModeWatched == Spec => []ModeIsWatched
<1>1. IInv => ModeIsWatched
  BY DEF IInv
<1> QED
  BY Invariance, <1>1, PTL

\* Every assigned role is read from its channel.
THEOREM RolesFound == Spec => []LookupFindsAssigned
<1>1. IInv => LookupFindsAssigned
  BY DEF IInv
<1> QED
  BY Invariance, <1>1, PTL

-----------------------------------------------------------------------------
(***************************************************************************)
(* From the bits of a frame to levels and switches                         *)
(***************************************************************************)

Raws == [SbusChannels -> 0 .. 2047]

\* The number that eleven bits make, and a byte of a row of bits.
Eleven(b) ==
    b[0] + 2 * b[1] + 4 * b[2] + 8 * b[3] + 16 * b[4] + 32 * b[5] + 64 * b[6] + 128 * b[7]
    + 256 * b[8] + 512 * b[9] + 1024 * b[10]
ByteOf(b, n) ==
    b[8 * n] + 2 * b[8 * n + 1] + 4 * b[8 * n + 2] + 8 * b[8 * n + 3] + 16 * b[8 * n + 4]
    + 32 * b[8 * n + 5] + 64 * b[8 * n + 6] + 128 * b[8 * n + 7]

BitsOf(x) == [i \in 0 .. 10 |-> (x \div 2^i) % 2]

\* A raw value is made of its bits.
LEMMA MadeOfBits ==
    ASSUME NEW x \in 0 .. 2047
    PROVE  x = Eleven(BitsOf(x))
<1>1. x = (x % 2) + 2 * ((x \div 2) % 2) + 4 * ((x \div 4) % 2) + 8 * (x \div 8)
  OBVIOUS
<1>2. x \div 8 = ((x \div 8) % 2) + 2 * ((x \div 16) % 2) + 4 * ((x \div 32) % 2) + 8 * (x \div 64)
  OBVIOUS
<1>3. x \div 64 = ((x \div 64) % 2) + 2 * ((x \div 128) % 2) + 4 * ((x \div 256) % 2)
                  + 8 * (x \div 512)
  OBVIOUS
<1>4. x \div 512 = ((x \div 512) % 2) + 2 * ((x \div 1024) % 2)
  OBVIOUS
<1>5. /\ 2^0 = 1 /\ 2^1 = 2 /\ 2^2 = 4 /\ 2^3 = 8 /\ 2^4 = 16 /\ 2^5 = 32 /\ 2^6 = 64
      /\ 2^7 = 128 /\ 2^8 = 256 /\ 2^9 = 512 /\ 2^10 = 1024 /\ x \div 1 = x
  OBVIOUS
<1>6. Eleven(BitsOf(x))
        = (x % 2) + 2 * ((x \div 2) % 2) + 4 * ((x \div 4) % 2) + 8 * ((x \div 8) % 2)
          + 16 * ((x \div 16) % 2) + 32 * ((x \div 32) % 2) + 64 * ((x \div 64) % 2)
          + 128 * ((x \div 128) % 2) + 256 * ((x \div 256) % 2) + 512 * ((x \div 512) % 2)
          + 1024 * ((x \div 1024) % 2)
  BY <1>5 DEF Eleven, BitsOf
<1> DEFINE a == (x % 2) + 2 * ((x \div 2) % 2) + 4 * ((x \div 4) % 2)
           b == ((x \div 8) % 2) + 2 * ((x \div 16) % 2) + 4 * ((x \div 32) % 2)
           c == ((x \div 64) % 2) + 2 * ((x \div 128) % 2) + 4 * ((x \div 256) % 2)
           d == ((x \div 512) % 2) + 2 * ((x \div 1024) % 2)
<1>7. Eleven(BitsOf(x)) = a + 8 * b + 64 * c + 512 * d
  BY <1>6
<1>8. a \in Nat /\ b \in Nat /\ c \in Nat /\ d \in Nat
  OBVIOUS
<1>9. x = a + 8 * (b + 8 * (c + 8 * d))
  BY <1>1, <1>2, <1>3, <1>4
<1> HIDE DEF a, b, c, d
<1> QED
  BY <1>7, <1>8, <1>9

\* The shifts of Unpack take eleven bits out of the bytes they lie in.
Joined(b, s) ==
    (ByteOf(b, 0) \div 2^s + ByteOf(b, 1) * 2^(8 - s)
     + (IF s > 5 THEN ByteOf(b, 2) * 2^(16 - s) ELSE 0)) % 2048

LEMMA JoinsTwo ==
    ASSUME NEW b \in [0 .. 23 -> 0 .. 1], NEW s \in 0 .. 5
    PROVE  Joined(b, s) = Eleven([i \in 0 .. 10 |-> b[s + i]])
<1> USE DEF Joined, Eleven, ByteOf
<1>0. CASE s = 0
  BY <1>0, SMTT(60)
<1>1. CASE s = 1
  BY <1>1, SMTT(60)
<1>2. CASE s = 2
  BY <1>2, SMTT(60)
<1>3. CASE s = 3
  BY <1>3, SMTT(60)
<1>4. CASE s = 4
  BY <1>4, SMTT(60)
<1>5. CASE s = 5
  BY <1>5, SMTT(60)
<1> QED
  BY <1>0, <1>1, <1>2, <1>3, <1>4, <1>5

LEMMA JoinsThree ==
    ASSUME NEW b \in [0 .. 23 -> 0 .. 1], NEW s \in 6 .. 7
    PROVE  Joined(b, s) = Eleven([i \in 0 .. 10 |-> b[s + i]])
<1> DEFINE x == ByteOf(b, 0)
           y == ByteOf(b, 1)
           z == ByteOf(b, 2)
           low == IF s = 6 THEN b[6] + 2 * b[7] ELSE b[7]
           mid == IF s = 6 THEN b[16] ELSE b[16] + 2 * b[17]
           rest == b[18] + 2 * b[19] + 4 * b[20] + 8 * b[21] + 16 * b[22] + 32 * b[23]
           high == IF s = 6 THEN b[17] + 2 * rest ELSE rest
<1>1. x \div 2^s = low /\ x \in Nat /\ low \in 0 .. 3 /\ (s = 7 => low \in 0 .. 1)
  <2>1. 2^6 = 64 /\ 2^7 = 128
    OBVIOUS
  <2>2. CASE s = 6
    <3>1. x \div 64 = b[6] + 2 * b[7] /\ x \in Nat
      BY DEF ByteOf
    <3> QED
      BY <2>1, <2>2, <3>1
  <2>3. CASE s = 7
    <3>1. x \div 128 = b[7] /\ x \in Nat
      BY DEF ByteOf
    <3> QED
      BY <2>1, <2>3, <3>1
  <2> QED
    BY <2>2, <2>3
<1>2. z \in Nat /\ high \in Nat
      /\ mid \in 0 .. 3 /\ (s = 6 => z = mid + 2 * high /\ mid \in 0 .. 1)
      /\ (s = 7 => z = mid + 4 * high)
  <2>1. z = b[16] + 2 * b[17] + 4 * rest /\ rest \in Nat
    BY DEF ByteOf
  <2>2. b[16] \in 0 .. 1 /\ b[17] \in 0 .. 1
    OBVIOUS
  <2> HIDE DEF z, rest
  <2>3. CASE s = 6
    BY <2>1, <2>2, <2>3
  <2>4. CASE s = 7
    BY <2>1, <2>2, <2>4
  <2> QED
    BY <2>3, <2>4
<1>3. y \in Nat /\ y \in 0 .. 255
  BY DEF ByteOf
<1>4. Eleven([i \in 0 .. 10 |-> b[s + i]])
        = IF s = 6 THEN low + 4 * y + 1024 * mid ELSE low + 2 * y + 512 * mid
  <2>1. s = 6 => Eleven([i \in 0 .. 10 |-> b[s + i]]) = low + 4 * y + 1024 * mid
    BY DEF ByteOf, Eleven
  <2>2. s = 7 => Eleven([i \in 0 .. 10 |-> b[s + i]]) = low + 2 * y + 512 * mid
    BY DEF ByteOf, Eleven
  <2> QED
    BY <2>1, <2>2
<1> HIDE DEF x, y, z, low, mid, high
<1>5. Joined(b, s) = (low + y * 2^(8 - s) + z * 2^(16 - s)) % 2048
  BY <1>1 DEF Joined, x, y, z
<1>6. 2^(8 - 6) = 4 /\ 2^(16 - 6) = 1024 /\ 2^(8 - 7) = 2 /\ 2^(16 - 7) = 512
  OBVIOUS
<1>7. CASE s = 6
  BY <1>1, <1>2, <1>3, <1>4, <1>5, <1>6, <1>7
<1>8. CASE s = 7
  BY <1>1, <1>2, <1>3, <1>4, <1>5, <1>6, <1>8
<1> QED
  BY <1>7, <1>8

\* Where the bits of a channel begin in the frame, and the bytes that hold them.
LEMMA WhereBitsAre ==
    ASSUME NEW c \in SbusChannels
    PROVE  LET piece == Pieces[(c % 8) + 1]
               first == piece[1] + 11 * (c \div 8)
           IN  /\ first \in 0 .. 20 /\ piece[2] \in 0 .. 7
               /\ piece[2] > 5 => first \in 0 .. 19
               /\ 8 * first + piece[2] = 11 * c
<1>1. c \in {0, 1, 2, 3, 4, 5, 6, 7} \/ c \in {8, 9, 10, 11, 12, 13, 14, 15}
  BY DEF SbusChannels
<1>2. CASE c \in {0, 1, 2, 3, 4, 5, 6, 7}
  <2>1. c % 8 = c /\ c \div 8 = 0
    BY <1>2
  <2> QED
    BY <1>2, <2>1 DEF Pieces
<1>3. CASE c \in {8, 9, 10, 11, 12, 13, 14, 15}
  <2>1. c % 8 = c - 8 /\ c \div 8 = 1
    BY <1>3
  <2> QED
    BY <1>3, <2>1 DEF Pieces
<1> QED
  BY <1>1, <1>2, <1>3

LEMMA BitRange ==
    ASSUME NEW raw \in Raws, NEW n \in 0 .. 175
    PROVE  Bit(raw, n) \in 0 .. 1
<1>1. n \div 11 \in 0 .. 15 /\ n % 11 \in 0 .. 10
  OBVIOUS
<1>2. \A i \in 0 .. 10 : 2^i \in Nat \ {0}
  <2> TAKE i \in 0 .. 10
  <2>1. CASE i = 0
    BY <2>1
  <2>2. CASE i = 1
    BY <2>2
  <2>3. CASE i = 2
    BY <2>3
  <2>4. CASE i = 3
    BY <2>4
  <2>5. CASE i = 4
    BY <2>5
  <2>6. CASE i = 5
    BY <2>6
  <2>7. CASE i = 6
    BY <2>7
  <2>8. CASE i = 7
    BY <2>8
  <2>9. CASE i = 8
    BY <2>9
  <2>10. CASE i = 9
    BY <2>10
  <2>11. CASE i = 10
    BY <2>11
  <2> QED
    BY <2>1, <2>2, <2>3, <2>4, <2>5, <2>6, <2>7, <2>8, <2>9, <2>10, <2>11
<1>3. raw[n \div 11] \in 0 .. 2047
  BY <1>1 DEF Raws, SbusChannels
<1>4. \A x \in Nat, d \in Nat \ {0} : x \div d \in Nat
  OBVIOUS
<1>5. raw[n \div 11] \div 2^(n % 11) \in Nat
  <2>1. 2^(n % 11) \in Nat \ {0}
    BY <1>1, <1>2
  <2> DEFINE d == 2^(n % 11)
             x == raw[n \div 11]
  <2>2. d \in Nat \ {0} /\ x \in Nat
    BY <1>3, <2>1
  <2> HIDE DEF d, x
  <2>3. x \div d \in Nat
    BY <1>4, <2>2
  <2> QED
    BY <2>3 DEF d, x
<1>6. \A x \in Nat : x % 2 \in 0 .. 1
  OBVIOUS
<1> QED
  BY <1>5, <1>6 DEF Bit

\* Every channel comes out of the frame as it went in, whatever the others are.
LEMMA UnpackedAsSent ==
    ASSUME NEW raw \in Raws, NEW c \in SbusChannels
    PROVE  Unpack(SbusFrame(raw), c) = raw[c]
<1> DEFINE piece == Pieces[(c % 8) + 1]
           first == piece[1] + 11 * (c \div 8)
           shift == piece[2]
           b == [j \in 0 .. 23 |-> IF j < 16 \/ shift > 5 THEN Bit(raw, 8 * first + j) ELSE 0]
           pld == SbusFrame(raw)
<1>1. /\ first \in 0 .. 20 /\ shift \in 0 .. 7
      /\ shift > 5 => first \in 0 .. 19
      /\ 8 * first + shift = 11 * c
  BY WhereBitsAre
<1> HIDE DEF first, shift
<1>2. b \in [0 .. 23 -> 0 .. 1]
  <2>1. ASSUME NEW j \in 0 .. 23 PROVE b[j] \in 0 .. 1
    <3>1. CASE j < 16 \/ shift > 5
      <4>1. 8 * first + j \in 0 .. 175
        BY <1>1, <3>1
      <4> QED
        BY <3>1, <4>1, BitRange
    <3>2. CASE ~ (j < 16 \/ shift > 5)
      BY <3>2
    <3> QED
      BY <3>1, <3>2
  <2> QED
    BY <2>1
<1>3. /\ pld[first] = ByteOf(b, 0) /\ pld[first + 1] = ByteOf(b, 1)
      /\ shift > 5 => pld[first + 2] = ByteOf(b, 2)
  <2>1. \A n \in 0 .. 21 : pld[n] =
          Bit(raw, 8 * n) + 2 * Bit(raw, 8 * n + 1) + 4 * Bit(raw, 8 * n + 2)
          + 8 * Bit(raw, 8 * n + 3) + 16 * Bit(raw, 8 * n + 4) + 32 * Bit(raw, 8 * n + 5)
          + 64 * Bit(raw, 8 * n + 6) + 128 * Bit(raw, 8 * n + 7)
    BY DEF SbusFrame
  <2> HIDE DEF pld
  <2>2. pld[first] = ByteOf(b, 0)
    BY <1>1, <2>1 DEF ByteOf
  <2>3. 8 * (first + 1) = 8 * first + 8 /\ 8 * (first + 2) = 8 * first + 16
    BY <1>1
  <2>4. pld[first + 1] = ByteOf(b, 1)
    BY <1>1, <2>1, <2>3 DEF ByteOf
  <2>5. shift > 5 => pld[first + 2] = ByteOf(b, 2)
    BY <1>1, <2>1, <2>3 DEF ByteOf
  <2> QED
    BY <2>2, <2>4, <2>5
<1>4. Unpack(pld, c) = Joined(b, shift)
  <2>1. Unpack(pld, c) = (pld[first] \div 2^shift + pld[first + 1] * 2^(8 - shift)
                          + (IF shift > 5 THEN pld[first + 2] * 2^(16 - shift) ELSE 0)) % 2048
    BY DEF Unpack, first, shift
  <2> HIDE DEF b, pld
  <2> QED
    BY <1>3, <2>1 DEF Joined
<1>5. Joined(b, shift) = Eleven([i \in 0 .. 10 |-> b[shift + i]])
  <2> HIDE DEF b
  <2>1. shift \in 0 .. 5 \/ shift \in 6 .. 7
    BY <1>1
  <2> QED
    BY <1>2, <2>1, JoinsTwo, JoinsThree
<1>6. [i \in 0 .. 10 |-> b[shift + i]] = BitsOf(raw[c])
  <2>1. ASSUME NEW i \in 0 .. 10 PROVE b[shift + i] = (raw[c] \div 2^i) % 2
    <3>1. b[shift + i] = Bit(raw, 8 * first + (shift + i))
      BY <1>1
    <3>2. 8 * first + (shift + i) = 11 * c + i
      BY <1>1
    <3>3. (11 * c + i) \div 11 = c /\ (11 * c + i) % 11 = i
      BY DEF SbusChannels
    <3> QED
      BY <3>1, <3>2, <3>3 DEF Bit
  <2> QED
    BY <2>1 DEF BitsOf
<1>7. raw[c] = Eleven(BitsOf(raw[c]))
  <2>1. raw[c] \in 0 .. 2047
    BY DEF Raws
  <2> QED
    BY <2>1, MadeOfBits
<1> QED
  BY <1>4, <1>5, <1>6, <1>7

\* Levels as fractions, and their order.
IsFraction(x) == x.num \in Int /\ x.den \in Nat \ {0}

LEMMA Cancel ==
    ASSUME NEW a \in Int, NEW b \in Int, NEW d \in Nat \ {0}
    PROVE  a * d <= b * d <=> a <= b
<1>1. a <= b => a * d <= b * d
  <2>1. ASSUME a <= b PROVE a * d <= b * d
    <3>1. (b - a) * d >= 0
      BY <2>1
    <3>2. (b - a) * d = b * d - a * d
      OBVIOUS
    <3> QED
      BY <3>1, <3>2
  <2> QED
    BY <2>1
<1>2. a > b => a * d > b * d
  <2>1. ASSUME a > b PROVE a * d > b * d
    <3>1. (a - b) * d > 0
      BY <2>1
    <3>2. (a - b) * d = a * d - b * d
      OBVIOUS
    <3> QED
      BY <3>1, <3>2
  <2> QED
    BY <2>1
<1> QED
  BY <1>1, <1>2

LEMMA LeqTransitive ==
    ASSUME NEW x, NEW y, NEW z, IsFraction(x), IsFraction(y), IsFraction(z), Leq(x, y), Leq(y, z)
    PROVE  Leq(x, z)
<1> DEFINE a == x.num  b == y.num  c == z.num
           d == x.den  e == y.den  f == z.den
<1>1. /\ a \in Int /\ b \in Int /\ c \in Int
      /\ d \in Nat \ {0} /\ e \in Nat \ {0} /\ f \in Nat \ {0}
      /\ a * e <= b * d /\ b * f <= c * e
  BY DEF IsFraction, Leq
<1> HIDE DEF a, b, c, d, e, f
<1>2. a * e \in Int /\ b * d \in Int /\ b * f \in Int /\ c * e \in Int /\ a * f \in Int /\ c * d \in Int
  BY <1>1
<1>3. (a * e) * f <= (b * d) * f
  BY <1>1, <1>2, Cancel
<1>4. (b * f) * d <= (c * e) * d
  BY <1>1, <1>2, Cancel
<1>5. (a * e) * f = (a * f) * e /\ (b * d) * f = (b * f) * d /\ (c * e) * d = (c * d) * e
  BY <1>1
<1>6. (a * f) * e <= (c * d) * e
  <2>1. (a * f) * e \in Int /\ (b * f) * d \in Int /\ (c * d) * e \in Int
    BY <1>1, <1>2
  <2> QED
    BY <1>3, <1>4, <1>5, <2>1
<1>7. a * f <= c * d
  BY <1>1, <1>2, <1>6, Cancel
<1> QED
  BY <1>7 DEF Leq, a, c, d, f

LEMMA LeqTotal ==
    ASSUME NEW x, NEW y, IsFraction(x), IsFraction(y)
    PROVE  Leq(x, y) \/ Leq(y, x)
<1>1. x.num * y.den \in Int /\ y.num * x.den \in Int
  BY DEF IsFraction
<1> QED
  BY <1>1 DEF Leq

\* Fractions with one denominator, and fractions on two sides of zero.
LEMMA LeqOfNumerators ==
    ASSUME NEW x, NEW y, IsFraction(x), IsFraction(y), x.den = y.den, x.num <= y.num
    PROVE  Leq(x, y)
  BY Cancel DEF IsFraction, Leq

LEMMA LeqAcrossZero ==
    ASSUME NEW x, NEW y, IsFraction(x), IsFraction(y), x.num <= 0, 0 <= y.num
    PROVE  Leq(x, y)
<1>1. x.num * y.den <= 0 * y.den
  BY Cancel DEF IsFraction
<1>2. 0 * x.den <= y.num * x.den
  BY Cancel DEF IsFraction
<1>3. x.num * y.den \in Int /\ y.num * x.den \in Int /\ 0 * x.den = 0 /\ 0 * y.den = 0
  BY DEF IsFraction
<1> QED
  BY <1>1, <1>2, <1>3 DEF Leq

LEMMA Wholes ==
    ASSUME NEW n \in Int
    PROVE  /\ IsFraction(Whole(n))
           /\ \A x : IsFraction(x) => /\ Leq(x, Whole(n)) <=> x.num <= n * x.den
                                      /\ Leq(Whole(n), x) <=> n * x.den <= x.num
           /\ \A m \in Int : Leq(Whole(m), Whole(n)) <=> m <= n
<1>1. Whole(n).num = n /\ Whole(n).den = 1
  BY DEF Whole
<1>2. \A m \in Int : Whole(m).num = m /\ Whole(m).den = 1
  BY DEF Whole
<1>3. IsFraction(Whole(n))
  BY <1>1 DEF IsFraction
<1>4. ASSUME NEW x, IsFraction(x)
      PROVE  /\ Leq(x, Whole(n)) <=> x.num <= n * x.den
             /\ Leq(Whole(n), x) <=> n * x.den <= x.num
  <2>1. x.num * 1 = x.num
    BY <1>4 DEF IsFraction
  <2> QED
    BY <1>1, <2>1 DEF Leq
<1>5. ASSUME NEW m \in Int PROVE Leq(Whole(m), Whole(n)) <=> m <= n
  BY <1>1, <1>2 DEF Leq
<1> QED
  BY <1>3, <1>4, <1>5

LEMMA Turned ==
    ASSUME NEW n \in {-1, 0, 1}, NEW x, IsFraction(x)
    PROVE  /\ IsFraction(From(n, x))
           /\ From(n, x).num = n * x.den - x.num /\ From(n, x).den = x.den
           /\ \A y : IsFraction(y) /\ Leq(x, y) => Leq(From(n, y), From(n, x))
<1>1. /\ From(n, x).num = n * x.den - x.num /\ From(n, x).den = x.den
      /\ \A y : From(n, y).num = n * y.den - y.num /\ From(n, y).den = y.den
  BY DEF From
<1>2. IsFraction(From(n, x))
  BY <1>1 DEF IsFraction
<1>3. ASSUME NEW y, IsFraction(y), Leq(x, y) PROVE Leq(From(n, y), From(n, x))
  <2> DEFINE a == x.num  b == y.num
             d == x.den  e == y.den
  <2>1. a \in Int /\ b \in Int /\ d \in Nat /\ e \in Nat /\ a * e <= b * d
    BY <1>3 DEF IsFraction, Leq
  <2>2. Leq(From(n, y), From(n, x)) <=> (n * e - b) * d <= (n * d - a) * e
    BY <1>1 DEF Leq
  <2> HIDE DEF a, b, d, e
  <2>3. /\ (n * e - b) * d = n * (e * d) - b * d
        /\ (n * d - a) * e = n * (e * d) - a * e
    BY <2>1
  <2>4. a * e \in Int /\ b * d \in Int /\ n * (e * d) \in Int
    BY <2>1
  <2> QED
    BY <2>1, <2>2, <2>3, <2>4
<1> QED
  BY <1>1, <1>2, <1>3

\* bound keeps the order, between its ends.
LEMMA Bounded ==
    ASSUME NEW min \in Int, NEW max \in Int, min <= max, NEW x, IsFraction(x)
    PROVE  /\ IsFraction(Bound(max, min, x))
           /\ Leq(Whole(min), Bound(max, min, x)) /\ Leq(Bound(max, min, x), Whole(max))
           /\ \A y : IsFraction(y) /\ Leq(x, y) => Leq(Bound(max, min, x), Bound(max, min, y))
<1>1. /\ IsFraction(Whole(min)) /\ IsFraction(Whole(max))
      /\ Leq(Whole(min), Whole(max)) /\ Leq(Whole(min), Whole(min)) /\ Leq(Whole(max), Whole(max))
  BY Wholes
<1>2. ASSUME NEW y, IsFraction(y)
      PROVE  \/ ~Leq(y, Whole(max)) /\ Bound(max, min, y) = Whole(max)
             \/ Leq(y, Whole(max)) /\ ~Leq(Whole(min), y) /\ Bound(max, min, y) = Whole(min)
             \/ Leq(y, Whole(max)) /\ Leq(Whole(min), y) /\ Bound(max, min, y) = y
  BY DEF Bound, Less
<1>3. ASSUME NEW y, IsFraction(y)
      PROVE  Leq(Whole(min), Bound(max, min, y)) /\ Leq(Bound(max, min, y), Whole(max))
             /\ IsFraction(Bound(max, min, y))
  BY <1>1, <1>2, <1>3
<1>4. ASSUME NEW y, IsFraction(y), Leq(x, y) PROVE Leq(Bound(max, min, x), Bound(max, min, y))
  <2>1. CASE ~Leq(x, Whole(max))
    <3>1. ~Leq(y, Whole(max))
      BY <1>1, <1>4, <2>1, LeqTransitive
    <3> QED
      BY <1>1, <1>2, <1>4, <2>1, <3>1
  <2>2. CASE Leq(x, Whole(max)) /\ ~Leq(Whole(min), x)
    BY <1>2, <1>3, <1>4, <2>2
  <2>3. CASE Leq(x, Whole(max)) /\ Leq(Whole(min), x)
    <3>1. Leq(Whole(min), y)
      BY <1>1, <1>4, <2>3, LeqTransitive
    <3> QED
      BY <1>2, <1>4, <2>3, <3>1
  <2> QED
    BY <2>1, <2>2, <2>3
<1> QED
  BY <1>3, <1>4

LEMMA SettingOK ==
    ASSUME NEW s \in LevelSettings
    PROVE  /\ s.bottom \in Nat /\ s.center \in Nat /\ s.top \in Nat
           /\ s.bottom <= s.center /\ s.center <= s.top /\ s.bottom < s.top
           /\ s.reverse \in BOOLEAN /\ s.type \in Types
<1>1. PICK c \in Calibrations, r \in BOOLEAN, t \in Types :
        s = [bottom |-> c.bottom, center |-> c.center, top |-> c.top, reverse |-> r, type |-> t]
  BY DEF LevelSettings
<1>2. /\ c \in [bottom : Nat, center : Nat, top : Nat]
      /\ c.bottom <= c.center /\ c.center <= c.top /\ c.bottom < c.top
  BY CalibrationAssumption
<1> QED
  BY <1>1, <1>2

\* The deflection grows with the raw value, over the center too.
LEMMA Deflects ==
    ASSUME NEW s \in LevelSettings, NEW p \in Nat
    PROVE  /\ IsFraction(Deflection(p, s))
           /\ \A q \in Nat : p <= q => Leq(Deflection(p, s), Deflection(q, s))
<1>1. /\ s.bottom \in Nat /\ s.center \in Nat /\ s.top \in Nat
      /\ s.bottom <= s.center /\ s.center <= s.top
  BY SettingOK
<1>2. ASSUME NEW q \in Nat
      PROVE  \/ /\ q > s.center /\ s.center # s.top
                /\ Deflection(q, s) = [num |-> q - s.center, den |-> s.top - s.center]
             \/ /\ q < s.center /\ s.center # s.bottom
                /\ Deflection(q, s) = [num |-> q - s.center, den |-> s.center - s.bottom]
             \/ /\ q > s.center => s.center = s.top
                /\ q < s.center => s.center = s.bottom
                /\ Deflection(q, s) = [num |-> 0, den |-> 1]
  BY <1>1 DEF Deflection, Whole
<1>3. ASSUME NEW q \in Nat PROVE IsFraction(Deflection(q, s))
  BY <1>1, <1>2 DEF IsFraction
<1>4. ASSUME NEW q \in Nat, p <= q PROVE Leq(Deflection(p, s), Deflection(q, s))
  <2> DEFINE x == Deflection(p, s)
             y == Deflection(q, s)
  <2>1. IsFraction(x) /\ IsFraction(y)
    BY <1>3
  <2>2. \/ x.num <= 0 /\ 0 <= y.num
        \/ x.den = y.den /\ x.num <= y.num
    <3> HIDE DEF x, y
    <3>1. \/ p > s.center /\ s.center # s.top /\ x.num = p - s.center /\ x.den = s.top - s.center
          \/ p < s.center /\ s.center # s.bottom /\ x.num = p - s.center /\ x.den = s.center - s.bottom
          \/ /\ p > s.center => s.center = s.top
             /\ p < s.center => s.center = s.bottom
             /\ x.num = 0 /\ x.den = 1
      BY <1>2 DEF x
    <3>2. \/ q > s.center /\ s.center # s.top /\ y.num = q - s.center /\ y.den = s.top - s.center
          \/ q < s.center /\ s.center # s.bottom /\ y.num = q - s.center /\ y.den = s.center - s.bottom
          \/ /\ q > s.center => s.center = s.top
             /\ q < s.center => s.center = s.bottom
             /\ y.num = 0 /\ y.den = 1
      BY <1>2 DEF y
    <3> QED
      BY <1>1, <1>4, <3>1, <3>2
  <2> QED
    BY <2>1, <2>2, LeqOfNumerators, LeqAcrossZero
<1> QED
  BY <1>3, <1>4

\* The ends of the levels, of a setting.
LowEnd(s) == IF s.center = s.bottom THEN 0 ELSE -1
HighEnd(s) == IF s.center = s.top THEN 0 ELSE 1

\* A level lies between its ends and follows the raw value, or goes against it.
LEMMA LevelFollows ==
    ASSUME NEW s \in LevelSettings, NEW p \in Nat \ {0}
    PROVE  /\ IsFraction(GetAnalogLevel(p, s))
           /\ Leq(Whole(LowEnd(s)), GetAnalogLevel(p, s))
           /\ Leq(GetAnalogLevel(p, s), Whole(HighEnd(s)))
           /\ \A q \in Nat : p <= q =>
                IF s.reverse THEN Leq(GetAnalogLevel(q, s), GetAnalogLevel(p, s))
                ELSE Leq(GetAnalogLevel(p, s), GetAnalogLevel(q, s))
<1> DEFINE x == Deflection(p, s)
           low == IF s.center = s.bottom THEN 0 ELSE -1
           high == IF s.center = s.top THEN 0 ELSE 1
<1>1. /\ s.bottom \in Nat /\ s.center \in Nat /\ s.top \in Nat
      /\ s.bottom <= s.center /\ s.center <= s.top /\ s.bottom < s.top /\ s.reverse \in BOOLEAN
  BY SettingOK
<1>2. IsFraction(x)
  BY Deflects
<1>3. CASE ~s.reverse
  <2>1. \A q \in Nat \ {0} : GetAnalogLevel(q, s) = Bound(1, -1, Deflection(q, s))
    BY <1>3 DEF GetAnalogLevel
  <2>2. low = 0 => Leq(Whole(0), x)
    BY <1>1, Wholes, <1>2 DEF Deflection, Whole, Leq
  <2>3. high = 0 => Leq(x, Whole(0))
    BY <1>1, Wholes, <1>2 DEF Deflection, Whole, Leq
  <2> HIDE DEF x, low, high
  <2>4. /\ IsFraction(Bound(1, -1, x)) /\ Leq(Whole(-1), Bound(1, -1, x)) /\ Leq(Bound(1, -1, x), Whole(1))
        /\ \A y : IsFraction(y) /\ Leq(x, y) => Leq(Bound(1, -1, x), Bound(1, -1, y))
    BY <1>2, Bounded
  <2>8. /\ IsFraction(Whole(0)) /\ IsFraction(Whole(1)) /\ IsFraction(Whole(-1))
        /\ Leq(Whole(0), Whole(1)) /\ Leq(Whole(-1), Whole(0))
    BY Wholes
  <2>9. \/ ~Leq(x, Whole(1)) /\ Bound(1, -1, x) = Whole(1)
        \/ ~Leq(Whole(-1), x) /\ Bound(1, -1, x) = Whole(-1)
        \/ Bound(1, -1, x) = x
    BY DEF Bound, Less
  <2>5. low = 0 => Leq(Whole(0), Bound(1, -1, x))
    BY <1>2, <2>2, <2>8, <2>9, LeqTransitive
  <2>6. high = 0 => Leq(Bound(1, -1, x), Whole(0))
    BY <1>2, <2>3, <2>8, <2>9, LeqTransitive
  <2>7. ASSUME NEW q \in Nat, p <= q
        PROVE  Leq(Bound(1, -1, x), Bound(1, -1, Deflection(q, s)))
    BY <2>4, <2>7, Deflects DEF x
  <2> QED
    BY <1>3, <2>1, <2>4, <2>5, <2>6, <2>7 DEF LowEnd, HighEnd, low, high, x
<1>4. CASE s.reverse
  <2> DEFINE n == IF s.center = s.bottom THEN 1 ELSE IF s.center = s.top THEN -1 ELSE 0
  <2>1. \A q \in Nat \ {0} : GetAnalogLevel(q, s) = Bound(high, low, From(n, Deflection(q, s)))
    BY <1>1, <1>4 DEF GetAnalogLevel
  <2>2. n \in {-1, 0, 1} /\ low \in Int /\ high \in Int /\ low <= high
    OBVIOUS
  <2> HIDE DEF x, low, high, n
  <2>3. IsFraction(From(n, x))
    BY <1>2, <2>2, Turned
  <2>4. /\ IsFraction(Bound(high, low, From(n, x)))
        /\ Leq(Whole(low), Bound(high, low, From(n, x)))
        /\ Leq(Bound(high, low, From(n, x)), Whole(high))
    BY <2>2, <2>3, Bounded
  <2>5. ASSUME NEW q \in Nat, p <= q
        PROVE  Leq(Bound(high, low, From(n, Deflection(q, s))), Bound(high, low, From(n, x)))
    <3>1. IsFraction(Deflection(q, s)) /\ Leq(x, Deflection(q, s))
      BY <2>5, Deflects DEF x
    <3>2. Leq(From(n, Deflection(q, s)), From(n, x)) /\ IsFraction(From(n, Deflection(q, s)))
      BY <1>2, <2>2, <3>1, Turned
    <3> QED
      BY <2>2, <2>3, <3>2, Bounded
  <2> QED
    BY <1>4, <2>1, <2>4, <2>5 DEF LowEnd, HighEnd, low, high, x
<1> QED
  BY <1>1, <1>3, <1>4

\* At or beyond its ends a channel has the levels of its ends.
LEMMA EndsOfWay ==
    ASSUME NEW s \in LevelSettings, NEW p \in Nat \ {0}
    PROVE  LET l == GetAnalogLevel(p, s)
           IN  /\ p >= s.top => l.num = l.den * (IF s.reverse THEN LowEnd(s) ELSE HighEnd(s))
               /\ p <= s.bottom => l.num = l.den * (IF s.reverse THEN HighEnd(s) ELSE LowEnd(s))
<1> DEFINE l == GetAnalogLevel(p, s)
           x == Deflection(p, s)
<1>1. /\ s.bottom \in Nat /\ s.center \in Nat /\ s.top \in Nat
      /\ s.bottom <= s.center /\ s.center <= s.top /\ s.bottom < s.top /\ s.reverse \in BOOLEAN
  BY SettingOK
<1>2. x.num \in Int /\ x.den \in Nat \ {0}
  BY Deflects DEF IsFraction
<1>3. p >= s.top => IF s.center = s.top THEN x.num = 0 ELSE x.num >= x.den
  BY <1>1 DEF Deflection, Whole
<1>4. p <= s.bottom => IF s.center = s.bottom THEN x.num = 0 ELSE x.num <= -x.den
  BY <1>1 DEF Deflection, Whole
<1>5. CASE ~s.reverse
  <2>1. l = Bound(1, -1, x)
    BY <1>5 DEF GetAnalogLevel
  <2> HIDE DEF l, x
  <2> QED
    BY <1>1, <1>2, <1>3, <1>4, <1>5, <2>1 DEF Bound, Less, Leq, Whole, LowEnd, HighEnd, l
<1>6. CASE s.reverse /\ s.center = s.bottom
  <2>1. l = Bound(1, 0, From(1, x))
    BY <1>6 DEF GetAnalogLevel
  <2> HIDE DEF l, x
  <2> QED
    BY <1>1, <1>2, <1>3, <1>4, <1>6, <2>1 DEF Bound, Less, Leq, Whole, From, LowEnd, HighEnd, l
<1>7. CASE s.reverse /\ s.center = s.top
  <2>1. l = Bound(0, -1, From(-1, x))
    BY <1>1, <1>7 DEF GetAnalogLevel
  <2> DEFINE y == From(-1, x)
  <2>2. y.num = -x.den - x.num /\ y.den = x.den
    BY <1>2 DEF From
  <2> HIDE DEF l, x, y
  <2>3. y.num \in Int /\ y.den \in Nat \ {0}
    BY <1>2, <2>2
  <2>4. l = IF ~(y.num <= 0) THEN Whole(0) ELSE IF ~(-y.den <= y.num) THEN Whole(-1) ELSE y
    BY <2>1, <2>3 DEF Bound, Less, Leq, Whole, y
  <2>5. p >= s.top => l.num = -l.den
    BY <1>2, <1>3, <1>7, <2>2, <2>3, <2>4 DEF Whole
  <2>6. p <= s.bottom => l.num = 0
    BY <1>1, <1>2, <1>4, <1>7, <2>2, <2>3, <2>4 DEF Whole
  <2>7. l.den \in Nat
    BY <2>3, <2>4 DEF Whole
  <2> QED
    BY <1>1, <1>7, <2>5, <2>6, <2>7 DEF LowEnd, HighEnd, l
<1>8. CASE s.reverse /\ s.center # s.bottom /\ s.center # s.top
  <2>1. l = Bound(1, -1, From(0, x))
    BY <1>8 DEF GetAnalogLevel
  <2> HIDE DEF l, x
  <2> QED
    BY <1>1, <1>2, <1>3, <1>4, <1>8, <2>1 DEF Bound, Less, Leq, Whole, From, LowEnd, HighEnd, l
<1> QED
  BY <1>1, <1>5, <1>6, <1>7, <1>8

\* The values are those of the last frame, or none has come; the levels are theirs.
LevelsOfFrame ==
    /\ setting \in LevelSettings /\ moved \in SbusChannels /\ sticks \in Raws
    /\ value = sticks \/ value = [c \in SbusChannels |-> 0]
    /\ calibrated = [c \in SbusChannels |-> GetAnalogLevel(value[c], setting)]

LEMMA LevelsStart == LevelInit => LevelsOfFrame
<1> SUFFICES ASSUME LevelInit PROVE LevelsOfFrame
  OBVIOUS
<1>1. PICK rest \in Rests : sticks = [c \in SbusChannels |-> rest]
  BY DEF LevelInit
<1>2. sticks \in Raws
  BY <1>1, CalibrationAssumption DEF Raws
<1>3. calibrated = [c \in SbusChannels |-> GetAnalogLevel(value[c], setting)]
  <2>1. \A c \in SbusChannels : value[c] = 0
    BY DEF LevelInit
  <2>2. \A c \in SbusChannels : GetAnalogLevel(value[c], setting) = Whole(0)
    BY <2>1 DEF GetAnalogLevel
  <2> QED
    BY <2>2 DEF LevelInit
<1> QED
  BY <1>2, <1>3 DEF LevelInit, LevelsOfFrame

LEMMA ValueIsRaw ==
    ASSUME LevelsOfFrame
    PROVE  value[moved] \in 0 .. 2047 /\ value[moved] \in Nat
<1>1. moved \in SbusChannels /\ sticks[moved] \in 0 .. 2047
  BY DEF LevelsOfFrame, Raws
<1>2. value[moved] = sticks[moved] \/ value[moved] = 0
  BY <1>1 DEF LevelsOfFrame
<1> DEFINE v == value[moved]
           w == sticks[moved]
<1>3. w \in 0 .. 2047 /\ (v = w \/ v = 0)
  BY <1>1, <1>2
<1> HIDE DEF v, w
<1>4. v \in 0 .. 2047 /\ v \in Nat
  BY <1>3
<1> QED
  BY <1>4 DEF v

\* A frame comes: every value is as it was sent, and the stick has moved up.
LEMMA FrameReceived ==
    ASSUME LevelsOfFrame, ReceiveFrame
    PROVE  /\ sticks' \in Raws /\ value' = sticks' /\ UNCHANGED <<moved, setting>>
           /\ calibrated' = [c \in SbusChannels |-> GetAnalogLevel(value'[c], setting)]
           /\ value'[moved] # 0 /\ value[moved] \in Nat /\ value[moved] < value'[moved]
<1>1. PICK p \in Positions :
        /\ value[moved] < p
        /\ sticks' = [sticks EXCEPT ![moved] = p]
        /\ value' = [c \in SbusChannels |-> Unpack(SbusFrame(sticks'), c)]
        /\ calibrated' = [c \in SbusChannels |-> GetAnalogLevel(value'[c], setting)]
        /\ UNCHANGED <<moved, setting>>
  BY DEF ReceiveFrame
<1>2. p \in 1 .. 2047
  BY CalibrationAssumption
<1>3. sticks' \in Raws
  BY <1>1, <1>2 DEF LevelsOfFrame, Raws
<1>4. value' = sticks'
  <2>1. \A c \in SbusChannels : Unpack(SbusFrame(sticks'), c) = sticks'[c]
    BY <1>3, UnpackedAsSent
  <2>2. sticks' = [c \in SbusChannels |-> sticks'[c]]
    BY <1>3 DEF Raws
  <2> QED
    BY <1>1, <2>1, <2>2
<1>5. value'[moved] = p
  <2>1. moved \in SbusChannels /\ DOMAIN sticks = SbusChannels
    BY DEF LevelsOfFrame, Raws
  <2>2. sticks'[moved] = p
    BY <1>1, <2>1
  <2> QED
    BY <1>4, <2>2
<1>6. value[moved] \in Nat
  BY ValueIsRaw
<1>7. value'[moved] # 0 /\ value[moved] < value'[moved]
  BY <1>1, <1>2, <1>5
<1> QED
  BY <1>1, <1>3, <1>4, <1>6, <1>7

LEMMA LevelsStay ==
    ASSUME LevelsOfFrame, [LevelNext]_levelVars
    PROVE  LevelsOfFrame'
<1>1. CASE ReceiveFrame
  BY <1>1, FrameReceived DEF LevelsOfFrame
<1>2. CASE UNCHANGED levelVars
  BY <1>2 DEF levelVars, LevelsOfFrame
<1> QED
  BY <1>1, <1>2 DEF LevelNext

\* The stick moves the level of its channel.
LEMMA StickFollowed ==
    ASSUME LevelsOfFrame, ReceiveFrame
    PROVE  FollowsStick
<1> DEFINE v == value[moved]
           w == value'[moved]
<1>1. v \in Nat /\ w \in Nat \ {0} /\ v <= w /\ calibrated'[moved] = GetAnalogLevel(w, setting)
      /\ setting \in LevelSettings /\ Level = GetAnalogLevel(v, setting)
  <2>1. moved \in SbusChannels /\ setting \in LevelSettings
    BY DEF LevelsOfFrame
  <2>2. /\ sticks' \in Raws /\ value' = sticks' /\ v \in Nat /\ w # 0 /\ v < w
        /\ calibrated' = [c \in SbusChannels |-> GetAnalogLevel(value'[c], setting)]
    BY FrameReceived
  <2>3. sticks'[moved] \in 0 .. 2047
    BY <2>1, <2>2 DEF Raws
  <2>4. w \in Nat \ {0}
    BY <2>2, <2>3
  <2>5. calibrated'[moved] = GetAnalogLevel(w, setting) /\ Level = GetAnalogLevel(v, setting)
    BY <2>1, <2>2 DEF LevelsOfFrame, Level
  <2> HIDE DEF v, w
  <2> QED
    BY <2>1, <2>2, <2>4, <2>5
<1>2. Lowest = LowEnd(setting) /\ Highest = HighEnd(setting)
  BY DEF Lowest, Highest, LowEnd, HighEnd
<1>3. Received => v # 0
  BY DEF Received
<1> HIDE DEF v, w
<1>4. /\ Leq(Whole(LowEnd(setting)), GetAnalogLevel(w, setting))
      /\ Leq(GetAnalogLevel(w, setting), Whole(HighEnd(setting)))
  BY <1>1, LevelFollows
<1>5. v # 0 => IF setting.reverse THEN Leq(GetAnalogLevel(w, setting), GetAnalogLevel(v, setting))
               ELSE Leq(GetAnalogLevel(v, setting), GetAnalogLevel(w, setting))
  BY <1>1, LevelFollows
<1> QED
  BY <1>1, <1>2, <1>3, <1>4, <1>5 DEF FollowsStick

\* What is read off a level at the ends and in the center.
LEMMA Switched ==
    ASSUME NEW s \in LevelSettings, s.type # "ANALOG", s.bottom < s.center, s.center < s.top,
           NEW p \in Nat \ {0}
    PROVE  LET l == GetAnalogLevel(p, s)
           IN  /\ p >= s.top => GetSwitchState(l, s) = "TOP"
               /\ p <= s.bottom => GetSwitchState(l, s) = "BOTTOM"
               /\ p = s.center /\ s.type = "3_STATE" => GetSwitchState(l, s) = "CENTER"
<1> DEFINE l == GetAnalogLevel(p, s)
<1>1. /\ s.bottom \in Nat /\ s.center \in Nat /\ s.top \in Nat /\ s.reverse \in BOOLEAN
      /\ s.type \in {"3_STATE", "ON_OFF"}
  BY SettingOK DEF Types
<1>2. l.num \in Int /\ l.den \in Nat \ {0}
  BY LevelFollows DEF IsFraction
<1>3. p >= s.top => l.num = IF s.reverse THEN -l.den ELSE l.den
  <2>1. p >= s.top => l.num = l.den * (IF s.reverse THEN LowEnd(s) ELSE HighEnd(s))
    BY EndsOfWay
  <2>2. LowEnd(s) = -1 /\ HighEnd(s) = 1
    BY <1>1 DEF LowEnd, HighEnd
  <2> HIDE DEF l
  <2> QED
    BY <1>1, <1>2, <2>1, <2>2
<1>4. p <= s.bottom => l.num = IF s.reverse THEN l.den ELSE -l.den
  <2>1. p <= s.bottom => l.num = l.den * (IF s.reverse THEN HighEnd(s) ELSE LowEnd(s))
    BY EndsOfWay
  <2>2. LowEnd(s) = -1 /\ HighEnd(s) = 1
    BY <1>1 DEF LowEnd, HighEnd
  <2> HIDE DEF l
  <2> QED
    BY <1>1, <1>2, <2>1, <2>2
<1>5. p = s.center => l.num = 0
  BY <1>1 DEF GetAnalogLevel, Deflection, Bound, From, Whole, Less, Leq
<1>6. /\ Less([num |-> 2, den |-> 5], l) <=> l.num * 5 > 2 * l.den
      /\ Less(l, From(0, [num |-> 2, den |-> 5])) <=> -2 * l.den > l.num * 5
      /\ Less(l, Whole(0)) <=> 0 > l.num
  BY <1>2 DEF Less, Leq, From, Whole
<1> HIDE DEF l
<1>7. CASE s.type = "3_STATE"
  <2>1. GetSwitchState(l, s) =
          IF l.num * 5 > 2 * l.den THEN IF s.reverse THEN "BOTTOM" ELSE "TOP"
          ELSE IF -2 * l.den > l.num * 5 THEN IF s.reverse THEN "TOP" ELSE "BOTTOM"
          ELSE "CENTER"
    BY <1>6, <1>7 DEF GetSwitchState
  <2> QED
    BY <1>1, <1>2, <1>3, <1>4, <1>5, <2>1 DEF l
<1>8. CASE s.type = "ON_OFF"
  <2>1. GetSwitchState(l, s) =
          IF 0 > l.num THEN IF s.reverse THEN "TOP" ELSE "BOTTOM"
          ELSE IF s.reverse THEN "BOTTOM" ELSE "TOP"
    BY <1>6, <1>8 DEF GetSwitchState
  <2> QED
    BY <1>1, <1>2, <1>3, <1>4, <1>8, <2>1 DEF l
<1> QED
  BY <1>1, <1>7, <1>8

LEMMA ReadAsSent ==
    ASSUME LevelsOfFrame, Received
    PROVE  value = sticks /\ EndsAreReached /\ SwitchIsRead
<1>1. moved \in SbusChannels /\ setting \in LevelSettings /\ value[moved] # 0
  BY DEF LevelsOfFrame, Received
<1>2. value = sticks
  BY <1>1 DEF LevelsOfFrame
<1>3. value[moved] \in Nat \ {0}
  BY <1>1, ValueIsRaw
<1>4. Level = GetAnalogLevel(value[moved], setting)
  BY <1>1 DEF LevelsOfFrame, Level
<1>5. Lowest = LowEnd(setting) /\ Highest = HighEnd(setting)
  BY DEF Lowest, Highest, LowEnd, HighEnd
<1>6. EndsAreReached
  BY <1>1, <1>3, <1>4, <1>5, EndsOfWay DEF EndsAreReached
<1>7. SwitchIsRead
  BY <1>1, <1>3, <1>4, Switched DEF SwitchIsRead
<1> QED
  BY <1>2, <1>6, <1>7

\* Every channel of every frame is read as it was sent, and the level and the switch follow
\* the stick over the whole of its way, for every calibration with a center or without.
THEOREM StickAlwaysRead == LevelSpec => StickIsRead
<1>1. LevelInit => LevelsOfFrame
  BY LevelsStart
<1>2. LevelsOfFrame /\ [LevelNext]_levelVars => LevelsOfFrame'
  BY LevelsStay
<1>3. LevelsOfFrame => (Received => value = sticks /\ EndsAreReached /\ SwitchIsRead)
  BY ReadAsSent
<1>4. LevelsOfFrame /\ [LevelNext]_levelVars => [FollowsStick]_levelVars
  BY StickFollowed DEF LevelNext
<1> QED
  BY <1>1, <1>2, <1>3, <1>4, PTL DEF LevelSpec, StickIsRead
=============================================================================
