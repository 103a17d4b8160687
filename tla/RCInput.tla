------------------------------ MODULE RCInput ------------------------------
(***************************************************************************)
(* The receiver (rc_input.c): SBUS bytes parsed by a thread, CPPM and RSSI *)
(* captures parsed by interrupts, the connection timeout, and the settings *)
(* command that reinitialises all of it.                                   *)
(*                                                                         *)
(* The SBUS thread runs at HIGHPRIO: only interrupts come between its      *)
(* steps.  The command runs at NORMALPRIO: interrupts and whole SBUS bytes *)
(* come between its steps.  Channel values are data; of a switch's state   *)
(* only the channel it is read from is kept.                               *)
(***************************************************************************)
EXTENDS Integers

CONSTANTS
    NumChannels,    \* RCINPUT_MAX_NUMBER_OF_INPUTS
    FrameLength,    \* RCINPUT_SBUS_DATA_COUNT
    RssiTimeout,    \* RCINPUT_RSSI_TIMEOUT
    Roles,          \* rcinput_role_selector_t below RCINPUT_ROLE_MAX
    SwitchRoles,    \* from RCINPUT_ROLE_SWITCHES_START on
    Off,            \* RCINPUT_ROLE_OFF
    Settings        \* the rcinput_settings_t that commands and flash hold

Channels == 0 .. NumChannels - 1

\* A channel's type matters only as analog or not; top, center, bottom and
\* reversal belong to the values.
RCSettings == [role : [Channels -> Roles \cup {Off}],
               analog : SUBSET Channels,
               use_rssi : BOOLEAN]

ASSUME SizeAssumption == /\ NumChannels \in Nat \ {0}
                         /\ FrameLength \in Nat \ {0, 1}
                         /\ RssiTimeout \in Nat
ASSUME RoleAssumption == SwitchRoles \subseteq Roles /\ Off \notin Roles
ASSUME SettingsAssumption == Settings \subseteq RCSettings

VARIABLES
    active,         \* rcinput_data.active_connection
    mode,           \* rcinput_data.input_mode
    switches,       \* calibrated_values.switches: the channel each was read from
    sbus,           \* sbus_parser: state and data_count
    serving,        \* how far ParseSBUSInput has come with a byte
    cppm_count,
    rssi_counter,
    timer,          \* rcinput_timeout_vt
    settings,
    lookup,         \* rcinput_role_lookup
    captures,       \* the input captures that are enabled
    reinit,         \* how far RCInputInitialization has come
    line,           \* what the transmitters send
    next,           \* on a clean line: the place of the next byte in its frame
    rssi_lost       \* history: the connection was last ended by RSSI

reception == <<active, mode, switches>>
command == <<settings, lookup, captures, reinit>>
transmitter == <<line, next>>
vars == <<reception, sbus, serving, cppm_count, rssi_counter, timer, command,
          transmitter, rssi_lost>>
-----------------------------------------------------------------------------
Undefined == -1      \* RCINPUT_SWITCH_UNDEFINED, in place of a channel

\* chVTSet.  "FED" is a timer restarted on a clean line: the bytes that restart
\* it come milliseconds apart, long before it expires.
Restarted == IF line = "CLEAN" THEN "FED" ELSE "ON"

\* Mutant: duplicate roles are kept.
KeepDuplicates(s) == s

\* ValidateRoleSettings: one role on two channels turns every channel off.
ValidateRoleSettings(s) ==
    IF \E c, d \in Channels : c # d /\ s.role[c] = s.role[d] /\ s.role[c] \in Roles
    THEN [s EXCEPT !.role = [c \in Channels |-> Off]]
    ELSE s

\* GenerateRoleLookupTable: the last channel with the role, and the entry as it
\* was for a role that no channel has.
RoleLookup(s, old) ==
    [r \in Roles |->
        IF \E c \in Channels : s.role[c] = r
        THEN CHOOSE c \in Channels :
                 s.role[c] = r /\ \A d \in Channels : d > c => s.role[d] # r
        ELSE old[r]]

\* RawInputToCalibratedInput, of it GetSwitchState for each switch: the channel
\* that gives its position
SwitchStates ==
    [r \in SwitchRoles |->
        IF active /\ lookup[r] \notin settings.analog THEN lookup[r] ELSE Undefined]

NoSwitches == [r \in SwitchRoles |-> Undefined]

\* RCInputDataReset
RCInputDataReset ==
    /\ active' = FALSE /\ mode' = "NONE" /\ switches' = NoSwitches
    /\ sbus' = [state |-> "WAITING_FOR_START", data_count |-> 0]

-----------------------------------------------------------------------------
\* RCInputInit: settings from flash or reset, one initialisation, then the
\* SBUS thread.  The lookup is a static variable.
Init ==
    /\ active = FALSE /\ mode = "NONE" /\ switches = NoSwitches
    /\ sbus = [state |-> "WAITING_FOR_START", data_count |-> 0]
    /\ serving = "WAIT"
    /\ cppm_count = 0 /\ rssi_counter = 0 /\ timer = "OFF"
    /\ \E s \in Settings :
         /\ settings = ValidateRoleSettings(s)
         /\ lookup = RoleLookup(settings, [r \in Roles |-> 0])
         /\ captures = IF s.use_rssi THEN {"CPPM", "RSSI"} ELSE {"CPPM"}
    /\ reinit = "IDLE"
    /\ line = "NOISE" /\ next = 0
    /\ rssi_lost = FALSE
-----------------------------------------------------------------------------
\* The byte at a place of a frame whose data bytes are neither 0x0f nor 0x00.
ByteAt(place) ==
    CASE place = 0 -> "START"
      [] place = FrameLength + 1 -> "END"
      [] OTHER -> "OTHER"

\* sdGet returns a byte and the switch of ParseSBUSInput is entered.
Byte(b) ==
    /\ serving = "WAIT"
    /\ \/ /\ line = "NOISE"
          /\ UNCHANGED next
       \/ /\ line = "CLEAN" /\ b = ByteAt(next)
          /\ next' = (next + 1) % (FrameLength + 2)
    /\ CASE sbus.state = "WAITING_FOR_START" ->
              IF b = "START"
              THEN /\ sbus' = [state |-> "RECEIVING", data_count |-> 0]
                   /\ serving' = "RESTART"
              ELSE UNCHANGED <<sbus, serving>>
         [] sbus.state = "RECEIVING" -> serving' = "STORE" /\ UNCHANGED sbus
         [] sbus.state = "WAITING_FOR_END" ->
              /\ sbus' = [sbus EXCEPT !.state = "WAITING_FOR_START"]
              /\ serving' = IF b = "END" THEN "ACTIVATE" ELSE "WAIT"
    /\ UNCHANGED <<reception, cppm_count, rssi_counter, timer, command, line, rssi_lost>>

\* Mutant: a frame is full one byte early.
StoreByteShort ==
    /\ serving = "STORE"
    /\ sbus' = [sbus EXCEPT !.data_count = @ + 1]
    /\ serving' = IF sbus'.data_count = FrameLength - 1 THEN "FULL" ELSE "RESTART"
    /\ UNCHANGED <<reception, cppm_count, rssi_counter, timer, command, transmitter, rssi_lost>>

\* p[data_count++] = data
StoreByte ==
    /\ serving = "STORE"
    /\ sbus' = [sbus EXCEPT !.data_count = @ + 1]
    /\ serving' = IF sbus'.data_count = FrameLength THEN "FULL" ELSE "RESTART"
    /\ UNCHANGED <<reception, cppm_count, rssi_counter, timer, command, transmitter, rssi_lost>>

FrameFull ==
    /\ serving = "FULL"
    /\ sbus' = [sbus EXCEPT !.state = "WAITING_FOR_END"]
    /\ serving' = "RESTART"
    /\ UNCHANGED <<reception, cppm_count, rssi_counter, timer, command, transmitter, rssi_lost>>

\* The end of a frame: the connection is active, then the values are stored,
\* then the mode is set and the switches are read from the values.
Activate ==
    /\ serving = "ACTIVATE"
    /\ active' = TRUE
    /\ serving' = "SET_MODE"
    /\ UNCHANGED <<mode, switches, sbus, cppm_count, rssi_counter, timer, command,
                   transmitter, rssi_lost>>

SetMode ==
    /\ serving = "SET_MODE"
    /\ mode' = "SBUS" /\ switches' = SwitchStates
    /\ serving' = "RESTART"
    /\ UNCHANGED <<active, sbus, cppm_count, rssi_counter, timer, command,
                   transmitter, rssi_lost>>

\* Mutant: the timeout is restarted only while the connection is active.
RestartWhileActive ==
    /\ serving = "RESTART"
    /\ timer' = IF active THEN Restarted ELSE timer
    /\ serving' = "WAIT"
    /\ rssi_lost' = FALSE
    /\ UNCHANGED <<reception, sbus, cppm_count, rssi_counter, command, transmitter>>

\* chVTSet at the end of ParseSBUSInput
RestartTimeout ==
    /\ serving = "RESTART"
    /\ timer' = Restarted
    /\ serving' = "WAIT"
    /\ rssi_lost' = FALSE
    /\ UNCHANGED <<reception, sbus, cppm_count, rssi_counter, command, transmitter>>

ServeByte == \/ StoreByte \/ FrameFull \/ Activate \/ SetMode \/ RestartTimeout
-----------------------------------------------------------------------------
\* Mutant: the timeout lets a frame that has begun end first.
TimeoutInPause ==
    /\ \/ timer = "ON"
       \/ timer = "FED" /\ line # "CLEAN"
    /\ sbus.state = "WAITING_FOR_START"
    /\ RCInputDataReset
    /\ timer' = "OFF"
    /\ rssi_lost' = FALSE
    /\ UNCHANGED <<serving, cppm_count, rssi_counter, command, transmitter>>

\* vt_no_connection_timeout_callback
Timeout ==
    /\ \/ timer = "ON"
       \/ timer = "FED" /\ line # "CLEAN"
    /\ RCInputDataReset
    /\ timer' = "OFF"
    /\ rssi_lost' = FALSE
    /\ UNCHANGED <<serving, cppm_count, rssi_counter, command, transmitter>>

\* A CPPM interval: a channel's pulse, one long enough for a sync, or one longer
\* than a sync can be.
Intervals == {"PULSE", "SYNC", "GAP"}

\* ParseCPPMInput in a connection
CppmInConnection(interval) ==
    IF interval # "PULSE"
    THEN /\ mode' = "CPPM" /\ switches' = SwitchStates
         /\ cppm_count' = 0
         /\ timer' = Restarted
         /\ rssi_lost' = FALSE
         /\ UNCHANGED active
    ELSE IF cppm_count >= NumChannels
    THEN /\ active' = FALSE /\ mode' = "NONE"
         /\ timer' = "OFF"
         /\ UNCHANGED <<cppm_count, switches, rssi_lost>>
    ELSE /\ cppm_count' = cppm_count + 1
         /\ UNCHANGED <<reception, timer, rssi_lost>>

\* ParseCPPMInput without one: a sync makes it
CppmSearch(interval) ==
    /\ interval = "SYNC" /\ rssi_counter < RssiTimeout
    /\ cppm_count' = 0
    /\ active' = TRUE
    /\ timer' = Restarted
    /\ rssi_lost' = FALSE
    /\ UNCHANGED <<mode, switches>>

CppmCapture(interval) ==
    /\ "CPPM" \in captures /\ line # "SILENT"
    /\ mode # "SBUS"
    /\ IF active THEN CppmInConnection(interval) ELSE CppmSearch(interval)
    /\ UNCHANGED <<sbus, serving, rssi_counter, command, transmitter>>

\* ParseRSSIInput with a period, which a silent receiver may go on sending
RssiCapture(strong) ==
    /\ "RSSI" \in captures
    /\ IF strong
       THEN rssi_counter' = 0 /\ UNCHANGED <<active, timer, rssi_lost>>
       ELSE IF rssi_counter > RssiTimeout
       THEN /\ active' = FALSE /\ timer' = "OFF" /\ rssi_lost' = TRUE
            /\ UNCHANGED rssi_counter
       ELSE rssi_counter' = rssi_counter + 1 /\ UNCHANGED <<active, timer, rssi_lost>>
    /\ UNCHANGED <<mode, switches, sbus, serving, cppm_count, command, transmitter>>
-----------------------------------------------------------------------------
\* vParseSetRCInputSettings: a payload of the wrong size changes no setting and
\* reinitialises all the same.
SetSettings(s) ==
    /\ reinit = "IDLE" /\ serving = "WAIT"
    /\ settings' = s
    /\ reinit' = "RESET"
    /\ UNCHANGED <<reception, sbus, serving, cppm_count, rssi_counter, timer,
                   lookup, captures, transmitter, rssi_lost>>

\* RCInputInitialization, statement by statement where a byte or an interrupt
\* in between makes a difference.
At(step, then) == reinit = step /\ serving = "WAIT" /\ reinit' = then

ResetActive ==
    /\ At("RESET", "RESET_MODE")
    /\ active' = FALSE
    /\ UNCHANGED <<mode, switches, sbus, settings, lookup, captures>>

ResetMode ==
    /\ At("RESET_MODE", "RESET_STATE")
    /\ mode' = "NONE"
    /\ UNCHANGED <<active, switches, sbus, settings, lookup, captures>>

ResetState ==
    /\ At("RESET_STATE", "RESET_COUNT")
    /\ sbus' = [sbus EXCEPT !.state = "WAITING_FOR_START"]
    /\ UNCHANGED <<reception, settings, lookup, captures>>

\* data_count, with the values and switches after it
ResetCount ==
    /\ At("RESET_COUNT", "DISABLE")
    /\ sbus' = [sbus EXCEPT !.data_count = 0]
    /\ switches' = NoSwitches
    /\ UNCHANGED <<active, mode, settings, lookup, captures>>

DisableCaptures ==
    /\ At("DISABLE", "ENABLE")
    /\ captures' = {}
    /\ UNCHANGED <<reception, sbus, settings, lookup>>

EnableCaptures ==
    /\ At("ENABLE", "LOOKUP")
    /\ captures' = IF settings.use_rssi THEN {"CPPM", "RSSI"} ELSE {"CPPM"}
    /\ UNCHANGED <<reception, sbus, settings, lookup>>

GenerateRoleLookupTable ==
    /\ At("LOOKUP", "IDLE")
    /\ settings' = ValidateRoleSettings(settings)
    /\ lookup' = RoleLookup(settings', lookup)
    /\ UNCHANGED <<reception, sbus, captures>>

Reinitialise ==
    /\ \/ ResetActive \/ ResetMode \/ ResetState \/ ResetCount
       \/ DisableCaptures \/ EnableCaptures \/ GenerateRoleLookupTable
    /\ UNCHANGED <<serving, cppm_count, rssi_counter, timer, transmitter, rssi_lost>>
-----------------------------------------------------------------------------
\* The transmitters: any bytes and pulses at first, then only whole SBUS frames
\* from some byte of a frame on, or nothing more.
LineChanges ==
    /\ line = "NOISE"
    /\ \/ line' = "CLEAN" /\ next' \in 0 .. FrameLength + 1
       \/ line' = "SILENT" /\ next' = 0
    /\ UNCHANGED <<reception, sbus, serving, cppm_count, rssi_counter, timer, command, rssi_lost>>

Next ==
    \/ \E b \in {"START", "END", "OTHER"} : Byte(b)
    \/ ServeByte
    \/ Timeout
    \/ \E interval \in Intervals : CppmCapture(interval)
    \/ \E strong \in BOOLEAN : RssiCapture(strong)
    \/ \E s \in Settings \cup {settings} : SetSettings(s)
    \/ Reinitialise
    \/ LineChanges

Spec == Init /\ [][Next]_vars

\* The thread of highest priority goes on with a byte it has, and a running
\* virtual timer expires; on a clean line the bytes keep coming.
FairSpec == /\ Spec
            /\ WF_vars(ServeByte)
            /\ WF_vars(Timeout)
            /\ WF_vars(\E b \in {"START", "END", "OTHER"} : line = "CLEAN" /\ Byte(b))
-----------------------------------------------------------------------------
\* The parser never writes beyond its 23 data bytes, and its state is one the
\* switch knows.
TypeOK ==
    /\ active \in BOOLEAN /\ mode \in {"NONE", "CPPM", "SBUS"}
    /\ switches \in [SwitchRoles -> Channels \cup {Undefined}]
    /\ sbus \in [state : {"WAITING_FOR_START", "RECEIVING", "WAITING_FOR_END"},
                 data_count : 0 .. FrameLength]
    /\ serving \in {"WAIT", "STORE", "FULL", "ACTIVATE", "SET_MODE", "RESTART"}
    /\ cppm_count \in 0 .. NumChannels /\ rssi_counter \in 0 .. RssiTimeout + 1
    /\ timer \in {"OFF", "ON", "FED"}
    /\ settings \in RCSettings /\ lookup \in [Roles -> Channels]
    /\ captures \in SUBSET {"CPPM", "RSSI"}
    /\ reinit \in {"IDLE", "RESET", "RESET_MODE", "RESET_STATE", "RESET_COUNT",
                   "DISABLE", "ENABLE", "LOOKUP"}
    /\ line \in {"NOISE", "CLEAN", "SILENT"} /\ next \in 0 .. FrameLength + 1
    /\ rssi_lost \in BOOLEAN

\* The thread is between setting the connection active and restarting the timeout.
EndsFrame == serving \in {"SET_MODE", "RESTART"}

\* A connection is always guarded by the running timeout, whichever interrupt
\* or command comes between the statements that set the two.
ActiveIsWatched == active /\ ~EndsFrame => timer # "OFF"

\* A mode that keeps CPPM out does not outlive its connection: the timeout that
\* clears it is running, unless it was RSSI that ended the connection.
ModeIsWatched == mode = "SBUS" /\ ~EndsFrame => timer # "OFF" \/ rssi_lost

\* Once the command is done the lookup finds the channel of every role that has
\* one, whatever roles the command carried.
LookupFindsAssigned ==
    reinit = "IDLE" => \A c \in Channels :
        settings.role[c] \in Roles => lookup[settings.role[c]] = c

\* When the transmitters fall silent the connection ends for good, RSSI or not,
\* and however the last byte, the timeout and a command interleave.
SilenceDisconnects == <>[](line = "SILENT") => <>[](~active)

\* From any state noise and interrupts left behind, a clean line is received:
\* the SBUS connection comes and stays, and every switch is read with the
\* settings in force and not with those before the last command.
CleanLineConnects ==
    <>[](line = "CLEAN" /\ reinit = "IDLE" /\ "RSSI" \notin captures)
        => <>[](active /\ mode = "SBUS" /\ switches = SwitchStates)
=============================================================================
