-------------------------- MODULE ControlSettings --------------------------
(***************************************************************************)
(* The settings of the vehicle's texts and of the controllers, from the    *)
(* ground station to the flash and back: the tables and handlers of        *)
(* kflypacket_parsers.c and kflypacket_generators.c, ControlInit, the      *)
(* saving threads and the filters of control.c, and system_information.c.  *)
(*                                                                         *)
(* A command is dispatched by its number, a structure recognised by its    *)
(* length, a record by its name: nothing else keeps them apart.  Packets   *)
(* come in whole here (SlipParser), answers are not lost (SerialTx), and   *)
(* a record is written in one step (FlashSave).                            *)
(***************************************************************************)
EXTENDS Integers, SequencesExt

CONSTANT MaxEvents      \* bound on the packets and losses of power

ASSUME MaxEventsAssumption == MaxEvents \in Nat

VARIABLES
    memory,     \* the settings
    inForce,    \* the settings the filters' coefficients were computed from
    flash,      \* the record of each name: none yet or one
    boot,       \* how far the initialisation has come
    event,      \* the save event pending in a saving thread
    saving,     \* the place of the record it saves next, 0 if it waits
    station,    \* the last answer the ground station holds, the last command it sent
    asked,      \* history: what that answer was asked for, as it was then
    kept,       \* history: the settings when they were last saved
    touched,    \* history: the settings some packet has named since power came
    events

settingsVars == <<memory, inForce, flash, boot, event, saving, station, asked, kept, touched,
                  events>>
-----------------------------------------------------------------------------
Parts == {"NAME", "TYPE", "LIMITS", "ARM", "RATE", "ATTITUDE", "MIXER", "FILTERS"}

\* The bytes of each.  RATE and ATTITUDE are the gains of three controllers, without their
\* integrals.  The identity of the processor and the version of the firmware are told with
\* the texts but are no settings.
SizeOf == [NAME |-> 48, TYPE |-> 48, ID |-> 12, VERSION |-> 96, LIMITS |-> 40, ARM |-> 11,
           RATE |-> 36, ATTITUDE |-> 36, MIXER |-> 160, FILTERS |-> 15]

\* A structure has at most four of these fields.
SizeAt(fields, i) == IF i \in DOMAIN fields THEN SizeOf[fields[i]] ELSE 0
DataLength(fields) ==
    SizeAt(fields, 1) + SizeAt(fields, 2) + SizeAt(fields, 3) + SizeAt(fields, 4)

\* A cutoff frequency within the limits or OUT of them, a mode or another byte;
\* a text, with bytes behind its end or without; anything else.
ContentsOf(p) ==
    CASE p = "FILTERS"            -> {"80", "OUT"} \X {"PT1", "OTHER"}
      [] p \in {"NAME", "TYPE"}   -> {<<"NEW">>, <<"NEW", "REST">>}
      [] OTHER                    -> {<<"NEW">>}

\* SystemInformationReset, the beginning of ControlInit, ArmingInit, DTermFilterDefaults
Defaults == [p \in Parts |-> IF p = "FILTERS" THEN <<"50", "BIQUAD">> ELSE <<"DEFAULT">>]
\* The structures before any code has run: zeros.
AtReset == [p \in Parts |-> IF p = "FILTERS" THEN <<"OUT", "BIQUAD">> ELSE <<"ZERO">>]
-----------------------------------------------------------------------------
\* kfly_command_t
Cmd == [GetSystemStrings |-> 16, SetDeviceStrings |-> 18,
        GetControllerLimits |-> 26, SetControllerLimits |-> 27,
        GetArmSettings |-> 28, SetArmSettings |-> 29,
        GetRateControllerData |-> 30, SetRateControllerData |-> 31,
        GetAttitudeControllerData |-> 32, SetAttitudeControllerData |-> 33,
        GetChannelMix |-> 39, SetChannelMix |-> 40,
        GetControlFilters |-> 56, SetControlFilters |-> 57]

\* The entries of the two tables that concern these settings.
parser_lookup == [c \in 0 .. 127 |->
    CASE c = 16 -> "ParseGetSystemStrings"          [] c = 18 -> "ParseSetDeviceStrings"
      [] c = 26 -> "ParseGetControllerLimits"       [] c = 27 -> "ParseSetControllerLimits"
      [] c = 28 -> "ParseGetArmSettings"            [] c = 29 -> "ParseSetArmSettings"
      [] c = 30 -> "ParseGetRateControllerData"     [] c = 31 -> "ParseSetRateControllerData"
      [] c = 32 -> "ParseGetAttitudeControllerData" [] c = 33 -> "ParseSetAttitudeControllerData"
      [] c = 39 -> "ParseGetChannelMix"             [] c = 40 -> "ParseSetChannelMix"
      [] c = 56 -> "ParseGetControlFilters"         [] c = 57 -> "ParseSetControlFilters"
      [] OTHER -> "NULL"]

generator_lookup == [c \in 0 .. 127 |->
    CASE c = 16 -> "GenerateGetSystemStrings"       [] c = 26 -> "GenerateGetControllerLimits"
      [] c = 28 -> "GenerateGetArmSettings"         [] c = 30 -> "GenerateGetRateControllerData"
      [] c = 32 -> "GenerateGetAttitudeControllerData" [] c = 39 -> "GenerateGetChannelMix"
      [] c = 56 -> "GenerateGetControlFilters"
      [] OTHER -> "NULL"]

\* The command a ParseGet... handler hands to GenerateMessage.
MessageOf == [ParseGetSystemStrings |-> "GetSystemStrings",
              ParseGetControllerLimits |-> "GetControllerLimits",
              ParseGetArmSettings |-> "GetArmSettings",
              ParseGetRateControllerData |-> "GetRateControllerData",
              ParseGetAttitudeControllerData |-> "GetAttitudeControllerData",
              ParseGetChannelMix |-> "GetChannelMix",
              ParseGetControlFilters |-> "GetControlFilters"]

\* The command each generator writes into the header, and the structure it sends: of
\* system_strings_t, 204 bytes, only the first 96 can be set.
Generated == [
    GenerateGetSystemStrings |->
        [command |-> "GetSystemStrings", of |-> <<"NAME", "TYPE", "ID", "VERSION">>],
    GenerateGetControllerLimits |-> [command |-> "GetControllerLimits", of |-> <<"LIMITS">>],
    GenerateGetArmSettings |-> [command |-> "GetArmSettings", of |-> <<"ARM">>],
    GenerateGetRateControllerData |-> [command |-> "GetRateControllerData", of |-> <<"RATE">>],
    GenerateGetAttitudeControllerData |->
        [command |-> "GetAttitudeControllerData", of |-> <<"ATTITUDE">>],
    GenerateGetChannelMix |-> [command |-> "GetChannelMix", of |-> <<"MIXER">>],
    GenerateGetControlFilters |-> [command |-> "GetControlFilters", of |-> <<"FILTERS">>]]

\* Where each ParseSet... handler stores a payload of the right length.
StoredIn == [ParseSetDeviceStrings |-> <<"NAME", "TYPE">>,
             ParseSetControllerLimits |-> <<"LIMITS">>,
             ParseSetArmSettings |-> <<"ARM">>,
             ParseSetRateControllerData |-> <<"RATE">>,
             ParseSetAttitudeControllerData |-> <<"ATTITUDE">>,
             ParseSetChannelMix |-> <<"MIXER">>,
             ParseSetControlFilters |-> <<"FILTERS">>]

\* What the ground station takes the commands to be about, from their names.
SetterOf == [GetSystemStrings |-> "SetDeviceStrings",
             GetControllerLimits |-> "SetControllerLimits",
             GetArmSettings |-> "SetArmSettings",
             GetRateControllerData |-> "SetRateControllerData",
             GetAttitudeControllerData |-> "SetAttitudeControllerData",
             GetChannelMix |-> "SetChannelMix",
             GetControlFilters |-> "SetControlFilters"]
About == [SetDeviceStrings |-> <<"NAME", "TYPE">>, SetControllerLimits |-> <<"LIMITS">>,
          SetArmSettings |-> <<"ARM">>, SetRateControllerData |-> <<"RATE">>,
          SetAttitudeControllerData |-> <<"ATTITUDE">>, SetChannelMix |-> <<"MIXER">>,
          SetControlFilters |-> <<"FILTERS">>]
-----------------------------------------------------------------------------
\* strncpy ends at the end of the text, and clears what is behind it.
Strncpy(text) == <<Head(text)>>

\* The sanity check of ControlFiltersInit, before it computes the coefficients.
Sane(f) == <<IF f[1] = "OUT" THEN "50" ELSE f[1], IF f[2] = "OTHER" THEN "BIQUAD" ELSE f[2]>>
ControlFiltersInit(settings) ==
    /\ memory' = [settings EXCEPT !.FILTERS = Sane(@)]
    /\ inForce' = Sane(settings.FILTERS)

\* A Set handler: a payload of another length is ignored.  The copy, and the filters
\* computed anew, are under the system lock.
Store(handler, payload) ==
    LET parts == StoredIn[handler]
        copied == [p \in Parts |-> IF p \notin Range(parts) THEN memory[p]
                                   ELSE payload.data[CHOOSE i \in DOMAIN parts : parts[i] = p]]
    IN  IF payload.length # DataLength(parts) THEN UNCHANGED <<memory, inForce>>
        ELSE IF handler = "ParseSetControlFilters" THEN ControlFiltersInit(copied)
        ELSE /\ memory' = IF handler = "ParseSetDeviceStrings"
                          THEN [copied EXCEPT !.NAME = Strncpy(@), !.TYPE = Strncpy(@)]
                          ELSE copied
             /\ UNCHANGED inForce

\* The parsers run once the serial manager does, after SystemInformationInit.
SerialRuns == boot # "INFO" /\ events < MaxEvents

\* A packet with a Set command comes to its handler.
Receives(command, payload) ==
    /\ Store(parser_lookup[Cmd[command]], payload)
    /\ station' = [station EXCEPT !.command = command]
    /\ touched' = touched \cup Range(About[command])
    /\ events' = events + 1
    /\ UNCHANGED <<flash, boot, event, saving, asked, kept>>

\* New settings, or a payload that is too short.
SetCommand(command) ==
    /\ SerialRuns
    /\ LET parts == About[command] IN
       \E new \in [DOMAIN parts -> UNION {ContentsOf(p) : p \in Range(parts)}],
          length \in {DataLength(parts), DataLength(parts) - 1} :
         Receives(command, [length |-> length, data |-> new])

\* A Get command and its answer: the station files it under the command in its header.
GetCommand(command) ==
    /\ SerialRuns
    /\ LET message == Generated[generator_lookup[Cmd[MessageOf[parser_lookup[Cmd[command]]]]]]
       IN  station' = [command |-> command, about |-> message.command,
                       fields |-> message.of,
                       data |-> [i \in DOMAIN message.of |->
                                    IF message.of[i] \in Parts THEN memory[message.of[i]]
                                    ELSE <<"CONSTANT">>]]
    /\ asked' = [p \in Parts |-> IF p \in Range(About[SetterOf[command]]) THEN memory[p] ELSE <<>>]
    /\ events' = events + 1
    /\ UNCHANGED <<memory, inForce, flash, boot, event, saving, kept, touched>>

\* The station sends the answer it holds back, the whole of it or its first n fields, those
\* the Set command takes.
SendBack(n) ==
    /\ SerialRuns /\ station.about # "NONE"
    /\ n \in {Len(station.fields), Len(About[SetterOf[station.about]])}
    /\ Receives(SetterOf[station.about],
                [length |-> DataLength([i \in 1 .. n |-> station.fields[i]]),
                 data |-> [i \in 1 .. n |-> station.data[i]]])
-----------------------------------------------------------------------------
\* The flash: the threads that save, the records in their order and what is in each.
Savers == {"SysInfo", "Control"}
RecordsOf == [SysInfo |-> <<"SIVN", "SIVT">>, Control |-> <<"CONA", "CONP", "CONL", "CONM">>]
PartsOf == [SIVN |-> {"NAME"}, SIVT |-> {"TYPE"}, CONA |-> {"ARM"}, CONL |-> {"LIMITS"},
            CONP |-> {"RATE", "ATTITUDE", "FILTERS"}, CONM |-> {"MIXER"}]

GetControlParameters ==
    [rate_parameters |-> memory.RATE, attitude_parameters |-> memory.ATTITUDE,
     dterm |-> memory.FILTERS]

\* Mutant: the filters' settings stay out.
SetControlParametersGains(settings, param) ==
    [settings EXCEPT !.RATE = param.rate_parameters, !.ATTITUDE = param.attitude_parameters]

SetControlParameters(settings, param) ==
    [settings EXCEPT !.RATE = param.rate_parameters, !.ATTITUDE = param.attitude_parameters,
                     !.FILTERS = param.dterm]

\* FlashSave_Read of one record into the settings: without one they stay.
ReadRecord(settings, r) ==
    CASE flash[r] = <<>> -> settings
      [] flash[r] # <<>> /\ r = "CONP" -> SetControlParameters(settings, Head(flash[r]))
      [] OTHER -> [p \in Parts |-> IF p \in PartsOf[r] THEN Head(flash[r]) ELSE settings[p]]

\* SystemInformationInit, before there is another thread that uses the texts.
SystemInformationInit ==
    /\ boot = "INFO"
    /\ memory' = ReadRecord(ReadRecord([memory EXCEPT !.NAME = Defaults.NAME,
                                                      !.TYPE = Defaults.TYPE], "SIVN"), "SIVT")
    /\ boot' = "CONTROL"
    /\ UNCHANGED <<inForce, flash, event, saving, station, asked, kept, touched, events>>

\* ControlInit up to its first record.
ControlInit ==
    /\ boot = "CONTROL"
    /\ memory' = [p \in Parts |-> IF p \in {"NAME", "TYPE"} THEN memory[p] ELSE Defaults[p]]
    /\ boot' = "CONA"
    \* History: what packets have set before is gone.
    /\ touched' = touched \cap {"NAME", "TYPE"}
    /\ UNCHANGED <<inForce, flash, event, saving, station, asked, kept, events>>

\* vReadControlParametersFromFlash sleeps in every read, and packets may come; after the
\* last the filters are initialised and the saving thread starts.
ReadControlRecord ==
    /\ boot \in {"CONA", "CONP", "CONL", "CONM"}
    /\ IF boot = "CONM" THEN ControlFiltersInit(ReadRecord(memory, boot))
       ELSE memory' = ReadRecord(memory, boot) /\ UNCHANGED inForce
    /\ boot' = [CONA |-> "CONP", CONP |-> "CONL", CONL |-> "CONM", CONM |-> "DONE"][boot]
    /\ UNCHANGED <<flash, event, saving, station, asked, kept, touched, events>>

\* vBroadcastFlashSaveEvent, to the threads that have registered.
SaveToFlash ==
    /\ SerialRuns
    /\ event' = [t \in Savers |-> event[t] \/ t = "SysInfo" \/ boot = "DONE"]
    /\ events' = events + 1
    /\ UNCHANGED <<memory, inForce, flash, boot, saving, station, asked, kept, touched>>

Wake(t) ==
    /\ saving[t] = 0 /\ event[t]
    /\ event' = [event EXCEPT ![t] = FALSE]
    /\ saving' = [saving EXCEPT ![t] = 1]
    /\ UNCHANGED <<memory, inForce, flash, boot, station, asked, kept, touched, events>>

\* FlashSave_Write of the next record of ThreadSysInfoFlashSave or ThreadControlFlashSave.
SaveRecord(t) ==
    /\ saving[t] # 0
    /\ LET r == RecordsOf[t][saving[t]]
       IN  /\ flash' = [flash EXCEPT ![r] =
                <<IF r = "CONP" THEN GetControlParameters
                  ELSE memory[CHOOSE p \in PartsOf[r] : TRUE]>>]
           /\ kept' = [p \in Parts |-> IF p \in PartsOf[r] THEN memory[p] ELSE kept[p]]
    /\ saving' = [saving EXCEPT ![t] = IF @ = Len(RecordsOf[t]) THEN 0 ELSE @ + 1]
    /\ UNCHANGED <<memory, inForce, boot, event, station, asked, touched, events>>

\* The volatile state as power finds it.
Restart ==
    /\ memory' = AtReset /\ inForce' = <<>> /\ boot' = "INFO"
    /\ event' = [t \in Savers |-> FALSE] /\ saving' = [t \in Savers |-> 0]
    /\ touched' = {}
    /\ events' = events + 1

PowerLoss ==
    /\ events < MaxEvents
    /\ Restart
    /\ UNCHANGED <<flash, station, asked, kept>>

\* ParseEraseFlash ends in a reset.
EraseFlash ==
    /\ SerialRuns
    /\ flash' = [r \in DOMAIN flash |-> <<>>]
    /\ kept' = Defaults
    /\ Restart
    /\ UNCHANGED <<station, asked>>
-----------------------------------------------------------------------------
SettingsInit ==
    /\ memory = AtReset /\ inForce = <<>> /\ boot = "INFO"
    /\ flash = [r \in DOMAIN PartsOf |-> <<>>]
    /\ event = [t \in Savers |-> FALSE] /\ saving = [t \in Savers |-> 0]
    /\ station = [command |-> "NONE", about |-> "NONE", fields |-> <<>>, data |-> <<>>]
    /\ asked = [p \in Parts |-> <<>>] /\ kept = Defaults /\ touched = {} /\ events = 0

SettingsNext ==
    \/ \E command \in DOMAIN About : SetCommand(command)
    \/ \E command \in DOMAIN SetterOf : GetCommand(command)
    \/ \E n \in DOMAIN station.fields : SendBack(n)
    \/ SaveToFlash \/ PowerLoss \/ EraseFlash
    \/ SystemInformationInit \/ ControlInit \/ ReadControlRecord
    \/ \E t \in Savers : Wake(t) \/ SaveRecord(t)

SettingsSpec == SettingsInit /\ [][SettingsNext]_settingsVars
-----------------------------------------------------------------------------
\* While the vehicle runs a setting only changes by a command that is about it ...
OnlyByItsCommand ==
    boot' = boot =>
      \A p \in Parts : memory'[p] # memory[p] =>
        station'.command \in DOMAIN About /\ p \in Range(About[station'.command])

\* ... an answer sent back in the fields its Set command takes, whatever came between, makes
\* them what they were when asked for, or the default of what had not been initialised by
\* then; one sent back whole either is in those fields or changes nothing (the answer to
\* GetSystemStrings, of 204 bytes, which SetDeviceStrings refuses) ...
BackupRestores ==
    \A n \in DOMAIN station.fields : SendBack(n) =>
      LET parts == About[SetterOf[station.about]]
      IN  IF n = Len(parts) THEN \A p \in Range(parts) : memory'[p] \in {asked[p], Defaults[p]}
          ELSE UNCHANGED memory

\* ... once ControlInit is through the controllers' filters are those of the settings, and
\* what no packet has named since power came is as it was last saved.
InForce ==
    boot = "DONE" => /\ inForce = memory.FILTERS
                     /\ \A p \in Parts \ touched : memory[p] = kept[p]

\* Settings are neither lost nor mixed up, from the ground station through the tables, the
\* handlers, the flash and a restart to the controllers.
SettingsKept == [][OnlyByItsCommand /\ BackupRestores /\ InForce']_settingsVars
=============================================================================
