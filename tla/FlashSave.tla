------------------------------ MODULE FlashSave ------------------------------
(***************************************************************************)
(* Saving settings to the external flash:                                  *)
(* modules/external_flash/src/flash_save.c with the threads that call it.  *)
(* A record (UID, size, data) fills one page of the flash; a UID is sought *)
(* from the first page on.  The modules that keep settings are initialised *)
(* one after another by the main thread, each reading its records and then *)
(* starting a thread that saves them whenever the save event is broadcast. *)
(* Commands that change, save or erase settings arrive as soon as the      *)
(* serial manager runs, before the last modules are initialised.  The      *)
(* power may fail at any moment.                                           *)
(***************************************************************************)
EXTENDS Integers, Sequences, FiniteSets

CONSTANTS
  Uids,       (* the UIDs of the records                                    *)
  NumModules, (* modules with settings, numbered in order of initialisation *)
  Records,    (* the UIDs of each module, in the order they are saved       *)
  SerialAt,   (* modules initialised before the serial manager starts       *)
  NumPages,   (* flashcfg.num_pages                                         *)
  MaxLosses,  (* bound on the number of power losses                        *)
  Contents,   (* what the settings of each UID may be set to                *)
  Changed,    (* UIDs whose structure an older firmware had otherwise       *)
  Default,    (* the content it is initialised with                         *)
  TORN,       (* a record whose data are not those of any one moment        *)
  OTHERSIZE,  (* a record written by a firmware with another structure      *)
  ERASED,     (* FLASHSAVE_UNALLOCATED                                      *)
  JUNK,       (* a UID nobody asks for                                      *)
  MAIN, SERIAL, NONE

Module == 1 .. NumModules
Page   == 0 .. NumPages - 1

Settings == {Default} \cup UNION {Contents[u] : u \in Uids}
Data     == Settings \cup {TORN, OTHERSIZE}

ASSUME FlashSaveAssumption ==
  /\ NumModules \in Nat /\ NumPages \in Nat \ {0} /\ MaxLosses \in Nat
  /\ SerialAt \in 0 .. NumModules
  /\ Records \in [Module -> Seq(Uids) \ {<<>>}] /\ Changed \subseteq Uids
  /\ DOMAIN Contents = Uids /\ \A u \in Uids : Default \in Contents[u]
  /\ TORN \notin Settings /\ OTHERSIZE \notin Settings /\ TORN # OTHERSIZE
  /\ ERASED \notin Uids /\ JUNK \notin Uids /\ ERASED # JUNK
  /\ MAIN \notin Module /\ SERIAL \notin Module /\ MAIN # SERIAL
  /\ NONE \notin Module \cup {MAIN, SERIAL} /\ NONE \notin Data

VARIABLES
  page,    (* the flash: the record in each page                            *)
  holder,  (* who owns flash_mutex                                          *)
  boot,    (* the modules initialised so far                                *)
  pc,      (* where each thread is                                          *)
  job,     (* the place in Records of the record it is at                   *)
  event,   (* the save event, as pending in each saving thread              *)
  live,    (* the settings in memory                                        *)
  target,  (* page_number of the FlashSave_Write in progress                *)
  part,    (* the settings as its transfer found them when it began         *)
  old,     (* not in the code: the records before the write in progress     *)
  losses   (* not in the code: power losses so far                          *)

vars == <<page, holder, boot, pc, job, event, live, target, part, old, losses>>

Threads == Module \cup {MAIN, SERIAL}

Blank       == [id |-> ERASED, data |-> NONE]
Record(u, d) == [id |-> u, data |-> d]

(* The UID a saving thread, or the main thread, is at. *)
Uid(t) == Records[IF t = MAIN THEN boot + 1 ELSE t][job[t]]

Goto(t, l) == pc' = [pc EXCEPT ![t] = l]

(***************************************************************************)
(* FlashSave_Seek                                                          *)
(***************************************************************************)

(* Mutant: only an erased page ends the search. *)
StopsAtErased(u, p) == page[p].id = ERASED

(* Its loop ends at a page with the UID or at an erased one. *)
Stops(u, p)     == page[p].id \in {u, ERASED}
SeekEnds(u, p)  == Stops(u, p) /\ \A q \in Page : q < p => ~Stops(u, q)

(* current_page has already been incremented when it is compared with the  *)
(* number of pages: the last page counts as beyond the end.                *)
Full(u) == \A p \in Page : SeekEnds(u, p) => p = NumPages - 1

(***************************************************************************)
(* FlashSave_Write, in a saving thread                                     *)
(***************************************************************************)

(* chEvtWaitOne returns and clears the event. *)
Wake(s) ==
  /\ pc[s] = "wait"
  /\ event[s]
  /\ event' = [event EXCEPT ![s] = FALSE]
  /\ job' = [job EXCEPT ![s] = 1]
  /\ Goto(s, "claim")
  /\ UNCHANGED <<page, holder, boot, live, target, part, old, losses>>

(* ExternalFlash_Claim, by any thread; the mutex is not recursive. *)
Claim(t) ==
  /\ pc[t] = "claim"
  /\ holder = NONE
  /\ holder' = t
  /\ Goto(t, "seek")
  /\ UNCHANGED <<page, boot, job, event, live, target, part, old, losses>>

(* Mutant: the last record is left out. *)
ReturnEarly(s) ==
  IF job[s] < Len(Records[s]) - 1
  THEN job' = [job EXCEPT ![s] = @ + 1] /\ Goto(s, "claim")
  ELSE job' = [job EXCEPT ![s] = 0] /\ Goto(s, "wait")

(* FlashSave_Write returned: on to the next record, or wait again. *)
Return(s) ==
  IF job[s] < Len(Records[s])
  THEN job' = [job EXCEPT ![s] = @ + 1] /\ Goto(s, "claim")
  ELSE job' = [job EXCEPT ![s] = 0] /\ Goto(s, "wait")

(* The record each UID has: the first one in page order. *)
Copies(u) == {p \in Page : page[p].id = u}
FirstCopies ==
  [u \in Uids |->
     IF Copies(u) = {} THEN NONE
     ELSE page[CHOOSE p \in Copies(u) : \A q \in Copies(u) : p <= q].data]

(* A full flash makes FlashSave_Write return with the mutex held.          *)
Seek(s) ==
  /\ pc[s] = "seek"
  /\ IF Full(Uid(s))
     THEN Return(s) /\ UNCHANGED <<target, old>>
     ELSE /\ \E p \in Page : SeekEnds(Uid(s), p) /\ target' = p
          /\ old' = FirstCopies
          /\ Goto(s, "erase")
          /\ UNCHANGED job
  /\ UNCHANGED <<page, holder, boot, event, live, part, losses>>

(* Mutant: the erase command reaches beyond the page. *)
EraseSector(s) ==
  /\ pc[s] = "erase"
  /\ page' = [p \in Page |-> IF p >= target THEN Blank ELSE page[p]]
  /\ Goto(s, "program")
  /\ UNCHANGED <<holder, boot, job, event, live, target, part, old, losses>>

(* ExternalFlash_ErasePage, found or not ("Just in case erase the page"). *)
ErasePage(s) ==
  /\ pc[s] = "erase"
  /\ page' = [page EXCEPT ![target] = Blank]
  /\ Goto(s, "program")
  /\ UNCHANGED <<holder, boot, job, event, live, target, part, old, losses>>

(* FlashSave_WritePage: the data are transferred from the settings in      *)
(* memory, while the thread sleeps ...                                     *)
BeginTransfer(s) ==
  /\ pc[s] = "program"
  /\ part' = live[Uid(s)]
  /\ Goto(s, "transfer")
  /\ UNCHANGED <<page, holder, boot, job, event, live, target, old, losses>>

(* ... and settings that changed meanwhile are saved half old, half new.   *)
WritePage(s) ==
  /\ pc[s] = "transfer"
  /\ page' = [page EXCEPT ![target] =
       Record(Uid(s), IF part = live[Uid(s)] THEN part ELSE TORN)]
  /\ Goto(s, "release")
  /\ UNCHANGED <<holder, boot, job, event, live, target, part, old, losses>>

(* Mutant: the flash is kept until the thread's last record is saved. *)
ReleaseLast(s) ==
  /\ pc[s] = "release"
  /\ holder' = IF job[s] < Len(Records[s]) THEN holder ELSE NONE
  /\ Return(s)
  /\ target' = 0 /\ part' = Default /\ old' = [u \in Uids |-> NONE]
  /\ UNCHANGED <<page, boot, event, live, losses>>

Release(s) ==
  /\ pc[s] = "release"
  /\ holder' = NONE
  /\ Return(s)
  /\ target' = 0 /\ part' = Default /\ old' = [u \in Uids |-> NONE]
  /\ UNCHANGED <<page, boot, event, live, losses>>

Saver(s) ==
  \/ Wake(s) \/ Seek(s) \/ ErasePage(s) \/ BeginTransfer(s) \/ WritePage(s) \/ Release(s)

(***************************************************************************)
(* The main thread: the modules' initialisation, with FlashSave_Read       *)
(***************************************************************************)

(* Begin with a module: its settings get their defaults. *)
InitModule ==
  /\ pc[MAIN] = "wait"
  /\ boot < NumModules
  /\ job' = [job EXCEPT ![MAIN] = 1]
  /\ live' = [u \in Uids |->
       IF \E i \in DOMAIN Records[boot + 1] : Records[boot + 1][i] = u
       THEN Default ELSE live[u]]
  /\ Goto(MAIN, "claim")
  /\ UNCHANGED <<page, holder, boot, event, target, part, old, losses>>

(* FlashSave_Read: a record of the right size replaces the settings.       *)
(* After the last record the module's saving thread starts, which          *)
(* registers for the save event.                                           *)
Read ==
  LET u == Uid(MAIN)
  IN  /\ pc[MAIN] = "seek"
      /\ \/ \E p \in Page : SeekEnds(u, p) /\ page[p].id = u
              /\ page[p].data # OTHERSIZE
              /\ live' = [live EXCEPT ![u] = page[p].data]
         \/ /\ \A p \in Page :
                 SeekEnds(u, p) => page[p].id # u \/ page[p].data = OTHERSIZE
            /\ UNCHANGED live
      /\ holder' = NONE
      /\ IF job[MAIN] < Len(Records[boot + 1])
         THEN /\ job' = [job EXCEPT ![MAIN] = @ + 1]
              /\ Goto(MAIN, "claim")
              /\ UNCHANGED boot
         ELSE /\ job' = [job EXCEPT ![MAIN] = 0]
              /\ Goto(MAIN, "wait")
              /\ boot' = boot + 1
      /\ UNCHANGED <<page, event, target, part, old, losses>>

Main == InitModule \/ Read

(***************************************************************************)
(* Commands, run by the serial manager                                     *)
(***************************************************************************)

SerialIdle == boot >= SerialAt /\ pc[SERIAL] = "wait"

(* A Set command: the whole structure is copied under the system lock. *)
SetSettings(u, d) ==
  /\ SerialIdle
  /\ live' = [live EXCEPT ![u] = d]
  /\ UNCHANGED <<page, holder, boot, pc, job, event, target, part, old, losses>>

(* vBroadcastFlashSaveEvent, to the threads that have registered. *)
SaveToFlash ==
  /\ SerialIdle
  /\ event' = [s \in Module |-> event[s] \/ s <= boot]
  /\ UNCHANGED <<page, holder, boot, pc, job, live, target, part, old, losses>>

EraseFlash ==
  /\ SerialIdle
  /\ Goto(SERIAL, "claim")
  /\ UNCHANGED <<page, holder, boot, job, event, live, target, part, old, losses>>

(* What a reset leaves of the volatile state. *)
Restart ==
  /\ holder' = NONE
  /\ boot' = 0
  /\ pc' = [t \in Threads |-> "wait"]
  /\ job' = [t \in Threads |-> 0]
  /\ event' = [s \in Module |-> FALSE]
  /\ live' = [u \in Uids |-> Default]
  /\ target' = 0 /\ part' = Default
  /\ old' = [u \in Uids |-> NONE]

(* ExternalFlash_EraseBulk begins ... *)
BeginBulkErase ==
  /\ pc[SERIAL] = "seek"
  /\ old' = FirstCopies
  /\ Goto(SERIAL, "erase")
  /\ UNCHANGED <<page, holder, boot, job, event, live, target, part, losses>>

(* ... and ends.  Between ExternalFlash_Release and NVIC_SystemReset no    *)
(* other thread gets to the flash: none of higher priority uses it.        *)
EraseAllAndReset ==
  /\ pc[SERIAL] = "erase"
  /\ page' = [p \in Page |-> Blank]
  /\ Restart
  /\ UNCHANGED losses

(* Between the command that erases and the end of the one that writes. *)
Writing == {"erase", "program", "transfer"}

(***************************************************************************)
(* Loss of power                                                           *)
(***************************************************************************)

(* What an interrupted erase or write may leave of a page. *)
Remains(s) ==
  {Blank, Record(JUNK, TORN)} \cup
  (IF pc[s] # "erase" THEN {Record(Uid(s), TORN)}
   ELSE IF page[target] = Blank THEN {}
   ELSE {page[target], Record(page[target].id, TORN)})

PowerLoss ==
  /\ losses < MaxLosses
  /\ losses' = losses + 1
  /\ \/ /\ \A t \in Threads : pc[t] \notin Writing
        /\ UNCHANGED page
     \/ \E s \in Module :
          /\ pc[s] \in Writing
          /\ \E r \in Remains(s) : page' = [page EXCEPT ![target] = r]
     \/ /\ pc[SERIAL] = "erase"
        /\ \E gone \in SUBSET Page :
             page' = [p \in Page |-> IF p \in gone THEN Blank ELSE page[p]]
  /\ Restart

(***************************************************************************)
(* Specification                                                           *)
(***************************************************************************)

(* An erased flash, or one with a record of an older firmware. *)
Init ==
  /\ page \in {[p \in Page |-> Blank]} \cup
       {[p \in Page |-> IF p = 0 THEN Record(u, OTHERSIZE) ELSE Blank] : u \in Changed}
  /\ holder = NONE /\ boot = 0
  /\ pc = [t \in Threads |-> "wait"]
  /\ job = [t \in Threads |-> 0]
  /\ event = [s \in Module |-> FALSE]
  /\ live = [u \in Uids |-> Default]
  /\ target = 0 /\ part = Default /\ old = [u \in Uids |-> NONE]
  /\ losses = 0

Next ==
  \/ \E s \in Module : Saver(s)
  \/ \E t \in Threads : Claim(t)
  \/ Main
  \/ \E u \in Uids : \E d \in Contents[u] : SetSettings(u, d)
  \/ SaveToFlash \/ EraseFlash \/ BeginBulkErase \/ EraseAllAndReset
  \/ PowerLoss

Spec == Init /\ [][Next]_vars

(* The scheduler runs every ready thread, and chMtxUnlock hands the mutex  *)
(* to the thread that waited longest.  Nothing makes a command arrive.     *)
FairSpec ==
  /\ Spec
  /\ \A s \in Module : WF_vars(Saver(s))
  /\ \A t \in Threads : SF_vars(Claim(t))
  /\ WF_vars(Main) /\ WF_vars(BeginBulkErase \/ EraseAllAndReset)

(***************************************************************************)
(* Properties                                                              *)
(***************************************************************************)

Inside == {"seek", "release"} \cup Writing

(* Types of the variables. *)
TypeOK ==
  /\ page \in [Page -> {Blank} \cup [id : Uids \cup {JUNK}, data : Data]]
  /\ holder \in Threads \cup {NONE}
  /\ boot \in 0 .. NumModules
  /\ pc \in [Threads -> {"wait", "claim"} \cup Inside]
  /\ job \in [Threads -> Nat]
  /\ event \in [Module -> BOOLEAN]
  /\ live \in [Uids -> Settings \cup {TORN}]
  /\ target \in Page /\ part \in Settings \cup {TORN}
  /\ losses \in 0 .. MaxLosses

(* Whoever is between ExternalFlash_Claim and ExternalFlash_Release owns   *)
(* the flash: no two threads search or change it at a time.                *)
ClaimedInside == \A t \in Threads : pc[t] \in Inside => holder = t

(* Every call gives the flash back.  This rests on the flash never being   *)
(* full: a loss of power may leave pages of no use, a whole bulk erase cut *)
(* short as many as there are UIDs.                                        *)
GivenBack == holder # NONE => pc[holder] \in Inside

(* The page a write in progress has erased or is about to erase. *)
InFlux(p) == p = target /\ \E s \in Module : pc[s] \in Writing

(* As long as the power has not failed, the records fill the first pages   *)
(* without a gap and no UID has two: the first erased page really is the   *)
(* end of what is allocated, as FlashSave_Seek takes it to be.             *)
PackedUntilPowerLoss ==
  losses = 0 =>
    \A p, q \in Page :
      /\ p < q /\ page[q].id # ERASED => page[p].id # ERASED \/ InFlux(p)
      /\ p # q /\ page[p].id = page[q].id => page[p].id = ERASED

(* The UIDs whose record is being replaced. *)
Busy ==
  {u \in Uids : \/ \E s \in Module : pc[s] \in Writing /\ Uid(s) = u
                \/ pc[SERIAL] = "erase"}

Store == INSTANCE SettingsStore
  WITH stored <- [u \in Uids |-> IF u \in Busy THEN old[u] ELSE FirstCopies[u]],
       busy <- Busy

(* The flash implements a store of records: a write, also one cut short by *)
(* a loss of power or following one, changes or damages no other record.   *)
ImplementsStore == Store!Spec

(* FlashSave_Read finds d. *)
Finds(u, d) == \E p \in Page : SeekEnds(u, p) /\ page[p] = Record(u, d)

(* Settings that stay as they are, and are saved again and again, end up   *)
(* in the flash whatever the power losses before left there.               *)
SavedForGood ==
  (/\ <>[](boot = NumModules)
   /\ <>[][UNCHANGED live]_live
   /\ \A s \in Module : []<>event[s])
  => <>[](holder = NONE => \A u \in Uids : Finds(u, live[u]))

=============================================================================
