--------------------------- MODULE FlashSave_proofs ---------------------------
(***************************************************************************)
(* Proofs about FlashSave, for any modules, records and number of pages,   *)
(* full flash included.  The inductive invariant of PackedUntilPowerLoss   *)
(* says where a write in progress stands: before its target there is no    *)
(* erased page, and no other page has its UID.                             *)
(***************************************************************************)
EXTENDS FlashSave, FiniteSetTheorems, TLAPS

(* A thread at work is at a record, and only saving threads write pages. *)
JobOK ==
  /\ \A s \in Module : pc[s] # "wait" => job[s] \in 1 .. Len(Records[s])
  /\ pc[MAIN] # "wait" => boot < NumModules /\ job[MAIN] \in 1 .. Len(Records[boot + 1])
  /\ pc[MAIN] \in {"wait", "claim", "seek"}
  /\ pc[SERIAL] \in {"wait", "claim", "seek", "erase"}

Typed == TypeOK /\ JobOK

(* Every place in a module's list of records holds a UID. *)
LEMMA RecordIsUid ==
  ASSUME NEW s \in Module, NEW i \in 1 .. Len(Records[s])
  PROVE  Records[s][i] \in Uids
  BY FlashSaveAssumption

(* The UID a saving thread at work is at. *)
LEMMA SaverUid ==
  ASSUME Typed, NEW s \in Module, pc[s] # "wait"
  PROVE  Uid(s) \in Uids /\ Uid(s) = Records[s][job[s]]
<1>1. s # MAIN
  BY FlashSaveAssumption
<1>2. job[s] \in 1 .. Len(Records[s])
  BY DEF Typed, JobOK
<1> QED
  BY <1>1, <1>2, RecordIsUid DEF Uid

(* The UID the main thread is reading. *)
LEMMA MainUid ==
  ASSUME Typed, pc[MAIN] # "wait"
  PROVE  /\ boot + 1 \in Module /\ Uid(MAIN) \in Uids
         /\ job[MAIN] \in 1 .. Len(Records[boot + 1])
<1>1. boot + 1 \in Module
  BY FlashSaveAssumption DEF Typed, TypeOK, JobOK, Module
<1>2. job[MAIN] \in 1 .. Len(Records[boot + 1])
  BY DEF Typed, JobOK
<1> QED
  BY <1>1, <1>2, RecordIsUid DEF Uid

(* Every list of records has a length, which is not zero. *)
LEMMA RecordsNotEmpty ==
  ASSUME NEW s \in Module
  PROVE  Len(Records[s]) \in Nat \ {0}
  BY FlashSaveAssumption

(* Where a thread that returns from FlashSave_Write goes on. *)
LEMMA ReturnStep ==
  ASSUME Typed, NEW s \in Module, pc[s] # "wait", Return(s), UNCHANGED boot
  PROVE  /\ pc' \in [Threads -> {"wait", "claim"} \cup Inside]
         /\ job' \in [Threads -> Nat]
         /\ JobOK'
<1> DEFINE n == Len(Records[s])
<1>1. s \in Threads /\ MAIN \in Threads /\ SERIAL \in Threads
  BY DEF Threads
<1>2. s # MAIN /\ s # SERIAL
  BY FlashSaveAssumption
<1>3. job[s] \in 1 .. n /\ n \in Nat
  BY RecordsNotEmpty DEF Typed, JobOK
<1>4. PICK j \in 0 .. n, l \in {"wait", "claim"} :
        /\ job' = [job EXCEPT ![s] = j]
        /\ pc' = [pc EXCEPT ![s] = l]
        /\ l = "claim" => j \in 1 .. n
  <2>1. CASE job[s] < n
    BY <1>3, <2>1 DEF Return, Goto
  <2>2. CASE ~(job[s] < n)
    BY <1>3, <2>2 DEF Return, Goto
  <2> QED
    BY <2>1, <2>2
<1>5. pc' \in [Threads -> {"wait", "claim"} \cup Inside] /\ job' \in [Threads -> Nat]
  BY <1>1, <1>3, <1>4 DEF Typed, TypeOK
<1>6. /\ pc'[s] = l /\ job'[s] = j
      /\ \A t \in Threads \ {s} : pc'[t] = pc[t] /\ job'[t] = job[t]
  BY <1>1, <1>4 DEF Typed, TypeOK
<1>7. \A m \in Module : pc'[m] # "wait" => job'[m] \in 1 .. Len(Records[m])
  BY <1>4, <1>6 DEF Typed, JobOK, Threads
<1>8. pc'[MAIN] = pc[MAIN] /\ job'[MAIN] = job[MAIN] /\ pc'[SERIAL] = pc[SERIAL]
  BY <1>1, <1>2, <1>6
<1> QED
  BY <1>5, <1>7, <1>8 DEF Typed, JobOK

LEMMA RestartStep ==
  ASSUME Restart
  PROVE  /\ holder' \in Threads \cup {NONE} /\ boot' \in 0 .. NumModules
         /\ pc' \in [Threads -> {"wait", "claim"} \cup Inside]
         /\ job' \in [Threads -> Nat] /\ event' \in [Module -> BOOLEAN]
         /\ live' \in [Uids -> Settings \cup {TORN}]
         /\ target' \in Page /\ part' \in Settings \cup {TORN}
         /\ JobOK'
<1>1. MAIN \in Threads /\ SERIAL \in Threads /\ Module \subseteq Threads
  BY DEF Threads
<1>2. Default \in Settings /\ 0 \in Page /\ NumModules \in Nat
  BY FlashSaveAssumption DEF Settings, Page
<1>3. JobOK'
  BY <1>1 DEF Restart, JobOK
<1> QED
  BY <1>2, <1>3 DEF Restart


(* A step that leaves boot, pc and job alone leaves JobOK alone. *)
LEMMA JobUnchanged == ASSUME JobOK, UNCHANGED <<boot, pc, job>> PROVE JobOK'
  BY DEF JobOK

(* A saving thread that goes on with the record it is at. *)
LEMMA SaverGoesOn ==
  ASSUME Typed, NEW s \in Module, pc[s] # "wait", NEW l \in {"wait", "claim"} \cup Inside,
         Goto(s, l), UNCHANGED <<boot, job>>
  PROVE  pc' \in [Threads -> {"wait", "claim"} \cup Inside] /\ JobOK'
<1>1. s \in Threads /\ MAIN \in Threads /\ SERIAL \in Threads /\ s # MAIN /\ s # SERIAL
  BY FlashSaveAssumption DEF Threads
<1>2. pc'[s] = l /\ \A t \in Threads \ {s} : pc'[t] = pc[t]
  BY <1>1 DEF Goto, Typed, TypeOK
<1>3. \A m \in Module : pc'[m] # "wait" => job'[m] \in 1 .. Len(Records[m])
  BY <1>2 DEF Typed, JobOK, Threads
<1> QED
  BY <1>1, <1>2, <1>3 DEF Typed, TypeOK, JobOK, Goto

LEMMA TypesHold == Typed /\ [Next]_vars => Typed'
<1> SUFFICES ASSUME Typed, [Next]_vars PROVE Typed'
  OBVIOUS
<1>0. /\ page \in [Page -> {Blank} \cup [id : Uids \cup {JUNK}, data : Data]]
      /\ holder \in Threads \cup {NONE} /\ boot \in 0 .. NumModules
      /\ pc \in [Threads -> {"wait", "claim"} \cup Inside] /\ job \in [Threads -> Nat]
      /\ event \in [Module -> BOOLEAN] /\ live \in [Uids -> Settings \cup {TORN}]
      /\ target \in Page /\ part \in Settings \cup {TORN} /\ losses \in 0 .. MaxLosses
  BY DEF Typed, TypeOK
<1>1. ASSUME NEW s \in Module, Wake(s) PROVE Typed'
  <2>1. s \in Threads /\ MAIN \in Threads /\ SERIAL \in Threads /\ s # MAIN /\ s # SERIAL
    BY FlashSaveAssumption DEF Threads
  <2>2. pc' = [pc EXCEPT ![s] = "claim"] /\ job' = [job EXCEPT ![s] = 1] /\ boot' = boot
    BY <1>1 DEF Wake, Goto
  <2>3. \A m \in Module : pc'[m] # "wait" => job'[m] \in 1 .. Len(Records[m])
    BY <2>1, <2>2, <1>0, RecordsNotEmpty DEF Typed, JobOK, Threads
  <2>4. JobOK'
    BY <2>1, <2>2, <2>3, <1>0 DEF Typed, JobOK
  <2> QED
    BY <2>1, <2>2, <2>4, <1>0, <1>1 DEF Wake, Typed, TypeOK
<1>2. ASSUME NEW t \in Threads, Claim(t) PROVE Typed'
  <2>1. pc' = [pc EXCEPT ![t] = "seek"] /\ job' = job /\ boot' = boot /\ pc[t] = "claim"
    BY <1>2 DEF Claim, Goto
  <2>2. MAIN \in Threads /\ SERIAL \in Threads /\ Module \subseteq Threads /\ MAIN # SERIAL
    BY FlashSaveAssumption DEF Threads
  <2>3. JobOK'
    BY <2>1, <2>2, <1>0 DEF Typed, JobOK
  <2> QED
    BY <2>1, <2>3, <1>0, <1>2 DEF Claim, Typed, TypeOK, Inside
<1>3. ASSUME NEW s \in Module, Seek(s) PROVE Typed'
  <2>1. CASE Full(Uid(s))
    BY <1>0, <1>3, <2>1, ReturnStep DEF Seek, Typed, TypeOK
  <2>2. CASE ~Full(Uid(s))
    BY <1>0, <1>3, <2>2, SaverGoesOn DEF Seek, Typed, TypeOK, Inside, Writing
  <2> QED
    BY <2>1, <2>2
<1>4. ASSUME NEW s \in Module, ErasePage(s) PROVE Typed'
  BY <1>0, <1>4, SaverGoesOn DEF ErasePage, Typed, TypeOK, Inside, Writing
<1>5. ASSUME NEW s \in Module, BeginTransfer(s) PROVE Typed'
  <2>1. part' \in Settings \cup {TORN}
    BY <1>0, <1>5, SaverUid DEF BeginTransfer
  <2> QED
    BY <1>0, <1>5, <2>1, SaverGoesOn DEF BeginTransfer, Typed, TypeOK, Inside, Writing
<1>6. ASSUME NEW s \in Module, WritePage(s) PROVE Typed'
  <2>1. Uid(s) \in Uids
    BY <1>6, SaverUid DEF WritePage
  <2>2. page' \in [Page -> {Blank} \cup [id : Uids \cup {JUNK}, data : Data]]
    BY <1>0, <1>6, <2>1 DEF WritePage, Record, Data
  <2> QED
    BY <1>0, <1>6, <2>2, SaverGoesOn DEF WritePage, Typed, TypeOK, Inside
<1>7. ASSUME NEW s \in Module, Release(s) PROVE Typed'
  <2>1. target' \in Page /\ part' \in Settings
    BY <1>7, FlashSaveAssumption DEF Release, Settings, Page
  <2> QED
    BY <1>0, <1>7, <2>1, ReturnStep DEF Release, Typed, TypeOK
<1>8. CASE InitModule
  <2>1. MAIN \in Threads /\ SERIAL \in Threads /\ Module \subseteq Threads
        /\ MAIN # SERIAL /\ MAIN \notin Module
    BY FlashSaveAssumption DEF Threads
  <2>2. pc' = [pc EXCEPT ![MAIN] = "claim"] /\ job' = [job EXCEPT ![MAIN] = 1] /\ boot' = boot
        /\ boot < NumModules
    BY <1>8 DEF InitModule, Goto
  <2>3. boot + 1 \in Module
    BY <1>0, <2>2, FlashSaveAssumption DEF Module
  <2>4. JobOK'
    BY <1>0, <2>1, <2>2, <2>3, RecordsNotEmpty DEF Typed, JobOK
  <2>5. live' \in [Uids -> Settings \cup {TORN}]
    BY <1>0, <1>8 DEF InitModule, Settings
  <2> QED
    BY <1>0, <1>8, <2>1, <2>2, <2>4, <2>5 DEF InitModule, Typed, TypeOK
<1>9. CASE Read
  <2>1. MAIN \in Threads /\ SERIAL \in Threads /\ Module \subseteq Threads
        /\ MAIN # SERIAL /\ MAIN \notin Module
    BY FlashSaveAssumption DEF Threads
  <2>2. Uid(MAIN) \in Uids /\ boot + 1 \in Module /\ job[MAIN] \in 1 .. Len(Records[boot + 1])
    BY <1>9, MainUid DEF Read
  <2>3. live' \in [Uids -> Settings \cup {TORN}]
    <3>1. ASSUME NEW p \in Page, page[p].id = Uid(MAIN), page[p].data # OTHERSIZE,
                 live' = [live EXCEPT ![Uid(MAIN)] = page[p].data]
          PROVE  live' \in [Uids -> Settings \cup {TORN}]
      BY <1>0, <2>2, <3>1, FlashSaveAssumption DEF Data, Blank
    <3> QED
      BY <1>0, <1>9, <3>1 DEF Read
  <2>4. CASE job[MAIN] < Len(Records[boot + 1])
    <3>1. pc' = [pc EXCEPT ![MAIN] = "claim"] /\ job' = [job EXCEPT ![MAIN] = @ + 1] /\ boot' = boot
      BY <1>9, <2>4 DEF Read, Goto
    <3>2. Len(Records[boot + 1]) \in Nat
      BY <2>2, RecordsNotEmpty
    <3>3. JobOK'
      BY <1>0, <1>9, <2>1, <2>2, <2>4, <3>1, <3>2 DEF Read, Typed, JobOK
    <3> QED
      BY <1>0, <1>9, <2>1, <2>3, <3>1, <3>3 DEF Read, Typed, TypeOK
  <2>5. CASE ~(job[MAIN] < Len(Records[boot + 1]))
    <3>1. pc' = [pc EXCEPT ![MAIN] = "wait"] /\ job' = [job EXCEPT ![MAIN] = 0] /\ boot' = boot + 1
      BY <1>9, <2>5 DEF Read, Goto
    <3>2. boot' \in 0 .. NumModules
      BY <1>0, <2>2, <3>1, FlashSaveAssumption DEF Module
    <3>3. JobOK'
      BY <1>0, <2>1, <3>1 DEF Typed, JobOK
    <3> QED
      BY <1>0, <1>9, <2>1, <2>3, <3>1, <3>2, <3>3 DEF Read, Typed, TypeOK
  <2> QED
    BY <2>4, <2>5
<1>10. ASSUME NEW u \in Uids, NEW d \in Contents[u], SetSettings(u, d) PROVE Typed'
  <2>1. d \in Settings
    BY <1>10 DEF Settings
  <2>2. live' \in [Uids -> Settings \cup {TORN}]
    BY <1>0, <1>10, <2>1 DEF SetSettings
  <2> QED
    BY <1>0, <1>10, <2>2, JobUnchanged DEF SetSettings, Typed, TypeOK
<1>11. CASE SaveToFlash
  <2>1. event' \in [Module -> BOOLEAN]
    BY <1>11, <1>0 DEF SaveToFlash
  <2> QED
    BY <1>0, <1>11, <2>1, JobUnchanged DEF SaveToFlash, Typed, TypeOK
<1>12. CASE EraseFlash \/ BeginBulkErase
  <2>1. PICK l \in {"claim", "erase"} : pc' = [pc EXCEPT ![SERIAL] = l]
    BY <1>12 DEF EraseFlash, BeginBulkErase, Goto
  <2>2. MAIN \in Threads /\ SERIAL \in Threads /\ Module \subseteq Threads
        /\ MAIN # SERIAL /\ SERIAL \notin Module
    BY FlashSaveAssumption DEF Threads
  <2>3. JobOK'
    BY <1>0, <1>12, <2>1, <2>2 DEF EraseFlash, BeginBulkErase, Typed, JobOK
  <2>4. pc' \in [Threads -> {"wait", "claim"} \cup Inside]
    BY <1>0, <2>1 DEF Inside, Writing
  <2> QED
    BY <1>0, <1>12, <2>3, <2>4 DEF EraseFlash, BeginBulkErase, Typed, TypeOK
<1>13. CASE EraseAllAndReset
  <2>1. page' \in [Page -> {Blank} \cup [id : Uids \cup {JUNK}, data : Data]]
    BY <1>13 DEF EraseAllAndReset
  <2> QED
    BY <1>0, <1>13, <2>1, RestartStep DEF EraseAllAndReset, Typed, TypeOK
<1>14. CASE PowerLoss
  <2>1. losses' \in 0 .. MaxLosses
    BY <1>0, <1>14, FlashSaveAssumption DEF PowerLoss
  <2>2. page' \in [Page -> {Blank} \cup [id : Uids \cup {JUNK}, data : Data]]
    <3>1. ASSUME NEW s \in Module, pc[s] \in Writing, NEW r \in Remains(s)
          PROVE  r \in {Blank} \cup [id : Uids \cup {JUNK}, data : Data]
      <4>1. Uid(s) \in Uids
        BY <3>1, SaverUid DEF Writing
      <4>2. page[target] \in {Blank} \cup [id : Uids \cup {JUNK}, data : Data]
        BY <1>0
      <4> QED
        BY <3>1, <4>1, <4>2 DEF Remains, Record, Data
    <3>2. CASE \E s \in Module : /\ pc[s] \in Writing
                                 /\ \E r \in Remains(s) : page' = [page EXCEPT ![target] = r]
      BY <1>0, <3>1, <3>2
    <3>3. CASE UNCHANGED page \/ \E gone \in SUBSET Page :
                 page' = [p \in Page |-> IF p \in gone THEN Blank ELSE page[p]]
      BY <1>0, <3>3
    <3> QED
      BY <1>14, <3>2, <3>3 DEF PowerLoss
  <2> QED
    BY <1>14, <2>1, <2>2, RestartStep DEF PowerLoss, Typed, TypeOK
<1>15. CASE UNCHANGED vars
  BY <1>0, <1>15, JobUnchanged DEF vars, Typed, TypeOK
<1> QED
  BY <1>1, <1>2, <1>3, <1>4, <1>5, <1>6, <1>7, <1>8, <1>9, <1>10, <1>11, <1>12, <1>13,
     <1>14, <1>15 DEF Next, Saver, Main

LEMMA InitTyped == Init => Typed
<1> SUFFICES ASSUME Init PROVE Typed
  OBVIOUS
<1>1. MAIN \in Threads /\ SERIAL \in Threads /\ Module \subseteq Threads
  BY DEF Threads
<1>2. Default \in Settings /\ 0 \in Page /\ NumModules \in Nat /\ MaxLosses \in Nat
  BY FlashSaveAssumption DEF Settings, Page
<1>3. page \in [Page -> {Blank} \cup [id : Uids \cup {JUNK}, data : Data]]
  BY FlashSaveAssumption DEF Init, Record, Data
<1> QED
  BY <1>1, <1>2, <1>3 DEF Init, Typed, TypeOK, JobOK

(* Types, for any constants: in particular every record read from the      *)
(* flash into the settings has their size, and no write leaves the flash.  *)
THEOREM TypeCorrect == Spec => []TypeOK
<1>1. Typed => TypeOK
  BY DEF Typed
<1> QED
  BY <1>1, InitTyped, TypesHold, PTL DEF Spec

(***************************************************************************)
(* Mutual exclusion                                                        *)
(***************************************************************************)

LEMMA ExclusionHolds == Typed /\ ClaimedInside /\ [Next]_vars => ClaimedInside'
<1> SUFFICES ASSUME Typed, ClaimedInside, [Next]_vars PROVE ClaimedInside'
  OBVIOUS
<1> USE DEF ClaimedInside
<1>0. pc \in [Threads -> {"wait", "claim"} \cup Inside] /\ Module \subseteq Threads
      /\ MAIN \in Threads /\ SERIAL \in Threads /\ "wait" \notin Inside /\ "claim" \notin Inside
  BY DEF Typed, TypeOK, Threads, Inside, Writing
<1>1. ASSUME NEW t \in Threads, Claim(t) PROVE ClaimedInside'
  <2>1. \A u \in Threads : pc[u] \notin Inside
    BY <1>1, FlashSaveAssumption DEF Claim, Threads
  <2> QED
    BY <1>0, <1>1, <2>1 DEF Claim, Goto
<1>2. ASSUME NEW s \in Module, Saver(s) PROVE ClaimedInside'
  <2>1. pc' = [pc EXCEPT ![s] = pc'[s]]
    BY <1>0, <1>2 DEF Saver, Wake, Seek, ErasePage, BeginTransfer, WritePage, Release, Return, Goto
  <2>2. CASE Release(s)
    <3>1. holder = s /\ pc'[s] \notin Inside
      BY <1>0, <2>2 DEF Release, Return, Goto, Inside
    <3> QED
      BY <1>0, <2>1, <3>1
  <2>3. CASE ~Release(s)
    <3>1. holder' = holder /\ (pc'[s] \in Inside => pc[s] \in Inside)
      BY <1>0, <1>2, <2>3 DEF Saver, Wake, Seek, ErasePage, BeginTransfer, WritePage, Return,
         Goto, Inside, Writing
    <3> QED
      BY <1>0, <2>1, <3>1
  <2> QED
    BY <2>2, <2>3
<1>3. CASE Main
  <2>1. CASE InitModule
    BY <1>0, <2>1 DEF InitModule, Goto
  <2>2. CASE Read
    <3>1. holder = MAIN
      BY <1>0, <2>2 DEF Read, Inside
    <3>2. pc' = [pc EXCEPT ![MAIN] = "claim"] \/ pc' = [pc EXCEPT ![MAIN] = "wait"]
      BY <2>2 DEF Read, Goto
    <3> QED
      BY <1>0, <3>1, <3>2
  <2> QED
    BY <1>3, <2>1, <2>2 DEF Main
<1>4. CASE EraseFlash
  BY <1>0, <1>4 DEF EraseFlash, Goto
<1>5. CASE BeginBulkErase
  BY <1>0, <1>5 DEF BeginBulkErase, Goto, Inside
<1>6. CASE EraseAllAndReset \/ PowerLoss
  <2>1. Restart
    BY <1>6 DEF EraseAllAndReset, PowerLoss
  <2> QED
    BY <1>0, <2>1 DEF Restart
<1>7. CASE UNCHANGED <<pc, holder>>
  BY <1>7
<1> QED
  BY <1>1, <1>2, <1>3, <1>4, <1>5, <1>6, <1>7
     DEF Next, SetSettings, SaveToFlash, vars

(* No two threads are ever inside the flash functions, for any threads and *)
(* any order of commands, reads, saves, erases and losses of power.        *)
THEOREM MutualExclusion == Spec => []ClaimedInside
<1>1. Init => Typed /\ ClaimedInside
  BY InitTyped DEF Init, ClaimedInside, Inside, Writing
<1> QED
  BY <1>1, TypesHold, ExclusionHolds, PTL DEF Spec

(***************************************************************************)
(* The records stay packed                                                 *)
(***************************************************************************)

(* Where a write in progress stands as long as the power has not failed:   *)
(* no page before its target is erased, no other page has its UID, and     *)
(* once it has erased its target it has not yet written it.                *)
TargetOK ==
  losses = 0 =>
    \A s \in Module : pc[s] \in Writing =>
      /\ \A p \in Page : p < target => page[p].id # ERASED
      /\ \A p \in Page : p # target => page[p].id # Uid(s)
      /\ pc[s] # "erase" => page[target] = Blank

PackedInv == ClaimedInside /\ TargetOK /\ PackedUntilPowerLoss

(* A page is as it was, and so are the writers' places. *)
LEMMA NothingWritten ==
  ASSUME TargetOK, PackedUntilPowerLoss, UNCHANGED <<page, target, losses>>,
         \A s \in Module : pc'[s] \in Writing <=> pc[s] \in Writing,
         \A s \in Module : pc'[s] \in Writing => Uid(s)' = Uid(s),
         \A s \in Module : pc'[s] \in Writing /\ pc'[s] # "erase" =>
            page[target] = Blank
  PROVE  TargetOK' /\ PackedUntilPowerLoss'
<1>1. \A p \in Page : InFlux(p)' <=> InFlux(p)
  BY DEF InFlux
<1> QED
  BY <1>1 DEF TargetOK, PackedUntilPowerLoss

(* Nobody is writing, neither before nor after the step. *)
LEMMA NobodyWriting ==
  ASSUME PackedUntilPowerLoss, UNCHANGED <<page, losses>>,
         \A s \in Module : pc[s] \notin Writing /\ pc'[s] \notin Writing
  PROVE  TargetOK' /\ PackedUntilPowerLoss'
  BY DEF TargetOK, PackedUntilPowerLoss, InFlux

LEMMA UidStays ==
  ASSUME NEW s \in Module, job'[s] = job[s]
  PROVE  Uid(s)' = Uid(s)
<1>1. s # MAIN
  BY FlashSaveAssumption
<1> QED
  BY <1>1 DEF Uid

(* While one thread is inside the flash functions no other writes. *)
LEMMA OthersOutside ==
  ASSUME Typed, ClaimedInside, NEW t \in Threads, pc[t] \in Inside
  PROVE  \A s \in Module : s # t => pc[s] \notin Writing
<1>1. holder = t
  BY DEF ClaimedInside
<1>2. ASSUME NEW s \in Module, s # t, pc[s] \in Writing PROVE FALSE
  <2>1. holder = s
    BY <1>2 DEF ClaimedInside, Threads, Inside
  <2> QED
    BY <1>1, <1>2, <2>1
<1> QED
  BY <1>2

LEMMA SeekKeepsPacked ==
  ASSUME Typed, PackedInv, NEW s \in Module, Seek(s)
  PROVE  TargetOK' /\ PackedUntilPowerLoss'
<1>0. s \in Threads /\ Module \subseteq Threads /\ pc \in [Threads -> {"wait", "claim"} \cup Inside]
  BY DEF Threads, Typed, TypeOK
<1>1. \A r \in Module : pc[r] \notin Writing
  BY <1>0, OthersOutside DEF PackedInv, Seek, Inside, Writing
<1>2. CASE Full(Uid(s))
  <2>1. \A r \in Module : pc'[r] \notin Writing
    BY <1>0, <1>1, <1>2 DEF Seek, Return, Goto, Writing
  <2> QED
    BY <1>1, <2>1, NobodyWriting DEF PackedInv, Seek
<1>3. CASE ~Full(Uid(s))
  <2>1. PICK p \in Page : SeekEnds(Uid(s), p) /\ target' = p
    BY <1>3 DEF Seek
  <2>2. /\ page' = page /\ losses' = losses /\ Uid(s)' = Uid(s)
        /\ pc' = [pc EXCEPT ![s] = "erase"]
    BY <1>3, UidStays DEF Seek, Goto
  <2>3. \A r \in Module : pc'[r] \in Writing => r = s
    BY <1>0, <1>1, <2>2
  <2>4. \A q \in Page : ~InFlux(q)
    BY <1>1 DEF InFlux
  <2>5. Uid(s) \in Uids /\ Uid(s) # ERASED
    BY SaverUid, FlashSaveAssumption DEF Seek
  <2>6. ASSUME losses = 0, NEW q \in Page, q # p PROVE page[q].id # Uid(s)
    <3>1. CASE q < p
      BY <2>1, <3>1 DEF SeekEnds, Stops
    <3>2. CASE p < q /\ page[p].id = Uid(s)
      BY <2>5, <2>6, <3>2 DEF PackedInv, PackedUntilPowerLoss
    <3>3. CASE p < q /\ page[p].id = ERASED
      <4>1. page[q].id = ERASED
        BY <2>4, <2>6, <3>3 DEF PackedInv, PackedUntilPowerLoss
      <4> QED
        BY <2>5, <4>1
    <3> QED
      BY <2>1, <2>6, <3>1, <3>2, <3>3, FlashSaveAssumption DEF SeekEnds, Stops, Page
  <2>7. \A q \in Page : q < p => page[q].id # ERASED
    BY <2>1 DEF SeekEnds, Stops
  <2>8. TargetOK'
    <3>1. pc'[s] = "erase"
      BY <1>0, <2>2
    <3> QED
      BY <2>1, <2>2, <2>3, <2>6, <2>7, <3>1 DEF TargetOK
  <2>9. PackedUntilPowerLoss'
    BY <2>2, <2>4 DEF PackedInv, PackedUntilPowerLoss
  <2> QED
    BY <2>8, <2>9
<1> QED
  BY <1>2, <1>3

LEMMA EraseKeepsPacked ==
  ASSUME Typed, PackedInv, NEW s \in Module, ErasePage(s)
  PROVE  TargetOK' /\ PackedUntilPowerLoss'
<1>0. /\ s \in Threads /\ Module \subseteq Threads /\ target \in Page /\ target' = target
      /\ pc \in [Threads -> {"wait", "claim"} \cup Inside] /\ losses' = losses
      /\ DOMAIN page = Page
  BY DEF Threads, Typed, TypeOK, ErasePage
<1>1. \A r \in Module : r # s => pc[r] \notin Writing
  BY <1>0, OthersOutside DEF PackedInv, ErasePage, Inside, Writing
<1>2. pc[s] = "erase" /\ pc' = [pc EXCEPT ![s] = "program"] /\ Uid(s)' = Uid(s)
  BY UidStays DEF ErasePage, Goto
<1>3. page' = [page EXCEPT ![target] = Blank]
  BY DEF ErasePage
<1>4. page'[target] = Blank /\ \A p \in Page : p # target => page'[p] = page[p]
  BY <1>0, <1>3
<1>5. \A r \in Module : pc'[r] \in Writing => r = s
  BY <1>0, <1>1, <1>2
<1>6. \A p \in Page : p = target => InFlux(p)'
  BY <1>0, <1>2 DEF InFlux, Writing
<1>7. TargetOK'
  <2>1. losses = 0 => /\ \A p \in Page : p < target => page[p].id # ERASED
                      /\ \A p \in Page : p # target => page[p].id # Uid(s)
    BY <1>2 DEF PackedInv, TargetOK, Writing
  <2> QED
    BY <1>0, <1>2, <1>4, <1>5, <2>1, FlashSaveAssumption DEF TargetOK, Page
<1>8. PackedUntilPowerLoss'
  <2>1. ASSUME losses = 0, NEW p \in Page, NEW q \in Page
        PROVE  /\ p < q /\ page'[q].id # ERASED => page'[p].id # ERASED \/ InFlux(p)'
               /\ p # q /\ page'[p].id = page'[q].id => page'[p].id = ERASED
    <3>1. page'[target].id = ERASED
      BY <1>4 DEF Blank
    <3>2. InFlux(p) => p = target
      BY DEF InFlux
    <3>3. CASE p = target
      BY <1>6, <3>1, <3>3
    <3>4. CASE p # target
      BY <1>4, <2>1, <3>1, <3>2, <3>4 DEF PackedInv, PackedUntilPowerLoss
    <3> QED
      BY <3>3, <3>4
  <2> QED
    BY <1>0, <2>1 DEF PackedUntilPowerLoss
<1> QED
  BY <1>7, <1>8

LEMMA WriteKeepsPacked ==
  ASSUME Typed, PackedInv, NEW s \in Module, WritePage(s)
  PROVE  TargetOK' /\ PackedUntilPowerLoss'
<1>0. /\ s \in Threads /\ Module \subseteq Threads /\ target \in Page
      /\ pc \in [Threads -> {"wait", "claim"} \cup Inside] /\ losses' = losses
      /\ DOMAIN page = Page
  BY DEF Threads, Typed, TypeOK, WritePage
<1>1. \A r \in Module : r # s => pc[r] \notin Writing
  BY <1>0, OthersOutside DEF PackedInv, WritePage, Inside, Writing
<1>2. pc[s] = "transfer" /\ pc' = [pc EXCEPT ![s] = "release"]
  BY DEF WritePage, Goto
<1>3. /\ page'[target].id = Uid(s)
      /\ \A p \in Page : p # target => page'[p] = page[p]
  BY <1>0 DEF WritePage, Record
<1>4. \A r \in Module : pc'[r] \notin Writing
  BY <1>0, <1>1, <1>2 DEF Writing
<1>5. TargetOK'
  BY <1>4 DEF TargetOK
<1>6. losses = 0 => /\ \A p \in Page : p < target => page[p].id # ERASED
                    /\ \A p \in Page : p # target => page[p].id # Uid(s)
  BY <1>2 DEF PackedInv, TargetOK, Writing
<1>7. Uid(s) # ERASED
  BY <1>2, SaverUid, FlashSaveAssumption
<1>8. ASSUME losses = 0, NEW p \in Page, NEW q \in Page
      PROVE  /\ p < q /\ page'[q].id # ERASED => page'[p].id # ERASED
             /\ p # q /\ page'[p].id = page'[q].id => page'[p].id = ERASED
  <2>1. InFlux(p) => p = target
    BY DEF InFlux
  <2> QED
    BY <1>3, <1>6, <1>7, <1>8, <2>1 DEF PackedInv, PackedUntilPowerLoss
<1> QED
  BY <1>0, <1>5, <1>8 DEF PackedUntilPowerLoss

LEMMA PackedHolds == Typed /\ PackedInv /\ [Next]_vars => TargetOK' /\ PackedUntilPowerLoss'
<1> SUFFICES ASSUME Typed, PackedInv, [Next]_vars PROVE TargetOK' /\ PackedUntilPowerLoss'
  OBVIOUS
<1>0. /\ pc \in [Threads -> {"wait", "claim"} \cup Inside] /\ job \in [Threads -> Nat]
      /\ Module \subseteq Threads /\ MAIN \in Threads /\ SERIAL \in Threads
      /\ MAIN \notin Module /\ SERIAL \notin Module
  BY FlashSaveAssumption DEF Typed, TypeOK, Threads
<1> USE DEF PackedInv
<1>1. ASSUME NEW s \in Module, Wake(s) PROVE TargetOK' /\ PackedUntilPowerLoss'
  <2>1. /\ pc'[s] = "claim" /\ pc[s] = "wait"
        /\ \A r \in Module : r # s => pc'[r] = pc[r] /\ job'[r] = job[r]
    BY <1>0, <1>1 DEF Wake, Goto
  <2> QED
    BY <1>1, <2>1, UidStays, NothingWritten DEF Wake, Writing, TargetOK, PackedUntilPowerLoss
<1>2. ASSUME NEW t \in Threads, Claim(t) PROVE TargetOK' /\ PackedUntilPowerLoss'
  <2>1. /\ pc[t] = "claim" /\ pc'[t] = "seek"
        /\ \A r \in Module : r # t => pc'[r] = pc[r]
        /\ \A r \in Module : Uid(r)' = Uid(r)
    BY <1>0, <1>2, UidStays DEF Claim, Goto
  <2> QED
    BY <1>2, <2>1, NothingWritten DEF Claim, Writing, TargetOK, PackedUntilPowerLoss
<1>3. ASSUME NEW s \in Module, BeginTransfer(s) PROVE TargetOK' /\ PackedUntilPowerLoss'
  <2>1. /\ pc[s] = "program" /\ pc'[s] = "transfer"
        /\ \A r \in Module : r # s => pc'[r] = pc[r]
        /\ \A r \in Module : Uid(r)' = Uid(r)
    BY <1>0, <1>3, UidStays DEF BeginTransfer, Goto
  <2> QED
    BY <1>3, <2>1, NothingWritten DEF BeginTransfer, Writing, TargetOK, PackedUntilPowerLoss
<1>4. ASSUME NEW s \in Module, Release(s) PROVE TargetOK' /\ PackedUntilPowerLoss'
  <2>1. \A r \in Module : pc[r] \notin Writing
    BY <1>0, <1>4, OthersOutside DEF Release, Inside, Writing
  <2>2. \A r \in Module : pc'[r] \notin Writing
    BY <1>0, <1>4, <2>1 DEF Release, Return, Goto, Writing
  <2> QED
    BY <1>4, <2>1, <2>2, NobodyWriting DEF Release
<1>5. CASE Main
  <2>1. /\ \A r \in Module : pc'[r] = pc[r] /\ job'[r] = job[r]
        /\ UNCHANGED <<page, target, losses>>
    BY <1>0, <1>5 DEF Main, InitModule, Read, Goto
  <2> QED
    BY <2>1, UidStays, NothingWritten DEF TargetOK, PackedUntilPowerLoss
<1>6. CASE \/ \E u \in Uids : \E d \in Contents[u] : SetSettings(u, d)
           \/ SaveToFlash \/ EraseFlash \/ BeginBulkErase \/ UNCHANGED vars
  <2>1. /\ \A r \in Module : pc'[r] = pc[r] /\ job'[r] = job[r]
        /\ UNCHANGED <<page, target, losses>>
    BY <1>0, <1>6 DEF SetSettings, SaveToFlash, EraseFlash, BeginBulkErase, Goto, vars
  <2> QED
    BY <2>1, UidStays, NothingWritten DEF TargetOK, PackedUntilPowerLoss
<1>7. CASE EraseAllAndReset
  <2>1. /\ \A r \in Module : pc'[r] \notin Writing
        /\ \A p \in Page : page'[p].id = ERASED
    BY <1>0, <1>7 DEF EraseAllAndReset, Restart, Writing, Blank
  <2> QED
    BY <2>1 DEF TargetOK, PackedUntilPowerLoss
<1>8. CASE PowerLoss
  <2>1. losses' # 0
    BY <1>8 DEF PowerLoss, Typed, TypeOK
  <2> QED
    BY <2>1 DEF TargetOK, PackedUntilPowerLoss
<1> QED
  BY <1>1, <1>2, <1>3, <1>4, <1>5, <1>6, <1>7, <1>8,
     SeekKeepsPacked, EraseKeepsPacked, WriteKeepsPacked DEF Next, Saver

(* Until a first loss of power, saves in any order by any threads keep the *)
(* records in the first pages without a gap, one for each UID.             *)
THEOREM StaysPacked == Spec => []PackedUntilPowerLoss
<1>1. ASSUME Init PROVE PackedInv
  <2>1. \A t \in Threads : pc[t] \notin Inside
    BY <1>1 DEF Init, Inside, Writing
  <2>2. Module \subseteq Threads /\ Writing \subseteq Inside
    BY DEF Threads, Inside
  <2>3. ASSUME NEW p \in Page, p # 0 PROVE page[p].id = ERASED
    BY <1>1, <2>3 DEF Init, Blank
  <2>4. PackedUntilPowerLoss
    BY <2>3 DEF PackedUntilPowerLoss, Page
  <2> QED
    BY <2>1, <2>2, <2>4 DEF PackedInv, ClaimedInside, TargetOK
<1>2. Typed /\ PackedInv /\ [Next]_vars => PackedInv'
  BY PackedHolds, ExclusionHolds DEF PackedInv
<1>3. PackedInv => PackedUntilPowerLoss
  BY DEF PackedInv
<1> QED
  BY <1>1, <1>2, <1>3, InitTyped, TypesHold, PTL DEF Spec

(***************************************************************************)
(* The flash as a store of records                                         *)
(***************************************************************************)

(* A set of pages has a first one, and CHOOSE finds it. *)
LEMMA FirstPage ==
  ASSUME NEW C \in SUBSET Page, C # {}
  PROVE  LET f == CHOOSE p \in C : \A q \in C : p <= q
         IN  f \in C /\ \A q \in C : f <= q
<1>1. C \in SUBSET Nat
  BY FlashSaveAssumption DEF Page
<1>2. PICK x \in C : \A y \in C : ~ (<<y, x>> \in OpToRel(<, Nat))
  BY <1>1, NatLessThanWellFounded, WFMin
<1>3. \A y \in C : ~ (y < x)
  BY <1>1, <1>2 DEF OpToRel
<1>4. \A y \in C : x <= y
  BY <1>1, <1>3
<1> QED
  BY <1>4

(* The record of u in the pages pg: FirstCopies, one UID at a time. *)
First(pg, u) ==
  LET C == {p \in Page : pg[p].id = u}
  IN  IF C = {} THEN NONE ELSE pg[CHOOSE p \in C : \A q \in C : p <= q].data

LEMMA CopiesAreFirst ==
  /\ \A u \in Uids : FirstCopies[u] = First(page, u)
  /\ \A u \in Uids : FirstCopies'[u] = First(page', u)
  BY DEF FirstCopies, Copies, First

(* It is the record in a page with the UID and none before it. *)
LEMMA FirstIsAt ==
  ASSUME NEW pg, NEW u, NEW p \in Page, pg[p].id = u,
         \A q \in Page : q < p => pg[q].id # u
  PROVE  First(pg, u) = pg[p].data
<1> DEFINE C == {r \in Page : pg[r].id = u}
           f == CHOOSE r \in C : \A q \in C : r <= q
<1>1. C \in SUBSET Page /\ p \in C
  OBVIOUS
<1>2. f \in C /\ \A q \in C : f <= q
  BY <1>1, FirstPage
<1>3. f = p
  BY <1>1, <1>2, FlashSaveAssumption DEF Page
<1> QED
  BY <1>1, <1>3 DEF First

(* It does not change when no page that has the UID, or gets it, changes. *)
LEMMA FirstStays ==
  ASSUME NEW pg, NEW new, NEW u,
         \A p \in Page : pg[p].id = u \/ new[p].id = u => new[p] = pg[p]
  PROVE  First(new, u) = First(pg, u)
<1> DEFINE C == {r \in Page : pg[r].id = u}
           D == {r \in Page : new[r].id = u}
           f == CHOOSE r \in C : \A q \in C : r <= q
           g == CHOOSE r \in D : \A q \in D : r <= q
<1>1. C = D /\ C \in SUBSET Page
  OBVIOUS
<1>2. First(pg, u) = IF C = {} THEN NONE ELSE pg[f].data
  BY DEF First
<1>3. First(new, u) = IF D = {} THEN NONE ELSE new[g].data
  BY DEF First
<1>4. C # {} => f \in C
  BY <1>1, FirstPage
<1>5. C # {} => new[f] = pg[f]
  BY <1>4
<1> HIDE DEF C, D
<1>6. f = g
  BY <1>1
<1> HIDE DEF f, g
<1> QED
  BY <1>1, <1>2, <1>3, <1>5, <1>6

LEMMA FirstType ==
  ASSUME NEW pg \in [Page -> {Blank} \cup [id : Uids \cup {JUNK}, data : Data]], NEW u \in Uids
  PROVE  First(pg, u) \in Data \cup {NONE}
<1> DEFINE C == {r \in Page : pg[r].id = u}
           f == CHOOSE r \in C : \A q \in C : r <= q
<1>1. C \in SUBSET Page
  OBVIOUS
<1>2. CASE C # {}
  <2>1. f \in Page /\ pg[f].id = u
    BY <1>1, <1>2, FirstPage
  <2>2. pg[f] \in [id : Uids \cup {JUNK}, data : Data]
    BY <2>1, FlashSaveAssumption DEF Blank
  <2>3. pg[f].data \in Data
    BY <2>2
  <2> QED
    BY <1>2, <2>3 DEF First
<1> QED
  BY <1>2 DEF First

(* Where a write stands, also after losses of power: no page before its    *)
(* target has its UID, and its target holds no other UID's record.         *)
WriterOK ==
  \A s \in Module : pc[s] \in Writing =>
    /\ \A p \in Page : p < target => page[p].id # Uid(s)
    /\ page[target].id \in {Uid(s), ERASED}

StoreInv == Typed /\ ClaimedInside /\ WriterOK

(* What the flash stores, as ImplementsStore has it. *)
Stored == [u \in Uids |-> IF u \in Busy THEN old[u] ELSE FirstCopies[u]]

(* With one thread writing, the record being replaced is its own. *)
LEMMA OneBusy ==
  ASSUME Typed, ClaimedInside, NEW s \in Module, pc[s] \in Writing
  PROVE  Busy = {Uid(s)} /\ Uid(s) \in Uids /\ pc[SERIAL] # "erase"
<1>1. Uid(s) \in Uids
  BY SaverUid DEF Writing
<1>2. s \in Threads /\ SERIAL \in Threads /\ s # SERIAL /\ pc[s] \in Inside
  BY FlashSaveAssumption DEF Threads, Inside
<1>3. \A r \in Module : r # s => pc[r] \notin Writing
  BY <1>2, OthersOutside
<1>4. pc[SERIAL] # "erase"
  BY <1>2 DEF ClaimedInside, Inside, Writing
<1> QED
  BY <1>1, <1>3, <1>4 DEF Busy

(* A thread inside that is not writing: no record is being replaced. *)
LEMMA NoneBusy ==
  ASSUME Typed, ClaimedInside, NEW t \in Threads, pc[t] \in {"seek", "release"}
  PROVE  /\ Busy = {} /\ \A s \in Module : pc[s] \notin Writing
         /\ pc[SERIAL] # "erase"
<1>1. pc[t] \in Inside /\ pc[t] \notin Writing /\ SERIAL \in Threads
  BY DEF Inside, Writing, Threads
<1>2. \A s \in Module : pc[s] \notin Writing
  BY <1>1, OthersOutside
<1>3. pc[SERIAL] # "erase"
  BY <1>1 DEF ClaimedInside, Inside, Writing
<1> QED
  BY <1>2, <1>3 DEF Busy

(* A step that changes no page and no write in progress ... *)
Still ==
  /\ UNCHANGED page
  /\ \A s \in Module : pc[s] \in Writing <=> pc'[s] \in Writing
  /\ \A s \in Module : pc'[s] \in Writing => Uid(s)' = Uid(s)
  /\ pc[SERIAL] = "erase" <=> pc'[SERIAL] = "erase"
  /\ Busy # {} => UNCHANGED <<target, old>>

(* ... as are those of threads that wait, claim, release or read the       *)
(* flash, and the commands that leave it alone.                            *)
LEMMA OthersStill ==
  ASSUME Typed, ClaimedInside,
         \/ \E s \in Module : Wake(s) \/ BeginTransfer(s) \/ Release(s)
         \/ \E t \in Threads : Claim(t)
         \/ Main
         \/ \E u \in Uids : \E d \in Contents[u] : SetSettings(u, d)
         \/ SaveToFlash \/ EraseFlash \/ UNCHANGED vars
  PROVE  Still /\ UNCHANGED losses
<1> USE DEF Still
<1>0. /\ pc \in [Threads -> {"wait", "claim"} \cup Inside] /\ job \in [Threads -> Nat]
      /\ Module \subseteq Threads /\ MAIN \in Threads /\ SERIAL \in Threads
      /\ MAIN \notin Module /\ SERIAL \notin Module /\ MAIN # SERIAL
  BY FlashSaveAssumption DEF Typed, TypeOK, Threads
<1>1. ASSUME NEW s \in Module, Wake(s) PROVE Still /\ UNCHANGED losses
  <2>1. /\ pc'[s] = "claim" /\ pc[s] = "wait"
        /\ \A r \in Module : r # s => pc'[r] = pc[r] /\ job'[r] = job[r]
        /\ pc'[SERIAL] = pc[SERIAL]
    BY <1>0, <1>1 DEF Wake, Goto
  <2> QED
    BY <1>1, <2>1, UidStays DEF Wake, Writing
<1>2. ASSUME NEW t \in Threads, Claim(t) PROVE Still /\ UNCHANGED losses
  <2>1. /\ pc[t] = "claim" /\ pc'[t] = "seek"
        /\ \A r \in Threads : r # t => pc'[r] = pc[r]
        /\ \A r \in Module : Uid(r)' = Uid(r)
    BY <1>0, <1>2, UidStays DEF Claim, Goto
  <2> QED
    BY <1>0, <1>2, <2>1 DEF Claim, Writing
<1>3. ASSUME NEW s \in Module, BeginTransfer(s) PROVE Still /\ UNCHANGED losses
  <2>1. /\ pc[s] = "program" /\ pc'[s] = "transfer"
        /\ \A r \in Module : r # s => pc'[r] = pc[r]
        /\ \A r \in Module : Uid(r)' = Uid(r)
        /\ pc'[SERIAL] = pc[SERIAL]
    BY <1>0, <1>3, UidStays DEF BeginTransfer, Goto
  <2> QED
    BY <1>3, <2>1 DEF BeginTransfer, Writing
<1>4. ASSUME NEW s \in Module, Release(s) PROVE Still /\ UNCHANGED losses
  <2>1. Busy = {} /\ (\A r \in Module : pc[r] \notin Writing) /\ pc[SERIAL] # "erase"
    BY <1>0, <1>4, NoneBusy DEF Release
  <2>2. pc'[SERIAL] # "erase" /\ \A r \in Module : pc'[r] \notin Writing
    BY <1>0, <1>4, <2>1 DEF Release, Return, Goto, Writing
  <2> QED
    BY <1>4, <2>1, <2>2 DEF Release
<1>5. ASSUME Main PROVE Still /\ UNCHANGED losses
  <2>1. /\ \A r \in Module : pc'[r] = pc[r] /\ job'[r] = job[r]
        /\ UNCHANGED <<page, target, old, losses>> /\ pc'[SERIAL] = pc[SERIAL]
    BY <1>0, <1>5 DEF Main, InitModule, Read, Goto
  <2> QED
    BY <2>1, UidStays
<1>6. ASSUME \/ \E u \in Uids : \E d \in Contents[u] : SetSettings(u, d)
             \/ SaveToFlash \/ EraseFlash \/ UNCHANGED vars
      PROVE  Still /\ UNCHANGED losses
  <2>1. /\ \A r \in Module : pc'[r] = pc[r] /\ job'[r] = job[r]
        /\ UNCHANGED <<page, target, old, losses>>
        /\ pc'[SERIAL] = "erase" <=> pc[SERIAL] = "erase"
    BY <1>0, <1>6 DEF SetSettings, SaveToFlash, EraseFlash, SerialIdle, Goto, vars
  <2> QED
    BY <2>1, UidStays
<1> QED
  BY <1>1, <1>2, <1>3, <1>4, <1>5, <1>6

(* Such a step changes nothing of the store. *)
LEMMA StoreStutters ==
  ASSUME Typed, WriterOK, Still
  PROVE  WriterOK' /\ Busy' = Busy /\ Stored' = Stored
<1> USE DEF Still
<1>1. Busy' = Busy
  BY DEF Busy
<1>2. \A u \in Uids : FirstCopies'[u] = FirstCopies[u]
  BY CopiesAreFirst
<1>3. Stored' = [u \in Uids |-> IF u \in Busy' THEN old'[u] ELSE FirstCopies'[u]]
  BY DEF Stored
<1>4. Stored' = Stored
  BY <1>1, <1>2, <1>3 DEF Stored
<1>5. ASSUME NEW s \in Module, pc'[s] \in Writing PROVE Busy # {}
  BY <1>5, SaverUid DEF Busy, Writing
<1>6. WriterOK'
  BY <1>5 DEF WriterOK
<1> QED
  BY <1>1, <1>4, <1>6

StoreStep == WriterOK' /\ [Store!Next]_<<Stored, Busy>>

(* FlashSave_Seek begins to replace a record, except in a full flash. *)
LEMMA SeekBegins ==
  ASSUME StoreInv, NEW s \in Module, Seek(s)
  PROVE  StoreStep
<1>0. /\ pc \in [Threads -> {"wait", "claim"} \cup Inside] /\ s \in Threads
      /\ Module \subseteq Threads /\ SERIAL \in Threads /\ s # SERIAL /\ pc[s] = "seek"
      /\ UNCHANGED <<page, boot>>
  BY FlashSaveAssumption DEF StoreInv, Typed, TypeOK, Threads, Seek
<1>1. Busy = {} /\ (\A r \in Module : pc[r] \notin Writing) /\ pc[SERIAL] # "erase"
  BY <1>0, NoneBusy DEF StoreInv
<1>2. CASE Full(Uid(s))
  <2>1. \A r \in Module : pc'[r] \notin Writing
    BY <1>0, <1>1, <1>2 DEF Seek, Return, Goto, Writing
  <2>2. pc'[SERIAL] # "erase"
    BY <1>0, <1>1, <1>2 DEF Seek, Return, Goto
  <2>3. WriterOK' /\ Busy' = Busy /\ Stored' = Stored
    BY <1>0, <1>1, <2>1, <2>2, StoreStutters DEF StoreInv, Still
  <2> QED
    BY <2>3 DEF StoreStep
<1>3. CASE ~Full(Uid(s))
  <2>1. PICK p \in Page : SeekEnds(Uid(s), p) /\ target' = p
    BY <1>3 DEF Seek
  <2>2. pc' = [pc EXCEPT ![s] = "erase"] /\ old' = FirstCopies /\ Uid(s)' = Uid(s)
    BY <1>3, UidStays DEF Seek, Goto
  <2>3. Uid(s) \in Uids
    BY <1>0, SaverUid DEF StoreInv
  <2>4. /\ pc'[s] = "erase" /\ pc'[SERIAL] # "erase"
        /\ \A r \in Module : r # s => pc'[r] \notin Writing
    BY <1>0, <1>1, <2>2
  <2>5. Busy' = {Uid(s)}
    BY <2>2, <2>3, <2>4 DEF Busy, Writing
  <2>6. WriterOK'
    BY <1>0, <2>1, <2>2, <2>4 DEF WriterOK, SeekEnds, Stops
  <2>7. \A u \in Uids : FirstCopies'[u] = FirstCopies[u]
    BY <1>0, CopiesAreFirst
  <2>8. Stored' = [u \in Uids |-> IF u \in Busy' THEN old'[u] ELSE FirstCopies'[u]]
    BY DEF Stored
  <2>9. Stored' = Stored
    BY <1>1, <2>2, <2>7, <2>8 DEF Stored
  <2>10. Store!Begin
    BY <1>1, <2>3, <2>5, <2>9 DEF Store!Begin, Stored
  <2> QED
    BY <2>6, <2>10 DEF StoreStep, Store!Next
<1> QED
  BY <1>2, <1>3

(* ExternalFlash_ErasePage erases no record but the one being replaced. *)
LEMMA EraseIsUnseen ==
  ASSUME StoreInv, NEW s \in Module, ErasePage(s)
  PROVE  StoreStep
<1>0. /\ pc \in [Threads -> {"wait", "claim"} \cup Inside] /\ s \in Threads
      /\ Module \subseteq Threads /\ SERIAL \in Threads /\ s # SERIAL /\ pc[s] = "erase"
      /\ UNCHANGED <<boot, job, target, old>> /\ target \in Page /\ DOMAIN page = Page
      /\ pc' = [pc EXCEPT ![s] = "program"] /\ page' = [page EXCEPT ![target] = Blank]
  BY FlashSaveAssumption DEF StoreInv, Typed, TypeOK, Threads, ErasePage, Goto
<1>1. Busy = {Uid(s)} /\ Uid(s) \in Uids /\ pc[SERIAL] # "erase" /\ Uid(s)' = Uid(s)
  BY <1>0, OneBusy, UidStays DEF StoreInv, Writing
<1>2. \A r \in Module : r # s => pc[r] \notin Writing
  BY <1>0, OthersOutside DEF StoreInv, Inside, Writing
<1>3. /\ pc'[s] = "program" /\ pc'[SERIAL] # "erase"
      /\ \A r \in Module : r # s => pc'[r] \notin Writing
  BY <1>0, <1>1, <1>2
<1>4. page'[target] = Blank /\ \A p \in Page : p # target => page'[p] = page[p]
  BY <1>0
<1>5. Busy' = Busy
  BY <1>1, <1>3 DEF Busy, Writing
<1>6. /\ \A p \in Page : p < target => page[p].id # Uid(s)
      /\ page[target].id \in {Uid(s), ERASED}
  BY <1>0 DEF StoreInv, WriterOK, Writing
<1>7. WriterOK'
  <2>1. \A p \in Page : p < target => page'[p].id # Uid(s)
    BY <1>0, <1>4, <1>6, FlashSaveAssumption DEF Page
  <2>2. page'[target].id = ERASED
    BY <1>4 DEF Blank
  <2> QED
    BY <1>0, <1>1, <1>3, <2>1, <2>2 DEF WriterOK
<1>8. ASSUME NEW u \in Uids \ Busy PROVE FirstCopies'[u] = FirstCopies[u]
  <2>1. \A p \in Page : page[p].id = u \/ page'[p].id = u => page'[p] = page[p]
    BY <1>1, <1>4, <1>6, <1>8, FlashSaveAssumption DEF Blank
  <2> QED
    BY <2>1, FirstStays, CopiesAreFirst
<1>9. Stored' = [u \in Uids |-> IF u \in Busy' THEN old'[u] ELSE FirstCopies'[u]]
  BY DEF Stored
<1>10. Stored' = Stored
  BY <1>0, <1>5, <1>8, <1>9 DEF Stored
<1> QED
  BY <1>5, <1>7, <1>10 DEF StoreStep

(* FlashSave_WritePage replaces the record, and no other. *)
LEMMA WriteIsWrite ==
  ASSUME StoreInv, NEW s \in Module, WritePage(s)
  PROVE  StoreStep
<1> DEFINE d == IF part = live[Uid(s)] THEN part ELSE TORN
<1>0. /\ pc \in [Threads -> {"wait", "claim"} \cup Inside] /\ s \in Threads
      /\ Module \subseteq Threads /\ SERIAL \in Threads /\ s # SERIAL /\ pc[s] = "transfer"
      /\ UNCHANGED <<boot, job, target, old>> /\ target \in Page /\ DOMAIN page = Page
      /\ pc' = [pc EXCEPT ![s] = "release"]
  BY FlashSaveAssumption DEF StoreInv, Typed, TypeOK, Threads, WritePage, Goto
<1>1. Busy = {Uid(s)} /\ Uid(s) \in Uids /\ pc[SERIAL] # "erase"
  BY <1>0, OneBusy DEF StoreInv, Writing
<1>2. \A r \in Module : r # s => pc[r] \notin Writing
  BY <1>0, OthersOutside DEF StoreInv, Inside, Writing
<1>3. pc'[SERIAL] # "erase" /\ \A r \in Module : pc'[r] \notin Writing
  BY <1>0, <1>1, <1>2 DEF Writing
<1>4. Busy' = {} /\ WriterOK'
  BY <1>3 DEF Busy, WriterOK
<1>5. page'[target] = Record(Uid(s), d) /\ \A p \in Page : p # target => page'[p] = page[p]
  BY <1>0 DEF WritePage
<1>6. d \in Data
  BY DEF StoreInv, Typed, TypeOK, Data
<1>7. /\ \A p \in Page : p < target => page[p].id # Uid(s)
      /\ page[target].id \in {Uid(s), ERASED}
  BY <1>0 DEF StoreInv, WriterOK, Writing
<1> HIDE DEF d
<1>8. FirstCopies'[Uid(s)] = d
  <2>1. \A p \in Page : p < target => page'[p].id # Uid(s)
    BY <1>0, <1>5, <1>7, FlashSaveAssumption DEF Page
  <2>2. page'[target].id = Uid(s) /\ page'[target].data = d
    BY <1>5 DEF Record
  <2>3. First(page', Uid(s)) = page'[target].data
    BY <1>0, <2>1, <2>2, FirstIsAt
  <2> QED
    BY <1>1, <2>2, <2>3, CopiesAreFirst
<1>9. ASSUME NEW u \in Uids \ Busy PROVE FirstCopies'[u] = FirstCopies[u]
  <2>1. \A p \in Page : page[p].id = u \/ page'[p].id = u => page'[p] = page[p]
    BY <1>1, <1>5, <1>7, <1>9, FlashSaveAssumption DEF Record
  <2> QED
    BY <2>1, FirstStays, CopiesAreFirst
<1>10. Stored' = [u \in Uids |-> IF u \in Busy' THEN old'[u] ELSE FirstCopies'[u]]
  BY DEF Stored
<1>11. Stored' = [Stored EXCEPT ![Uid(s)] = d]
  BY <1>1, <1>4, <1>8, <1>9, <1>10 DEF Stored
<1>12. \E u \in Uids, e \in Data :
         Busy = {u} /\ Stored' = [Stored EXCEPT ![u] = e] /\ Busy' = {}
  BY <1>1, <1>4, <1>6, <1>11
<1>13. \E u \in Uids, e \in Data : Store!Write(u, e)
  BY <1>12 DEF Store!Write, Stored
<1> QED
  BY <1>4, <1>13 DEF StoreStep, Store!Next

(* ExternalFlash_EraseBulk begins to replace every record ... *)
LEMMA BulkEraseBegins ==
  ASSUME StoreInv, BeginBulkErase
  PROVE  StoreStep
<1>0. /\ pc \in [Threads -> {"wait", "claim"} \cup Inside] /\ SERIAL \in Threads
      /\ Module \subseteq Threads /\ SERIAL \notin Module /\ pc[SERIAL] = "seek"
      /\ pc' = [pc EXCEPT ![SERIAL] = "erase"] /\ old' = FirstCopies /\ page' = page
  BY FlashSaveAssumption DEF StoreInv, Typed, TypeOK, Threads, BeginBulkErase, Goto
<1>1. Busy = {} /\ \A s \in Module : pc[s] \notin Writing
  BY <1>0, NoneBusy DEF StoreInv
<1>2. pc'[SERIAL] = "erase" /\ \A s \in Module : pc'[s] \notin Writing
  BY <1>0, <1>1
<1>3. Busy' = Uids /\ WriterOK'
  BY <1>2 DEF Busy, WriterOK
<1>4. Stored' = [u \in Uids |-> IF u \in Busy' THEN old'[u] ELSE FirstCopies'[u]]
  BY DEF Stored
<1>5. Stored' = Stored
  BY <1>0, <1>1, <1>3, <1>4 DEF Stored
<1>6. Store!Begin
  BY <1>1, <1>3, <1>5 DEF Store!Begin, Stored
<1> QED
  BY <1>3, <1>6 DEF StoreStep, Store!Next

(* After a reset nobody is writing. *)
LEMMA NoneAfterRestart ==
  ASSUME Restart
  PROVE  Busy' = {} /\ WriterOK'
<1>1. pc'[SERIAL] # "erase" /\ \A s \in Module : pc'[s] \notin Writing
  BY DEF Restart, Threads, Writing
<1> QED
  BY <1>1 DEF Busy, WriterOK

(* ... and leaves none. *)
LEMMA BulkEraseClears ==
  ASSUME StoreInv, EraseAllAndReset
  PROVE  StoreStep
<1>1. Busy = Uids
  BY DEF EraseAllAndReset, Busy
<1>2. Busy' = {} /\ WriterOK'
  BY NoneAfterRestart DEF EraseAllAndReset
<1>3. ASSUME NEW u \in Uids PROVE FirstCopies'[u] = NONE
  <2>1. \A p \in Page : page'[p].id # u
    BY <1>3, FlashSaveAssumption DEF EraseAllAndReset, Blank
  <2>2. First(page', u) = NONE
    BY <2>1 DEF First
  <2> QED
    BY <2>2, CopiesAreFirst
<1>4. Stored' = [u \in Uids |-> IF u \in Busy' THEN old'[u] ELSE FirstCopies'[u]]
  BY DEF Stored
<1>5. Stored' = [u \in Uids |-> NONE]
  BY <1>2, <1>3, <1>4
<1>6. Store!Clear
  BY <1>1, <1>2, <1>5 DEF Store!Clear, Stored
<1> QED
  BY <1>2, <1>6 DEF StoreStep, Store!Next

(* A loss of power damages only what was being replaced. *)
LEMMA LossIsLoss ==
  ASSUME StoreInv, Typed', PowerLoss
  PROVE  StoreStep
<1>1. Busy' = {} /\ WriterOK'
  BY NoneAfterRestart DEF PowerLoss
<1>2. \A u \in Uids : FirstCopies'[u] \in Data \cup {NONE}
  BY CopiesAreFirst, FirstType DEF Typed, TypeOK
<1>3. ASSUME NEW u \in Uids \ Busy PROVE FirstCopies'[u] = FirstCopies[u]
  <2>1. CASE UNCHANGED page
    BY <2>1, CopiesAreFirst
  <2>2. ASSUME NEW s \in Module, pc[s] \in Writing, NEW r \in Remains(s),
               page' = [page EXCEPT ![target] = r]
        PROVE  FirstCopies'[u] = FirstCopies[u]
    <3>1. Busy = {Uid(s)} /\ Uid(s) \in Uids
      BY <2>2, OneBusy DEF StoreInv
    <3>2. page[target].id \in {Uid(s), ERASED}
      BY <2>2 DEF StoreInv, WriterOK
    <3>3. r.id \in {Uid(s), ERASED, JUNK}
      BY <2>2, <3>2 DEF Remains, Record, Blank
    <3>4. page[target].id # u /\ r.id # u
      BY <1>3, <3>1, <3>2, <3>3, FlashSaveAssumption
    <3>5. target \in Page /\ DOMAIN page = Page
      BY DEF StoreInv, Typed, TypeOK
    <3>6. \A p \in Page : page[p].id = u \/ page'[p].id = u => page'[p] = page[p]
      BY <2>2, <3>4, <3>5
    <3> QED
      BY <3>6, FirstStays, CopiesAreFirst
  <2>3. pc[SERIAL] # "erase"
    BY <1>3 DEF Busy
  <2> QED
    BY <2>1, <2>2, <2>3 DEF PowerLoss
<1>4. Stored' = [u \in Uids |-> IF u \in Busy' THEN old'[u] ELSE FirstCopies'[u]]
  BY DEF Stored
<1>5. Stored' = [u \in Uids |-> FirstCopies'[u]]
  BY <1>1, <1>4
<1>6. Stored' \in [Uids -> Data \cup {NONE}]
  BY <1>2, <1>5
<1>7. \A u \in Uids \ Busy : Stored'[u] = Stored[u]
  BY <1>3, <1>5 DEF Stored
<1>8. Store!PowerLoss
  BY <1>1, <1>6, <1>7 DEF Store!PowerLoss, Stored
<1> QED
  BY <1>1, <1>8 DEF StoreStep, Store!Next

(* Every other step leaves the store as it is. *)
LEMMA OthersUnseen ==
  ASSUME StoreInv,
         \/ \E s \in Module : Wake(s) \/ BeginTransfer(s) \/ Release(s)
         \/ \E t \in Threads : Claim(t)
         \/ Main
         \/ \E u \in Uids : \E d \in Contents[u] : SetSettings(u, d)
         \/ SaveToFlash \/ EraseFlash \/ UNCHANGED vars
  PROVE  StoreStep
<1>1. Still
  BY OthersStill DEF StoreInv
<1>2. WriterOK' /\ Busy' = Busy /\ Stored' = Stored
  BY <1>1, StoreStutters DEF StoreInv
<1> QED
  BY <1>2 DEF StoreStep

(* Every step of the flash is a step of the store, or none. *)
LEMMA StoreSteps == StoreInv /\ [Next]_vars => StoreInv' /\ [Store!Next]_<<Stored, Busy>>
<1> SUFFICES ASSUME StoreInv, [Next]_vars PROVE StoreInv' /\ [Store!Next]_<<Stored, Busy>>
  OBVIOUS
<1>1. Typed' /\ ClaimedInside'
  BY TypesHold, ExclusionHolds DEF StoreInv
<1>2. StoreStep
  BY <1>1, SeekBegins, EraseIsUnseen, WriteIsWrite, BulkEraseBegins, BulkEraseClears,
     LossIsLoss, OthersUnseen DEF Next, Saver
<1> QED
  BY <1>1, <1>2 DEF StoreStep, StoreInv

(* The flash implements the store, for any modules, records, sizes and     *)
(* losses of power: a write, also one cut short by a loss of power or      *)
(* following one, changes or damages no other record than its own.         *)
THEOREM StoreImplemented == Spec => ImplementsStore
<1>1. ASSUME Init PROVE StoreInv /\ Store!Init
  <2>1. Typed
    BY <1>1, InitTyped
  <2>2. pc[SERIAL] # "erase" /\ \A t \in Threads : pc[t] \notin Inside /\ pc[t] \notin Writing
    BY <1>1 DEF Init, Inside, Writing, Threads
  <2>3. Module \subseteq Threads
    BY DEF Threads
  <2>4. Busy = {} /\ WriterOK /\ ClaimedInside
    BY <2>2, <2>3 DEF Busy, WriterOK, ClaimedInside
  <2>5. \A u \in Uids : FirstCopies[u] \in Data \cup {NONE}
    BY <2>1, CopiesAreFirst, FirstType DEF Typed, TypeOK
  <2>6. Store!Init
    BY <2>4, <2>5 DEF Store!Init
  <2> QED
    BY <2>1, <2>4, <2>6 DEF StoreInv
<1>2. StoreInv /\ [Next]_vars => StoreInv' /\ [Store!Next]_<<Stored, Busy>>
  BY StoreSteps
<1> QED
  BY <1>1, <1>2, PTL DEF Spec, ImplementsStore, Store!Spec, Stored

(***************************************************************************)
(* The flash is given back                                                 *)
(***************************************************************************)

(* Enough pages that none of MaxLosses losses of power fills the flash: a  *)
(* loss may leave a page of no use for each UID, and the last page is      *)
(* never used.                                                             *)
EnoughPages ==
  IsFiniteSet(Uids) /\ NumPages > Cardinality(Uids) * (MaxLosses + 1)

(* Outside the stale pages F, left by earlier losses of power, each page   *)
(* in use is the one that FlashSave_Seek finds for its UID.                *)
FreshOK(F) ==
  \A f \in Page \ F : page[f].id # ERASED =>
    /\ page[f].id \in Uids
    /\ \A q \in Page : q < f => page[q].id \notin {page[f].id, ERASED} \/ InFlux(q)

(* A write in progress is to the page FlashSave_Seek found. *)
FluxOK(F) ==
  \A s \in Module : pc[s] \in Writing =>
    /\ \A p \in Page : p < target => page[p].id \notin {Uid(s), ERASED}
    /\ \A p \in Page \ F : p # target => page[p].id # Uid(s)

FewStale(F) == Cardinality(F) <= Cardinality(Uids) * losses

Spare == \E F \in SUBSET Page : FewStale(F) /\ FreshOK(F) /\ FluxOK(F)

SpareInv == Typed /\ ClaimedInside /\ GivenBack /\ Spare

(* What the bound on stale pages comes to. *)
LEMMA Products ==
  ASSUME NEW u \in Nat, NEW m \in Nat, NEW n \in 0 .. m
  PROVE  /\ u * n \in Nat /\ u * (n + 1) = u * n + u
         /\ u * (n + 1) <= u * (m + 1)
<1>1. u * n \in Nat /\ u * (n + 1) = u * n + u
  OBVIOUS
<1>2. PICK k \in Nat : m = n + k
  <2>1. m - n \in Nat /\ m = n + (m - n)
    OBVIOUS
  <2> QED
    BY <2>1
<1>3. u * k \in Nat /\ u * (m + 1) = u * (n + 1) + u * k
  BY <1>2
<1>4. u * (n + 1) \in Nat
  OBVIOUS
<1> QED
  BY <1>1, <1>3, <1>4

LEMMA SomePages ==
  ASSUME NEW P \in SUBSET Page
  PROVE  IsFiniteSet(P) /\ Cardinality(P) \in Nat
<1>1. IsFiniteSet(Page)
  BY FS_Interval, FlashSaveAssumption DEF Page
<1> QED
  BY <1>1, FS_Subset, FS_CardinalityType

(* Pages that each belong to a UID of their own are no more than the UIDs. *)
LEMMA OnePageEach ==
  ASSUME NEW V, IsFiniteSet(V), NEW F \in SUBSET Page, NEW P \in SUBSET Page,
         NEW own \in [P \ F -> V], \A p, q \in P \ F : own[p] = own[q] => p = q
  PROVE  Cardinality(P) <= Cardinality(F) + Cardinality(V)
<1> DEFINE G == P \ F
<1>1. own \in Injection(G, V)
  BY DEF Injection, IsInjective
<1>2. IsFiniteSet(G) /\ Cardinality(G) <= Cardinality(V)
  BY <1>1, FS_Injection
<1>3. /\ IsFiniteSet(F \cup G)
      /\ Cardinality(F \cup G) = Cardinality(F) + Cardinality(G) - Cardinality(F \cap G)
  BY <1>2, SomePages, FS_Union
<1>4. Cardinality(F \cap G) \in Nat /\ Cardinality(F) \in Nat /\ Cardinality(G) \in Nat
  BY SomePages
<1>5. Cardinality(P) <= Cardinality(F \cup G) /\ Cardinality(P) \in Nat
  <2>1. P \in SUBSET (F \cup G)
    OBVIOUS
  <2> QED
    BY <1>3, <2>1, FS_Subset, SomePages
<1>6. Cardinality(V) \in Nat
  BY FS_CardinalityType
<1> HIDE DEF G
<1> QED
  BY <1>2, <1>3, <1>4, <1>5, <1>6

(* FlashSave_Seek finds room. *)
LEMMA NeverFull ==
  ASSUME EnoughPages, SpareInv, NEW s \in Module, pc[s] = "seek"
  PROVE  ~Full(Uid(s))
<1> DEFINE u == Uid(s)
           P == 0 .. (NumPages - 2)
           c == Cardinality(Uids)
<1> SUFFICES ASSUME Full(u) PROVE FALSE
  OBVIOUS
<1>0. NumPages \in Nat \ {0} /\ MaxLosses \in Nat /\ P \in SUBSET Page
  BY FlashSaveAssumption DEF Page
<1>1. u \in Uids
  BY SaverUid DEF SpareInv
<1>2. \A r \in Module : pc[r] \notin Writing
  BY NoneBusy DEF SpareInv, Threads
<1>3. \A p \in P : ~Stops(u, p)
  <2> DEFINE S == {p \in P : Stops(u, p)}
             f == CHOOSE p \in S : \A q \in S : p <= q
  <2>1. SUFFICES ASSUME S # {} PROVE FALSE
    OBVIOUS
  <2>2. f \in S /\ \A q \in S : f <= q
    BY <1>0, <2>1, FirstPage
  <2> HIDE DEF f
  <2>3. f \in Page /\ f \in P /\ Stops(u, f)
    BY <1>0, <2>2
  <2>4. \A q \in Page : q < f => q \in P /\ q \notin S
    BY <1>0, <2>2, <2>3 DEF Page
  <2>5. SeekEnds(u, f)
    BY <2>3, <2>4 DEF SeekEnds
  <2>6. f = NumPages - 1
    BY <2>3, <2>5 DEF Full
  <2> QED
    BY <1>0, <2>3, <2>6
<1>4. PICK F \in SUBSET Page : FewStale(F) /\ FreshOK(F)
  BY DEF SpareInv, Spare
<1> DEFINE own == [p \in P \ F |-> page[p].id]
<1>5. ASSUME NEW p \in P \ F PROVE page[p].id \in Uids \ {u}
  BY <1>0, <1>3, <1>4, <1>5 DEF FreshOK, Stops
<1>6. ASSUME NEW p \in P \ F, NEW q \in P \ F, p < q PROVE page[p].id # page[q].id
  BY <1>0, <1>2, <1>3, <1>4, <1>6 DEF FreshOK, Stops, InFlux
<1>7. IsFiniteSet(Uids \ {u}) /\ Cardinality(Uids \ {u}) = c - 1 /\ c \in Nat
  BY <1>1, FS_RemoveElement, FS_CardinalityType DEF EnoughPages
<1>8. Cardinality(P) <= Cardinality(F) + Cardinality(Uids \ {u})
  <2>1. own \in [P \ F -> Uids \ {u}]
    BY <1>5
  <2>2. ASSUME NEW p \in P \ F, NEW q \in P \ F, own[p] = own[q] PROVE p = q
    <3>1. page[p].id = page[q].id
      BY <2>2
    <3>2. p \in Nat /\ q \in Nat
      BY <1>0 DEF Page
    <3> QED
      BY <1>6, <3>1, <3>2
  <2> HIDE DEF own, P
  <2> QED
    BY <1>0, <1>7, <2>1, <2>2, OnePageEach
<1>9. Cardinality(P) = NumPages - 1
  BY <1>0, FS_Interval
<1>10. Cardinality(F) <= c * losses /\ Cardinality(F) \in Nat
  BY <1>4, SomePages DEF FewStale
<1>11. losses \in 0 .. MaxLosses
  BY DEF SpareInv, Typed, TypeOK
<1>12. c * losses \in Nat /\ c * (losses + 1) = c * losses + c
       /\ c * (losses + 1) <= c * (MaxLosses + 1)
  BY <1>0, <1>7, <1>11, Products
<1>13. NumPages > c * (MaxLosses + 1)
  BY DEF EnoughPages
<1>14. c * (MaxLosses + 1) \in Nat
  BY <1>0, <1>7
<1> HIDE DEF c, P
<1> DEFINE x == c * losses
           y == c * (losses + 1)
           z == c * (MaxLosses + 1)
<1>15. NumPages - 1 <= x + (c - 1) /\ y = x + c /\ y <= z /\ NumPages > z /\ x \in Nat /\ z \in Nat
  BY <1>0, <1>7, <1>8, <1>9, <1>10, <1>12, <1>13, <1>14
<1> HIDE DEF x, y, z
<1> QED
  BY <1>0, <1>7, <1>15

(* No page is written, and the writers are where they were. *)
LEMMA SpareStays ==
  ASSUME Typed, Spare, Still, UNCHANGED losses
  PROVE  Spare'
<1> USE DEF Still
<1>0. ASSUME NEW s \in Module, pc'[s] \in Writing PROVE target' = target
  BY <1>0, SaverUid DEF Busy, Writing
<1>1. PICK F \in SUBSET Page : FewStale(F) /\ FreshOK(F) /\ FluxOK(F)
  BY DEF Spare
<1>2. \A p \in Page : InFlux(p) <=> InFlux(p)'
  BY <1>0 DEF InFlux
<1>3. FewStale(F)' /\ FreshOK(F)' /\ FluxOK(F)'
  BY <1>0, <1>1, <1>2 DEF FewStale, FreshOK, FluxOK
<1> QED
  BY <1>3 DEF Spare

LEMMA SeekKeepsSpare ==
  ASSUME EnoughPages, SpareInv, NEW s \in Module, Seek(s)
  PROVE  Spare'
<1>0. /\ pc \in [Threads -> {"wait", "claim"} \cup Inside] /\ s \in Threads
      /\ Module \subseteq Threads /\ pc[s] = "seek" /\ UNCHANGED <<page, losses>>
  BY DEF SpareInv, Typed, TypeOK, Threads, Seek
<1>1. \A r \in Module : pc[r] \notin Writing
  BY <1>0, NoneBusy DEF SpareInv
<1>2. ~Full(Uid(s))
  BY <1>0, NeverFull
<1>3. PICK t \in Page : SeekEnds(Uid(s), t) /\ target' = t
  BY <1>2 DEF Seek
<1>4. pc' = [pc EXCEPT ![s] = "erase"] /\ Uid(s)' = Uid(s)
  BY <1>2, UidStays DEF Seek, Goto
<1>5. \A r \in Module : pc'[r] \in Writing => r = s
  BY <1>0, <1>1, <1>4
<1>6. PICK F \in SUBSET Page : FewStale(F) /\ FreshOK(F) /\ FluxOK(F)
  BY DEF SpareInv, Spare
<1>7. \A p \in Page : ~InFlux(p)
  BY <1>1 DEF InFlux
<1>8. Uid(s) \in Uids /\ Uid(s) # ERASED
  BY <1>0, SaverUid, FlashSaveAssumption DEF SpareInv
<1>9. FewStale(F)' /\ FreshOK(F)'
  BY <1>0, <1>6, <1>7 DEF FewStale, FreshOK
<1>10. \A p \in Page : p < t => page[p].id \notin {Uid(s), ERASED}
  BY <1>3 DEF SeekEnds, Stops
<1>11. ASSUME NEW f \in Page \ F, f # t, page[f].id = Uid(s) PROVE FALSE
  <2>1. \A q \in Page : q < f => page[q].id \notin {Uid(s), ERASED}
    BY <1>6, <1>7, <1>8, <1>11 DEF FreshOK
  <2>2. ~(t < f)
    BY <1>3, <2>1 DEF SeekEnds, Stops
  <2>3. ~(f < t)
    BY <1>10, <1>11
  <2> QED
    BY <1>11, <2>2, <2>3, FlashSaveAssumption DEF Page
<1>12. FluxOK(F)'
  BY <1>0, <1>3, <1>4, <1>5, <1>10, <1>11 DEF FluxOK
<1> QED
  BY <1>6, <1>9, <1>12 DEF Spare

LEMMA EraseKeepsSpare ==
  ASSUME SpareInv, NEW s \in Module, ErasePage(s)
  PROVE  Spare'
<1>0. /\ pc \in [Threads -> {"wait", "claim"} \cup Inside] /\ s \in Threads
      /\ Module \subseteq Threads /\ pc[s] = "erase" /\ DOMAIN page = Page
      /\ UNCHANGED <<job, target, losses>> /\ target \in Page
      /\ pc' = [pc EXCEPT ![s] = "program"] /\ page' = [page EXCEPT ![target] = Blank]
  BY DEF SpareInv, Typed, TypeOK, Threads, ErasePage, Goto
<1>1. Uid(s)' = Uid(s)
  BY <1>0, UidStays
<1>2. \A r \in Module : r # s => pc[r] \notin Writing
  BY <1>0, OthersOutside DEF SpareInv, Inside, Writing
<1>3. pc'[s] = "program" /\ \A r \in Module : pc'[r] \in Writing => r = s
  BY <1>0, <1>2
<1>4. page'[target] = Blank /\ \A p \in Page : p # target => page'[p] = page[p]
  BY <1>0
<1>5. PICK F \in SUBSET Page : FewStale(F) /\ FreshOK(F) /\ FluxOK(F)
  BY DEF SpareInv, Spare
<1>6. \A p \in Page : (p = target => InFlux(p)') /\ (InFlux(p) => p = target)
  BY <1>0, <1>3 DEF InFlux, Writing
<1>7. FreshOK(F)'
  <2>1. ASSUME NEW f \in Page \ F, page'[f].id # ERASED
        PROVE  /\ page'[f].id \in Uids
               /\ \A q \in Page : q < f => page'[q].id \notin {page'[f].id, ERASED} \/ InFlux(q)'
    <3>1. f # target /\ page'[f] = page[f]
      BY <1>4, <2>1 DEF Blank
    <3>2. /\ page[f].id \in Uids
          /\ \A q \in Page : q < f => page[q].id \notin {page[f].id, ERASED} \/ InFlux(q)
      BY <1>5, <2>1, <3>1 DEF FreshOK
    <3> QED
      BY <1>4, <1>6, <3>1, <3>2
  <2> QED
    BY <2>1 DEF FreshOK
<1>8. FluxOK(F)'
  <2>1. /\ \A p \in Page : p < target => page[p].id \notin {Uid(s), ERASED}
        /\ \A p \in Page \ F : p # target => page[p].id # Uid(s)
    BY <1>0, <1>5 DEF FluxOK, Writing
  <2>2. \A p \in Page : p < target => p # target
    BY <1>0, FlashSaveAssumption DEF Page
  <2> QED
    BY <1>0, <1>1, <1>3, <1>4, <2>1, <2>2 DEF FluxOK
<1>9. FewStale(F)'
  BY <1>0, <1>5 DEF FewStale
<1> QED
  BY <1>5, <1>7, <1>8, <1>9 DEF Spare

LEMMA WriteKeepsSpare ==
  ASSUME SpareInv, NEW s \in Module, WritePage(s)
  PROVE  Spare'
<1>0. /\ pc \in [Threads -> {"wait", "claim"} \cup Inside] /\ s \in Threads
      /\ Module \subseteq Threads /\ pc[s] = "transfer" /\ DOMAIN page = Page
      /\ UNCHANGED <<job, target, losses>> /\ target \in Page
      /\ pc' = [pc EXCEPT ![s] = "release"]
  BY DEF SpareInv, Typed, TypeOK, Threads, WritePage, Goto
<1>1. Uid(s) \in Uids
  BY <1>0, SaverUid DEF SpareInv
<1>2. \A r \in Module : r # s => pc[r] \notin Writing
  BY <1>0, OthersOutside DEF SpareInv, Inside, Writing
<1>3. \A r \in Module : pc'[r] \notin Writing
  BY <1>0, <1>2 DEF Writing
<1>4. page'[target].id = Uid(s) /\ \A p \in Page : p # target => page'[p] = page[p]
  BY <1>0 DEF WritePage, Record
<1>5. PICK F \in SUBSET Page : FewStale(F) /\ FreshOK(F) /\ FluxOK(F)
  BY DEF SpareInv, Spare
<1>6. \A p \in Page : InFlux(p) => p = target
  BY DEF InFlux
<1>7. /\ \A p \in Page : p < target => page[p].id \notin {Uid(s), ERASED}
      /\ \A p \in Page \ F : p # target => page[p].id # Uid(s)
  BY <1>0, <1>5 DEF FluxOK, Writing
<1>8. FreshOK(F)'
  <2>1. ASSUME NEW f \in Page \ F, page'[f].id # ERASED
        PROVE  /\ page'[f].id \in Uids
               /\ \A q \in Page : q < f => page'[q].id \notin {page'[f].id, ERASED}
    <3>1. CASE f = target
      <4>1. \A q \in Page : q < f => q # target
        BY <1>0, <3>1, FlashSaveAssumption DEF Page
      <4> QED
        BY <1>1, <1>4, <1>7, <3>1, <4>1
    <3>2. CASE f # target
      <4>1. /\ page'[f] = page[f] /\ page[f].id \in Uids /\ page[f].id # Uid(s)
            /\ \A q \in Page : q < f => page[q].id \notin {page[f].id, ERASED} \/ InFlux(q)
        BY <1>4, <1>5, <1>7, <2>1, <3>2 DEF FreshOK
      <4>2. Uid(s) # ERASED
        BY <1>1, FlashSaveAssumption
      <4> QED
        BY <1>4, <1>6, <4>1, <4>2
    <3> QED
      BY <3>1, <3>2
  <2> QED
    BY <2>1 DEF FreshOK
<1>9. FluxOK(F)' /\ FewStale(F)'
  BY <1>0, <1>3, <1>5 DEF FluxOK, FewStale
<1> QED
  BY <1>5, <1>8, <1>9 DEF Spare

(* An erased flash has no stale pages. *)
LEMMA BulkEraseKeepsSpare ==
  ASSUME EnoughPages, SpareInv, EraseAllAndReset
  PROVE  Spare'
<1>1. /\ \A r \in Module : pc'[r] \notin Writing
      /\ \A p \in Page : page'[p].id = ERASED
  BY DEF EraseAllAndReset, Restart, Threads, Writing, Blank
<1>2. FreshOK({})' /\ FluxOK({})'
  BY <1>1 DEF FreshOK, FluxOK
<1>3. FewStale({})'
  <2>1. losses \in 0 .. MaxLosses /\ losses' = losses /\ MaxLosses \in Nat
    BY FlashSaveAssumption DEF SpareInv, Typed, TypeOK, EraseAllAndReset
  <2>2. Cardinality(Uids) * losses' \in Nat
    BY <2>1, FS_CardinalityType, Products DEF EnoughPages
  <2> QED
    BY <2>2, FS_EmptySet DEF FewStale
<1> QED
  BY <1>2, <1>3 DEF Spare

(* After a loss of power every page in use counts as stale: there is at    *)
(* most one more for each UID.                                             *)
LEMMA LossKeepsSpare ==
  ASSUME EnoughPages, SpareInv, PowerLoss
  PROVE  Spare'
<1> DEFINE c == Cardinality(Uids)
<1> PICK P \in SUBSET Page : P = {p \in Page : page'[p].id # ERASED}
  OBVIOUS
<1>0. /\ page \in [Page -> {Blank} \cup [id : Uids \cup {JUNK}, data : Data]]
      /\ target \in Page /\ losses \in 0 .. MaxLosses /\ losses' = losses + 1
      /\ MaxLosses \in Nat
  BY FlashSaveAssumption DEF SpareInv, Typed, TypeOK, PowerLoss
<1>1. \A r \in Module : pc'[r] \notin Writing
  BY DEF PowerLoss, Restart, Threads, Writing
<1>2. FreshOK(P)' /\ FluxOK(P)'
  BY <1>1 DEF FreshOK, FluxOK
<1>3. PICK F \in SUBSET Page : FewStale(F) /\ FreshOK(F) /\ FluxOK(F)
  BY DEF SpareInv, Spare
<1>4. \E own \in [P \ F -> Uids] : \A p, q \in P \ F : own[p] = own[q] => p = q
  <2>1. CASE \E s \in Module : pc[s] \in Writing
    <3>1. PICK s \in Module : pc[s] \in Writing
      BY <2>1
    <3>2. Busy = {Uid(s)} /\ Uid(s) \in Uids /\ pc[SERIAL] # "erase"
      BY <3>1, OneBusy DEF SpareInv
    <3>3. \A p \in Page : p # target => page'[p] = page[p]
      BY <1>0, <3>2 DEF PowerLoss
    <3>4. \A p \in Page \ F : p # target => page[p].id # Uid(s)
      BY <1>3, <3>1 DEF FluxOK
    <3>5. \A p \in Page : InFlux(p) => p = target
      BY DEF InFlux
    <3> DEFINE own == [p \in P \ F |-> IF p = target THEN Uid(s) ELSE page[p].id]
    <3>6. ASSUME NEW p \in P \ F, p # target
          PROVE  page[p].id \in Uids /\ page[p].id # Uid(s) /\ page[p].id # ERASED
      BY <1>3, <3>3, <3>4, <3>6 DEF FreshOK
    <3>7. ASSUME NEW p \in P \ F, NEW q \in P \ F, p < q, p # target, q # target
          PROVE  page[p].id # page[q].id
      BY <1>3, <3>5, <3>6, <3>7 DEF FreshOK
    <3>8. own \in [P \ F -> Uids]
      BY <3>2, <3>6
    <3>9. ASSUME NEW p \in P \ F, NEW q \in P \ F, own[p] = own[q] PROVE p = q
      <4>1. (IF p = target THEN Uid(s) ELSE page[p].id)
              = (IF q = target THEN Uid(s) ELSE page[q].id)
        BY <3>9
      <4>2. p \in Nat /\ q \in Nat
        BY FlashSaveAssumption DEF Page
      <4> HIDE DEF own
      <4> QED
        BY <3>6, <3>7, <4>1, <4>2
    <3> HIDE DEF own
    <3> QED
      BY <3>8, <3>9
  <2>2. CASE \A s \in Module : pc[s] \notin Writing
    <3>1. \A p \in P : page'[p] = page[p]
      BY <2>2 DEF PowerLoss, Blank
    <3>2. \A p \in Page : ~InFlux(p)
      BY <2>2 DEF InFlux
    <3> DEFINE own == [p \in P \ F |-> page[p].id]
    <3>3. ASSUME NEW p \in P \ F PROVE page[p].id \in Uids
      BY <1>3, <3>1, <3>3 DEF FreshOK
    <3>4. ASSUME NEW p \in P \ F, NEW q \in P \ F, p < q PROVE page[p].id # page[q].id
      BY <1>3, <3>1, <3>2, <3>4 DEF FreshOK
    <3>5. own \in [P \ F -> Uids]
      BY <3>3
    <3>6. ASSUME NEW p \in P \ F, NEW q \in P \ F, own[p] = own[q] PROVE p = q
      <4>1. page[p].id = page[q].id
        BY <3>6
      <4>2. p \in Nat /\ q \in Nat
        BY FlashSaveAssumption DEF Page
      <4> HIDE DEF own
      <4> QED
        BY <3>4, <4>1, <4>2
    <3> HIDE DEF own
    <3> QED
      BY <3>5, <3>6
  <2> QED
    BY <2>1, <2>2
<1>5. Cardinality(P) <= Cardinality(F) + c
  BY <1>4, OnePageEach DEF EnoughPages
<1>6. c \in Nat /\ Cardinality(F) \in Nat /\ Cardinality(P) \in Nat
  BY SomePages, FS_CardinalityType DEF EnoughPages
<1>7. c * losses \in Nat /\ c * (losses + 1) = c * losses + c
  BY <1>0, <1>6, Products
<1>8. Cardinality(F) <= c * losses
  BY <1>3 DEF FewStale
<1>9. Cardinality(P) <= c * (losses + 1)
  <2> DEFINE x == c * losses
             y == c * (losses + 1)
  <2>1. Cardinality(F) <= x /\ x \in Nat /\ y = x + c
    BY <1>7, <1>8
  <2> HIDE DEF x, y, c
  <2>2. Cardinality(P) <= y
    BY <1>5, <1>6, <2>1
  <2> QED
    BY <2>2 DEF y
<1>10. FewStale(P)'
  BY <1>0, <1>9 DEF FewStale
<1> QED
  BY <1>2, <1>10 DEF Spare

LEMMA SpareHolds == EnoughPages /\ SpareInv /\ [Next]_vars => Spare'
<1> SUFFICES ASSUME EnoughPages, SpareInv, [Next]_vars PROVE Spare'
  OBVIOUS
<1>1. CASE \/ \E s \in Module : Wake(s) \/ BeginTransfer(s) \/ Release(s)
           \/ \E t \in Threads : Claim(t)
           \/ Main
           \/ \E u \in Uids : \E d \in Contents[u] : SetSettings(u, d)
           \/ SaveToFlash \/ EraseFlash \/ UNCHANGED vars
  <2>1. Still /\ UNCHANGED losses
    BY <1>1, OthersStill DEF SpareInv
  <2> QED
    BY <2>1, SpareStays DEF SpareInv
<1>2. CASE BeginBulkErase
  <2>1. /\ pc[SERIAL] = "seek" /\ pc' = [pc EXCEPT ![SERIAL] = "erase"]
        /\ UNCHANGED <<page, losses>> /\ SERIAL \notin Module /\ SERIAL \in Threads
        /\ Module \subseteq Threads /\ pc \in [Threads -> {"wait", "claim"} \cup Inside]
    BY <1>2, FlashSaveAssumption
       DEF BeginBulkErase, Goto, Threads, SpareInv, Typed, TypeOK
  <2>2. \A r \in Module : pc[r] \notin Writing /\ pc'[r] \notin Writing
    BY <2>1, NoneBusy DEF SpareInv
  <2>3. PICK F \in SUBSET Page : FewStale(F) /\ FreshOK(F)
    BY DEF SpareInv, Spare
  <2>4. FewStale(F)' /\ FreshOK(F)' /\ FluxOK(F)'
    BY <2>1, <2>2, <2>3 DEF FewStale, FreshOK, FluxOK, InFlux
  <2> QED
    BY <2>4 DEF Spare
<1> QED
  BY <1>1, <1>2, SeekKeepsSpare, EraseKeepsSpare, WriteKeepsSpare, BulkEraseKeepsSpare,
     LossKeepsSpare DEF Next, Saver

LEMMA BackHolds == EnoughPages /\ SpareInv /\ [Next]_vars => GivenBack'
<1> SUFFICES ASSUME EnoughPages, SpareInv, [Next]_vars PROVE GivenBack'
  OBVIOUS
<1> USE DEF GivenBack
<1>0. /\ pc \in [Threads -> {"wait", "claim"} \cup Inside] /\ Module \subseteq Threads
      /\ MAIN \in Threads /\ SERIAL \in Threads /\ holder \in Threads \cup {NONE}
      /\ NONE \notin Threads /\ "wait" \notin Inside /\ "claim" \notin Inside
      /\ ClaimedInside /\ (holder # NONE => pc[holder] \in Inside)
  BY FlashSaveAssumption DEF SpareInv, Typed, TypeOK, Threads, Inside, Writing
<1>1. ASSUME NEW t \in Threads, Claim(t) PROVE GivenBack'
  BY <1>0, <1>1 DEF Claim, Goto, Inside
<1>2. ASSUME NEW s \in Module, Wake(s) PROVE GivenBack'
  <2>1. holder # s
    BY <1>0, <1>2 DEF Wake
  <2> QED
    BY <1>0, <1>2, <2>1 DEF Wake, Goto
<1>3. ASSUME NEW s \in Module, Seek(s) PROVE GivenBack'
  <2>1. ~Full(Uid(s))
    BY <1>3, NeverFull DEF Seek
  <2> QED
    BY <1>0, <1>3, <2>1 DEF Seek, Goto, Inside, Writing
<1>4. ASSUME NEW s \in Module, ErasePage(s) \/ BeginTransfer(s) \/ WritePage(s)
      PROVE  GivenBack'
  BY <1>0, <1>4 DEF ErasePage, BeginTransfer, WritePage, Goto, Inside, Writing
<1>5. CASE \/ \E s \in Module : Release(s)
           \/ Read \/ EraseAllAndReset \/ PowerLoss
  BY <1>5 DEF Release, Read, EraseAllAndReset, PowerLoss, Restart
<1>6. CASE InitModule
  BY <1>0, <1>6 DEF InitModule, Goto
<1>7. CASE EraseFlash
  BY <1>0, <1>7 DEF EraseFlash, SerialIdle, Goto
<1>8. CASE BeginBulkErase
  BY <1>0, <1>8 DEF BeginBulkErase, Goto, Inside, Writing
<1>9. CASE UNCHANGED <<pc, holder>>
  BY <1>0, <1>9
<1> QED
  BY <1>1, <1>2, <1>3, <1>4, <1>5, <1>6, <1>7, <1>8, <1>9
     DEF Next, Saver, Main, SetSettings, SaveToFlash, vars

(* With enough pages FlashSave_Write never meets a full flash, the one     *)
(* case in which it returns with the mutex held: whatever the records, the *)
(* order of saves, reads and erases and the losses of power, whoever holds *)
(* the flash is inside the functions that give it back.                    *)
THEOREM AlwaysGivenBack == EnoughPages => (Spec => []GivenBack)
<1> SUFFICES ASSUME EnoughPages PROVE Spec => []GivenBack
  OBVIOUS
<1>1. ASSUME Init PROVE SpareInv
  <2>1. Typed
    BY <1>1, InitTyped
  <2>2. Module \subseteq Threads /\ \A t \in Threads : pc[t] \notin Inside /\ pc[t] \notin Writing
    BY <1>1 DEF Init, Inside, Writing, Threads
  <2>3. ClaimedInside /\ GivenBack /\ FluxOK({})
    BY <1>1, <2>2 DEF ClaimedInside, GivenBack, FluxOK, Init
  <2>4. FreshOK({})
    <3>1. ASSUME NEW f \in Page, page[f].id # ERASED PROVE f = 0 /\ page[f].id \in Uids
      BY <1>1, <3>1, FlashSaveAssumption DEF Init, Blank, Record
    <3> QED
      BY <3>1 DEF FreshOK, Page
  <2>5. FewStale({})
    <3>1. Cardinality(Uids) * losses = 0
      BY <1>1, FS_CardinalityType DEF Init, EnoughPages
    <3> QED
      BY <3>1, FS_EmptySet DEF FewStale
  <2> QED
    BY <2>1, <2>3, <2>4, <2>5 DEF SpareInv, Spare
<1>2. SpareInv /\ [Next]_vars => SpareInv'
  BY TypesHold, ExclusionHolds, SpareHolds, BackHolds DEF SpareInv
<1>3. SpareInv => GivenBack
  BY DEF SpareInv
<1> QED
  BY <1>1, <1>2, <1>3, PTL DEF Spec

=============================================================================
