------------------------ MODULE Communication_proofs ------------------------
(***************************************************************************)
(* Theorems about three parts of the communication that share no state:    *)
(* Subscriptions, for any number of slots, any mailbox and any requests,   *)
(* Cobs, for any packet, any buffer and any table of codes, and Crc, for   *)
(* packets of any length.                                                  *)
(***************************************************************************)
EXTENDS Subscriptions, Cobs, Crc, FiniteSetTheorems, SequenceTheorems, WellFoundedInduction,
        TLAPS

-----------------------------------------------------------------------------
(* Subscriptions. *)

(* Requests name real commands only: without this Cmd_None can be given a  *)
(* timer (see the README).                                                 *)
RealCommands == Cmd_None \notin Commands

Inv == TypeOK /\ OneSlotPerSubscription /\ TimerFollowsSubscription

LEMMA SlotsPositive == Slots \in Nat \ {0} /\ MailboxSize \in Nat \ {0}
  BY SubscriptionsAssumption

(* A request names a valid port and a period the timer takes. *)
LEMMA RequestFacts ==
  ASSUME NEW r \in Request, NEW rx \in Ports, r.port # BAD
  PROVE  /\ r.command \in Commands /\ Target(r, rx) \in Ports
         /\ r.delta # 0 => r.delta \in Periods
  BY DEF Request, Target, Periods

LEMMA InvInit == Init => Inv
<1> SUFFICES ASSUME Init PROVE Inv
  OBVIOUS
<1>1. PICK p \in Ports :
        slot = [i \in Slot |-> [command |-> Cmd_None, port |-> p, delay |-> 0, armed |-> FALSE]]
  BY DEF Init
<1>2. SlotOK
  BY <1>1 DEF SlotOK
<1>3. TypeOK
  <2>1. 1 \in Slot
    BY SlotsPositive DEF Slot
  <2>2. Len(<<>>) <= MailboxSize
    BY SlotsPositive
  <2>3. QED
    BY <1>2, <2>1, <2>2 DEF Init, TypeOK
<1>4. OneSlotPerSubscription
  BY <1>1 DEF OneSlotPerSubscription
<1>5. TimerFollowsSubscription
  BY <1>1 DEF TimerFollowsSubscription
<1>6. QED
  BY <1>3, <1>4, <1>5 DEF Inv

(* Freeing slots, any of them, keeps the table consistent. *)
LEMMA FreeKeeps ==
  ASSUME Inv, NEW S \in SUBSET Slot,
         slot' = [i \in Slot |-> IF i \in S THEN Freed(slot[i]) ELSE slot[i]]
  PROVE  SlotOK' /\ OneSlotPerSubscription' /\ TimerFollowsSubscription'
<1> USE DEF Inv, TypeOK, SlotOK, Freed
<1>1. SlotOK'
  OBVIOUS
<1>2. \A i \in Slot :
        /\ i \in S => slot'[i].command = Cmd_None /\ slot'[i].armed = FALSE
        /\ i \notin S => slot'[i] = slot[i]
  OBVIOUS
<1>3. OneSlotPerSubscription'
  BY <1>2 DEF OneSlotPerSubscription, Holds
<1>4. TimerFollowsSubscription'
  BY <1>2 DEF TimerFollowsSubscription
<1>5. QED
  BY <1>1, <1>3, <1>4

(* Taking the slot that holds the pair already, or a free one if none      *)
(* does, keeps the pairs different.                                        *)
LEMMA SubscribeKeeps ==
  ASSUME RealCommands, Inv, NEW c \in Commands, NEW p \in Ports, NEW d \in Periods,
         SubscribeI(c, p, d)
  PROVE  SlotOK' /\ OneSlotPerSubscription' /\ TimerFollowsSubscription'
<1> USE DEF Inv, TypeOK, SlotOK
<1>1. PICK i \in Slot :
        /\ i \in Existing(c, p) \/ (Existing(c, p) = {} /\ i \in Free)
        /\ Arm(i, c, p, d)
  BY DEF SubscribeI, IsFirst
<1>2. SlotOK'
  BY <1>1 DEF Arm
<1>3. /\ slot'[i].command = c /\ slot'[i].port = p /\ slot'[i].armed = TRUE
      /\ \A j \in Slot \ {i} : slot'[j] = slot[j]
  BY <1>1 DEF Arm
<1>4. \A j \in Slot \ {i} : ~ Holds(j, c, p)
  <2>1. CASE i \in Existing(c, p)
    BY <2>1 DEF Existing, Holds, OneSlotPerSubscription, RealCommands
  <2>2. CASE Existing(c, p) = {}
    BY <2>2 DEF Existing
  <2>3. QED
    BY <1>1, <2>1, <2>2
<1>5. OneSlotPerSubscription'
  <2>1. SUFFICES ASSUME NEW j \in Slot, NEW k \in Slot,
                        slot'[j].command # Cmd_None,
                        slot'[k].command = slot'[j].command,
                        slot'[k].port = slot'[j].port
                 PROVE  j = k
    BY DEF OneSlotPerSubscription, Holds
  <2>2. CASE j = i \/ k = i
    BY <1>3, <1>4, <2>1, <2>2 DEF Holds
  <2>3. CASE j # i /\ k # i
    BY <1>3, <2>1, <2>3 DEF OneSlotPerSubscription, Holds
  <2>4. QED
    BY <2>2, <2>3
<1>6. TimerFollowsSubscription'
  BY <1>3 DEF TimerFollowsSubscription, RealCommands
<1>7. QED
  BY <1>2, <1>5, <1>6

LEMMA InvStep == RealCommands /\ Inv /\ [Next]_vars => Inv'
<1> SUFFICES ASSUME RealCommands, Inv, [Next]_vars PROVE Inv'
  OBVIOUS
<1> USE DEF Inv, TypeOK
<1>1. ASSUME NEW r \in Request, NEW rx \in Ports, Manage(r, rx) PROVE Inv'
  <2>1. r.port # BAD /\ UNCHANGED <<mailbox, task, fetched, out>>
    BY <1>1 DEF Manage
  <2>2. CASE UnsubscribeFromAllI
    <3>1. slot' = [i \in Slot |-> IF i \in Slot THEN Freed(slot[i]) ELSE slot[i]]
      BY <2>2 DEF UnsubscribeFromAllI
    <3>2. QED
      BY <2>1, <3>1, FreeKeeps
  <2>3. CASE UnsubscribeI(r.command, Target(r, rx))
    <3>1. PICK i \in Slot : slot' = [slot EXCEPT ![i] = Freed(@)]
      BY <2>3 DEF UnsubscribeI
    <3>2. slot' = [j \in Slot |-> IF j \in {i} THEN Freed(slot[j]) ELSE slot[j]]
      BY <3>1 DEF SlotOK
    <3>3. QED
      BY <2>1, <3>2, FreeKeeps
  <2>4. CASE r.delta # 0 /\ SubscribeI(r.command, Target(r, rx), r.delta)
    <3>1. SlotOK' /\ OneSlotPerSubscription' /\ TimerFollowsSubscription'
      BY <2>1, <2>4, RequestFacts, SubscribeKeeps
    <3>2. QED
      BY <2>1, <3>1
  <2>5. \/ UnsubscribeFromAllI
        \/ UnsubscribeI(r.command, Target(r, rx))
        \/ r.delta # 0 /\ SubscribeI(r.command, Target(r, rx), r.delta)
    BY <1>1, Zenon DEF Manage
  <2>6. QED
    BY <2>2, <2>3, <2>4, <2>5, Zenon
<1>2. ASSUME NEW i \in Slot, Callback(i) PROVE Inv'
  <2>1. CASE Len(mailbox) < MailboxSize
    <3>1. /\ mailbox' = Append(mailbox, i) /\ slot' = slot
          /\ UNCHANGED <<task, fetched, out>>
      BY <1>2, <2>1 DEF Callback, Post
    <3>2. mailbox' \in Seq(Slot) /\ Len(mailbox') <= MailboxSize
      BY <2>1, <3>1, SlotsPositive
    <3>3. QED
      BY <3>1, <3>2
         DEF SlotOK, OneSlotPerSubscription, TimerFollowsSubscription, Holds
  <2>2. CASE ~(Len(mailbox) < MailboxSize)
    <3>1. /\ slot' = [j \in Slot |-> Freed(slot[j])]
          /\ UNCHANGED <<mailbox, task, fetched, out>>
      BY <1>2, <2>2 DEF Callback, Post, UnsubscribeFromAllI
    <3>2. slot' = [j \in Slot |-> IF j \in Slot THEN Freed(slot[j]) ELSE slot[j]]
      BY <3>1
    <3>3. SlotOK' /\ OneSlotPerSubscription' /\ TimerFollowsSubscription'
      BY <3>2, FreeKeeps
    <3>4. QED
      BY <3>1, <3>3
  <2>3. QED
    BY <2>1, <2>2
<1>3. ASSUME Task PROVE Inv'
  <2>1. slot' = slot
    BY <1>3 DEF Task, Fetch, ReadSlot, Generated
  <2>2. SlotOK' /\ OneSlotPerSubscription' /\ TimerFollowsSubscription'
    BY <2>1 DEF SlotOK, OneSlotPerSubscription, TimerFollowsSubscription, Holds
  <2>3. CASE Fetch
    <3>1. /\ Head(mailbox) \in Slot
          /\ Tail(mailbox) \in Seq(Slot)
          /\ Len(Tail(mailbox)) <= MailboxSize
      BY <2>3, SlotsPositive DEF Fetch
    <3>2. QED
      BY <2>2, <2>3, <3>1 DEF Fetch
  <2>4. CASE ReadSlot
    <3>1. task' \in {"fetch", "generate"}
      BY <2>4 DEF ReadSlot
    <3>2. out' \in (Commands \X Ports) \cup {NONE}
      <4>1. CASE slot[fetched].command = Cmd_None
        BY <2>4, <4>1 DEF ReadSlot
      <4>2. CASE slot[fetched].command # Cmd_None
        <5>1. slot[fetched].command \in Commands /\ slot[fetched].port \in Ports
          BY <4>2 DEF SlotOK
        <5>2. QED
          BY <2>4, <4>2, <5>1 DEF ReadSlot
      <4>3. QED
        BY <4>1, <4>2
    <3>3. QED
      BY <2>2, <2>4, <3>1, <3>2 DEF ReadSlot
  <2>5. CASE Generated
    BY <2>2, <2>5 DEF Generated
  <2>6. QED
    BY <1>3, <2>3, <2>4, <2>5 DEF Task
<1>4. CASE UNCHANGED vars
  BY <1>4 DEF vars, SlotOK, OneSlotPerSubscription, TimerFollowsSubscription, Holds
<1>5. QED
  BY <1>1, <1>2, <1>3, <1>4 DEF Next

(* Types, and a mailbox that never overruns. *)
THEOREM TypeCorrect ==
  ASSUME RealCommands
  PROVE  Spec => []TypeOK
<1>1. Inv /\ [Next]_vars => Inv'
  BY InvStep
<1>2. Inv => TypeOK
  BY DEF Inv
<1>3. QED
  BY <1>1, <1>2, InvInit, PTL DEF Spec

(* No request, overload or reuse of a slot makes a pair appear twice. *)
THEOREM PairsAreUnique ==
  ASSUME RealCommands
  PROVE  Spec => []OneSlotPerSubscription
<1>1. Inv /\ [Next]_vars => Inv'
  BY InvStep
<1>2. Inv => OneSlotPerSubscription
  BY DEF Inv
<1>3. QED
  BY <1>1, <1>2, InvInit, PTL DEF Spec

(* A timer runs for every subscription and for nothing else. *)
THEOREM TimersFollow ==
  ASSUME RealCommands
  PROVE  Spec => []TimerFollowsSubscription
<1>1. Inv /\ [Next]_vars => Inv'
  BY InvStep
<1>2. Inv => TimerFollowsSubscription
  BY DEF Inv
<1>3. QED
  BY <1>1, <1>2, InvInit, PTL DEF Spec
-----------------------------------------------------------------------------
(***************************************************************************)
(* The refinement.  Table, a function that chooses a slot for each pair,   *)
(* is first given as an operator on any array of slots, so that the slots  *)
(* before and after a step can be compared; a pair in use has one slot     *)
(* (OneSlotPerSubscription), which the choice must therefore find.         *)
(***************************************************************************)
(* The table of slots s, as Table defines it. *)
UsedOf(s) == {i \in Slot : s[i].command # Cmd_None}
PairOf(s, i) == <<s[i].command, s[i].port>>
PairsOf(s) == {PairOf(s, i) : i \in UsedOf(s)}
TableOf(s) ==
  [k \in PairsOf(s) |-> s[CHOOSE i \in UsedOf(s) : PairOf(s, i) = k].delay]

Different(s) == \A i, j \in UsedOf(s) : PairOf(s, i) = PairOf(s, j) => i = j

LEMMA TableIsTableOf == Table = TableOf(slot)
  BY DEF Table, TableOf, PairsOf, UsedOf, PairOf

LEMMA DifferentSlots == OneSlotPerSubscription => Different(slot)
  BY DEF OneSlotPerSubscription, Different, UsedOf, PairOf, Holds

(* A pair is looked up to the period of its slot. *)
LEMMA Lookup ==
  ASSUME NEW s, Different(s), NEW i \in UsedOf(s)
  PROVE  PairOf(s, i) \in PairsOf(s) /\ TableOf(s)[PairOf(s, i)] = s[i].delay
<1>1. PairOf(s, i) \in PairsOf(s)
  BY DEF PairsOf
<1>2. (CHOOSE j \in UsedOf(s) : PairOf(s, j) = PairOf(s, i)) = i
  BY DEF Different
<1>3. QED
  BY <1>1, <1>2 DEF TableOf

(* A table is known by its pairs and their periods. *)
LEMMA SameTable ==
  ASSUME NEW s, Different(s), NEW f,
         f = [k \in PairsOf(s) |-> f[k]],
         \A i \in UsedOf(s) : f[PairOf(s, i)] = s[i].delay
  PROVE  TableOf(s) = f
<1>1. \A k \in PairsOf(s) : TableOf(s)[k] = f[k]
  <2>1. SUFFICES ASSUME NEW i \in UsedOf(s)
                 PROVE  TableOf(s)[PairOf(s, i)] = f[PairOf(s, i)]
    BY DEF PairsOf
  <2>2. QED
    BY Lookup
<1>2. TableOf(s) = [k \in PairsOf(s) |-> TableOf(s)[k]]
  BY DEF TableOf
<1>3. QED
  BY <1>1, <1>2

(* Freeing a slot takes its pair from the table. *)
LEMMA TableAfterFree ==
  ASSUME NEW s, NEW t, Different(s), NEW i \in UsedOf(s),
         t[i].command = Cmd_None,
         \A j \in Slot \ {i} : t[j] = s[j]
  PROVE  /\ PairsOf(t) = PairsOf(s) \ {PairOf(s, i)}
         /\ TableOf(t) = [k \in PairsOf(t) |-> TableOf(s)[k]]
<1>1. UsedOf(t) = UsedOf(s) \ {i}
  BY DEF UsedOf
<1>2. \A j \in UsedOf(t) : t[j] = s[j] /\ PairOf(t, j) = PairOf(s, j)
  BY <1>1 DEF PairOf, UsedOf
<1>3. Different(t)
  BY <1>1, <1>2 DEF Different
<1>4. PairsOf(t) = PairsOf(s) \ {PairOf(s, i)}
  BY <1>1, <1>2 DEF PairsOf, Different
<1>5. TableOf(t) = [k \in PairsOf(t) |-> TableOf(s)[k]]
  <2> DEFINE f == [k \in PairsOf(t) |-> TableOf(s)[k]]
  <2>1. \A j \in UsedOf(t) : f[PairOf(t, j)] = t[j].delay
    <3>1. SUFFICES ASSUME NEW j \in UsedOf(t) PROVE f[PairOf(t, j)] = t[j].delay
      OBVIOUS
    <3>2. PairOf(t, j) \in PairsOf(t)
      BY DEF PairsOf
    <3>3. TableOf(s)[PairOf(s, j)] = s[j].delay
      BY <1>1, Lookup
    <3>4. QED
      BY <1>2, <3>2, <3>3
  <2>2. f = [k \in PairsOf(t) |-> f[k]]
    OBVIOUS
  <2> HIDE DEF f
  <2>3. TableOf(t) = f
    BY <1>3, <2>1, <2>2, SameTable
  <2>4. QED
    BY <2>3 DEF f
<1>6. QED
  BY <1>4, <1>5

(* Writing a slot that is free, or holds the pair already, gives the pair the *)
(* period and leaves all others.                                              *)
LEMMA TableAfterArm ==
  ASSUME NEW s, NEW t, Different(s), Different(t), NEW i \in Slot, NEW c, NEW p, NEW d,
         c # Cmd_None,
         t[i].command = c, t[i].port = p, t[i].delay = d,
         \A j \in Slot \ {i} : t[j] = s[j],
         i \in UsedOf(s) => PairOf(s, i) = <<c, p>>
  PROVE  TableOf(t) = [k \in PairsOf(s) \cup {<<c, p>>} |->
                         IF k = <<c, p>> THEN d ELSE TableOf(s)[k]]
<1> DEFINE f == [k \in PairsOf(s) \cup {<<c, p>>} |->
                   IF k = <<c, p>> THEN d ELSE TableOf(s)[k]]
<1>1. UsedOf(t) = UsedOf(s) \cup {i}
  BY DEF UsedOf
<1>2. PairOf(t, i) = <<c, p>> /\ \A j \in UsedOf(s) \ {i} : t[j] = s[j] /\ PairOf(t, j) = PairOf(s, j)
  BY DEF PairOf, UsedOf
<1>3. PairsOf(t) = PairsOf(s) \cup {<<c, p>>}
  BY <1>1, <1>2 DEF PairsOf
<1>4. \A j \in UsedOf(t) : f[PairOf(t, j)] = t[j].delay
  <2>1. SUFFICES ASSUME NEW j \in UsedOf(t) PROVE f[PairOf(t, j)] = t[j].delay
    OBVIOUS
  <2>2. CASE j = i
    BY <1>2, <2>2
  <2>3. CASE j # i
    <3>1. j \in UsedOf(s) /\ t[j] = s[j] /\ PairOf(t, j) = PairOf(s, j)
      BY <1>1, <1>2, <2>3
    <3>2. PairOf(t, j) # <<c, p>>
      BY <1>1, <1>2, <2>3 DEF Different
    <3>3. PairOf(s, j) \in PairsOf(s) /\ TableOf(s)[PairOf(s, j)] = s[j].delay
      BY <3>1, Lookup
    <3>4. QED
      BY <3>1, <3>2, <3>3
  <2>4. QED
    BY <2>2, <2>3
<1>5. f = [k \in PairsOf(t) |-> f[k]]
  BY <1>3
<1> HIDE DEF f
<1>6. TableOf(t) = f
  BY <1>4, <1>5, SameTable
<1>7. QED
  BY <1>6 DEF f

(* While a slot is free there are fewer pairs than slots. *)
LEMMA RoomInTable ==
  ASSUME NEW s, NEW i \in Slot, i \notin UsedOf(s)
  PROVE  Cardinality(PairsOf(s)) < Slots
<1> DEFINE f == [j \in UsedOf(s) |-> PairOf(s, j)]
<1>1. IsFiniteSet(Slot) /\ Cardinality(Slot) = Slots
  BY SlotsPositive, FS_Interval DEF Slot
<1>2. IsFiniteSet(Slot \ {i}) /\ Cardinality(Slot \ {i}) = Slots - 1
  BY <1>1, FS_RemoveElement
<1>3. UsedOf(s) \in SUBSET (Slot \ {i})
  BY DEF UsedOf
<1>4. IsFiniteSet(UsedOf(s)) /\ Cardinality(UsedOf(s)) <= Slots - 1
  BY <1>2, <1>3, FS_Subset
<1>5. f \in Surjection(UsedOf(s), PairsOf(s))
  BY DEF Surjection, PairsOf
<1>6. IsFiniteSet(PairsOf(s)) /\ Cardinality(PairsOf(s)) <= Cardinality(UsedOf(s))
  BY <1>4, <1>5, FS_Surjection
<1>7. Cardinality(PairsOf(s)) \in Nat /\ Cardinality(UsedOf(s)) \in Nat
  BY <1>4, <1>6, FS_CardinalityType
<1>8. QED
  BY <1>4, <1>6, <1>7, SlotsPositive

LEMMA TableInit == Init => Abstract!Init
<1> SUFFICES ASSUME Init PROVE Table = [k \in {} |-> 0]
  BY DEF Abstract!Init
<1>1. UsedOf(slot) = {}
  BY DEF Init, UsedOf
<1>2. PairsOf(slot) = {}
  BY <1>1 DEF PairsOf
<1>3. QED
  BY <1>2, TableIsTableOf DEF TableOf

(* Emptying all slots empties the table. *)
LEMMA ClearsTable ==
  ASSUME Inv, UnsubscribeFromAllI
  PROVE  Abstract!Clear
<1>1. \A i \in Slot : slot'[i].command = Cmd_None
  BY DEF UnsubscribeFromAllI, Freed, Inv, TypeOK, SlotOK
<1>2. UsedOf(slot') = {}
  BY <1>1 DEF UsedOf
<1>3. TableOf(slot') = [k \in {} |-> 0]
  BY <1>2 DEF TableOf, PairsOf
<1>4. Table' = TableOf(slot')
  BY DEF Table, TableOf, PairsOf, UsedOf, PairOf
<1>5. QED
  BY <1>3, <1>4 DEF Abstract!Clear

LEMMA UnsubscribesInTable ==
  ASSUME Inv, NEW c \in Commands, NEW p \in Ports, RealCommands, UnsubscribeI(c, p)
  PROVE  Abstract!Unsubscribe(<<c, p>>)
<1>1. PICK i \in Existing(c, p) : slot' = [slot EXCEPT ![i] = Freed(@)]
  BY DEF UnsubscribeI, IsFirst
<1>2. i \in Slot /\ PairOf(slot, i) = <<c, p>> /\ i \in UsedOf(slot)
  BY DEF Existing, Holds, PairOf, UsedOf, RealCommands
<1>3. slot'[i].command = Cmd_None /\ \A j \in Slot \ {i} : slot'[j] = slot[j]
  BY <1>1, <1>2 DEF Freed, Inv, TypeOK, SlotOK
<1>4. Different(slot)
  BY DifferentSlots DEF Inv
<1>5. /\ PairsOf(slot') = PairsOf(slot) \ {PairOf(slot, i)}
      /\ TableOf(slot') = [k \in PairsOf(slot') |-> TableOf(slot)[k]]
  BY <1>2, <1>3, <1>4, TableAfterFree
<1>6. PairsOf(slot') = PairsOf(slot) \ {<<c, p>>}
  BY <1>2, <1>5
<1>7. Table' = TableOf(slot') /\ Table = TableOf(slot) /\ DOMAIN Table = PairsOf(slot)
  BY DEF Table, TableOf, PairsOf, UsedOf, PairOf
<1>8. QED
  BY <1>5, <1>6, <1>7 DEF Abstract!Unsubscribe, Abstract!Restrict

LEMMA SubscribesInTable ==
  ASSUME RealCommands, Inv, Inv', NEW c \in Commands, NEW p \in Ports, NEW d \in Periods,
         SubscribeI(c, p, d)
  PROVE  Abstract!Subscribe(<<c, p>>, d)
<1>1. PICK i \in Slot :
        /\ i \in Existing(c, p) \/ (Existing(c, p) = {} /\ i \in Free)
        /\ Arm(i, c, p, d)
  BY DEF SubscribeI, IsFirst
<1>2. /\ slot'[i].command = c /\ slot'[i].port = p /\ slot'[i].delay = d
      /\ \A j \in Slot \ {i} : slot'[j] = slot[j]
  BY <1>1 DEF Arm, Inv, TypeOK, SlotOK
<1>3. i \in UsedOf(slot) => PairOf(slot, i) = <<c, p>>
  BY <1>1 DEF Existing, Holds, Free, UsedOf, PairOf
<1>4. Different(slot)
  BY DifferentSlots DEF Inv
<1>5. Different(slot')
  BY DEF Inv, OneSlotPerSubscription, Different, UsedOf, PairOf, Holds
<1>6. TableOf(slot') = [k \in PairsOf(slot) \cup {<<c, p>>} |->
                          IF k = <<c, p>> THEN d ELSE TableOf(slot)[k]]
  BY <1>2, <1>3, <1>4, <1>5, TableAfterArm DEF RealCommands
<1>7. Table' = TableOf(slot') /\ Table = TableOf(slot) /\ DOMAIN Table = PairsOf(slot)
  BY DEF Table, TableOf, PairsOf, UsedOf, PairOf
<1>8. <<c, p>> \in PairsOf(slot) \/ Cardinality(PairsOf(slot)) < Slots
  <2>1. CASE i \in UsedOf(slot)
    BY <1>3, <2>1 DEF PairsOf
  <2>2. CASE i \notin UsedOf(slot)
    BY <2>2, RoomInTable
  <2>3. QED
    BY <2>1, <2>2
<1>9. <<c, p>> \in DOMAIN Table \/ Cardinality(DOMAIN Table) < Slots
  BY <1>7, <1>8
<1>10. Table' = [k \in DOMAIN Table \cup {<<c, p>>} |-> IF k = <<c, p>> THEN d ELSE Table[k]]
  BY <1>6, <1>7
<1>11. Abstract!Cardinality(DOMAIN Table) = Cardinality(DOMAIN Table)
  BY Zenon DEF Cardinality, Abstract!Cardinality
<1>12. QED
  BY <1>9, <1>10, <1>11 DEF Abstract!Subscribe

LEMMA TableStep ==
  ASSUME RealCommands, Inv, Inv', [Next]_vars
  PROVE  [Abstract!Next]_Table
<1>1. ASSUME NEW r \in Request, NEW rx \in Ports, Manage(r, rx) PROVE Abstract!Next
  <2>1. r.port # BAD
    BY <1>1 DEF Manage
  <2>2. <<r.command, Target(r, rx)>> \in Abstract!Pairs
    BY <2>1, RequestFacts DEF Abstract!Pairs
  <2>3. CASE UnsubscribeFromAllI
    BY <2>3, ClearsTable DEF Abstract!Next
  <2>4. CASE UnsubscribeI(r.command, Target(r, rx))
    <3>1. Abstract!Unsubscribe(<<r.command, Target(r, rx)>>)
      BY <2>1, <2>4, RequestFacts, UnsubscribesInTable
    <3>2. QED
      BY <2>2, <3>1 DEF Abstract!Next
  <2>5. CASE r.delta # 0 /\ SubscribeI(r.command, Target(r, rx), r.delta)
    <3>1. Abstract!Subscribe(<<r.command, Target(r, rx)>>, r.delta) /\ r.delta \in Periods
      BY <2>1, <2>5, RequestFacts, SubscribesInTable
    <3>2. QED
      BY <2>2, <3>1 DEF Abstract!Next
  <2>6. \/ UnsubscribeFromAllI
        \/ UnsubscribeI(r.command, Target(r, rx))
        \/ r.delta # 0 /\ SubscribeI(r.command, Target(r, rx), r.delta)
    BY <1>1, Zenon DEF Manage
  <2>7. QED
    BY <2>3, <2>4, <2>5, <2>6, Zenon
<1>2. slot' = slot => Table' = Table
  BY DEF Table
<1>3. ASSUME NEW i \in Slot, Callback(i) PROVE Abstract!Next \/ slot' = slot
  <2>1. UnsubscribeFromAllI \/ slot' = slot
    BY <1>3 DEF Callback, Post
  <2>2. QED
    BY <2>1, ClearsTable DEF Abstract!Next
<1>4. Task \/ UNCHANGED vars => slot' = slot
  BY DEF Task, Fetch, ReadSlot, Generated, vars
<1>5. QED
  BY <1>1, <1>2, <1>3, <1>4 DEF Next

(* The slots implement the table of subscriptions: see ImplementsTable. *)
THEOREM TableImplemented ==
  ASSUME RealCommands
  PROVE  Spec => ImplementsTable
<1>1. Inv /\ [Next]_vars => Inv'
  BY InvStep
<1>2. Inv /\ Inv' /\ [Next]_vars => [Abstract!Next]_Table
  BY TableStep
<1>3. QED
  BY <1>1, <1>2, InvInit, TableInit, PTL DEF Spec, ImplementsTable, Abstract!Spec

-----------------------------------------------------------------------------
(* Cobs: the codes. *)

Codes == (1 .. Diff) \cup (RunZero .. RunZeroMax) \cup (Diff2Zero .. Diff2ZeroMax)

LEMMA CodeConstants ==
  /\ Diff \in Nat /\ RunZeroMax \in Nat /\ Diff2Zero \in Nat /\ Diff2ZeroMax \in Nat
  /\ DiffZero = 1 /\ RunZero = Diff + 1 /\ RunZeroMax >= RunZero
  /\ Diff2Zero > RunZeroMax
  /\ Diff2ZeroMax > Diff2Zero /\ Diff2ZeroMax <= Diff2Zero + Diff - 2
  /\ Diff >= 3
  BY CodeAssumption

LEMMA CodeKinds ==
  ASSUME NEW c \in Codes
  PROVE  /\ c \in Nat /\ c >= 1
         /\ c < Diff => DataOf(c) = c - 1 /\ ZerosOf(c) = 1
         /\ c = Diff => DataOf(c) = Diff - 1 /\ ZerosOf(c) = 0
         /\ c > Diff /\ c < Diff2Zero =>
              /\ c \in RunZero .. RunZeroMax /\ DataOf(c) = 0
              /\ ZerosOf(c) = c - RunZero + 3
         /\ c >= Diff2Zero => DataOf(c) = c - Diff2Zero /\ ZerosOf(c) = 2
<1>1. c \in Nat /\ c >= 1
  BY CodeConstants DEF Codes
<1>2. CASE c \in 1 .. Diff
  BY <1>1, <1>2, CodeConstants DEF DataOf, ZerosOf, isRunZero, isDiff2Zero
<1>3. CASE c \in RunZero .. RunZeroMax
  BY <1>1, <1>3, CodeConstants DEF DataOf, ZerosOf, isRunZero, isDiff2Zero
<1>4. CASE c \in Diff2Zero .. Diff2ZeroMax
  BY <1>1, <1>4, CodeConstants DEF DataOf, ZerosOf, isRunZero, isDiff2Zero
<1>5. QED
  BY <1>2, <1>3, <1>4 DEF Codes

(* A code stands for a number of bytes and of zeros, and only that of a    *)
(* full block for no zero. *)
LEMMA CodeFacts ==
  ASSUME NEW c \in Codes
  PROVE  /\ c \in Nat /\ c >= 1
         /\ DataOf(c) \in Nat /\ ZerosOf(c) \in Nat
         /\ c # Diff => ZerosOf(c) >= 1
         /\ c = Diff => DataOf(c) = Diff - 1 /\ ZerosOf(c) = 0
  BY CodeKinds, CodeConstants DEF Codes

LEMMA FirstCode == DiffZero \in Codes /\ DiffZero < Diff /\ DataOf(DiffZero) = 0 /\ ZerosOf(DiffZero) = 1
<1>1. DiffZero \in Codes /\ DiffZero < Diff
  BY CodeConstants DEF Codes
<1>2. QED
  BY <1>1, CodeKinds, CodeConstants

(* What takes in a zero more stands for it. *)
LEMMA WithZeroStands ==
  ASSUME NEW c \in Codes, c # Diff, WithZero(c) # 0
  PROVE  /\ WithZero(c) \in Codes /\ WithZero(c) # Diff
         /\ DataOf(WithZero(c)) = DataOf(c)
         /\ ZerosOf(WithZero(c)) = ZerosOf(c) + 1
<1>1. CASE isRunZero(c) /\ c < RunZeroMax
  <2>1. c \in RunZero .. RunZeroMax /\ WithZero(c) = c + 1
    BY <1>1 DEF WithZero, isRunZero
  <2>2. c + 1 \in Codes /\ c + 1 > Diff /\ c + 1 < Diff2Zero /\ c > Diff /\ c < Diff2Zero
    BY <1>1, <2>1, CodeConstants DEF Codes
  <2>3. QED
    BY <2>1, <2>2, CodeKinds, CodeConstants
<1>2. CASE c = Diff2Zero
  <2>1. ~ isRunZero(c)
    BY <1>2, CodeConstants DEF isRunZero
  <2>2. WithZero(c) = RunZero
    BY <1>2, <2>1 DEF WithZero
  <2>3. RunZero \in Codes /\ RunZero > Diff /\ RunZero < Diff2Zero
    BY CodeConstants DEF Codes
  <2>4. QED
    BY <1>2, <2>2, <2>3, CodeKinds, CodeConstants
<1>3. CASE ~ (isRunZero(c) /\ c < RunZeroMax) /\ c # Diff2Zero
  <2>1. c <= MAXCONVERTIBLE /\ WithZero(c) = c + CONVERTZP
    BY <1>3 DEF WithZero
  <2>2. c <= Diff2ZeroMax - (Diff2Zero - 1) /\ WithZero(c) = c + (Diff2Zero - 1)
    BY <2>1, CodeConstants DEF MAXCONVERTIBLE, CONVERTZP
  <2>3. c \in Nat /\ c >= 1 /\ c < Diff
    BY <2>2, CodeKinds, CodeConstants
  <2>4. WithZero(c) \in Codes /\ WithZero(c) >= Diff2Zero
    BY <2>2, <2>3, CodeConstants DEF Codes
  <2>5. QED
    BY <2>2, <2>3, <2>4, CodeKinds, CodeConstants
<1>4. QED
  BY <1>1, <1>2, <1>3

(* What is one zero back stands for one zero less. *)
LEMMA WithoutZeroStands ==
  ASSUME NEW c \in Codes, c # Diff
  PROVE  /\ WithoutZero(c) = 0 => c < Diff
         /\ WithoutZero(c) # 0 => /\ WithoutZero(c) \in Codes
                                  /\ DataOf(WithoutZero(c)) = DataOf(c)
                                  /\ ZerosOf(WithoutZero(c)) + 1 = ZerosOf(c)
<1>1. CASE c >= Diff2Zero
  <2>1. WithoutZero(c) = c - (Diff2Zero - 1)
    BY <1>1, CodeConstants DEF WithoutZero, isDiff2Zero, CONVERTZP
  <2>2. c \in Diff2Zero .. Diff2ZeroMax
    BY <1>1, CodeConstants DEF Codes
  <2>3. /\ c - (Diff2Zero - 1) \in Codes /\ c - (Diff2Zero - 1) < Diff
        /\ c - (Diff2Zero - 1) # 0
    BY <2>2, CodeConstants DEF Codes
  <2>4. QED
    BY <1>1, <2>1, <2>2, <2>3, CodeKinds, CodeConstants
<1>2. CASE c = RunZero
  <2>1. WithoutZero(c) = Diff2Zero
    BY <1>2, CodeConstants DEF WithoutZero, isDiff2Zero
  <2>2. Diff2Zero \in Codes /\ Diff2Zero # 0 /\ c > Diff /\ c < Diff2Zero
    BY <1>2, CodeConstants DEF Codes
  <2>3. QED
    BY <1>2, <2>1, <2>2, CodeKinds, CodeConstants
<1>3. CASE c > RunZero /\ c < Diff2Zero
  <2>1. c \in RunZero .. RunZeroMax /\ c > Diff
    BY <1>3, CodeConstants DEF Codes
  <2>2. WithoutZero(c) = c - 1
    BY <1>3, <2>1, CodeConstants DEF WithoutZero, isDiff2Zero, isRunZero
  <2>3. c - 1 \in Codes /\ c - 1 > Diff /\ c - 1 < Diff2Zero /\ c - 1 # 0
    BY <1>3, <2>1, CodeConstants DEF Codes
  <2>4. QED
    BY <1>3, <2>1, <2>2, <2>3, CodeKinds, CodeConstants
<1>4. CASE c < RunZero
  <2>1. c \in Nat /\ c < Diff
    BY <1>4, CodeConstants DEF Codes
  <2>2. WithoutZero(c) = 0
    BY <1>4, <2>1, CodeConstants DEF WithoutZero, isDiff2Zero, isRunZero
  <2>3. QED
    BY <2>1, <2>2
<1>5. QED
  BY <1>1, <1>2, <1>3, <1>4, CodeFacts, CodeConstants

-----------------------------------------------------------------------------
(* What a packet is encoded to. *)

(* The bytes of w behind the first `from' are what code c at place i of    *)
(* the buffer b stands for. *)
Stands(w, b, i, c, from) ==
  /\ from + DataOf(c) + ZerosOf(c) <= Len(w)
  /\ \A j \in 1 .. DataOf(c) : w[from + j] = b[i + j]
  /\ \A j \in 1 .. ZerosOf(c) : w[from + DataOf(c) + j] = 0

(* What the blocks before place i take more than their bytes, n: at most   *)
(* one for each full block. *)
Excess(i, n) == (i - 1 - n) * (Diff - 1) <= n

(* The blocks of b before place l.  Their codes are at the places of at,   *)
(* and at[i] is how many bytes the codes before place i stand for.         *)
Blocks(w, b, l, at) ==
  /\ DOMAIN at \subseteq 1 .. l
  /\ 1 \in DOMAIN at /\ at[1] = 0
  /\ l \in DOMAIN at
  /\ \A i \in DOMAIN at : at[i] \in Nat /\ at[i] <= at[l] /\ Excess(i, at[i])
  /\ \A i \in DOMAIN at : i # l =>
       /\ b[i] \in Codes
       /\ Stands(w, b, i, b[i], at[i])
       /\ i + 1 + DataOf(b[i]) \in DOMAIN at
       /\ at[i + 1 + DataOf(b[i])] = at[i] + DataOf(b[i]) + ZerosOf(b[i])

(* A zero is at place l of b and nowhere else. *)
OneZero(b, l) == \A i \in 1 .. Len(b) : b[i] = 0 <=> i = l

(* Blocks, and a last one that is not finished: its code c, for which      *)
(* there is a place l, stands for the rest of w. *)
Encoded(w, b, l, c, at) ==
  /\ w \in Seq(Nat) /\ b \in Seq(Nat) /\ l \in 1 .. Len(b)
  /\ OneZero(b, l)
  /\ Blocks(w, b, l, at)
  /\ c \in Codes
  /\ Stands(w, b, l, c, at[l])
  /\ at[l] + DataOf(c) + ZerosOf(c) = Len(w)
  /\ Len(b) = l + DataOf(c)

LEMMA ExcessNext ==
  ASSUME NEW i \in Nat, NEW n \in Nat, NEW c \in Codes, Excess(i, n)
  PROVE  Excess(i + 1 + DataOf(c), n + DataOf(c) + ZerosOf(c))
<1> DEFINE K == Diff - 1
           x == i - 1 - n
           z == ZerosOf(c)
           d == DataOf(c)
<1>1. K \in Nat /\ x \in Int /\ z \in Nat /\ d \in Nat /\ x * K <= n
  BY CodeFacts, CodeConstants DEF Excess
<1>2. (i + 1 + d) - 1 - (n + d + z) = x + 1 - z
  BY <1>1
<1>3. SUFFICES (x + 1 - z) * K <= n + d + z
  BY <1>2 DEF Excess
<1>4. CASE z = 0
  <2>1. d = K
    BY <1>4, CodeFacts
  <2> HIDE DEF K, x, d, z
  <2>2. (x + 1 - z) * K = x * K + K
    BY <1>1, <1>4
  <2>3. QED
    BY <1>1, <1>4, <2>1, <2>2
<1>5. CASE z >= 1
  <2> DEFINE y == z - 1
  <2> HIDE DEF K, x, d, z
  <2>1. y \in Nat /\ x + 1 - z = x - y
    BY <1>1, <1>5
  <2> HIDE DEF y
  <2>2. (x - y) * K = x * K - y * K /\ y * K >= 0 /\ x * K \in Int /\ y * K \in Int
    BY <1>1, <2>1
  <2>3. QED
    BY <1>1, <2>1, <2>2
<1>6. QED
  BY <1>1, <1>4, <1>5

(* The blocks before place l are only about what lies before it. *)
LEMMA BlocksKept ==
  ASSUME NEW w \in Seq(Nat), NEW w2 \in Seq(Nat), NEW b, NEW b2, NEW l \in Nat, NEW at,
         Blocks(w, b, l, at),
         at[l] <= Len(w2),
         \A i \in 1 .. at[l] : w2[i] = w[i],
         \A i \in 1 .. l - 1 : b2[i] = b[i]
  PROVE  Blocks(w2, b2, l, at)
<1>1. SUFFICES ASSUME NEW i \in DOMAIN at, i # l
               PROVE  b2[i] = b[i] /\ Stands(w2, b2, i, b[i], at[i])
  BY DEF Blocks
<1>2. i \in Nat /\ i >= 1 /\ i < l
  BY <1>1 DEF Blocks
<1> DEFINE c == b[i]
           n == at[i]
           d == DataOf(c)
           z == ZerosOf(c)
<1>3. c \in Codes /\ Stands(w, b, i, c, n) /\ i + 1 + d \in 1 .. l /\ n \in Nat
      /\ n + d + z <= at[l] /\ at[l] \in Nat
  BY <1>1 DEF Blocks
<1>4. d \in Nat /\ z \in Nat
  BY <1>3, CodeFacts
<1>5. c = b2[i]
  BY <1>2
<1>6. n + d + z <= Len(w2)
  <2>1. Len(w2) \in Nat
    BY LenProperties
  <2> HIDE DEF n, d, z, c
  <2>2. QED
    BY <1>3, <1>4, <2>1
<1>7. \A j \in 1 .. d : w2[n + j] = b2[i + j]
  <2>1. SUFFICES ASSUME NEW j \in 1 .. d PROVE w2[n + j] = b2[i + j]
    OBVIOUS
  <2>2. w[n + j] = b[i + j]
    BY <1>3 DEF Stands
  <2> HIDE DEF n, d, z, c
  <2>3. n + j \in 1 .. at[l] /\ i + j \in 1 .. l - 1
    BY <1>2, <1>3, <1>4
  <2>4. QED
    BY <2>2, <2>3
<1>8. \A j \in 1 .. z : w2[n + d + j] = 0
  <2>1. SUFFICES ASSUME NEW j \in 1 .. z PROVE w2[n + d + j] = 0
    OBVIOUS
  <2>2. w[n + d + j] = 0
    BY <1>3 DEF Stands
  <2> HIDE DEF n, d, z, c
  <2>3. n + d + j \in 1 .. at[l]
    BY <1>3, <1>4
  <2>4. QED
    BY <2>2, <2>3
<1>9. QED
  BY <1>5, <1>6, <1>7, <1>8 DEF Stands

(* One block more. *)
LEMMA BlocksMore ==
  ASSUME NEW w \in Seq(Nat), NEW b, NEW l \in Nat \ {0}, NEW at,
         Blocks(w, b, l, at), b[l] \in Codes, Stands(w, b, l, b[l], at[l])
  PROVE  \E next : /\ Blocks(w, b, l + 1 + DataOf(b[l]), next)
                   /\ next[l + 1 + DataOf(b[l])] = at[l] + DataOf(b[l]) + ZerosOf(b[l])
<1> DEFINE d == DataOf(b[l])
           z == ZerosOf(b[l])
           m == l + 1 + d
           n == at[l] + d + z
           next == [i \in DOMAIN at \cup {m} |-> IF i = m THEN n ELSE at[i]]
<1>1. d \in Nat /\ z \in Nat /\ at[l] \in Nat
  BY CodeFacts DEF Blocks
<1>2. m \in Nat /\ m > l /\ n \in Nat /\ n >= at[l]
  BY <1>1
<1>3. Excess(m, n)
  BY ExcessNext, <1>1 DEF Blocks
<1>4. DOMAIN at \subseteq 1 .. l
  BY DEF Blocks
<1>5. m \notin DOMAIN at
  BY <1>2, <1>4
<1> DEFINE g == next
<1>6. /\ DOMAIN g = DOMAIN at \cup {m} /\ g[m] = n
      /\ \A i \in DOMAIN at : g[i] = at[i]
  BY <1>5
<1> HIDE DEF m, n, next, g
<1>7. /\ DOMAIN g \subseteq 1 .. m /\ 1 \in DOMAIN g /\ g[1] = 0 /\ m \in DOMAIN g
  BY <1>2, <1>4, <1>6 DEF Blocks
<1>8. \A i \in DOMAIN g : g[i] \in Nat /\ g[i] <= g[m] /\ Excess(i, g[i])
  <2>1. SUFFICES ASSUME NEW i \in DOMAIN at PROVE g[i] \in Nat /\ g[i] <= n /\ Excess(i, g[i])
    BY <1>2, <1>3, <1>6
  <2>2. g[i] = at[i] /\ at[i] \in Nat /\ at[i] <= at[l] /\ Excess(i, at[i])
    BY <1>6 DEF Blocks
  <2>3. QED
    BY <1>1, <1>2, <2>2
<1>9. \A i \in DOMAIN g : i # m =>
        /\ b[i] \in Codes
        /\ Stands(w, b, i, b[i], g[i])
        /\ i + 1 + DataOf(b[i]) \in DOMAIN g
        /\ g[i + 1 + DataOf(b[i])] = g[i] + DataOf(b[i]) + ZerosOf(b[i])
  <2>1. SUFFICES ASSUME NEW i \in DOMAIN at
                 PROVE  /\ b[i] \in Codes
                        /\ Stands(w, b, i, b[i], g[i])
                        /\ i + 1 + DataOf(b[i]) \in DOMAIN g
                        /\ g[i + 1 + DataOf(b[i])] = g[i] + DataOf(b[i]) + ZerosOf(b[i])
    BY <1>6
  <2>2. CASE i = l
    BY <1>6, <2>2 DEF m, n
  <2>3. CASE i # l
    BY <1>6, <2>3 DEF Blocks
  <2>4. QED
    BY <2>2, <2>3
<1>10. Blocks(w, b, m, g) /\ g[m] = n
  BY <1>6, <1>7, <1>8, <1>9 DEF Blocks
<1>11. QED
  BY <1>10 DEF m, n

(* A zero more, with a code that takes it in. *)
LEMMA ZeroMore ==
  ASSUME NEW w, NEW b, NEW l, NEW c, NEW at, NEW c2 \in Codes,
         Encoded(w, b, l, c, at),
         DataOf(c2) = DataOf(c), ZerosOf(c2) = ZerosOf(c) + 1
  PROVE  Encoded(Append(w, 0), b, l, c2, at)
<1> DEFINE v == Append(w, 0)
           d == DataOf(c)
           z == ZerosOf(c)
           n == at[l]
<1>1. /\ w \in Seq(Nat) /\ b \in Seq(Nat) /\ l \in 1 .. Len(b) /\ Blocks(w, b, l, at)
      /\ Stands(w, b, l, c, n) /\ n + d + z = Len(w) /\ Len(b) = l + d
  BY DEF Encoded
<1>2. d \in Nat /\ z \in Nat /\ n \in Nat /\ l \in Nat /\ Len(w) \in Nat
  BY <1>1, CodeFacts, LenProperties DEF Encoded, Blocks
<1>3. /\ v \in Seq(Nat) /\ Len(v) = Len(w) + 1 /\ v[Len(w) + 1] = 0
      /\ \A i \in 1 .. Len(w) : v[i] = w[i]
  BY <1>1, AppendProperties
<1> HIDE DEF v, d, z, n
<1>4. Blocks(v, b, l, at)
  <2>1. at[l] <= Len(v) /\ \A i \in 1 .. at[l] : v[i] = w[i]
    BY <1>1, <1>2, <1>3 DEF n
  <2>2. QED
    BY <1>1, <1>2, <1>3, <2>1, BlocksKept
<1>5. \A j \in 1 .. d : v[n + j] = b[l + j]
  <2>1. \A j \in 1 .. d : w[n + j] = b[l + j]
    BY <1>1 DEF Stands, d
  <2>2. \A j \in 1 .. d : n + j \in 1 .. Len(w)
    BY <1>1, <1>2
  <2>3. QED
    BY <1>3, <2>1, <2>2
<1>6. \A j \in 1 .. z + 1 : v[n + d + j] = 0
  <2>1. SUFFICES ASSUME NEW j \in 1 .. z + 1 PROVE v[n + d + j] = 0
    OBVIOUS
  <2>2. CASE j \in 1 .. z
    <3>1. w[n + d + j] = 0
      BY <1>1, <2>2 DEF Stands, d, z
    <3>2. n + d + j \in 1 .. Len(w)
      BY <1>1, <1>2, <2>2
    <3>3. QED
      BY <1>3, <3>1, <3>2
  <2>3. CASE j = z + 1
    <3>1. n + d + z = Len(w)
      BY <1>1
    <3>2. n + d + j = Len(w) + 1
      BY <1>2, <2>3, <3>1
    <3>3. QED
      BY <1>3, <3>2
  <2>4. QED
    BY <1>2, <2>2, <2>3
<1>7. n + d + (z + 1) = Len(v)
  BY <1>1, <1>2, <1>3
<1>8. Len(v) <= Len(v)
  BY <1>2, <1>3
<1>9. Stands(v, b, l, c2, at[l])
  BY <1>5, <1>6, <1>7, <1>8 DEF Stands, n, d, z
<1>10. QED
  BY <1>1, <1>3, <1>4, <1>7, <1>9 DEF Encoded, n, d, z, v

(* A zero less, with the code one zero back. *)
LEMMA ZeroLess ==
  ASSUME NEW w \in Seq(Nat), NEW b, NEW l, NEW c, NEW at, NEW c2 \in Codes,
         Encoded(Append(w, 0), b, l, c, at),
         DataOf(c2) = DataOf(c), ZerosOf(c2) + 1 = ZerosOf(c)
  PROVE  Encoded(w, b, l, c2, at)
<1> DEFINE v == Append(w, 0)
           d == DataOf(c)
           z == ZerosOf(c2)
           n == at[l]
<1>1. /\ v \in Seq(Nat) /\ b \in Seq(Nat) /\ l \in 1 .. Len(b) /\ Blocks(v, b, l, at)
      /\ Stands(v, b, l, c, n) /\ n + d + (z + 1) = Len(v) /\ Len(b) = l + d
  BY DEF Encoded
<1>2. d \in Nat /\ z \in Nat /\ n \in Nat /\ l \in Nat /\ Len(w) \in Nat
  BY <1>1, CodeFacts, LenProperties DEF Encoded, Blocks
<1>3. /\ Len(v) = Len(w) + 1
      /\ \A i \in 1 .. Len(w) : w[i] = v[i]
  BY AppendProperties
<1> HIDE DEF v, d, z, n
<1>4. n + d + z = Len(w)
  BY <1>1, <1>2, <1>3
<1>5. Blocks(w, b, l, at)
  <2>1. at[l] <= Len(w) /\ \A i \in 1 .. at[l] : w[i] = v[i]
    BY <1>2, <1>3, <1>4 DEF n
  <2>2. QED
    BY <1>1, <1>2, <1>3, <2>1, BlocksKept
<1>6. \A j \in 1 .. d : w[n + j] = b[l + j]
  <2>1. \A j \in 1 .. d : v[n + j] = b[l + j]
    BY <1>1 DEF Stands, d
  <2>2. \A j \in 1 .. d : n + j \in 1 .. Len(w)
    BY <1>2, <1>4
  <2>3. QED
    BY <1>3, <2>1, <2>2
<1>7. \A j \in 1 .. z : w[n + d + j] = 0
  <2>1. \A j \in 1 .. z + 1 : v[n + d + j] = 0
    BY <1>1 DEF Stands, d, z
  <2>2. \A j \in 1 .. z : n + d + j \in 1 .. Len(w) /\ j \in 1 .. z + 1
    BY <1>2, <1>4
  <2>3. QED
    BY <1>3, <2>1, <2>2
<1>8. n + d + z <= Len(w)
  BY <1>2, <1>4
<1>9. Stands(w, b, l, c2, at[l])
  BY <1>6, <1>7, <1>8 DEF Stands, n, d, z
<1>10. QED
  BY <1>1, <1>4, <1>5, <1>9 DEF Encoded, n, d, z, v

(* FinishBlock: the code is written, and a place kept for the next. *)
LEMMA FinishBlocks ==
  ASSUME NEW w, NEW b, NEW l, NEW c, NEW at, Encoded(w, b, l, c, at)
  PROVE  /\ Finish(b, l, c) \in Seq(Nat) /\ Len(Finish(b, l, c)) = Len(b) + 1
         /\ OneZero(Finish(b, l, c), Len(b) + 1)
         /\ \E next : /\ Blocks(w, Finish(b, l, c), Len(b) + 1, next)
                      /\ next[Len(b) + 1] = Len(w)
<1> DEFINE e == [b EXCEPT ![l] = c]
           f == Finish(b, l, c)
<1>1. /\ w \in Seq(Nat) /\ b \in Seq(Nat) /\ l \in 1 .. Len(b) /\ Blocks(w, b, l, at)
      /\ OneZero(b, l) /\ c \in Codes
      /\ Stands(w, b, l, c, at[l]) /\ at[l] + DataOf(c) + ZerosOf(c) = Len(w)
      /\ Len(b) = l + DataOf(c)
  BY DEF Encoded
<1>2. /\ DataOf(c) \in Nat /\ ZerosOf(c) \in Nat /\ at[l] \in Nat /\ Len(b) \in Nat
      /\ Len(w) \in Nat /\ l \in Nat \ {0} /\ c \in Nat /\ c # 0
  BY <1>1, CodeFacts, LenProperties DEF Blocks
<1>3. /\ e \in Seq(Nat) /\ Len(e) = Len(b) /\ e[l] = c
      /\ \A i \in 1 .. Len(b) : i # l => e[i] = b[i]
  <2>1. DOMAIN b = 1 .. Len(b) /\ DOMAIN e = DOMAIN b
    BY <1>1, LenProperties
  <2>2. \A i \in 1 .. Len(b) : e[i] \in Nat /\ e[i] = IF i = l THEN c ELSE b[i]
    BY <1>1, <1>2, <2>1, ElementOfSeq
  <2>3. e = [i \in 1 .. Len(b) |-> e[i]] /\ Len(b) \in Nat
    BY <1>2, <2>1
  <2> HIDE DEF e
  <2>4. e \in [1 .. Len(b) -> Nat]
    BY <2>2, <2>3
  <2>5. e \in Seq(Nat) /\ Len(e) = Len(b)
    BY <2>3, <2>4
  <2>6. QED
    BY <1>1, <2>2, <2>5
<1>4. f = Append(e, 0)
  BY DEF Finish
<1> HIDE DEF e, f
<1>5. /\ f \in Seq(Nat) /\ Len(f) = Len(b) + 1 /\ f[Len(b) + 1] = 0 /\ f[l] = c
      /\ \A i \in 1 .. Len(b) : i # l => f[i] = b[i]
  <2>1. 0 \in Nat
    OBVIOUS
  <2>2. /\ f \in Seq(Nat) /\ Len(f) = Len(e) + 1 /\ f[Len(e) + 1] = 0
        /\ \A i \in 1 .. Len(e) : f[i] = e[i]
    BY <1>3, <1>4, <2>1, AppendProperties
  <2>3. QED
    BY <1>1, <1>3, <2>2
<1>6. OneZero(f, Len(b) + 1)
  <2>1. SUFFICES ASSUME NEW i \in 1 .. Len(b) + 1
                 PROVE  f[i] = 0 <=> i = Len(b) + 1
    BY <1>5 DEF OneZero
  <2>2. CASE i = l
    BY <1>1, <1>2, <1>5, <2>2
  <2>3. CASE i = Len(b) + 1
    BY <1>5, <2>3
  <2>4. CASE i \in 1 .. Len(b) /\ i # l
    <3>1. b[i] # 0
      BY <1>1, <2>4 DEF OneZero
    <3>2. QED
      BY <1>2, <1>5, <2>4, <3>1
  <2>5. QED
    BY <1>2, <2>1, <2>2, <2>3, <2>4
<1>7. Blocks(w, f, l, at)
  <2>1. at[l] <= Len(w) /\ \A i \in 1 .. at[l] : w[i] = w[i]
    BY <1>1, <1>2
  <2>2. \A i \in 1 .. l - 1 : f[i] = b[i]
    BY <1>1, <1>2, <1>5
  <2>3. QED
    BY <1>1, <1>2, <2>1, <2>2, BlocksKept
<1>8. Stands(w, f, l, f[l], at[l])
  <2> DEFINE d == DataOf(c)
  <2>1. d \in Nat /\ Len(b) = l + d
    BY <1>1, <1>2
  <2> HIDE DEF d
  <2>2. \A j \in 1 .. d : l + j \in 1 .. Len(b) /\ l + j # l
    BY <1>2, <2>1
  <2>3. \A j \in 1 .. DataOf(c) : f[l + j] = b[l + j]
    BY <1>5, <2>2 DEF d
  <2>4. QED
    BY <1>1, <1>5, <2>3 DEF Stands
<1>9. l + 1 + DataOf(f[l]) = Len(b) + 1 /\ at[l] + DataOf(f[l]) + ZerosOf(f[l]) = Len(w)
  <2> DEFINE d == DataOf(f[l])
  <2>1. d \in Nat /\ Len(b) = l + d
    BY <1>1, <1>2, <1>5
  <2> HIDE DEF d
  <2>2. l + 1 + d = Len(b) + 1
    BY <1>2, <2>1
  <2>3. QED
    BY <1>1, <1>5, <2>2 DEF d
<1>10. PICK next : Blocks(w, f, Len(b) + 1, next) /\ next[Len(b) + 1] = Len(w)
  <2>1. f[l] \in Codes
    BY <1>1, <1>5
  <2>2. \E next : /\ Blocks(w, f, l + 1 + DataOf(f[l]), next)
                  /\ next[l + 1 + DataOf(f[l])] = at[l] + DataOf(f[l]) + ZerosOf(f[l])
    BY <1>1, <1>2, <1>7, <1>8, <2>1, BlocksMore
  <2>3. QED
    BY <1>9, <2>2
<1>11. QED
  BY <1>5, <1>6, <1>10 DEF f

(* A block is finished: the next one has no data, and the zero every       *)
(* packet has one more of. *)
LEMMA NextBlock ==
  ASSUME NEW w, NEW b, NEW l, NEW c, NEW at, Encoded(w, b, l, c, at)
  PROVE  \E next : Encoded(Append(w, 0), Finish(b, l, c), Len(b) + 1, DiffZero, next)
<1> DEFINE v == Append(w, 0)
           f == Finish(b, l, c)
           m == Len(b) + 1
<1>1. w \in Seq(Nat) /\ b \in Seq(Nat)
  BY DEF Encoded
<1>2. PICK next : Blocks(w, f, m, next) /\ next[m] = Len(w)
  BY FinishBlocks
<1>3. f \in Seq(Nat) /\ Len(f) = m /\ OneZero(f, m)
  BY FinishBlocks
<1>4. /\ v \in Seq(Nat) /\ Len(v) = Len(w) + 1 /\ v[Len(w) + 1] = 0
      /\ \A i \in 1 .. Len(w) : v[i] = w[i]
  BY <1>1, AppendProperties
<1>5. m \in Nat /\ m >= 1 /\ Len(w) \in Nat
  BY <1>1, LenProperties
<1> HIDE DEF v, f, m
<1>6. Blocks(v, f, m, next)
  <2>1. next[m] <= Len(v) /\ \A i \in 1 .. next[m] : v[i] = w[i]
    BY <1>2, <1>4, <1>5
  <2>2. \A i \in 1 .. m - 1 : f[i] = f[i]
    OBVIOUS
  <2>3. QED
    BY <1>1, <1>2, <1>4, <1>5, <2>1, <2>2, BlocksKept
<1>7. Stands(v, f, m, DiffZero, next[m])
  BY <1>2, <1>4, <1>5, FirstCode DEF Stands
<1>8. m \in 1 .. Len(f)
  BY <1>3, <1>5
<1>9. next[m] + DataOf(DiffZero) + ZerosOf(DiffZero) = Len(v) /\ Len(f) = m + DataOf(DiffZero)
  BY <1>2, <1>3, <1>4, <1>5, FirstCode
<1>10. Encoded(v, f, m, DiffZero, next)
  BY <1>3, <1>4, <1>6, <1>7, <1>8, <1>9, FirstCode DEF Encoded
<1>11. QED
  BY <1>10 DEF v, f, m

(* A byte more of data, in a block of data that is not full. *)
LEMMA ByteMore ==
  ASSUME NEW d \in Seq(Nat), NEW b, NEW l, NEW c, NEW at, NEW x \in Nat \ {0},
         Encoded(Append(d, 0), b, l, c, at), c < Diff
  PROVE  /\ c + 1 = Diff => Encoded(Append(d, x), Append(b, x), l, Diff, at)
         /\ c + 1 # Diff => Encoded(Append(Append(d, x), 0), Append(b, x), l, c + 1, at)
<1> DEFINE v == Append(d, 0)
           w == Append(d, x)
           u == Append(w, 0)
           p == Append(b, x)
           n == at[l]
<1>1. /\ b \in Seq(Nat) /\ l \in 1 .. Len(b) /\ OneZero(b, l) /\ Blocks(v, b, l, at)
      /\ c \in Codes /\ Stands(v, b, l, c, n)
      /\ n + DataOf(c) + ZerosOf(c) = Len(v) /\ Len(b) = l + DataOf(c)
  BY DEF Encoded
<1>2. c \in Nat /\ c >= 1 /\ DataOf(c) = c - 1 /\ ZerosOf(c) = 1
  BY <1>1, CodeKinds
<1>3. /\ Len(d) \in Nat /\ Len(b) \in Nat /\ l \in Nat /\ n \in Nat
  BY <1>1, LenProperties DEF Blocks
<1>4. /\ v \in Seq(Nat) /\ Len(v) = Len(d) + 1 /\ \A i \in 1 .. Len(d) : v[i] = d[i]
      /\ w \in Seq(Nat) /\ Len(w) = Len(d) + 1 /\ \A i \in 1 .. Len(d) : w[i] = d[i]
      /\ w[Len(d) + 1] = x
  BY AppendProperties
<1>5. /\ u \in Seq(Nat) /\ Len(u) = Len(w) + 1 /\ \A i \in 1 .. Len(w) : u[i] = w[i]
      /\ u[Len(w) + 1] = 0
  BY <1>4, AppendProperties
<1>6. /\ p \in Seq(Nat) /\ Len(p) = Len(b) + 1 /\ \A i \in 1 .. Len(b) : p[i] = b[i]
      /\ p[Len(b) + 1] = x
  <2>1. b \in Seq(Nat) /\ x \in Nat
    BY <1>1
  <2>2. QED
    BY <2>1, AppendProperties
<1> HIDE DEF v, w, u, p, n
<1>7. n + (c - 1) = Len(d) /\ Len(b) = l + (c - 1)
  <2>1. n + (c - 1) + 1 = Len(d) + 1
    BY <1>1, <1>2, <1>4
  <2>2. QED
    BY <1>1, <1>2, <1>3, <2>1
<1>8. l \in 1 .. Len(p) /\ Len(p) = l + c
  BY <1>1, <1>2, <1>3, <1>6, <1>7
<1>9. OneZero(p, l)
  <2>1. SUFFICES ASSUME NEW i \in 1 .. Len(b) + 1 PROVE p[i] = 0 <=> i = l
    BY <1>6 DEF OneZero
  <2>2. CASE i = Len(b) + 1
    BY <1>1, <1>3, <1>6, <2>2
  <2>3. CASE i \in 1 .. Len(b)
    BY <1>1, <1>6, <2>3 DEF OneZero
  <2>4. QED
    BY <1>3, <2>1, <2>2, <2>3
<1>10. \A i \in 1 .. n : w[i] = v[i] /\ u[i] = v[i]
  <2>9. n <= Len(d) /\ Len(w) = Len(d) + 1
    BY <1>2, <1>3, <1>4, <1>7
  <2>1. \A i \in 1 .. n : i \in 1 .. Len(d) /\ i \in 1 .. Len(w)
    BY <1>3, <2>9
  <2>2. QED
    BY <1>4, <1>5, <2>1
<1>11. Blocks(w, p, l, at) /\ Blocks(u, p, l, at)
  <2>1. at[l] <= Len(w) /\ at[l] <= Len(u)
    BY <1>2, <1>3, <1>4, <1>5, <1>7 DEF n
  <2>2. \A i \in 1 .. l - 1 : p[i] = b[i]
    BY <1>1, <1>3, <1>6
  <2>3. \A i \in 1 .. at[l] : w[i] = v[i]
    BY <1>10 DEF n
  <2>4. \A i \in 1 .. at[l] : u[i] = v[i]
    BY <1>10 DEF n
  <2>5. Blocks(w, p, l, at)
    BY <1>1, <1>3, <1>4, <2>1, <2>2, <2>3, BlocksKept
  <2>6. Blocks(u, p, l, at)
    BY <1>1, <1>3, <1>4, <1>5, <2>1, <2>2, <2>4, BlocksKept
  <2>7. QED
    BY <2>5, <2>6
<1>12. \A j \in 1 .. c : w[n + j] = p[l + j] /\ u[n + j] = p[l + j]
  <2>1. SUFFICES ASSUME NEW j \in 1 .. c PROVE w[n + j] = p[l + j] /\ u[n + j] = p[l + j]
    OBVIOUS
  <2>2. n + j \in 1 .. Len(w)
    BY <1>2, <1>3, <1>4, <1>7
  <2>3. u[n + j] = w[n + j]
    BY <1>5, <2>2
  <2>4. CASE j \in 1 .. c - 1
    <3>1. v[n + j] = b[l + j]
      BY <1>1, <1>2, <2>4 DEF Stands
    <3>2. n + j \in 1 .. Len(d) /\ l + j \in 1 .. Len(b)
      BY <1>2, <1>3, <1>7, <2>4
    <3>3. QED
      BY <1>4, <1>6, <2>3, <3>1, <3>2
  <2>5. CASE j = c
    <3>1. n + j = Len(d) + 1 /\ l + j = Len(b) + 1
      BY <1>2, <1>3, <1>7, <2>5
    <3>2. QED
      BY <1>4, <1>6, <2>3, <3>1
  <2>6. QED
    BY <1>2, <2>4, <2>5
<1>13. CASE c + 1 = Diff
  <2>1. Diff \in Codes /\ DataOf(Diff) = c /\ ZerosOf(Diff) = 0
    <3>1. Diff \in Codes
      BY CodeConstants DEF Codes
    <3>2. QED
      BY <1>2, <1>13, <3>1, CodeFacts, CodeConstants
  <2>2. n + c + 0 = Len(w)
    BY <1>2, <1>3, <1>4, <1>7
  <2>3. Stands(w, p, l, Diff, at[l])
    BY <1>12, <2>1, <2>2, <1>3, <1>4 DEF Stands, n
  <2>4. Encoded(w, p, l, Diff, at)
    BY <1>4, <1>6, <1>8, <1>9, <1>11, <2>1, <2>2, <2>3 DEF Encoded, n
  <2>5. QED
    BY <1>13, <2>4 DEF w, p
<1>14. CASE c + 1 # Diff
  <2>1. c + 1 \in Codes /\ c + 1 < Diff
    BY <1>2, <1>14, CodeConstants DEF Codes
  <2>2. DataOf(c + 1) = c /\ ZerosOf(c + 1) = 1
    BY <1>2, <2>1, CodeKinds
  <2>3. n + c + 1 = Len(u)
    <3>1. Len(u) = Len(d) + 1 + 1
      BY <1>4, <1>5
    <3>2. QED
      BY <1>2, <1>3, <1>7, <3>1
  <2>4. \A j \in 1 .. 1 : u[n + c + j] = 0
    <3>1. n + c + 1 = Len(w) + 1
      BY <1>2, <1>3, <1>4, <1>7
    <3>2. QED
      BY <1>5, <3>1
  <2>5. Len(u) <= Len(u)
    BY <1>3, <1>4, <1>5
  <2>6. Stands(u, p, l, c + 1, at[l])
    BY <1>12, <2>2, <2>3, <2>4, <2>5 DEF Stands, n
  <2>7. Encoded(u, p, l, c + 1, at)
    BY <1>5, <1>6, <1>8, <1>9, <1>11, <2>1, <2>2, <2>3, <2>6 DEF Encoded, n
  <2>8. QED
    BY <1>14, <2>7 DEF u, w, p
<1>15. QED
  BY <1>13, <1>14

-----------------------------------------------------------------------------
(* The encoder. *)

(* The bytes a packet is decoded to, before its last zero is taken away.   *)
Whole == Append(data, 0)

(* The decoder between two codes of the packet, or within the data of one, *)
(* when m of its bytes were received. *)
BetweenCodes(at, m) ==
  /\ state = "code"
  /\ m + 1 \in DOMAIN at
  /\ buffer = SubSeq(Whole, 1, at[m + 1])

InData(at, m) ==
  /\ state = "data"
  /\ \E i \in DOMAIN at : \E j \in Nat :
       /\ i # Len(block) /\ j < DataOf(block[i]) /\ m = i + j
       /\ num_data = DataOf(block[i]) - j
       /\ num_zeros = ZerosOf(block[i])
       /\ buffer = SubSeq(Whole, 1, at[i] + j)

(* The packet fits the decoder's buffer. *)
Small == Len(data) + 2 < BufferSize

(* What the line still holds, and where the decoder is.  Before the        *)
(* delimiter it may be anywhere. *)
Decoding(at) ==
  \/ sending = <<0>> \o block
  \/ \E m \in Nat :
       /\ m < Len(block)
       /\ sending = SubSeq(block, m + 1, Len(block))
       /\ Small => BetweenCodes(at, m) \/ InData(at, m)
  \/ sending = <<>> /\ (Small => parsed # <<>> /\ parsed[Len(parsed)] = data)

DecoderOK ==
  /\ state \in {"code", "data"} /\ num_zeros \in Nat /\ num_data \in Int
  /\ buffer \in Seq(Nat) /\ parsed \in Seq(Seq(Nat))

(* While the encoder is at work. *)
AtWork ==
  /\ sending = <<>> /\ code # Diff
  /\ \E at : Encoded(Whole, block, code_index, code, at)

(* When the packet is finished. *)
Sent ==
  /\ block \in Seq(Nat) /\ OneZero(block, Len(block))
  /\ \E at : /\ Blocks(Whole, block, Len(block), at)
             /\ at[Len(block)] = Len(Whole)
             /\ Decoding(at)

CobsInv ==
  /\ data \in Seq(Nat) /\ DecoderOK
  /\ IF code_index = 0 THEN Sent ELSE AtWork

LEMMA CobsInvInit == CobsInit => CobsInv
<1> SUFFICES ASSUME CobsInit PROVE CobsInv
  OBVIOUS
<1> DEFINE w == Append(<<>>, 0)
           b == <<0>>
           at == [i \in {1} |-> 0]
<1>1. /\ data = <<>> /\ data \in Seq(Nat) /\ block = b /\ code = DiffZero /\ code_index = 1
      /\ sending = <<>> /\ DecoderOK
  BY DEF CobsInit, DecoderOK
<1>2. w \in Seq(Nat) /\ Len(w) = 1 /\ w[1] = 0 /\ Whole = w
  BY <1>1 DEF Whole
<1>3. b \in Seq(Nat) /\ Len(b) = 1 /\ b[1] = 0 /\ OneZero(b, 1)
  BY DEF OneZero
<1>4. DOMAIN at = {1} /\ at[1] = 0
  OBVIOUS
<1> HIDE DEF w, b, at
<1>5. Excess(1, 0)
  BY CodeConstants DEF Excess
<1>6. Blocks(w, b, 1, at)
  BY <1>4, <1>5 DEF Blocks
<1>7. Stands(w, b, 1, DiffZero, at[1])
  BY <1>2, <1>4, FirstCode DEF Stands
<1>8. Encoded(w, b, 1, DiffZero, at)
  BY <1>2, <1>3, <1>4, <1>6, <1>7, FirstCode DEF Encoded
<1>9. Encoded(Whole, block, code_index, code, at)
  BY <1>1, <1>2, <1>8
<1>10. code # Diff /\ code_index # 0
  BY <1>1, FirstCode, CodeConstants
<1>11. QED
  BY <1>1, <1>9, <1>10 DEF CobsInv, AtWork

(* CircularBuffer_COBSWriteChunkNoInc keeps the packet encoded. *)
LEMMA WriteKeeps == CobsInv /\ Write => CobsInv'
<1> SUFFICES ASSUME CobsInv, Write PROVE CobsInv'
  OBVIOUS
<1>1. PICK byte \in Data : /\ data' = Append(data, byte)
                           /\ IF byte = 0 THEN EncodeZero ELSE EncodeByte(byte)
  BY DEF Write
<1>2. /\ byte \in Nat /\ data \in Seq(Nat) /\ data' \in Seq(Nat)
  BY <1>1, BytesAssumption, AppendProperties DEF CobsInv
<1>3. DecoderOK' /\ sending' = <<>>
  BY DEF Write, dec, CobsInv, DecoderOK, AtWork
<1>4. PICK at : Encoded(Whole, block, code_index, code, at)
  BY DEF CobsInv, AtWork, Write
<1>5. code \in Codes /\ code # Diff /\ block \in Seq(Nat) /\ code_index \in 1 .. Len(block)
  BY <1>4 DEF CobsInv, AtWork, Write, Encoded
<1>6. SUFFICES code_index' # 0 /\ code' # Diff
               /\ \E next : Encoded(Whole', block', code_index', code', next)
  BY <1>2, <1>3 DEF CobsInv, AtWork
<1>7. Len(block) \in Nat
  BY <1>5, LenProperties
<1>8. CASE byte = 0
  <2>1. EncodeZero /\ Whole' = Append(Whole, 0)
    BY <1>1, <1>8 DEF Whole
  <2>2. CASE WithZero(code) # 0
    <3>1. code' = WithZero(code) /\ block' = block /\ code_index' = code_index
      BY <2>1, <2>2 DEF EncodeZero
    <3>2. /\ WithZero(code) \in Codes /\ WithZero(code) # Diff
          /\ DataOf(WithZero(code)) = DataOf(code)
          /\ ZerosOf(WithZero(code)) = ZerosOf(code) + 1
      BY <1>5, <2>2, WithZeroStands
    <3>3. Encoded(Append(Whole, 0), block, code_index, WithZero(code), at)
      BY <1>4, <3>2, ZeroMore
    <3>4. QED
      BY <1>5, <2>1, <3>1, <3>2, <3>3
  <2>3. CASE WithZero(code) = 0
    <3>1. /\ block' = Finish(block, code_index, code) /\ code_index' = Len(block) + 1
          /\ code' = DiffZero
      BY <2>1, <2>3 DEF EncodeZero
    <3>2. \E next : Encoded(Append(Whole, 0), Finish(block, code_index, code), Len(block) + 1, DiffZero, next)
      BY <1>4, NextBlock
    <3>3. \E next : Encoded(Whole', block', code_index', code', next)
      BY <2>1, <3>1, <3>2
    <3>4. Len(block) + 1 # 0 /\ DiffZero # Diff
      BY <1>7, FirstCode, CodeConstants
    <3>5. QED
      BY <3>1, <3>3, <3>4
  <2>4. QED
    BY <2>2, <2>3
<1>9. CASE byte # 0
  <2> DEFINE back == WithoutZero(code)
             start == IF back = 0 THEN [block |-> block, index |-> code_index, code |-> code]
                      ELSE [block |-> Finish(block, code_index, back),
                            index |-> Len(block) + 1, code |-> DiffZero]
             b == start.block
             l == start.index
             c == start.code
             put == Append(b, byte)
  <2>1. /\ c + 1 = Diff => /\ block' = Finish(put, l, Diff)
                           /\ code_index' = Len(put) + 1 /\ code' = DiffZero
        /\ c + 1 # Diff => block' = put /\ code_index' = l /\ code' = c + 1
    BY <1>1, <1>9 DEF EncodeByte
  <2>2. \E next : Encoded(Append(data, 0), b, l, c, next) /\ c < Diff
    <3>1. CASE back = 0
      <4>1. b = block /\ l = code_index /\ c = code
        BY <3>1
      <4>2. code < Diff
        BY <1>5, <3>1, WithoutZeroStands
      <4>3. QED
        BY <1>4, <4>1, <4>2 DEF Whole
    <3>2. CASE back # 0
      <4>1. b = Finish(block, code_index, back) /\ l = Len(block) + 1 /\ c = DiffZero
        BY <3>2
      <4>2. back \in Codes /\ DataOf(back) = DataOf(code) /\ ZerosOf(back) + 1 = ZerosOf(code)
        BY <1>5, <3>2, WithoutZeroStands
      <4> HIDE DEF back
      <4>3. Encoded(data, block, code_index, back, at)
        BY <1>2, <1>4, <4>2, ZeroLess DEF Whole
      <4>4. \E next : Encoded(Append(data, 0), Finish(block, code_index, back), Len(block) + 1, DiffZero, next)
        BY <4>3, NextBlock
      <4>5. QED
        BY <4>1, <4>4, FirstCode
    <3>3. QED
      BY <3>1, <3>2
  <2> HIDE DEF back, start, b, l, c
  <2>3. PICK next : Encoded(Append(data, 0), b, l, c, next)
    BY <2>2
  <2>4. c < Diff /\ c \in Codes /\ byte \in Nat \ {0} /\ b \in Seq(Nat) /\ l \in 1 .. Len(b)
    BY <1>2, <1>9, <2>2, <2>3 DEF Encoded
  <2>5. CASE c + 1 = Diff
    <3>1. Encoded(Append(data, byte), put, l, Diff, next)
      BY <1>2, <2>3, <2>4, <2>5, ByteMore
    <3>2. \E n : Encoded(Append(Append(data, byte), 0), Finish(put, l, Diff), Len(put) + 1, DiffZero, n)
      BY <3>1, NextBlock
    <3>3. put \in Seq(Nat) /\ Len(put) \in Nat
      BY <3>1, LenProperties DEF Encoded
    <3>4. Whole' = Append(Append(data, byte), 0)
      BY <1>1 DEF Whole
    <3>5. block' = Finish(put, l, Diff) /\ code_index' = Len(put) + 1 /\ code' = DiffZero
      BY <2>1, <2>5
    <3> HIDE DEF put
    <3>6. \E n : Encoded(Whole', block', code_index', code', n)
      BY <3>2, <3>4, <3>5
    <3>7. Len(put) + 1 # 0 /\ DiffZero # Diff
      BY <3>3, FirstCode, CodeConstants
    <3>8. QED
      BY <3>5, <3>6, <3>7
  <2>6. CASE c + 1 # Diff
    <3>1. Encoded(Append(Append(data, byte), 0), put, l, c + 1, next)
      BY <1>2, <2>3, <2>4, <2>6, ByteMore
    <3>2. l # 0
      BY <2>4, LenProperties
    <3>3. QED
      BY <1>1, <2>1, <2>6, <3>1, <3>2 DEF Whole
  <2>7. QED
    BY <2>5, <2>6
<1>10. QED
  BY <1>8, <1>9

(* The end of the packet: the delimiter stands at the last place. *)
LEMMA EndPacketKeeps == CobsInv /\ EndPacket => CobsInv'
<1> SUFFICES ASSUME CobsInv, EndPacket PROVE CobsInv'
  OBVIOUS
<1> DEFINE f == Finish(block, code_index, code)
<1>1. /\ block' = f /\ code_index' = 0 /\ sending' = <<0>> \o f
      /\ data' = data /\ Whole' = Whole
  BY DEF EndPacket, Whole
<1>2. data' \in Seq(Nat) /\ DecoderOK'
  BY <1>1 DEF EndPacket, dec, CobsInv, DecoderOK
<1>3. PICK old : Encoded(Whole, block, code_index, code, old)
  BY DEF CobsInv, AtWork, EndPacket
<1>4. f \in Seq(Nat) /\ Len(f) = Len(block) + 1 /\ OneZero(f, Len(f))
  BY <1>3, FinishBlocks
<1>5. PICK at : Blocks(Whole, f, Len(f), at) /\ at[Len(f)] = Len(Whole)
  BY <1>3, <1>4, FinishBlocks
<1> HIDE DEF f
<1>6. Blocks(Whole', block', Len(block'), at) /\ at[Len(block')] = Len(Whole')
  BY <1>1, <1>5
<1>7. Decoding(at)'
  BY <1>1 DEF Decoding
<1>8. Sent'
  BY <1>1, <1>4, <1>6, <1>7 DEF Sent
<1>9. QED
  BY <1>1, <1>2, <1>8 DEF CobsInv

-----------------------------------------------------------------------------
(* The decoder. *)

(* The first bytes of a packet, and one more. *)
LEMMA OneMore ==
  ASSUME NEW w \in Seq(Nat), NEW k \in Nat, k < Len(w)
  PROVE  Append(SubSeq(w, 1, k), w[k + 1]) = SubSeq(w, 1, k + 1)
<1>1. Len(w) \in Nat /\ 1 \in 1 .. Len(w) /\ k + 1 \in 1 .. Len(w)
  BY LenProperties
<1>2. SubSeq(w, 1, k + 1) = SubSeq(w, 1, k + 1 - 1) \o <<w[k + 1]>>
  BY <1>1, SubSeqRecursiveSecond
<1>3. k + 1 - 1 = k /\ \A i \in 1 .. k : w[i] \in Nat
  BY <1>1, ElementOfSeq
<1>4. SubSeq(w, 1, k) \in Seq(Nat) /\ w[k + 1] \in Nat
  BY <1>1, <1>3, SubSeqProperties, ElementOfSeq
<1>5. Append(SubSeq(w, 1, k), w[k + 1]) = SubSeq(w, 1, k) \o <<w[k + 1]>>
  BY <1>4, AppendIsConcat
<1>6. QED
  BY <1>2, <1>3, <1>5

(* The first k bytes of a packet are k bytes. *)
LEMMA FirstBytes ==
  ASSUME NEW w \in Seq(Nat), NEW k \in Nat, k <= Len(w)
  PROVE  /\ SubSeq(w, 1, k) \in Seq(Nat) /\ Len(SubSeq(w, 1, k)) = k
         /\ \A i \in 1 .. k : SubSeq(w, 1, k)[i] = w[i]
<1>1. Len(w) \in Nat
  BY LenProperties
<1>2. \A i \in 1 .. k : w[i] \in Nat
  BY <1>1, ElementOfSeq
<1>3. /\ SubSeq(w, 1, k) \in Seq(Nat)
      /\ Len(SubSeq(w, 1, k)) = IF 1 <= k THEN k - 1 + 1 ELSE 0
      /\ \A i \in 1 .. k - 1 + 1 : SubSeq(w, 1, k)[i] = w[1 + i - 1]
  BY <1>2, SubSeqProperties
<1>4. Len(SubSeq(w, 1, k)) = k
  BY <1>3
<1>5. \A i \in 1 .. k : i \in 1 .. k - 1 + 1 /\ 1 + i - 1 = i
  OBVIOUS
<1>6. QED
  BY <1>3, <1>4, <1>5

LEMMA ZerosProperties ==
  ASSUME NEW z \in Nat
  PROVE  Zeros(z) \in Seq(Nat) /\ Len(Zeros(z)) = z /\ \A i \in 1 .. z : Zeros(z)[i] = 0
<1>1. Zeros(z) \in [1 .. z -> Nat]
  BY DEF Zeros
<1>2. QED
  BY <1>1 DEF Zeros

(* The first bytes of a packet, and zeros. *)
LEMMA ZerosMore ==
  ASSUME NEW w \in Seq(Nat), NEW k \in Nat, NEW z \in Nat, k + z <= Len(w),
         \A i \in 1 .. z : w[k + i] = 0
  PROVE  SubSeq(w, 1, k) \o Zeros(z) = SubSeq(w, 1, k + z)
<1> DEFINE s == SubSeq(w, 1, k)
           u == SubSeq(w, 1, k + z)
           t == Zeros(z)
<1>1. Len(w) \in Nat /\ k <= Len(w) /\ k + z \in Nat
  BY LenProperties
<1>2. s \in Seq(Nat) /\ Len(s) = k /\ \A i \in 1 .. k : s[i] = w[i]
  BY <1>1, FirstBytes
<1>3. u \in Seq(Nat) /\ Len(u) = k + z /\ \A i \in 1 .. k + z : u[i] = w[i]
  BY <1>1, FirstBytes
<1>4. t \in Seq(Nat) /\ Len(t) = z /\ \A i \in 1 .. z : t[i] = 0
  BY ZerosProperties
<1> DEFINE q == s \o t
<1>5. /\ q \in Seq(Nat) /\ Len(q) = k + z
      /\ \A i \in 1 .. k + z : q[i] = IF i <= k THEN s[i] ELSE t[i - k]
  <2> HIDE DEF s, t
  <2>1. QED
    BY <1>2, <1>4, ConcatProperties
<1> HIDE DEF s, u, t, q
<1>6. \A i \in 1 .. k + z : q[i] = u[i]
  <2>1. SUFFICES ASSUME NEW i \in 1 .. k + z PROVE q[i] = u[i]
    OBVIOUS
  <2>2. CASE i <= k
    <3>1. i \in 1 .. k
      BY <2>2
    <3>2. q[i] = s[i] /\ s[i] = w[i] /\ u[i] = w[i]
      BY <1>2, <1>3, <1>5, <2>2, <3>1
    <3>3. QED
      BY <3>2
  <2>3. CASE ~ (i <= k)
    <3>1. i - k \in 1 .. z /\ k + (i - k) = i
      BY <2>3
    <3>2. w[k + (i - k)] = 0
      BY <3>1
    <3>3. t[i - k] = 0
      BY <1>4, <3>1
    <3>4. q[i] = t[i - k] /\ u[i] = w[i]
      BY <1>3, <1>5, <2>3
    <3>5. QED
      BY <3>1, <3>2, <3>3, <3>4
  <2>4. QED
    BY <2>2, <2>3
<1>7. q = u
  BY <1>3, <1>5, <1>6, SeqEqual
<1>8. QED
  BY <1>7 DEF s, u, t, q

(* Whatever the decoder gets, it stays a decoder. *)
LEMMA DecodeKeeps ==
  ASSUME DecoderOK, NEW in \in Nat, COBSDecode(in)
  PROVE  DecoderOK'
<1> DEFINE b == Before.buffer
<1>1. b \in Seq(Nat) /\ Before.state \in {"code", "data"}
  BY EmptySeq DEF Before, DecoderOK
<1> HIDE DEF b
<1>2. ASSUME NEW c \in Seq(Nat), NEW z \in Nat, EndBlock(c, z)
      PROVE  buffer' \in Seq(Nat) /\ state' = "code"
  <2>1. c \o Zeros(z) \in Seq(Nat) /\ <<>> \in Seq(Nat)
    BY ZerosProperties, ConcatProperties, EmptySeq
  <2>2. QED
    BY <1>2, <2>1 DEF EndBlock
<1>3. CASE in = 0
  <2>1. DecodeEnd(Before.state, b)
    BY <1>3 DEF COBSDecode, b
  <2>2. parsed' \in Seq(Seq(Nat))
    <3>1. CASE b = <<>> \/ Before.state # "code"
      BY <2>1, <3>1 DEF DecodeEnd, DecoderOK
    <3>2. CASE b # <<>> /\ Before.state = "code"
      <4>1. Len(b) \in Nat /\ \A i \in 1 .. Len(b) - 1 : b[i] \in Nat
        BY <1>1, LenProperties, ElementOfSeq
      <4>2. SubSeq(b, 1, Len(b) - 1) \in Seq(Nat)
        BY <4>1, SubSeqProperties
      <4>3. QED
        BY <2>1, <3>2, <4>2, AppendProperties DEF DecodeEnd, DecoderOK
    <3>3. QED
      BY <3>1, <3>2
  <2>3. QED
    BY <2>1, <2>2, EmptySeq DEF DecodeEnd, DecoderOK
<1>4. CASE in # 0 /\ Before.state = "code"
  <2>1. DecodeCode(b, in)
    BY <1>4 DEF COBSDecode, b
  <2>2. ZerosOf(in) \in Nat /\ DataOf(in) \in Int
    BY CodeConstants DEF ZerosOf, DataOf, isRunZero, isDiff2Zero
  <2>3. num_zeros' \in Nat /\ num_data' \in Int /\ parsed' = parsed
    BY <2>1, <2>2 DEF DecodeCode
  <2>4. CASE num_data' = 0
    <3>1. EndBlock(b, num_zeros')
      BY <2>1, <2>4 DEF DecodeCode
    <3>2. QED
      BY <1>1, <1>2, <2>3, <3>1 DEF DecoderOK
  <2>5. CASE num_data' # 0
    BY <1>1, <2>1, <2>3, <2>5 DEF DecodeCode, DecoderOK
  <2>6. QED
    BY <2>4, <2>5
<1>5. CASE in # 0 /\ Before.state # "code"
  <2>1. DecodeData(b, in)
    BY <1>5 DEF COBSDecode, b
  <2>2. num_zeros' = num_zeros /\ num_data' \in Int /\ parsed' = parsed
    BY <2>1 DEF DecodeData, DecoderOK
  <2>3. Append(b, in) \in Seq(Nat)
    BY <1>1, AppendProperties
  <2>4. CASE num_data' = 0
    <3>1. EndBlock(Append(b, in), num_zeros)
      BY <2>1, <2>4 DEF DecodeData
    <3>2. QED
      BY <1>2, <2>2, <2>3, <3>1 DEF DecoderOK
  <2>5. CASE num_data' # 0
    BY <2>1, <2>2, <2>3, <2>5 DEF DecodeData, DecoderOK
  <2>6. QED
    BY <2>4, <2>5
<1>6. QED
  BY <1>3, <1>4, <1>5

LEMMA NoiseKeeps == CobsInv /\ Noise => CobsInv'
<1> SUFFICES ASSUME CobsInv, Noise PROVE CobsInv'
  OBVIOUS
<1>1. PICK in \in {DiffZero, Diff, RunZero, Diff2Zero + 1} : COBSDecode(in)
  BY DEF Noise
<1>2. in \in Nat
  BY CodeConstants
<1>3. DecoderOK'
  BY <1>1, <1>2, DecodeKeeps DEF CobsInv
<1>4. AtWork /\ code_index # 0 /\ data \in Seq(Nat)
  BY DEF Noise, CobsInv
<1>5. UNCHANGED <<data, block, code, code_index, sending>> /\ Whole' = Whole
  BY DEF Noise, enc, Whole
<1>6. AtWork'
  BY <1>4, <1>5 DEF AtWork
<1>7. QED
  BY <1>3, <1>4, <1>5, <1>6 DEF CobsInv

(* The decoder's next step within a packet that fits its buffer: at the    *)
(* byte behind the first m, it comes to where the invariant says. *)
LEMMA DecodeInPacket ==
  ASSUME CobsInv, code_index = 0, Small, NEW at,
         Blocks(Whole, block, Len(block), at), at[Len(block)] = Len(Whole),
         NEW m \in Nat, m + 1 < Len(block),
         BetweenCodes(at, m) \/ InData(at, m),
         COBSDecode(block[m + 1]),
         UNCHANGED <<data, block>>
  PROVE  BetweenCodes(at, m + 1)' \/ InData(at, m + 1)'
<1> DEFINE L == Len(block)
           in == block[m + 1]
<1>1. /\ data \in Seq(Nat) /\ block \in Seq(Nat) /\ OneZero(block, L) /\ DecoderOK
      /\ L \in Nat /\ Len(data) \in Nat
  BY LenProperties DEF CobsInv, Sent
<1>2. Whole \in Seq(Nat) /\ Len(Whole) = Len(data) + 1
  BY <1>1, AppendProperties DEF Whole
<1>3. in \in Nat /\ in # 0
  BY <1>1, ElementOfSeq DEF OneZero
<1>4. /\ Whole' = Whole /\ block' = block
  BY DEF Whole
<1>5. \A i \in DOMAIN at : /\ i \in 1 .. L /\ at[i] \in Nat /\ at[i] <= Len(Whole)
  BY DEF Blocks
<1>6. \A i \in DOMAIN at : i # L =>
         /\ block[i] \in Codes /\ Stands(Whole, block, i, block[i], at[i])
         /\ i + 1 + DataOf(block[i]) \in DOMAIN at
         /\ at[i + 1 + DataOf(block[i])] = at[i] + DataOf(block[i]) + ZerosOf(block[i])
         /\ DataOf(block[i]) \in Nat /\ ZerosOf(block[i]) \in Nat
  BY CodeFacts DEF Blocks
(* One more byte, and zeros, always fit. *)
<1>7. ASSUME NEW k \in Nat, k <= Len(Whole), buffer = SubSeq(Whole, 1, k)
      PROVE  Before.state = state /\ Before.buffer = buffer
  <2>1. Len(buffer) = k
    BY <1>2, <1>7, FirstBytes
  <2>2. Len(buffer) + 1 < BufferSize
    BY <1>1, <1>2, <1>7, <2>1, BytesAssumption DEF Small
  <2>3. QED
    BY <2>2 DEF Before, Fits
(* The end of the block at place i. *)
<1>8. ASSUME NEW i \in DOMAIN at, i # L,
             EndBlock(SubSeq(Whole, 1, at[i] + DataOf(block[i])), ZerosOf(block[i]))
      PROVE  BetweenCodes(at, i + DataOf(block[i]))'
  <2> DEFINE d == DataOf(block[i])
             z == ZerosOf(block[i])
             k == at[i] + d
             s == SubSeq(Whole, 1, k)
  <2>1. d \in Nat /\ z \in Nat /\ k \in Nat /\ i \in Nat
    BY <1>5, <1>6, <1>8
  <2>2. k + z <= Len(Whole) /\ \A j \in 1 .. z : Whole[k + j] = 0
    BY <1>6, <1>8 DEF Stands
  <2>3. i + 1 + d \in DOMAIN at /\ at[i + 1 + d] = k + z
    BY <1>6, <1>8
  <2> HIDE DEF d, z, k
  <2>4. k <= Len(Whole) /\ Len(Whole) \in Nat
    BY <1>1, <1>2, <2>1, <2>2
  <2>5. Len(s) = k
    BY <1>2, <2>1, <2>4, FirstBytes
  <2>6. Len(s) + z < BufferSize
    BY <1>1, <1>2, <2>1, <2>2, <2>5, BytesAssumption DEF Small
  <2>7. s \o Zeros(z) = SubSeq(Whole, 1, k + z)
    BY <1>2, <2>1, <2>2, ZerosMore
  <2>8. EndBlock(s, z)
    BY <1>8 DEF d, z, k
  <2> HIDE DEF s
  <2>9. state' = "code" /\ buffer' = SubSeq(Whole, 1, k + z)
    BY <2>6, <2>7, <2>8 DEF EndBlock
  <2>10. (i + d) + 1 = i + 1 + d
    BY <2>1
  <2>11. (i + d) + 1 \in DOMAIN at /\ buffer' = SubSeq(Whole', 1, at[(i + d) + 1])
    BY <1>4, <2>3, <2>9, <2>10
  <2>12. QED
    BY <2>9, <2>11 DEF BetweenCodes, d
(* Not yet the end. *)
<1>9. ASSUME NEW i \in DOMAIN at, i # L, NEW j \in Nat, j < DataOf(block[i]),
             state' = "data", num_data' = DataOf(block[i]) - j,
             num_zeros' = ZerosOf(block[i]), buffer' = SubSeq(Whole, 1, at[i] + j)
      PROVE  InData(at, i + j)'
  BY <1>4, <1>9 DEF InData
<1>10. CASE BetweenCodes(at, m)
  <2> DEFINE i == m + 1
             c == block[i]
  <2>1. /\ i \in DOMAIN at /\ i # L /\ state = "code" /\ buffer = SubSeq(Whole, 1, at[i])
        /\ at[i] \in Nat /\ at[i] <= Len(Whole) /\ DataOf(c) \in Nat
    BY <1>1, <1>5, <1>6, <1>10 DEF BetweenCodes
  <2>2. Before.state = "code" /\ Before.buffer = buffer
    BY <1>7, <2>1
  <2>3. DecodeCode(buffer, c)
    BY <1>3, <2>2 DEF COBSDecode
  <2>4. num_zeros' = ZerosOf(c) /\ num_data' = DataOf(c)
    BY <2>3 DEF DecodeCode
  <2>5. CASE DataOf(c) = 0
    <3>1. EndBlock(buffer, ZerosOf(c))
      BY <2>3, <2>4, <2>5 DEF DecodeCode
    <3>2. at[i] + DataOf(c) = at[i] /\ i + DataOf(c) = m + 1
      BY <2>1, <2>5
    <3>3. BetweenCodes(at, i + DataOf(c))'
      BY <1>8, <2>1, <3>1, <3>2
    <3>4. QED
      BY <3>2, <3>3
  <2>6. CASE DataOf(c) # 0
    <3>1. state' = "data" /\ buffer' = buffer
      BY <2>3, <2>4, <2>6 DEF DecodeCode
    <3>2. at[i] + 0 = at[i] /\ i + 0 = m + 1 /\ 0 < DataOf(c) /\ DataOf(c) - 0 = DataOf(c)
      BY <2>1, <2>6
    <3>3. InData(at, i + 0)'
      BY <1>9, <2>1, <2>4, <3>1, <3>2
    <3>4. QED
      BY <3>2, <3>3
  <2>7. QED
    BY <2>5, <2>6
<1>11. CASE InData(at, m)
  <2>1. PICK i \in DOMAIN at, j \in Nat :
          /\ i # L /\ j < DataOf(block[i]) /\ m = i + j
          /\ num_data = DataOf(block[i]) - j
          /\ num_zeros = ZerosOf(block[i])
          /\ buffer = SubSeq(Whole, 1, at[i] + j)
    BY <1>11 DEF InData
  <2> DEFINE c == block[i]
             d == DataOf(c)
             k == at[i] + j
  <2>2. /\ d \in Nat /\ at[i] \in Nat /\ i \in Nat /\ k \in Nat /\ k < Len(Whole)
        /\ Stands(Whole, block, i, c, at[i]) /\ state = "data"
    <3>1. d \in Nat /\ ZerosOf(c) \in Nat /\ Stands(Whole, block, i, c, at[i])
      BY <1>6, <2>1
    <3>2. at[i] \in Nat /\ i \in Nat
      BY <1>1, <1>5
    <3>3. /\ d \in Nat /\ at[i] \in Nat /\ i \in Nat /\ ZerosOf(c) \in Nat
          /\ Stands(Whole, block, i, c, at[i]) /\ state = "data"
      BY <1>11, <3>1, <3>2 DEF InData
    <3>4. at[i] + d + ZerosOf(c) <= Len(Whole) /\ Len(Whole) \in Nat
      BY <1>1, <1>2, <3>3 DEF Stands
    <3> HIDE DEF d, c
    <3>5. j < d
      BY <2>1 DEF d, c
    <3>6. k \in Nat /\ k < Len(Whole)
      BY <3>3, <3>4, <3>5
    <3>7. QED
      BY <3>3, <3>6
  <2>3. k <= Len(Whole) /\ buffer = SubSeq(Whole, 1, k)
    BY <1>1, <1>2, <2>1, <2>2
  <2>4. Before.state = "data" /\ Before.buffer = buffer
    BY <1>7, <2>2, <2>3
  <2>5. DecodeData(buffer, in)
    BY <1>3, <2>4 DEF COBSDecode
  <2>6. in = Whole[k + 1]
    <3>1. j + 1 \in 1 .. d
      BY <2>1, <2>2
    <3>2. Whole[at[i] + (j + 1)] = block[i + (j + 1)]
      BY <2>2, <3>1 DEF Stands
    <3>3. at[i] + (j + 1) = k + 1 /\ i + (j + 1) = m + 1
      BY <2>1, <2>2
    <3>4. QED
      BY <3>2, <3>3
  <2>7. Append(buffer, in) = SubSeq(Whole, 1, k + 1)
    BY <1>2, <2>2, <2>3, <2>6, OneMore
  <2>8. num_data' = d - (j + 1) /\ num_zeros' = ZerosOf(c)
    <3>1. num_data' = num_data - 1 /\ num_zeros' = num_zeros
      BY <2>5 DEF DecodeData
    <3>2. num_data = d - j
      BY <2>1
    <3>3. d - j - 1 = d - (j + 1)
      BY <2>2
    <3>4. QED
      BY <2>1, <3>1, <3>2, <3>3
  <2>9. k + 1 = at[i] + (j + 1) /\ m + 1 = i + (j + 1)
    BY <2>1, <2>2
  <2>10. CASE j + 1 = d
    <3>1. num_data' = 0
      BY <2>2, <2>8, <2>10
    <3>2. EndBlock(SubSeq(Whole, 1, at[i] + d), ZerosOf(c))
      BY <2>1, <2>5, <2>7, <2>9, <2>10, <3>1 DEF DecodeData
    <3>3. BetweenCodes(at, i + d)'
      BY <1>8, <2>1, <3>2
    <3>4. QED
      BY <2>9, <2>10, <3>3
  <2>11. CASE j + 1 # d
    <3>1. j + 1 < d /\ num_data' # 0
      <4>1. j \in Nat /\ d \in Nat /\ j < d
        BY <2>1, <2>2
      <4>2. num_data' = d - (j + 1)
        BY <2>8
      <4> HIDE DEF d, c
      <4>3. j + 1 < d /\ d - (j + 1) # 0
        BY <2>11, <4>1
      <4> QED
        BY <4>2, <4>3
    <3>2. state' = "data" /\ buffer' = SubSeq(Whole, 1, at[i] + (j + 1))
      BY <2>5, <2>7, <2>9, <3>1 DEF DecodeData
    <3>3. j + 1 \in Nat /\ i # L
      BY <2>1
    <3>4. num_data' = DataOf(block[i]) - (j + 1) /\ num_zeros' = ZerosOf(block[i])
      BY <2>8
    <3>5. j + 1 < DataOf(block[i])
      BY <3>1
    <3>6. InData(at, i + (j + 1))'
      BY <1>9, <3>2, <3>3, <3>4, <3>5
    <3>7. QED
      BY <2>9, <3>6
  <2>12. QED
    BY <2>10, <2>11
<1>12. QED
  BY <1>10, <1>11

(* A sequence, and what is left of it. *)
LEMMA FirstOf ==
  ASSUME NEW s \in Seq(Nat)
  PROVE  Head(<<0>> \o s) = 0 /\ Tail(<<0>> \o s) = s
<1> DEFINE l == <<0>> \o s
           n == Len(s)
<1>1. n \in Nat /\ <<0>> \in Seq(Nat) /\ Len(<<0>>) = 1 /\ <<0>>[1] = 0
  BY LenProperties
<1>2. /\ l \in Seq(Nat) /\ Len(l) = 1 + n
      /\ \A i \in 1 .. 1 + n : l[i] = IF i <= 1 THEN <<0>>[i] ELSE s[i - 1]
  BY <1>1, ConcatProperties
<1> HIDE DEF l, n
<1>3. l[1] = 0 /\ \A i \in 1 .. n : l[i + 1] = s[i]
  <2>1. 1 \in 1 .. 1 + n
    BY <1>1
  <2>2. \A i \in 1 .. n : i + 1 \in 1 .. 1 + n /\ ~ (i + 1 <= 1) /\ (i + 1) - 1 = i
    BY <1>1
  <2>3. QED
    BY <1>1, <1>2, <2>1, <2>2
<1>4. l # <<>> /\ Head(l) = l[1]
  BY <1>1, <1>2, EmptySeq
<1>5. /\ Tail(l) \in Seq(Nat) /\ Len(Tail(l)) = Len(l) - 1
      /\ \A i \in 1 .. Len(Tail(l)) : Tail(l)[i] = l[i + 1]
  BY <1>2, <1>4, HeadTailProperties
<1>6. Len(Tail(l)) = n
  BY <1>1, <1>2, <1>5
<1>7. Tail(l) = s
  BY <1>3, <1>5, <1>6, SeqEqual DEF n
<1>8. QED
  BY <1>3, <1>4, <1>7 DEF l

LEMMA SomeLeft ==
  ASSUME NEW s \in Seq(Nat), NEW m \in Nat, m < Len(s)
  PROVE  SubSeq(s, m + 1, Len(s)) # <<>>
<1> DEFINE n == Len(s)
           l == SubSeq(s, m + 1, n)
<1>1. n \in Nat /\ m < n
  BY LenProperties
<1>2. \A i \in m + 1 .. n : s[i] \in Nat
  BY <1>1, ElementOfSeq
<1> HIDE DEF n
<1>3. Len(l) = IF m + 1 <= n THEN n - (m + 1) + 1 ELSE 0
  BY <1>1, <1>2, SubSeqProperties
<1> HIDE DEF l
<1>4. Len(l) # 0
  BY <1>1, <1>3
<1>5. l # <<>>
  BY <1>4, EmptySeq
<1>6. QED
  BY <1>5 DEF l, n

(* The end of the packet is what hands it to the parser. *)
LEMMA PacketParsed ==
  ASSUME CobsInv, code_index = 0, Small, NEW at,
         at[Len(block)] = Len(Whole),
         BetweenCodes(at, Len(block) - 1),
         COBSDecode(0), data' = data
  PROVE  parsed' # <<>> /\ parsed'[Len(parsed')] = data'
<1>1. /\ data \in Seq(Nat) /\ Len(data) \in Nat /\ block \in Seq(Nat) /\ Len(block) \in Nat
      /\ parsed \in Seq(Seq(Nat)) /\ Len(parsed) \in Nat
  BY LenProperties DEF CobsInv, DecoderOK, Sent
<1>2. /\ Whole \in Seq(Nat) /\ Len(Whole) = Len(data) + 1
      /\ \A i \in 1 .. Len(data) : Whole[i] = data[i]
  BY <1>1, AppendProperties DEF Whole
<1>3. (Len(block) - 1) + 1 = Len(block)
  BY <1>1
<1>4. state = "code" /\ buffer = SubSeq(Whole, 1, Len(Whole))
  BY <1>3 DEF BetweenCodes
<1>5. buffer = Whole
  BY <1>2, <1>4, SubSeqFull
<1>6. Before.state = "code" /\ Before.buffer = Whole
  <2>1. Len(Whole) + 1 < BufferSize
    BY <1>1, <1>2, BytesAssumption DEF Small
  <2>2. QED
    BY <1>4, <1>5, <2>1 DEF Before, Fits
<1>7. Whole # <<>>
  BY <1>1, <1>2, EmptySeq
<1>8. parsed' = Append(parsed, SubSeq(Whole, 1, Len(Whole) - 1))
  BY <1>6, <1>7 DEF COBSDecode, DecodeEnd
<1>9. SubSeq(Whole, 1, Len(Whole) - 1) = data
  <2>1. Len(Whole) - 1 = Len(data) /\ Len(data) <= Len(Whole)
    BY <1>1, <1>2
  <2> DEFINE s == SubSeq(Whole, 1, Len(data))
  <2>2. /\ s \in Seq(Nat) /\ Len(s) = Len(data)
        /\ \A i \in 1 .. Len(data) : s[i] = Whole[i]
    BY <1>1, <1>2, <2>1, FirstBytes
  <2> HIDE DEF s
  <2>3. s = data
    BY <1>1, <1>2, <2>2, SeqEqual
  <2>4. QED
    BY <2>1, <2>3 DEF s
<1>10. /\ Append(parsed, data) # <<>> /\ Len(Append(parsed, data)) = Len(parsed) + 1
       /\ Append(parsed, data)[Len(parsed) + 1] = data
  BY <1>1, AppendProperties
<1>11. QED
  BY <1>8, <1>9, <1>10

LEMMA ReceiveKeeps == CobsInv /\ Receive => CobsInv'
<1> SUFFICES ASSUME CobsInv, Receive PROVE CobsInv'
  OBVIOUS
<1>1. code_index = 0 /\ Sent /\ data \in Seq(Nat) /\ DecoderOK
  BY DEF CobsInv, AtWork, Receive
<1>2. /\ sending # <<>> /\ COBSDecode(Head(sending)) /\ sending' = Tail(sending)
      /\ UNCHANGED <<data, block, code, code_index>> /\ Whole' = Whole
  BY DEF Receive, enc, Whole
<1>3. block \in Seq(Nat) /\ OneZero(block, Len(block)) /\ Len(block) \in Nat
  BY <1>1, LenProperties DEF Sent
<1>4. PICK at : /\ Blocks(Whole, block, Len(block), at)
                /\ at[Len(block)] = Len(Whole) /\ Decoding(at)
  BY <1>1 DEF Sent
<1>5. Len(block) >= 1
  BY <1>3, <1>4 DEF Blocks
<1>6. SUFFICES Head(sending) \in Nat /\ Decoding(at)'
  <2>1. DecoderOK'
    BY <1>1, <1>2, <1>6, DecodeKeeps
  <2>2. Blocks(Whole', block', Len(block'), at) /\ at[Len(block')] = Len(Whole')
    BY <1>2, <1>4
  <2>3. Sent'
    BY <1>2, <1>3, <1>6, <2>2 DEF Sent
  <2>4. QED
    BY <1>1, <1>2, <2>1, <2>3 DEF CobsInv
<1>7. CASE sending = <<0>> \o block
  <2>1. Head(sending) = 0 /\ sending' = block
    BY <1>2, <1>3, <1>7, FirstOf
  <2>2. state' = "code" /\ buffer' = <<>>
    BY <1>2, <2>1 DEF COBSDecode, DecodeEnd
  <2>3. 0 + 1 \in DOMAIN at /\ at[0 + 1] = 0 /\ SubSeq(Whole, 1, 0) = <<>>
    BY <1>4, SubSeqEmpty DEF Blocks
  <2>4. BetweenCodes(at, 0)'
    BY <1>2, <2>2, <2>3 DEF BetweenCodes
  <2>5. sending' = SubSeq(block', 0 + 1, Len(block'))
    <3>1. SubSeq(block, 0 + 1, Len(block)) = block
      BY <1>3, SubSeqFull
    <3>2. QED
      BY <1>2, <2>1, <3>1
  <2>6. 0 < Len(block')
    BY <1>2, <1>3, <1>5
  <2>7. QED
    BY <2>1, <2>4, <2>5, <2>6 DEF Decoding
<1>8. CASE sending # <<0>> \o block
  <2>1. PICK m \in Nat :
          /\ m < Len(block)
          /\ sending = SubSeq(block, m + 1, Len(block))
          /\ Small => BetweenCodes(at, m) \/ InData(at, m)
    BY <1>2, <1>4, <1>8 DEF Decoding
  <2>2. m + 1 \in 1 .. Len(block) /\ Len(block) \in m + 1 .. Len(block)
    BY <1>3, <2>1
  <2>3. Head(sending) = block[m + 1] /\ sending' = SubSeq(block, (m + 1) + 1, Len(block))
    BY <1>2, <1>3, <2>1, <2>2, HeadTailOfSubSeq
  <2>4. block[m + 1] \in Nat
    BY <1>3, <2>2, ElementOfSeq
  <2>5. Small' = Small
    BY <1>2 DEF Small
  <2>6. CASE m + 1 < Len(block)
    <3>1. Small => (BetweenCodes(at, m + 1) \/ InData(at, m + 1))'
      BY <1>1, <1>2, <1>4, <2>1, <2>3, <2>6, DecodeInPacket
    <3>2. m + 1 \in Nat /\ m + 1 < Len(block')
      BY <1>2, <2>6
    <3>3. sending' = SubSeq(block', (m + 1) + 1, Len(block'))
      BY <1>2, <2>3
    <3>4. \E k \in Nat :
             /\ k < Len(block')
             /\ sending' = SubSeq(block', k + 1, Len(block'))
             /\ Small' => BetweenCodes(at, k)' \/ InData(at, k)'
      BY <2>5, <3>1, <3>2, <3>3
    <3>5. QED
      BY <2>3, <2>4, <3>4 DEF Decoding
  <2>7. CASE m + 1 = Len(block)
    <3>1. block[m + 1] = 0
      BY <1>3, <2>2, <2>7 DEF OneZero
    <3>2. sending' = <<>>
      BY <1>3, <2>3, <2>7, SubSeqEmpty
    <3>3. m = Len(block) - 1
      BY <1>3, <2>7
    <3>4. ~ InData(at, m)
      <4>1. SUFFICES ASSUME NEW i \in DOMAIN at, NEW j \in Nat, i # Len(block),
                            j < DataOf(block[i]), m = i + j
                     PROVE  FALSE
        BY DEF InData
      <4>2. /\ i + 1 + DataOf(block[i]) \in 1 .. Len(block) /\ i \in 1 .. Len(block)
            /\ block[i] \in Codes
        BY <1>4, <4>1 DEF Blocks
      <4>3. DataOf(block[i]) \in Nat
        BY <4>2, CodeFacts
      <4>4. QED
        BY <1>3, <3>3, <4>1, <4>2, <4>3
    <3>5. Small => parsed' # <<>> /\ parsed'[Len(parsed')] = data'
      BY <1>1, <1>2, <1>4, <2>1, <2>3, <3>1, <3>3, <3>4, PacketParsed
    <3>6. QED
      BY <2>3, <2>4, <2>5, <3>2, <3>5 DEF Decoding
  <2>8. QED
    BY <1>3, <2>1, <2>6, <2>7
<1>9. QED
  BY <1>7, <1>8

LEMMA CobsInvStep == CobsInv /\ [CobsNext]_cobsVars => CobsInv'
<1> SUFFICES ASSUME CobsInv, [CobsNext]_cobsVars PROVE CobsInv'
  OBVIOUS
<1>1. CASE Write
  BY <1>1, WriteKeeps
<1>2. CASE EndPacket
  BY <1>2, EndPacketKeeps
<1>3. CASE Receive
  BY <1>3, ReceiveKeeps
<1>4. CASE Noise
  BY <1>4, NoiseKeeps
<1>5. CASE UNCHANGED cobsVars
  BY <1>5 DEF cobsVars, enc, dec, CobsInv, DecoderOK, AtWork, Sent, Decoding,
              BetweenCodes, InData, Small, Whole
<1>6. QED
  BY <1>1, <1>2, <1>3, <1>4, <1>5 DEF CobsNext

(* How much stuffing takes: at most one byte more for each full block. *)
LEMMA ExcessBound ==
  ASSUME NEW n \in Nat, NEW l \in Nat, Excess(l, n + 1)
  PROVE  l <= COBSGetMaxEncodedSize(n)
<1> DEFINE K == Diff - 2
           x == l - 2 - n
           q == n \div K
<1>1. K \in Nat /\ K >= 1 /\ x \in Int
  BY CodeConstants
<1>2. q \in Nat /\ q * K + K > n
  <2> HIDE DEF K
  <2>1. q \in Int /\ n = K * q + (n % K) /\ n % K \in 0 .. K - 1
    BY <1>1
  <2>2. K * q = q * K /\ q * K \in Int
    BY <1>1, <2>1
  <2>3. q >= 0
    BY <1>1
  <2> HIDE DEF q
  <2>4. QED
    BY <1>1, <2>1, <2>2, <2>3
<1>3. x * (K + 1) <= n + 1
  BY CodeConstants DEF Excess
<1> HIDE DEF K, q
<1>4. x <= q
  <2>1. SUFFICES ASSUME x >= q + 1 PROVE FALSE
    BY <1>1, <1>2
  <2> DEFINE y == x - q - 1
  <2> HIDE DEF x
  <2>2. y \in Nat /\ x = y + (q + 1)
    BY <1>1, <1>2, <2>1
  <2> HIDE DEF y
  <2>3. x * (K + 1) = y * K + q * K + K + x
    BY <1>1, <1>2, <2>2
  <2>4. y * K >= 0 /\ y * K \in Int /\ q * K \in Int
    BY <1>1, <1>2, <2>2
  <2>5. x >= 1
    BY <1>1, <1>2, <2>2
  <2>6. QED
    BY <1>1, <1>2, <1>3, <2>3, <2>4, <2>5
<1>5. l <= n + q + 2
  BY <1>1, <1>2, <1>4
<1>6. QED
  BY <1>5 DEF COBSGetMaxEncodedSize, K, q

(* A packet of any bytes is encoded within the space COBSEncode made sure  *)
(* of, and to no zero but the last; and it is parsed as it was given to    *)
(* the encoder, whatever the decoder got before, if it fits its buffer:    *)
(* for every table of codes built as that of cobs.c is. *)
THEOREM CobsRoundTrip == CobsSpec => []DecodedAsEncoded
<1>1. CobsInv => DecodedAsEncoded
  <2>1. SUFFICES ASSUME CobsInv, code_index = 0
                 PROVE  /\ Len(block) <= COBSGetMaxEncodedSize(Len(data))
                        /\ \A i \in DOMAIN block : block[i] = 0 <=> i = Len(block)
                        /\ sending = <<>> /\ Len(data) + 2 < BufferSize =>
                             parsed # <<>> /\ parsed[Len(parsed)] = data
    BY DEF DecodedAsEncoded
  <2>2. PICK at : /\ Blocks(Whole, block, Len(block), at)
                  /\ at[Len(block)] = Len(Whole) /\ Decoding(at)
    BY <2>1 DEF CobsInv, Sent
  <2>3. /\ block \in Seq(Nat) /\ Len(block) \in Nat /\ DOMAIN block = 1 .. Len(block)
        /\ OneZero(block, Len(block)) /\ data \in Seq(Nat) /\ Len(data) \in Nat
    BY <2>1, LenProperties DEF CobsInv, Sent
  <2>4. Len(block) <= COBSGetMaxEncodedSize(Len(data))
    <3>1. Len(Whole) = Len(data) + 1
      BY <2>3, AppendProperties DEF Whole
    <3>2. Excess(Len(block), Len(data) + 1)
      BY <2>2, <3>1 DEF Blocks
    <3>3. QED
      BY <2>3, <3>2, ExcessBound
  <2>5. \A i \in DOMAIN block : block[i] = 0 <=> i = Len(block)
    BY <2>3 DEF OneZero
  <2>6. ASSUME sending = <<>>, Small PROVE parsed # <<>> /\ parsed[Len(parsed)] = data
    <3>1. sending # <<0>> \o block
      <4>1. <<0>> \in Seq(Nat) /\ Len(<<0>>) = 1
        OBVIOUS
      <4> DEFINE l == <<0>> \o block
      <4>2. Len(l) = 1 + Len(block)
        BY <2>3, <4>1, ConcatProperties
      <4> HIDE DEF l
      <4>3. Len(l) # 0
        BY <2>3, <4>2
      <4>4. l # <<>>
        BY <4>3, EmptySeq
      <4>5. QED
        BY <2>6, <4>4 DEF l
    <3>2. ASSUME NEW m \in Nat, m < Len(block) PROVE sending # SubSeq(block, m + 1, Len(block))
      BY <2>3, <2>6, <3>2, SomeLeft
    <3>3. QED
      BY <2>2, <2>6, <3>1, <3>2 DEF Decoding
  <2>7. QED
    BY <2>4, <2>5, <2>6 DEF Small
<1>2. QED
  BY <1>1, CobsInvInit, CobsInvStep, PTL DEF CobsSpec

-----------------------------------------------------------------------------
(* Crc: what the tables make of a byte, bit by bit; that the CRC is        *)
(* linear, so that what counts is the CRC of the errors alone; and that    *)
(* neither the rest of a burst nor the CRC behind it undoes its beginning. *)

(* A set of numbers has a smallest one. *)
LEMMA Smallest ==
  ASSUME NEW T \in SUBSET Nat, T # {}
  PROVE  \E x \in T : \A y \in T : x <= y
<1>1. PICK x \in T : \A y \in T : ~ (<<y, x>> \in OpToRel(<, Nat))
  BY NatLessThanWellFounded, WFMin
<1>2. \A y \in T : ~ (y < x)
  BY <1>1 DEF OpToRel
<1>3. QED
  BY <1>2

(* One bit of two, and not both. *)
Odd(a, b) == ~ (a <=> b)

(* The bits of a word that has been divided once by x^16 + x^12 + x^5 + 1. *)
DividedIs(c, d) ==
  /\ d \in Word
  /\ (0 \in d <=> 15 \in c) /\ (1 \in d <=> 0 \in c)
  /\ (2 \in d <=> 1 \in c) /\ (3 \in d <=> 2 \in c)
  /\ (4 \in d <=> 3 \in c) /\ (5 \in d <=> Odd(4 \in c, 15 \in c))
  /\ (6 \in d <=> 5 \in c) /\ (7 \in d <=> 6 \in c)
  /\ (8 \in d <=> 7 \in c) /\ (9 \in d <=> 8 \in c)
  /\ (10 \in d <=> 9 \in c) /\ (11 \in d <=> 10 \in c)
  /\ (12 \in d <=> Odd(11 \in c, 15 \in c)) /\ (13 \in d <=> 12 \in c)
  /\ (14 \in d <=> 13 \in c) /\ (15 \in d <=> 14 \in c)

(* Four times: no bit goes through the polynomial twice. *)
FourIs(c, d) ==
  /\ d \in Word
  /\ (0 \in d <=> 12 \in c) /\ (1 \in d <=> 13 \in c)
  /\ (2 \in d <=> 14 \in c) /\ (3 \in d <=> 15 \in c)
  /\ (4 \in d <=> 0 \in c) /\ (5 \in d <=> Odd(1 \in c, 12 \in c))
  /\ (6 \in d <=> Odd(2 \in c, 13 \in c)) /\ (7 \in d <=> Odd(3 \in c, 14 \in c))
  /\ (8 \in d <=> Odd(4 \in c, 15 \in c)) /\ (9 \in d <=> 5 \in c)
  /\ (10 \in d <=> 6 \in c) /\ (11 \in d <=> 7 \in c)
  /\ (12 \in d <=> Odd(8 \in c, 12 \in c)) /\ (13 \in d <=> Odd(9 \in c, 13 \in c))
  /\ (14 \in d <=> Odd(10 \in c, 14 \in c)) /\ (15 \in d <=> Odd(11 \in c, 15 \in c))

(* The entry of a table at i: i, i shifted by four, five, nine and twelve. *)
EntryIs(i, d) ==
  /\ d \in Word
  /\ (0 \in d <=> Odd(0 \in i, 4 \in i)) /\ (1 \in d <=> Odd(1 \in i, 5 \in i))
  /\ (2 \in d <=> Odd(2 \in i, 6 \in i)) /\ (3 \in d <=> Odd(3 \in i, 7 \in i))
  /\ (4 \in d <=> 4 \in i) /\ (5 \in d <=> Odd(Odd(5 \in i, 0 \in i), 4 \in i))
  /\ (6 \in d <=> Odd(Odd(6 \in i, 1 \in i), 5 \in i)) /\ (7 \in d <=> Odd(Odd(7 \in i, 2 \in i), 6 \in i))
  /\ (8 \in d <=> Odd(3 \in i, 7 \in i)) /\ (9 \in d <=> 4 \in i)
  /\ (10 \in d <=> 5 \in i) /\ (11 \in d <=> 6 \in i)
  /\ (12 \in d <=> Odd(Odd(7 \in i, 0 \in i), 4 \in i)) /\ (13 \in d <=> Odd(1 \in i, 5 \in i))
  /\ (14 \in d <=> Odd(2 \in i, 6 \in i)) /\ (15 \in d <=> Odd(3 \in i, 7 \in i))

LEMMA DividedBits ==
  ASSUME NEW c \in Word
  PROVE  DividedIs(c, Divided(c, 16, {0, 5, 12}))
<1> DEFINE d == Divided(c, 16, {0, 5, 12})
           s == {k \in 1 .. 15 : k - 1 \in c}
<1>1. d = IF 15 \in c THEN SymDiff(s, {0, 5, 12}) ELSE s
  BY DEF Divided
<1>2. d \in Word
  BY <1>1 DEF SymDiff, Word
<1>3. 15 \in c => \A k : k \in d <=> ~ (k \in s <=> k \in {0, 5, 12})
  BY <1>1 DEF SymDiff
<1>4. \A k \in 1 .. 15 : k \in s <=> k - 1 \in c
  OBVIOUS
<1>5. 0 \notin s
  OBVIOUS
<1> HIDE DEF d, s
<1>6. /\ (1 \in s <=> 0 \in c) /\ (2 \in s <=> 1 \in c) /\ (3 \in s <=> 2 \in c)
      /\ (4 \in s <=> 3 \in c) /\ (5 \in s <=> 4 \in c) /\ (6 \in s <=> 5 \in c)
      /\ (7 \in s <=> 6 \in c) /\ (8 \in s <=> 7 \in c) /\ (9 \in s <=> 8 \in c)
      /\ (10 \in s <=> 9 \in c) /\ (11 \in s <=> 10 \in c) /\ (12 \in s <=> 11 \in c)
      /\ (13 \in s <=> 12 \in c) /\ (14 \in s <=> 13 \in c) /\ (15 \in s <=> 14 \in c)
  BY <1>4
<1>7. ASSUME 15 \in c PROVE DividedIs(c, d)
  <2>1. /\ (0 \in d <=> 0 \notin s) /\ (1 \in d <=> 1 \in s) /\ (2 \in d <=> 2 \in s)
        /\ (3 \in d <=> 3 \in s) /\ (4 \in d <=> 4 \in s) /\ (5 \in d <=> 5 \notin s)
        /\ (6 \in d <=> 6 \in s) /\ (7 \in d <=> 7 \in s) /\ (8 \in d <=> 8 \in s)
        /\ (9 \in d <=> 9 \in s) /\ (10 \in d <=> 10 \in s) /\ (11 \in d <=> 11 \in s)
        /\ (12 \in d <=> 12 \notin s) /\ (13 \in d <=> 13 \in s) /\ (14 \in d <=> 14 \in s)
        /\ (15 \in d <=> 15 \in s)
    BY <1>3, <1>7
  <2>2. QED
    BY <1>2, <1>5, <1>6, <1>7, <2>1 DEF DividedIs, Odd
<1>8. ASSUME 15 \notin c PROVE DividedIs(c, d)
  BY <1>1, <1>2, <1>5, <1>6, <1>8 DEF DividedIs, Odd
<1>9. QED
  BY <1>7, <1>8 DEF d

LEMMA FourBits ==
  ASSUME NEW c \in Word, NEW c1, NEW c2, NEW c3, NEW d,
         DividedIs(c, c1), DividedIs(c1, c2), DividedIs(c2, c3), DividedIs(c3, d)
  PROVE  FourIs(c, d)
  BY DEF FourIs, DividedIs, Odd

LEMMA EntryBits ==
  ASSUME NEW i \in Byte
  PROVE  EntryIs(i, crc16_entry[i])
<1> DEFINE D(c) == Divided(c, 16, {0, 5, 12})
           c == {k \in 8 .. 15 : k - 8 \in i}
           f == D(D(D(D(c))))
           g == D(D(D(D(f))))
<1>1. ASSUME NEW w \in Word PROVE D(w) \in Word /\ DividedIs(w, D(w))
  BY DividedBits DEF DividedIs
<1>2. c \in Word
  BY DEF Word
<1>3. FourIs(c, f)
  <2> HIDE DEF c, D
  <2>1. QED
    BY <1>1, <1>2, FourBits
<1>4. f \in Word
  BY <1>3 DEF FourIs
<1>5. FourIs(f, g)
  <2> HIDE DEF c, f, D
  <2>1. QED
    BY <1>1, <1>4, FourBits
<1>6. crc16_entry[i] = g
  <2>1. c = {k \in (16 - 8) .. (16 - 1) : k - (16 - 8) \in i}
    OBVIOUS
  <2>2. crc16_entry[i] = Remainder(i, 16, {0, 5, 12})
    BY TableAssumption
  <2> HIDE DEF c
  <2>3. QED
    BY <2>1, <2>2 DEF Remainder
<1>7. /\ 0 \notin c /\ 1 \notin c /\ 2 \notin c /\ 3 \notin c
      /\ 4 \notin c /\ 5 \notin c /\ 6 \notin c /\ 7 \notin c
      /\ (8 \in c <=> 0 \in i) /\ (9 \in c <=> 1 \in i) /\ (10 \in c <=> 2 \in i)
      /\ (11 \in c <=> 3 \in i) /\ (12 \in c <=> 4 \in i) /\ (13 \in c <=> 5 \in i)
      /\ (14 \in c <=> 6 \in i) /\ (15 \in c <=> 7 \in i)
  OBVIOUS
<1> HIDE DEF c, f, g
<1>8. QED
  BY <1>3, <1>5, <1>6, <1>7 DEF FourIs, EntryIs, Odd

(* The table is indexed by i, the high byte of c and e. *)
IndexIs(e, c, i) ==
  /\ i \in Byte
  /\ (0 \in i <=> Odd(8 \in c, 0 \in e)) /\ (1 \in i <=> Odd(9 \in c, 1 \in e))
  /\ (2 \in i <=> Odd(10 \in c, 2 \in e)) /\ (3 \in i <=> Odd(11 \in c, 3 \in e))
  /\ (4 \in i <=> Odd(12 \in c, 4 \in e)) /\ (5 \in i <=> Odd(13 \in c, 5 \in e))
  /\ (6 \in i <=> Odd(14 \in c, 6 \in e)) /\ (7 \in i <=> Odd(15 \in c, 7 \in e))

(* The word c, e more: the entry t, and the low byte of c above it. *)
ShiftIs(c, t, d) ==
  /\ d \in Word
  /\ (0 \in d <=> 0 \in t) /\ (1 \in d <=> 1 \in t) /\ (2 \in d <=> 2 \in t)
  /\ (3 \in d <=> 3 \in t) /\ (4 \in d <=> 4 \in t) /\ (5 \in d <=> 5 \in t)
  /\ (6 \in d <=> 6 \in t) /\ (7 \in d <=> 7 \in t)
  /\ (8 \in d <=> Odd(8 \in t, 0 \in c)) /\ (9 \in d <=> Odd(9 \in t, 1 \in c))
  /\ (10 \in d <=> Odd(10 \in t, 2 \in c)) /\ (11 \in d <=> Odd(11 \in t, 3 \in c))
  /\ (12 \in d <=> Odd(12 \in t, 4 \in c)) /\ (13 \in d <=> Odd(13 \in t, 5 \in c))
  /\ (14 \in d <=> Odd(14 \in t, 6 \in c)) /\ (15 \in d <=> Odd(15 \in t, 7 \in c))

StepIs(e, c, d) == \E i, t : IndexIs(e, c, i) /\ EntryIs(i, t) /\ ShiftIs(c, t, d)

LEMMA StepBits ==
  ASSUME NEW e \in Byte, NEW c \in Word
  PROVE  StepIs(e, c, CRC16_step(e, c))
<1> DEFINE i == SymDiff(HighByte(c), e)
           t == crc16_entry[i]
           s == {k \in 8 .. 15 : k - 8 \in c}
           d == CRC16_step(e, c)
<1>1. d = SymDiff(t, s)
  BY DEF CRC16_step
<1>2. i \in Byte
  BY DEF SymDiff, HighByte, Byte
<1>3. EntryIs(i, t) /\ t \in Word
  BY <1>2, EntryBits DEF EntryIs
<1>4. IndexIs(e, c, i)
  <2>1. \A k : k \in i <=> ~ (k \in HighByte(c) <=> k \in e)
    BY DEF SymDiff
  <2>2. \A k \in 0 .. 7 : k \in HighByte(c) <=> k + 8 \in c
    BY DEF HighByte
  <2>3. /\ (0 \in HighByte(c) <=> 8 \in c) /\ (1 \in HighByte(c) <=> 9 \in c)
        /\ (2 \in HighByte(c) <=> 10 \in c) /\ (3 \in HighByte(c) <=> 11 \in c)
        /\ (4 \in HighByte(c) <=> 12 \in c) /\ (5 \in HighByte(c) <=> 13 \in c)
        /\ (6 \in HighByte(c) <=> 14 \in c) /\ (7 \in HighByte(c) <=> 15 \in c)
    BY <2>2
  <2> HIDE DEF i
  <2>4. QED
    BY <1>2, <2>1, <2>3 DEF IndexIs, Odd
<1>5. ShiftIs(c, t, d)
  <2>1. \A k : k \in d <=> ~ (k \in t <=> k \in s)
    BY <1>1 DEF SymDiff
  <2>2. /\ 0 \notin s /\ 1 \notin s /\ 2 \notin s /\ 3 \notin s
        /\ 4 \notin s /\ 5 \notin s /\ 6 \notin s /\ 7 \notin s
        /\ (8 \in s <=> 0 \in c) /\ (9 \in s <=> 1 \in c) /\ (10 \in s <=> 2 \in c)
        /\ (11 \in s <=> 3 \in c) /\ (12 \in s <=> 4 \in c) /\ (13 \in s <=> 5 \in c)
        /\ (14 \in s <=> 6 \in c) /\ (15 \in s <=> 7 \in c)
    OBVIOUS
  <2>3. d \in Word
    BY <1>1, <1>3 DEF SymDiff, Word
  <2> HIDE DEF d, t, s
  <2>4. QED
    BY <2>1, <2>2, <2>3 DEF ShiftIs, Odd
<1>6. QED
  BY <1>3, <1>4, <1>5 DEF StepIs

(* Words of the same bits are the same. *)
LEMMA SameWord ==
  ASSUME NEW a \in Word, NEW b \in Word,
         /\ (0 \in a <=> 0 \in b) /\ (1 \in a <=> 1 \in b) /\ (2 \in a <=> 2 \in b)
         /\ (3 \in a <=> 3 \in b) /\ (4 \in a <=> 4 \in b) /\ (5 \in a <=> 5 \in b)
         /\ (6 \in a <=> 6 \in b) /\ (7 \in a <=> 7 \in b) /\ (8 \in a <=> 8 \in b)
         /\ (9 \in a <=> 9 \in b) /\ (10 \in a <=> 10 \in b) /\ (11 \in a <=> 11 \in b)
         /\ (12 \in a <=> 12 \in b) /\ (13 \in a <=> 13 \in b) /\ (14 \in a <=> 14 \in b)
         /\ (15 \in a <=> 15 \in b)
  PROVE  a = b
<1>1. \A k \in 0 .. 15 : k \in a <=> k \in b
  OBVIOUS
<1>2. \A k : k \in a \/ k \in b => k \in 0 .. 15
  BY DEF Word
<1>3. QED
  BY <1>1, <1>2

LEMMA XorBits ==
  ASSUME NEW a, NEW b
  PROVE
    /\ (0 \in SymDiff(a, b) <=> Odd(0 \in a, 0 \in b)) /\ (1 \in SymDiff(a, b) <=> Odd(1 \in a, 1 \in b))
    /\ (2 \in SymDiff(a, b) <=> Odd(2 \in a, 2 \in b)) /\ (3 \in SymDiff(a, b) <=> Odd(3 \in a, 3 \in b))
    /\ (4 \in SymDiff(a, b) <=> Odd(4 \in a, 4 \in b)) /\ (5 \in SymDiff(a, b) <=> Odd(5 \in a, 5 \in b))
    /\ (6 \in SymDiff(a, b) <=> Odd(6 \in a, 6 \in b)) /\ (7 \in SymDiff(a, b) <=> Odd(7 \in a, 7 \in b))
    /\ (8 \in SymDiff(a, b) <=> Odd(8 \in a, 8 \in b)) /\ (9 \in SymDiff(a, b) <=> Odd(9 \in a, 9 \in b))
    /\ (10 \in SymDiff(a, b) <=> Odd(10 \in a, 10 \in b)) /\ (11 \in SymDiff(a, b) <=> Odd(11 \in a, 11 \in b))
    /\ (12 \in SymDiff(a, b) <=> Odd(12 \in a, 12 \in b)) /\ (13 \in SymDiff(a, b) <=> Odd(13 \in a, 13 \in b))
    /\ (14 \in SymDiff(a, b) <=> Odd(14 \in a, 14 \in b)) /\ (15 \in SymDiff(a, b) <=> Odd(15 \in a, 15 \in b))
<1>1. \A k : k \in SymDiff(a, b) <=> ~ (k \in a <=> k \in b)
  BY DEF SymDiff
<1>2. QED
  BY <1>1 DEF Odd

(* The CRC of two messages that differ by e differs by the CRC of e. *)
LEMMA StepLinear ==
  ASSUME NEW x \in Byte, NEW e \in Byte, NEW c \in Word, NEW f \in Word
  PROVE  CRC16_step(SymDiff(x, e), SymDiff(c, f)) = SymDiff(CRC16_step(x, c), CRC16_step(e, f))
<1> DEFINE y == SymDiff(x, e)
           g == SymDiff(c, f)
           r == CRC16_step(x, c)
           q == CRC16_step(e, f)
           z == CRC16_step(y, g)
           w == SymDiff(r, q)
<1>1. y \in Byte /\ g \in Word
  BY DEF SymDiff, Byte, Word
<1>2. StepIs(x, c, r) /\ StepIs(e, f, q) /\ StepIs(y, g, z)
  BY <1>1, StepBits
<1>3. PICK i1, t1 : IndexIs(x, c, i1) /\ EntryIs(i1, t1) /\ ShiftIs(c, t1, r)
  BY <1>2 DEF StepIs
<1>4. PICK i2, t2 : IndexIs(e, f, i2) /\ EntryIs(i2, t2) /\ ShiftIs(f, t2, q)
  BY <1>2 DEF StepIs
<1>5. PICK i3, t3 : IndexIs(y, g, i3) /\ EntryIs(i3, t3) /\ ShiftIs(g, t3, z)
  BY <1>2 DEF StepIs
<1>6. r \in Word /\ q \in Word /\ z \in Word /\ w \in Word
  BY <1>3, <1>4, <1>5 DEF ShiftIs, SymDiff, Word
<1>7. /\ (0 \in y <=> Odd(0 \in x, 0 \in e)) /\ (1 \in y <=> Odd(1 \in x, 1 \in e))
      /\ (2 \in y <=> Odd(2 \in x, 2 \in e)) /\ (3 \in y <=> Odd(3 \in x, 3 \in e))
      /\ (4 \in y <=> Odd(4 \in x, 4 \in e)) /\ (5 \in y <=> Odd(5 \in x, 5 \in e))
      /\ (6 \in y <=> Odd(6 \in x, 6 \in e)) /\ (7 \in y <=> Odd(7 \in x, 7 \in e))
  BY XorBits
<1>8.
      /\ (0 \in g <=> Odd(0 \in c, 0 \in f)) /\ (1 \in g <=> Odd(1 \in c, 1 \in f))
      /\ (2 \in g <=> Odd(2 \in c, 2 \in f)) /\ (3 \in g <=> Odd(3 \in c, 3 \in f))
      /\ (4 \in g <=> Odd(4 \in c, 4 \in f)) /\ (5 \in g <=> Odd(5 \in c, 5 \in f))
      /\ (6 \in g <=> Odd(6 \in c, 6 \in f)) /\ (7 \in g <=> Odd(7 \in c, 7 \in f))
      /\ (8 \in g <=> Odd(8 \in c, 8 \in f)) /\ (9 \in g <=> Odd(9 \in c, 9 \in f))
      /\ (10 \in g <=> Odd(10 \in c, 10 \in f)) /\ (11 \in g <=> Odd(11 \in c, 11 \in f))
      /\ (12 \in g <=> Odd(12 \in c, 12 \in f)) /\ (13 \in g <=> Odd(13 \in c, 13 \in f))
      /\ (14 \in g <=> Odd(14 \in c, 14 \in f)) /\ (15 \in g <=> Odd(15 \in c, 15 \in f))
  BY XorBits
<1>9.
      /\ (0 \in w <=> Odd(0 \in r, 0 \in q)) /\ (1 \in w <=> Odd(1 \in r, 1 \in q))
      /\ (2 \in w <=> Odd(2 \in r, 2 \in q)) /\ (3 \in w <=> Odd(3 \in r, 3 \in q))
      /\ (4 \in w <=> Odd(4 \in r, 4 \in q)) /\ (5 \in w <=> Odd(5 \in r, 5 \in q))
      /\ (6 \in w <=> Odd(6 \in r, 6 \in q)) /\ (7 \in w <=> Odd(7 \in r, 7 \in q))
      /\ (8 \in w <=> Odd(8 \in r, 8 \in q)) /\ (9 \in w <=> Odd(9 \in r, 9 \in q))
      /\ (10 \in w <=> Odd(10 \in r, 10 \in q)) /\ (11 \in w <=> Odd(11 \in r, 11 \in q))
      /\ (12 \in w <=> Odd(12 \in r, 12 \in q)) /\ (13 \in w <=> Odd(13 \in r, 13 \in q))
      /\ (14 \in w <=> Odd(14 \in r, 14 \in q)) /\ (15 \in w <=> Odd(15 \in r, 15 \in q))
  BY XorBits
<1> HIDE DEF y, g, r, q, z, w
<1>10.
      /\ (0 \in i3 <=> Odd(0 \in i1, 0 \in i2)) /\ (1 \in i3 <=> Odd(1 \in i1, 1 \in i2))
      /\ (2 \in i3 <=> Odd(2 \in i1, 2 \in i2)) /\ (3 \in i3 <=> Odd(3 \in i1, 3 \in i2))
      /\ (4 \in i3 <=> Odd(4 \in i1, 4 \in i2)) /\ (5 \in i3 <=> Odd(5 \in i1, 5 \in i2))
      /\ (6 \in i3 <=> Odd(6 \in i1, 6 \in i2)) /\ (7 \in i3 <=> Odd(7 \in i1, 7 \in i2))
  BY <1>3, <1>4, <1>5, <1>7, <1>8 DEF IndexIs, Odd
<1>11.
      /\ (0 \in t3 <=> Odd(0 \in t1, 0 \in t2)) /\ (1 \in t3 <=> Odd(1 \in t1, 1 \in t2))
      /\ (2 \in t3 <=> Odd(2 \in t1, 2 \in t2)) /\ (3 \in t3 <=> Odd(3 \in t1, 3 \in t2))
      /\ (4 \in t3 <=> Odd(4 \in t1, 4 \in t2)) /\ (5 \in t3 <=> Odd(5 \in t1, 5 \in t2))
      /\ (6 \in t3 <=> Odd(6 \in t1, 6 \in t2)) /\ (7 \in t3 <=> Odd(7 \in t1, 7 \in t2))
      /\ (8 \in t3 <=> Odd(8 \in t1, 8 \in t2)) /\ (9 \in t3 <=> Odd(9 \in t1, 9 \in t2))
      /\ (10 \in t3 <=> Odd(10 \in t1, 10 \in t2)) /\ (11 \in t3 <=> Odd(11 \in t1, 11 \in t2))
      /\ (12 \in t3 <=> Odd(12 \in t1, 12 \in t2)) /\ (13 \in t3 <=> Odd(13 \in t1, 13 \in t2))
      /\ (14 \in t3 <=> Odd(14 \in t1, 14 \in t2)) /\ (15 \in t3 <=> Odd(15 \in t1, 15 \in t2))
  BY <1>3, <1>4, <1>5, <1>10 DEF EntryIs, Odd
<1>12.
      /\ (0 \in z <=> Odd(0 \in r, 0 \in q)) /\ (1 \in z <=> Odd(1 \in r, 1 \in q))
      /\ (2 \in z <=> Odd(2 \in r, 2 \in q)) /\ (3 \in z <=> Odd(3 \in r, 3 \in q))
      /\ (4 \in z <=> Odd(4 \in r, 4 \in q)) /\ (5 \in z <=> Odd(5 \in r, 5 \in q))
      /\ (6 \in z <=> Odd(6 \in r, 6 \in q)) /\ (7 \in z <=> Odd(7 \in r, 7 \in q))
      /\ (8 \in z <=> Odd(8 \in r, 8 \in q)) /\ (9 \in z <=> Odd(9 \in r, 9 \in q))
      /\ (10 \in z <=> Odd(10 \in r, 10 \in q)) /\ (11 \in z <=> Odd(11 \in r, 11 \in q))
      /\ (12 \in z <=> Odd(12 \in r, 12 \in q)) /\ (13 \in z <=> Odd(13 \in r, 13 \in q))
      /\ (14 \in z <=> Odd(14 \in r, 14 \in q)) /\ (15 \in z <=> Odd(15 \in r, 15 \in q))
  BY <1>3, <1>4, <1>5, <1>8, <1>11 DEF ShiftIs, Odd
<1>13. z = w
  BY <1>6, <1>9, <1>12, SameWord
<1>14. QED
  BY <1>13 DEF z, w, r, q, y, g

(* What a step takes to nothing was its own byte. *)
LEMMA StepToNothing ==
  ASSUME NEW e \in Byte, NEW c \in Word, CRC16_step(e, c) = {}
  PROVE  /\ LowByte(c) = {}
         /\ HighByte(c) = e
<1>1. PICK i, t : IndexIs(e, c, i) /\ EntryIs(i, t) /\ ShiftIs(c, t, {})
  BY StepBits DEF StepIs
<1>2. /\ 0 \notin i /\ 1 \notin i /\ 2 \notin i /\ 3 \notin i
      /\ 4 \notin i /\ 5 \notin i /\ 6 \notin i /\ 7 \notin i
  BY <1>1 DEF EntryIs, ShiftIs, Odd
<1>3. /\ 0 \notin c /\ 1 \notin c /\ 2 \notin c /\ 3 \notin c
      /\ 4 \notin c /\ 5 \notin c /\ 6 \notin c /\ 7 \notin c
  BY <1>1, <1>2 DEF EntryIs, ShiftIs, Odd
<1>4. /\ (8 \in c <=> 0 \in e) /\ (9 \in c <=> 1 \in e) /\ (10 \in c <=> 2 \in e)
      /\ (11 \in c <=> 3 \in e) /\ (12 \in c <=> 4 \in e) /\ (13 \in c <=> 5 \in e)
      /\ (14 \in c <=> 6 \in e) /\ (15 \in c <=> 7 \in e)
  BY <1>1, <1>2 DEF IndexIs, Odd
<1>5. LowByte(c) = {}
  BY <1>3 DEF LowByte
<1>6. \A k \in 0 .. 7 : k + 8 \in c <=> k \in e
  BY <1>4
<1>7. QED
  BY <1>5, <1>6 DEF HighByte, Byte

(* The first bit of a byte is k. *)
FirstIs(e, k) ==
  \/ k = 0 /\ 0 \in e
  \/ k = 1 /\ 0 \notin e /\ 1 \in e
  \/ k = 2 /\ 0 \notin e /\ 1 \notin e /\ 2 \in e
  \/ k = 3 /\ 0 \notin e /\ 1 \notin e /\ 2 \notin e /\ 3 \in e
  \/ k = 4 /\ 0 \notin e /\ 1 \notin e /\ 2 \notin e /\ 3 \notin e /\ 4 \in e
  \/ k = 5 /\ 0 \notin e /\ 1 \notin e /\ 2 \notin e /\ 3 \notin e /\ 4 \notin e /\ 5 \in e
  \/ k = 6 /\ 0 \notin e /\ 1 \notin e /\ 2 \notin e /\ 3 \notin e /\ 4 \notin e /\ 5 \notin e /\ 6 \in e
  \/ k = 7 /\ 0 \notin e /\ 1 \notin e /\ 2 \notin e /\ 3 \notin e /\ 4 \notin e /\ 5 \notin e /\ 6 \notin e /\ 7 \in e

LEMMA FirstBitIs ==
  ASSUME NEW e \in Byte, e # {}
  PROVE  FirstBit(e) \in 0 .. 7 /\ FirstIs(e, FirstBit(e))
<1> DEFINE k == FirstBit(e)
<1>1. e \in SUBSET Nat
  BY DEF Byte
<1>2. \E x \in e : \A y \in e : x <= y
  BY <1>1, Smallest
<1>3. k \in e /\ \A j \in e : k <= j
  BY <1>2 DEF FirstBit
<1>4. k \in 0 .. 7
  BY <1>3 DEF Byte
<1> HIDE DEF k
<1>5. FirstIs(e, k)
  BY <1>3, <1>4 DEF FirstIs
<1>6. QED
  BY <1>4, <1>5 DEF k

(* A byte of errors on an undamaged line. *)
LEMMA FirstStep ==
  ASSUME NEW e \in Byte
  PROVE  EntryIs(e, CRC16_step(e, {}))
<1> DEFINE d == CRC16_step(e, {})
<1>1. {} \in Word
  BY DEF Word
<1>2. PICK i, t : IndexIs(e, {}, i) /\ EntryIs(i, t) /\ ShiftIs({}, t, d)
  BY <1>1, StepBits DEF StepIs
<1> HIDE DEF d
<1>3. EntryIs(e, d)
  BY <1>2 DEF EntryIs, IndexIs, ShiftIs, Odd
<1>4. QED
  BY <1>3 DEF d

(* The bits of a byte that lies below m. *)
LEMMA LowWithin ==
  ASSUME NEW d, NEW m \in Int, LowByte(d) \subseteq 0 .. m
  PROVE
    /\ (0 \in d => 0 <= m) /\ (1 \in d => 1 <= m) /\ (2 \in d => 2 <= m)
    /\ (3 \in d => 3 <= m) /\ (4 \in d => 4 <= m) /\ (5 \in d => 5 <= m)
    /\ (6 \in d => 6 <= m) /\ (7 \in d => 7 <= m)
<1>1. \A j \in 0 .. 7 : j \in d => j \in 0 .. m
  BY DEF LowByte
<1>2. QED
  BY <1>1

LEMMA HighWithin ==
  ASSUME NEW d, NEW m \in Int, HighByte(d) \subseteq 0 .. m
  PROVE
    /\ (8 \in d => 0 <= m) /\ (9 \in d => 1 <= m) /\ (10 \in d => 2 <= m)
    /\ (11 \in d => 3 <= m) /\ (12 \in d => 4 <= m) /\ (13 \in d => 5 <= m)
    /\ (14 \in d => 6 <= m) /\ (15 \in d => 7 <= m)
<1>1. \A j \in 0 .. 7 : j + 8 \in d => j \in 0 .. m
  BY DEF HighByte
<1>2. QED
  BY <1>1

(* One byte of errors, the first of them at k, cannot be made good by what *)
(* a burst that may go on to bit k + 5 of the next byte, and so up to bit  *)
(* k - 3 of the one after it, does to the CRC behind it...                 *)
LEMMA OneByte ==
  ASSUME NEW e \in Byte, e # {}, NEW k, k = FirstBit(e)
  PROVE  LET d == CRC16_step(e, {})
         IN  /\ d \in Word
             /\ ~ (LowByte(d) \subseteq 0 .. (k - 3))
             /\ ~ (/\ HighByte(d) \subseteq 0 .. (k - 3)
                   /\ k < 2 => LowByte(d) \subseteq 0 .. (k + 5))
<1> DEFINE d == CRC16_step(e, {})
<1>1. EntryIs(e, d) /\ d \in Word
  BY FirstStep DEF EntryIs
<1>2. FirstIs(e, k) /\ k \in 0 .. 7
  BY FirstBitIs
<1> HIDE DEF d
<1>3. ASSUME LowByte(d) \subseteq 0 .. (k - 3)
      PROVE  FALSE
  <2>1.
        /\ (0 \in d => 0 <= k - 3) /\ (1 \in d => 1 <= k - 3) /\ (2 \in d => 2 <= k - 3)
        /\ (3 \in d => 3 <= k - 3) /\ (4 \in d => 4 <= k - 3) /\ (5 \in d => 5 <= k - 3)
        /\ (6 \in d => 6 <= k - 3) /\ (7 \in d => 7 <= k - 3)
    BY <1>2, <1>3, LowWithin
  <2>2. QED
    BY <1>1, <1>2, <2>1 DEF EntryIs, FirstIs, Odd
<1>4. ASSUME HighByte(d) \subseteq 0 .. (k - 3), k < 2 => LowByte(d) \subseteq 0 .. (k + 5)
      PROVE  FALSE
  <2>1.
        /\ (8 \in d => 0 <= k - 3) /\ (9 \in d => 1 <= k - 3) /\ (10 \in d => 2 <= k - 3)
        /\ (11 \in d => 3 <= k - 3) /\ (12 \in d => 4 <= k - 3) /\ (13 \in d => 5 <= k - 3)
        /\ (14 \in d => 6 <= k - 3) /\ (15 \in d => 7 <= k - 3)
    BY <1>2, <1>4, HighWithin
  <2>2. k < 2 =>
        /\ (0 \in d => 0 <= k + 5) /\ (1 \in d => 1 <= k + 5) /\ (2 \in d => 2 <= k + 5)
        /\ (3 \in d => 3 <= k + 5) /\ (4 \in d => 4 <= k + 5) /\ (5 \in d => 5 <= k + 5)
        /\ (6 \in d => 6 <= k + 5) /\ (7 \in d => 7 <= k + 5)
    BY <1>2, <1>4, LowWithin
  <2>3. QED
    BY <1>1, <1>2, <2>1, <2>2 DEF EntryIs, FirstIs, Odd
<1>5. QED
  BY <1>1, <1>3, <1>4 DEF d

(* ... nor can two.                                                        *)
LEMMA TwoBytes ==
  ASSUME NEW e \in Byte, e # {}, NEW k, k = FirstBit(e), NEW f \in Byte
  PROVE  LET d == CRC16_step(f, CRC16_step(e, {}))
         IN  /\ d \in Word
             /\ ~ (HighByte(d) = {} /\ LowByte(d) \subseteq 0 .. (k - 3))
<1> DEFINE c == CRC16_step(e, {})
           d == CRC16_step(f, c)
<1>1. EntryIs(e, c) /\ c \in Word
  BY FirstStep DEF EntryIs
<1>2. FirstIs(e, k) /\ k \in 0 .. 7
  BY FirstBitIs
<1> HIDE DEF c
<1>3. PICK i, t : EntryIs(i, t) /\ ShiftIs(c, t, d)
  BY <1>1, StepBits DEF StepIs
<1>4. d \in Word
  BY <1>3 DEF ShiftIs
<1> HIDE DEF d
<1>5. ASSUME HighByte(d) = {}, LowByte(d) \subseteq 0 .. (k - 3)
      PROVE  FALSE
  <2>1. HighByte(d) \subseteq 0 .. -1
    BY <1>5
  <2>2.
        /\ (8 \in d => 0 <= -1) /\ (9 \in d => 1 <= -1) /\ (10 \in d => 2 <= -1)
        /\ (11 \in d => 3 <= -1) /\ (12 \in d => 4 <= -1) /\ (13 \in d => 5 <= -1)
        /\ (14 \in d => 6 <= -1) /\ (15 \in d => 7 <= -1)
    BY <2>1, HighWithin
  <2>3.
        /\ (0 \in d => 0 <= k - 3) /\ (1 \in d => 1 <= k - 3) /\ (2 \in d => 2 <= k - 3)
        /\ (3 \in d => 3 <= k - 3) /\ (4 \in d => 4 <= k - 3) /\ (5 \in d => 5 <= k - 3)
        /\ (6 \in d => 6 <= k - 3) /\ (7 \in d => 7 <= k - 3)
    BY <1>2, <1>5, LowWithin
  <2>4. QED
    BY <1>1, <1>2, <1>3, <2>2, <2>3 DEF EntryIs, ShiftIs, FirstIs, Odd
<1>6. QED
  BY <1>4, <1>5 DEF c, d

-----------------------------------------------------------------------------
(* CRC16_chunk, one byte more at a time. *)

(* h holds the CRC after each number of bytes: the recursion of CRC16_chunk. *)
CrcAfter(h, body, crc) ==
  h = [n \in 0 .. Len(body) |-> IF n = 0 THEN crc ELSE CRC16_step(body[n], h[n - 1])]

LEMMA CrcAfterMore ==
  ASSUME NEW body \in Seq(Byte), NEW byte \in Byte, NEW crc, NEW h, CrcAfter(h, body, crc)
  PROVE  \E g : CrcAfter(g, Append(body, byte), crc)
<1> DEFINE m == Len(body)
           more == Append(body, byte)
           last == CRC16_step(byte, h[m])
           g == [n \in 0 .. (m + 1) |-> IF n = m + 1 THEN last ELSE h[n]]
<1>1. m \in Nat /\ Len(more) = m + 1 /\ more[m + 1] = byte /\ \A n \in 1 .. m : more[n] = body[n]
  BY AppendProperties, LenProperties
<1>2. \A n \in 0 .. m : h[n] = IF n = 0 THEN crc ELSE CRC16_step(body[n], h[n - 1])
  BY DEF CrcAfter
<1> HIDE DEF m, more
<1>3. ASSUME NEW n \in 0 .. (m + 1)
      PROVE  g[n] = IF n = 0 THEN crc ELSE CRC16_step(more[n], g[n - 1])
  <2>1. CASE n = m + 1
    <3>1. n # 0 /\ n - 1 \in 0 .. m /\ n - 1 = m
      BY <1>1, <2>1
    <3>2. g[n - 1] = h[m] /\ g[n] = last
      BY <1>1, <2>1, <3>1
    <3>3. QED
      BY <1>1, <2>1, <3>1, <3>2
  <2>2. CASE n # m + 1
    <3>1. n \in 0 .. m /\ g[n] = h[n]
      BY <1>1, <2>2
    <3>2. n # 0 => n - 1 \in 0 .. m /\ g[n - 1] = h[n - 1] /\ more[n] = body[n]
      BY <1>1, <2>2
    <3>3. QED
      BY <1>2, <3>1, <3>2
  <2>3. QED
    BY <2>1, <2>2
<1>4. g = [n \in 0 .. Len(more) |-> IF n = 0 THEN crc ELSE CRC16_step(more[n], g[n - 1])]
  BY <1>1, <1>3
<1>5. CrcAfter(g, more, crc)
  BY <1>4 DEF CrcAfter
<1>6. QED
  BY <1>5 DEF more

LEMMA CrcAfterExists ==
  ASSUME NEW body \in Seq(Byte), NEW crc
  PROVE  \E h : CrcAfter(h, body, crc)
<1> DEFINE Solved(n) == \A d \in Seq(Byte) : Len(d) = n => \E h : CrcAfter(h, d, crc)
           T == {n \in Nat : ~ Solved(n)}
<1>1. SUFFICES ASSUME T # {} PROVE FALSE
  <2>1. Len(body) \in Nat
    BY LenProperties
  <2>2. Solved(Len(body)) => \E h : CrcAfter(h, body, crc)
    OBVIOUS
  <2>3. QED
    BY <2>1, <2>2
<1>2. PICK n \in T : \A m \in T : n <= m
  BY <1>1, Smallest
<1>3. PICK d \in Seq(Byte) : Len(d) = n /\ ~ \E h : CrcAfter(h, d, crc)
  BY <1>2
<1>4. d # <<>>
  <2>1. CrcAfter([i \in 0 .. 0 |-> crc], <<>>, crc)
    BY DEF CrcAfter
  <2>2. QED
    BY <1>3, <2>1
<1>5. PICK r \in Seq(Byte), byte \in Byte : d = Append(r, byte)
  BY <1>4, SequenceEmptyOrAppend
<1>6. Len(r) \in Nat /\ Len(r) < n
  BY <1>3, <1>5, AppendProperties, LenProperties
<1>7. Len(r) \notin T
  BY <1>2, <1>6
<1>8. PICK h : CrcAfter(h, r, crc)
  BY <1>6, <1>7
<1>9. QED
  BY <1>3, <1>5, <1>8, CrcAfterMore

(* h holds the CRC after up to m bytes. *)
CrcUpTo(h, body, crc, m) ==
  \A n \in 0 .. m : h[n] = IF n = 0 THEN crc ELSE CRC16_step(body[n], h[n - 1])

(* Two solutions agree, since they cannot differ at a smallest place. *)
LEMMA CrcAgree ==
  ASSUME NEW body, NEW crc, NEW m \in Nat, NEW g, CrcUpTo(g, body, crc, m),
         NEW h, CrcUpTo(h, body, crc, m)
  PROVE  g[m] = h[m]
<1> DEFINE T == {n \in 0 .. m : g[n] # h[n]}
<1>1. SUFFICES ASSUME T # {} PROVE FALSE
  OBVIOUS
<1>2. T \in SUBSET Nat
  OBVIOUS
<1>3. PICK n \in T : \A y \in T : n <= y
  BY <1>1, <1>2, Smallest
<1>4. n # 0
  BY <1>3 DEF CrcUpTo
<1>5. n - 1 \in 0 .. m /\ n - 1 \notin T
  BY <1>3, <1>4
<1>6. QED
  BY <1>3, <1>4, <1>5 DEF CrcUpTo

LEMMA CrcAppend ==
  ASSUME NEW body \in Seq(Byte), NEW byte \in Byte
  PROVE  CRC16(Append(body, byte)) = CRC16_step(byte, CRC16(body))
<1> DEFINE m == Len(body)
           more == Append(body, byte)
           crc == CRC16_START_VALUE
           h == CHOOSE f : CrcAfter(f, body, crc)
           g == CHOOSE f : CrcAfter(f, more, crc)
<1>1. m \in Nat /\ Len(more) = m + 1 /\ more[m + 1] = byte /\ \A n \in 1 .. m : more[n] = body[n]
  BY AppendProperties, LenProperties
<1>2. more \in Seq(Byte)
  BY AppendProperties
<1>3. CrcAfter(h, body, crc) /\ CrcAfter(g, more, crc)
  BY <1>2, CrcAfterExists
<1>4. CRC16(body) = h[m]
  BY DEF CRC16, CRC16_chunk, CrcAfter
<1>5. CRC16(more) = g[m + 1]
  <2>1. CRC16(more) = g[Len(more)]
    BY DEF CRC16, CRC16_chunk, CrcAfter
  <2>2. QED
    BY <1>1, <2>1
<1> HIDE DEF h, g, more, m, crc
<1>6. CrcUpTo(h, body, crc, m)
  BY <1>3 DEF CrcAfter, CrcUpTo, m
<1>7. \A n \in 0 .. (m + 1) : g[n] = IF n = 0 THEN crc ELSE CRC16_step(more[n], g[n - 1])
  BY <1>1, <1>3 DEF CrcAfter
<1>8. CrcUpTo(g, body, crc, m)
  BY <1>1, <1>7 DEF CrcUpTo
<1>9. g[m] = h[m]
  BY <1>1, <1>6, <1>8, CrcAgree
<1>10. g[m + 1] = CRC16_step(more[m + 1], g[m])
  <2>1. m + 1 \in 0 .. (m + 1) /\ m + 1 # 0 /\ (m + 1) - 1 = m
    BY <1>1
  <2>2. QED
    BY <1>7, <2>1
<1>11. QED
  BY <1>1, <1>4, <1>5, <1>9, <1>10 DEF more

LEMMA CrcOfNothing == CRC16(<<>>) = CRC16_START_VALUE
<1> DEFINE crc == CRC16_START_VALUE
           h == CHOOSE f : CrcAfter(f, <<>>, crc)
<1>1. <<>> \in Seq(Byte) /\ Len(<<>>) = 0
  OBVIOUS
<1>2. CrcAfter(h, <<>>, crc)
  BY <1>1, CrcAfterExists
<1>3. CRC16(<<>>) = h[0]
  BY DEF CRC16, CRC16_chunk, CrcAfter
<1> HIDE DEF h, crc
<1>4. h[0] = crc
  BY <1>1, <1>2 DEF CrcAfter
<1>5. QED
  BY <1>3, <1>4 DEF crc

-----------------------------------------------------------------------------
(* The burst. *)

(* What the burst has done to the CRC, with left bits of it to come: the   *)
(* burst is in its second byte, in its third, or over.                     *)
Damaged(d, left) ==
  \/ \E e \in Byte : /\ e # {} /\ d = CRC16_step(e, {}) /\ left <= FirstBit(e) + 6
  \/ \E e, f \in Byte : /\ e # {} /\ d = CRC16_step(f, CRC16_step(e, {}))
                        /\ left = 0 \/ left <= FirstBit(e) - 2
  \/ left = 0 /\ d # {}

Difference == SymDiff(sent, CRC16(received))

CrcInv ==
  /\ received \in Seq(Byte) /\ sent \in Word /\ CRC16(received) \in Word
  /\ verdict \in {"none", "good", "bad"}
  /\ burst \in 0 .. (BurstBits + 1)
  /\ verdict = "none" => IF burst = BurstBits + 1 THEN Difference = {}
                         ELSE burst <= BurstBits - 1 /\ Damaged(Difference, burst)
  /\ BurstIsDetected

LEMMA StepIsWord ==
  ASSUME NEW e \in Byte, NEW c \in Word
  PROVE  CRC16_step(e, c) \in Word
  BY StepBits DEF StepIs, ShiftIs

LEMMA CrcInvInit == CrcInit => CrcInv
<1> SUFFICES ASSUME CrcInit PROVE CrcInv
  OBVIOUS
<1>1. CRC16_START_VALUE \in Word /\ BurstBits \in 8 .. 16
  BY BurstAssumption DEF CRC16_START_VALUE, Word
<1>2. Difference = {}
  BY CrcOfNothing DEF CrcInit, Difference, SymDiff
<1>3. QED
  BY <1>1, <1>2, CrcOfNothing DEF CrcInit, CrcInv, BurstIsDetected

(* A step that leaves nothing in the low byte has only moved the CRC.      *)
LEMMA StepOnlyMoves ==
  ASSUME NEW f \in Byte, NEW c \in Word, LowByte(CRC16_step(f, c)) = {}
  PROVE  HighByte(CRC16_step(f, c)) = LowByte(c)
<1> DEFINE d == CRC16_step(f, c)
<1>1. PICK i, t : EntryIs(i, t) /\ ShiftIs(c, t, d)
  BY StepBits DEF StepIs
<1>2. LowByte(d) \subseteq 0 .. -1
  OBVIOUS
<1> HIDE DEF d
<1>3. /\ 0 \notin d /\ 1 \notin d /\ 2 \notin d /\ 3 \notin d
      /\ 4 \notin d /\ 5 \notin d /\ 6 \notin d /\ 7 \notin d
  BY <1>2, LowWithin
<1>4. /\ (8 \in d <=> 0 \in c) /\ (9 \in d <=> 1 \in c) /\ (10 \in d <=> 2 \in c)
      /\ (11 \in d <=> 3 \in c) /\ (12 \in d <=> 4 \in c) /\ (13 \in d <=> 5 \in c)
      /\ (14 \in d <=> 6 \in c) /\ (15 \in d <=> 7 \in c)
  BY <1>1, <1>3 DEF EntryIs, ShiftIs, Odd
<1>5. \A k \in 0 .. 7 : k + 8 \in d <=> k \in c
  BY <1>4
<1>6. HighByte(d) = LowByte(c)
  BY <1>5 DEF HighByte, LowByte
<1>7. QED
  BY <1>6 DEF d

LEMMA NothingOfBytes ==
  ASSUME NEW d \in Word, LowByte(d) = {}, HighByte(d) = {}
  PROVE  d = {}
<1>1. ASSUME NEW k \in d PROVE FALSE
  <2>1. k \in 0 .. 7 \/ (k - 8 \in 0 .. 7 /\ (k - 8) + 8 = k)
    BY DEF Word
  <2>2. QED
    BY <2>1 DEF LowByte, HighByte
<1>2. QED
  BY <1>1

LEMMA NothingSteps == CRC16_step({}, {}) = {}
<1>1. {} \in Byte /\ {} \in Word
  BY DEF Byte, Word
<1>2. EntryIs({}, CRC16_step({}, {}))
  BY <1>1, FirstStep
<1> DEFINE d == CRC16_step({}, {})
<1> HIDE DEF d
<1>3. d = {}
  BY <1>1, <1>2, SameWord DEF EntryIs, Odd, d
<1>4. QED
  BY <1>3 DEF d

(* A byte of the burst leaves damage behind. *)
LEMMA DamageGoesOn ==
  ASSUME BurstBits <= 14, NEW d \in Word, NEW left \in 0 .. (BurstBits - 1), Damaged(d, left),
         NEW e \in Errors(left)
  PROVE  Left(left, e) \in 0 .. (BurstBits - 1) /\ Damaged(CRC16_step(e, d), Left(left, e))
<1>1. BurstBits \in 8 .. 14
  BY BurstAssumption
<1>2. e \in Byte /\ (left < 8 => e \subseteq 0 .. (left - 1))
  BY <1>1 DEF Errors, Byte
<1>3. Left(left, e) = (IF left > 8 THEN left - 8 ELSE 0) /\ Left(left, e) \in 0 .. (BurstBits - 1)
  BY <1>1 DEF Left
<1>4. ASSUME NEW b \in Byte, b # {}, d = CRC16_step(b, {}), left <= FirstBit(b) + 6
      PROVE  Damaged(CRC16_step(e, d), Left(left, e))
  <2>1. FirstBit(b) \in 0 .. 7
    BY <1>4, FirstBitIs
  <2>2. Left(left, e) = 0 \/ Left(left, e) <= FirstBit(b) - 2
    BY <1>3, <1>4, <2>1
  <2>3. QED
    BY <1>2, <1>4, <2>2 DEF Damaged
<1>5. ASSUME NEW b \in Byte, NEW f \in Byte, b # {}, d = CRC16_step(f, CRC16_step(b, {})),
             left = 0 \/ left <= FirstBit(b) - 2
      PROVE  Damaged(CRC16_step(e, d), Left(left, e))
  <2> DEFINE c == CRC16_step(b, {})
  <2>1. FirstBit(b) \in 0 .. 7
    BY <1>5, FirstBitIs
  <2>2. Left(left, e) = 0
    BY <1>3, <1>5, <2>1
  <2>3. e \subseteq 0 .. (FirstBit(b) - 3)
    BY <1>2, <1>5, <2>1
  <2>4. c \in Word /\ ~ (LowByte(c) \subseteq 0 .. (FirstBit(b) - 3))
    BY <1>5, OneByte
  <2> HIDE DEF c
  <2>5. ASSUME CRC16_step(e, d) = {} PROVE FALSE
    <3>1. LowByte(d) = {} /\ HighByte(d) = e
      BY <1>2, <2>5, StepToNothing
    <3>2. HighByte(d) = LowByte(c)
      BY <1>5, <2>4, <3>1, StepOnlyMoves DEF c
    <3>3. QED
      BY <2>3, <2>4, <3>1, <3>2
  <2>6. QED
    BY <2>2, <2>5 DEF Damaged
<1>6. ASSUME left = 0, d # {}
      PROVE  Damaged(CRC16_step(e, d), Left(left, e))
  <2>1. e = {} /\ Left(left, e) = 0
    BY <1>2, <1>3, <1>6
  <2>2. ASSUME CRC16_step(e, d) = {} PROVE d = {}
    <3>1. LowByte(d) = {} /\ HighByte(d) = {}
      BY <1>2, <2>1, <2>2, StepToNothing
    <3>2. QED
      BY <3>1, NothingOfBytes
  <2>3. QED
    BY <1>6, <2>1, <2>2 DEF Damaged
<1>7. QED
  BY <1>3, <1>4, <1>5, <1>6 DEF Damaged

LEMMA SendByteKeeps == BurstBits <= 14 /\ CrcInv /\ SendByte => CrcInv'
<1> SUFFICES ASSUME BurstBits <= 14, CrcInv, SendByte PROVE CrcInv'
  OBVIOUS
<1>1. PICK byte \in Bytes, error \in Errors(burst) :
        /\ sent' = CRC16_step(byte, sent)
        /\ received' = Append(received, SymDiff(byte, error))
        /\ burst' = Left(burst, error)
  BY DEF SendByte
<1>2. verdict = "none" /\ verdict' = "none" /\ BurstBits \in 8 .. 14 /\ byte \in Byte
  BY BurstAssumption DEF SendByte
<1>3. error \in Byte /\ SymDiff(byte, error) \in Byte
  BY <1>2 DEF Errors, Byte, SymDiff, CrcInv
<1>4. received \in Seq(Byte) /\ sent \in Word /\ CRC16(received) \in Word /\ burst \in 0 .. (BurstBits + 1)
  BY DEF CrcInv
<1>5. CRC16(received') = CRC16_step(SymDiff(byte, error), CRC16(received))
  BY <1>1, <1>3, <1>4, CrcAppend
<1>6. received' \in Seq(Byte) /\ sent' \in Word /\ CRC16(received') \in Word
  BY <1>1, <1>2, <1>3, <1>4, <1>5, StepIsWord, AppendProperties
<1>7. Difference \in Word /\ SymDiff(sent, Difference) = CRC16(received)
  BY <1>4 DEF Difference, SymDiff, Word
<1>8. Difference' = CRC16_step(error, Difference)
  <2>1. CRC16(received') = SymDiff(sent', CRC16_step(error, Difference))
    BY <1>1, <1>2, <1>3, <1>4, <1>5, <1>7, StepLinear
  <2>2. CRC16_step(error, Difference) = SymDiff(sent', SymDiff(sent', CRC16_step(error, Difference)))
    BY DEF SymDiff
  <2>3. QED
    BY <2>1, <2>2 DEF Difference
<1>9. CASE burst = BurstBits + 1
  <2>1. Difference = {}
    BY <1>2, <1>9 DEF CrcInv
  <2>2. CASE error = {}
    <3>1. burst' = BurstBits + 1
      BY <1>1, <1>2, <1>9, <2>2 DEF Left
    <3>2. Difference' = {}
      BY <1>8, <2>1, <2>2, NothingSteps
    <3>3. QED
      BY <1>2, <1>6, <3>1, <3>2 DEF CrcInv, BurstIsDetected
  <2>3. CASE error # {}
    <3>1. FirstBit(error) \in 0 .. 7
      BY <1>3, <2>3, FirstBitIs
    <3>2. burst' = BurstBits - 8 + FirstBit(error)
      BY <1>1, <1>2, <1>9, <2>3 DEF Left
    <3>3. Damaged(Difference', burst')
      BY <1>2, <1>3, <1>8, <2>1, <2>3, <3>1, <3>2 DEF Damaged
    <3>4. burst' \in 0 .. (BurstBits - 1)
      BY <1>2, <3>1, <3>2
    <3>5. QED
      BY <1>2, <1>6, <3>3, <3>4 DEF CrcInv, BurstIsDetected
  <2>4. QED
    BY <2>2, <2>3
<1>10. CASE burst # BurstBits + 1
  <2>1. burst \in 0 .. (BurstBits - 1) /\ Damaged(Difference, burst)
    BY <1>2, <1>4, <1>10 DEF CrcInv
  <2>2. burst' \in 0 .. (BurstBits - 1) /\ Damaged(Difference', burst')
    BY <1>1, <1>7, <1>8, <2>1, DamageGoesOn
  <2>3. QED
    BY <1>2, <1>6, <2>2 DEF CrcInv, BurstIsDetected
<1>11. QED
  BY <1>9, <1>10

(* The CRC behind the body makes good no damage. *)
LEMMA DamageIsSeen ==
  ASSUME BurstBits <= 14, NEW d \in Word, NEW left \in 0 .. (BurstBits - 1), Damaged(d, left),
         NEW e \in Errors(left), NEW f \in Errors(Left(left, e))
  PROVE  ~ (LowByte(d) = e /\ HighByte(d) = f)
<1> SUFFICES ASSUME LowByte(d) = e, HighByte(d) = f PROVE FALSE
  OBVIOUS
<1>1. BurstBits \in 8 .. 14
  BY BurstAssumption
<1>2. Left(left, e) = (IF left > 8 THEN left - 8 ELSE 0) /\ Left(left, e) \in 0 .. 5
  BY <1>1 DEF Left
<1>3. left < 8 => e \subseteq 0 .. (left - 1)
  BY <1>1 DEF Errors
<1>4. f \subseteq 0 .. (Left(left, e) - 1)
  BY <1>1, <1>2 DEF Errors
<1>5. ASSUME NEW b \in Byte, b # {}, d = CRC16_step(b, {}), left <= FirstBit(b) + 6
      PROVE  FALSE
  <2>1. FirstBit(b) \in 0 .. 7
    BY <1>5, FirstBitIs
  <2>2. f \subseteq 0 .. (FirstBit(b) - 3)
    BY <1>2, <1>4, <1>5, <2>1
  <2>3. FirstBit(b) < 2 => e \subseteq 0 .. (FirstBit(b) + 5)
    BY <1>3, <1>5, <2>1
  <2>4. QED
    BY <1>5, <2>2, <2>3, OneByte
<1>6. ASSUME NEW b \in Byte, NEW g \in Byte, b # {}, d = CRC16_step(g, CRC16_step(b, {})),
             left = 0 \/ left <= FirstBit(b) - 2
      PROVE  FALSE
  <2>1. FirstBit(b) \in 0 .. 7
    BY <1>6, FirstBitIs
  <2>2. f = {}
    BY <1>2, <1>4, <1>6, <2>1
  <2>3. e \subseteq 0 .. (FirstBit(b) - 3)
    BY <1>3, <1>6, <2>1
  <2>4. QED
    BY <1>6, <2>2, <2>3, TwoBytes
<1>7. ASSUME left = 0, d # {}
      PROVE  FALSE
  <2>1. e = {} /\ f = {}
    BY <1>2, <1>3, <1>4, <1>7
  <2>2. QED
    BY <1>7, <2>1, NothingOfBytes
<1>8. QED
  BY <1>5, <1>6, <1>7 DEF Damaged

LEMMA SendCrcKeeps == BurstBits <= 14 /\ CrcInv /\ SendCrc => CrcInv'
<1> SUFFICES ASSUME BurstBits <= 14, CrcInv, SendCrc PROVE CrcInv'
  OBVIOUS
<1>0. PICK error \in Errors(burst) : \E next \in Errors(Left(burst, error)) :
        /\ burst' = Left(Left(burst, error), next)
        /\ verdict' = Judge(<<SymDiff(LowByte(sent), error), SymDiff(HighByte(sent), next)>>,
                            CRC16(received))
  BY DEF SendCrc
<1>1. PICK next \in Errors(Left(burst, error)) :
        /\ burst' = Left(Left(burst, error), next)
        /\ verdict' = Judge(<<SymDiff(LowByte(sent), error), SymDiff(HighByte(sent), next)>>,
                            CRC16(received))
  BY <1>0
<1>2. verdict = "none" /\ sent' = sent /\ received' = received /\ BurstBits \in 8 .. 14
  BY BurstAssumption DEF SendCrc
<1>3. received \in Seq(Byte) /\ sent \in Word /\ CRC16(received) \in Word /\ burst \in 0 .. (BurstBits + 1)
  BY DEF CrcInv
<1>4. CRC16(received') = CRC16(received)
  BY <1>2
<1>5. verdict' = "good" <=> LowByte(Difference) = error /\ HighByte(Difference) = next
  <2>1. /\ LowByte(Difference) = SymDiff(LowByte(sent), LowByte(CRC16(received)))
        /\ HighByte(Difference) = SymDiff(HighByte(sent), HighByte(CRC16(received)))
    BY DEF Difference, SymDiff, LowByte, HighByte
  <2>2. verdict' = "good" <=> /\ SymDiff(LowByte(sent), error) = LowByte(CRC16(received))
                              /\ SymDiff(HighByte(sent), next) = HighByte(CRC16(received))
    BY <1>1 DEF Judge, Halfword
  <2>3. \A a, b, c : SymDiff(a, b) = c <=> SymDiff(a, c) = b
    BY DEF SymDiff
  <2>4. QED
    BY <2>1, <2>2, <2>3
<1>6. verdict' \in {"good", "bad"}
  BY <1>1 DEF Judge
<1>7. CASE burst = BurstBits + 1
  <2>1. LowByte(Difference) = {} /\ HighByte(Difference) = {}
    BY <1>2, <1>7 DEF CrcInv, LowByte, HighByte
  <2>2. error \in Byte
    BY <1>1, <1>2, <1>7 DEF Errors
  <2>3. CASE error = {}
    <3>1. Left(burst, error) = BurstBits + 1
      BY <1>2, <1>7, <2>3 DEF Left
    <3>2. next \in Byte
      BY <1>1, <1>2, <3>1 DEF Errors
    <3>3. burst' = IF next = {} THEN BurstBits + 1 ELSE BurstBits - 8 + FirstBit(next)
      BY <1>1, <1>2, <3>1 DEF Left
    <3>4. next # {} => FirstBit(next) \in 0 .. 7
      BY <3>2, FirstBitIs
    <3>5. burst' \in 0 .. (BurstBits + 1) /\ (burst' = BurstBits + 1 <=> next = {})
      BY <1>2, <3>3, <3>4
    <3>6. QED
      BY <1>2, <1>3, <1>4, <1>5, <1>6, <2>1, <2>3, <3>5 DEF CrcInv, BurstIsDetected
  <2>4. CASE error # {}
    <3>1. FirstBit(error) \in 0 .. 7
      BY <2>2, <2>4, FirstBitIs
    <3>2. Left(burst, error) \in 0 .. (BurstBits - 1)
      BY <1>2, <1>7, <2>4, <3>1 DEF Left
    <3>3. burst' \in 0 .. (BurstBits - 1)
      BY <1>1, <1>2, <3>2 DEF Left
    <3>4. QED
      BY <1>2, <1>3, <1>4, <1>5, <1>6, <2>1, <2>4, <3>3 DEF CrcInv, BurstIsDetected
  <2>5. QED
    BY <2>3, <2>4
<1>8. CASE burst # BurstBits + 1
  <2>1. burst \in 0 .. (BurstBits - 1) /\ Damaged(Difference, burst)
    BY <1>2, <1>3, <1>8 DEF CrcInv
  <2>2. Difference \in Word
    BY <1>3 DEF Difference, SymDiff, Word
  <2>3. verdict' = "bad"
    BY <1>1, <1>5, <1>6, <2>1, <2>2, DamageIsSeen
  <2>4. burst' \in 0 .. (BurstBits - 1)
    <3>1. Left(burst, error) \in 0 .. (BurstBits - 1)
      BY <1>2, <2>1 DEF Left
    <3>2. QED
      BY <1>1, <1>2, <3>1 DEF Left
  <2>5. QED
    BY <1>2, <1>3, <1>4, <2>3, <2>4 DEF CrcInv, BurstIsDetected
<1>9. QED
  BY <1>7, <1>8

LEMMA CrcInvStep == BurstBits <= 14 /\ CrcInv /\ [CrcNext]_crcVars => CrcInv'
<1> SUFFICES ASSUME BurstBits <= 14, CrcInv, [CrcNext]_crcVars PROVE CrcInv'
  OBVIOUS
<1>1. CASE SendByte
  BY <1>1, SendByteKeeps
<1>2. CASE SendCrc
  BY <1>2, SendCrcKeeps
<1>3. CASE UNCHANGED crcVars
  BY <1>3 DEF crcVars, CrcInv, BurstIsDetected, Difference
<1>4. QED
  BY <1>1, <1>2, <1>3 DEF CrcNext

(* Packets of any length with bodies of any bytes: whatever a burst of up  *)
(* to fourteen bits damages in one, body and CRC, ParseKFlyPacketFromSLIP  *)
(* refuses it, and accepts it if nothing was damaged.                      *)
THEOREM BurstsDetected ==
  ASSUME BurstBits <= 14
  PROVE  CrcSpec => []BurstIsDetected
<1>1. CrcInv => BurstIsDetected
  BY DEF CrcInv
<1>2. QED
  BY <1>1, CrcInvInit, CrcInvStep, PTL DEF CrcSpec

=============================================================================
