---------------------------- MODULE Subscriptions ----------------------------
(***************************************************************************)
(* The periodic messages of modules/communication/src/subscriptions.c.     *)
(* A subscription is a slot with a virtual timer.  The timer's callback,   *)
(* in interrupt context, re-arms the timer and posts the slot's address to *)
(* a mailbox; a thread fetches addresses, reads the slot and generates the *)
(* message.  Requests change the slots under the system lock at any time,  *)
(* also while addresses of a slot wait in the mailbox.  Time is abstract:  *)
(* an armed timer may expire whenever the processor gets to it.            *)
(***************************************************************************)
EXTENDS Integers, Sequences, FiniteSets

CONSTANTS
  Commands,       (* kfly_command_t values in requests                      *)
  Ports,          (* the valid ports                                        *)
  ANY, BAD,       (* port 0xff, "the one the command came on"; an invalid   *)
  Delays,         (* periods other than 0 and ALL                           *)
  ALL,            (* delta_time 0xffffffff, with which all are removed      *)
  Cmd_None,       (* no command: the slot is free                           *)
  Slots,          (* MAX_NUMBER_OF_SUBSCRIPTIONS                            *)
  MailboxSize,    (* SUBSCRIPTION_MAILBOX_SIZE                              *)
  NONE            (* no message                                             *)

ASSUME SubscriptionsAssumption ==
  /\ Slots \in Nat \ {0}
  /\ MailboxSize \in Nat \ {0}
  /\ ANY \notin Ports /\ BAD \notin Ports /\ ANY # BAD
  /\ ALL \notin Delays /\ 0 \notin Delays /\ ALL # 0
  /\ NONE \notin (Commands \cup {Cmd_None}) \X Ports

VARIABLES
  slot,      (* subscriptions.slot                                          *)
  mailbox,   (* the slots whose address waits in subscriptions.mb           *)
  task,      (* where SubscriptionsTask is                                  *)
  fetched,   (* the slot it fetched last                                    *)
  out        (* the command and port of its call of GenerateMessage         *)

vars == <<slot, mailbox, task, fetched, out>>

Slot == 1 .. Slots

(* The periods chVTSetI may be given. *)
Periods == Delays \cup {ALL}

Holds(i, c, p) == slot[i].command = c /\ slot[i].port = p
IsFirst(i, P) == i \in P /\ \A j \in P : i <= j

(***************************************************************************)
(* bSubscribeToCommandI, bUnsubscribeFromCommandI, vUnsubscribeFromAllI    *)
(***************************************************************************)

(* Write the slot and start its timer. *)
Arm(i, c, p, d) ==
  slot' = [slot EXCEPT ![i] = [command |-> c, port |-> p, delay |-> d, armed |-> TRUE]]

Existing(c, p) == {i \in Slot : Holds(i, c, p)}
Free           == {i \in Slot : slot[i].command = Cmd_None}

(* Mutant: without a free slot the first one is taken. *)
SubscribeEvict(c, p, d) ==
  \E i \in Slot :
    /\ \/ IsFirst(i, Existing(c, p))
       \/ Existing(c, p) = {} /\ IsFirst(i, Free)
       \/ Existing(c, p) \cup Free = {} /\ i = 1
    /\ Arm(i, c, p, d)

(* An existing subscription gets the new period, else the first free slot  *)
(* is taken; with neither the result is false and nothing changes.         *)
SubscribeI(c, p, d) ==
  \E i \in Slot :
    /\ \/ IsFirst(i, Existing(c, p))
       \/ Existing(c, p) = {} /\ IsFirst(i, Free)
    /\ Arm(i, c, p, d)

(* Stop the timer and free the slot; port and delay keep their values. *)
Freed(s) == [s EXCEPT !.command = Cmd_None, !.armed = FALSE]

(* Mutant: the slot is freed while its timer runs on. *)
UnsubscribeNoStop(c, p) ==
  \E i \in Slot :
    /\ IsFirst(i, Existing(c, p))
    /\ slot' = [slot EXCEPT ![i].command = Cmd_None]

UnsubscribeI(c, p) ==
  \E i \in Slot :
    /\ IsFirst(i, Existing(c, p))
    /\ slot' = [slot EXCEPT ![i] = Freed(@)]

UnsubscribeFromAllI == slot' = [i \in Slot |-> Freed(slot[i])]

(***************************************************************************)
(* vParseManageSubscription, run by a serial manager thread                *)
(***************************************************************************)

Request ==
  [command : Commands, port : Ports \cup {ANY, BAD}, subscribe : BOOLEAN,
   delta : Delays \cup {0, ALL}]

(* The port a request is about, for a packet that arrived on rx. *)
Target(r, rx) == IF r.port = ANY THEN rx ELSE r.port

(* A request for an invalid port, or for a period of 0, changes nothing.   *)
Manage(r, rx) ==
  /\ r.port # BAD
  /\ \/ ~r.subscribe /\ r.delta = ALL /\ UnsubscribeFromAllI
     \/ ~r.subscribe /\ r.delta # ALL /\ UnsubscribeI(r.command, Target(r, rx))
     \/ r.subscribe /\ r.delta # 0 /\ SubscribeI(r.command, Target(r, rx), r.delta)
  /\ UNCHANGED <<mailbox, task, fetched, out>>

(***************************************************************************)
(* SubscriptionCallback, in the timer interrupt                            *)
(***************************************************************************)

(* chMBPostI; "Mailbox is full. Disable all subscriptions." *)
Post(i) ==
  IF Len(mailbox) < MailboxSize
  THEN /\ mailbox' = Append(mailbox, i)
       /\ UNCHANGED slot
  ELSE UnsubscribeFromAllI /\ UNCHANGED mailbox

(* Mutant: the timer is not started again. *)
CallbackOneShot(i) ==
  /\ slot[i].armed
  /\ mailbox' = IF Len(mailbox) < MailboxSize THEN Append(mailbox, i) ELSE mailbox
  /\ slot' = [slot EXCEPT ![i].armed = FALSE]
  /\ UNCHANGED <<task, fetched, out>>

(* The timer is armed again before the post, so it stays armed. *)
Callback(i) ==
  /\ slot[i].armed
  /\ Post(i)
  /\ UNCHANGED <<task, fetched, out>>

(***************************************************************************)
(* SubscriptionsTask                                                       *)
(***************************************************************************)

Fetch ==
  /\ task = "fetch"
  /\ mailbox # <<>>
  /\ fetched' = Head(mailbox)
  /\ mailbox' = Tail(mailbox)
  /\ task' = "read"
  /\ UNCHANGED <<slot, out>>

(* The slot is read outside the lock, as it is by now.  Without a command  *)
(* GenerateMessage fails at once.                                          *)
ReadSlot ==
  /\ task = "read"
  /\ IF slot[fetched].command = Cmd_None
     THEN task' = "fetch" /\ UNCHANGED out
     ELSE /\ task' = "generate"
          /\ out' = <<slot[fetched].command, slot[fetched].port>>
  /\ UNCHANGED <<slot, mailbox, fetched>>

(* GenerateMessage returns (SerialTx); its result is ignored. *)
Generated ==
  /\ task = "generate"
  /\ task' = "fetch"
  /\ out' = NONE
  /\ UNCHANGED <<slot, mailbox, fetched>>

Task == Fetch \/ ReadSlot \/ Generated

(***************************************************************************)
(* Specification                                                           *)
(***************************************************************************)

(* vSubscriptionsInit; port and delay start as zeroed memory (port 0). *)
Init ==
  /\ \E p \in Ports :
       slot = [i \in Slot |-> [command |-> Cmd_None, port |-> p, delay |-> 0, armed |-> FALSE]]
  /\ mailbox = <<>>
  /\ task = "fetch" /\ fetched = 1 /\ out = NONE

Next ==
  \/ \E r \in Request, rx \in Ports : Manage(r, rx)
  \/ \E i \in Slot : Callback(i)
  \/ Task

Spec == Init /\ [][Next]_vars

(* Timers are served in turn, and the thread, though of normal priority,   *)
(* gets the processor again and again.                                     *)
FairSpec == Spec /\ WF_vars(Task) /\ \A i \in Slot : WF_vars(Callback(i))

(***************************************************************************)
(* Properties                                                              *)
(***************************************************************************)

SlotOK ==
  slot \in [Slot -> [command : Commands \cup {Cmd_None}, port : Ports,
                     delay : Periods \cup {0}, armed : BOOLEAN]]

(* Types; the mailbox never holds more than its size. *)
TypeOK ==
  /\ SlotOK
  /\ mailbox \in Seq(Slot) /\ Len(mailbox) <= MailboxSize
  /\ task \in {"fetch", "read", "generate"}
  /\ fetched \in Slot
  /\ out \in (Commands \X Ports) \cup {NONE}

(* A command is subscribed at most once for a port: one unsubscription     *)
(* always ends it.                                                         *)
OneSlotPerSubscription ==
  \A i, j \in Slot :
    slot[i].command # Cmd_None /\ Holds(j, slot[i].command, slot[i].port) => i = j

(* A timer runs exactly while its slot holds a subscription: no overload,  *)
(* unsubscription or reuse of a slot leaves one running or stopped.        *)
TimerFollowsSubscription ==
  \A i \in Slot : slot[i].armed <=> slot[i].command # Cmd_None

(* The subscribed pairs and their periods. *)
Table ==
  LET used == {i \in Slot : slot[i].command # Cmd_None}
      pair(i) == <<slot[i].command, slot[i].port>>
  IN  [k \in {pair(i) : i \in used} |-> slot[CHOOSE i \in used : pair(i) = k].delay]

Abstract == INSTANCE SubscriptionTable
  WITH table <- Table, Delays <- Periods, MaxSubscriptions <- Slots

(* The slots, searched in order and reused, implement the table: nothing   *)
(* but the requested pair changes, except that an overload clears all.     *)
ImplementsTable == Abstract!Spec

(* A subscription that stays is served again and again. *)
PeriodicallySent ==
  \A c \in Commands, p \in Ports :
    <>[](\E i \in Slot : Holds(i, c, p)) => []<>(out = <<c, p>>)
=============================================================================
