--------------------------- MODULE SettingsStore ---------------------------
(***************************************************************************)
(* What the save-to-flash functions promise: a store of one record for     *)
(* each UID.  A record is replaced in two steps, and a power loss between  *)
(* them damages no other record than the one being replaced; a bulk erase  *)
(* replaces all of them.                                                   *)
(***************************************************************************)
CONSTANTS Uids, Data, NONE

VARIABLES
  stored,  (* the record of each UID, NONE without                          *)
  busy     (* the UIDs whose records are being replaced                     *)

(* A write of one UID, or a bulk erase, has begun. *)
Begin ==
  /\ busy = {}
  /\ busy' \in {{u} : u \in Uids} \cup {Uids}
  /\ UNCHANGED stored

Write(u, d) ==
  /\ busy = {u}
  /\ stored' = [stored EXCEPT ![u] = d]
  /\ busy' = {}

Clear ==
  /\ busy = Uids
  /\ stored' = [u \in Uids |-> NONE]
  /\ busy' = {}

(* Only records that were being replaced may be lost or damaged. *)
PowerLoss ==
  /\ stored' \in [Uids -> Data \cup {NONE}]
  /\ \A u \in Uids \ busy : stored'[u] = stored[u]
  /\ busy' = {}

Init == stored \in [Uids -> Data \cup {NONE}] /\ busy = {}

Next ==
  \/ Begin
  \/ \E u \in Uids, d \in Data : Write(u, d)
  \/ Clear
  \/ PowerLoss

Spec == Init /\ [][Next]_<<stored, busy>>

=============================================================================
