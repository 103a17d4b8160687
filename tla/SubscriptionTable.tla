-------------------------- MODULE SubscriptionTable --------------------------
(***************************************************************************)
(* What the subscriptions of subscriptions.c promise: a table of at most   *)
(* MaxSubscriptions pairs of command and port, each with a period.  An     *)
(* overload of the transmission mailbox empties the table.                 *)
(***************************************************************************)
EXTENDS Integers, FiniteSets, Functions

CONSTANTS Commands, Ports, Delays, MaxSubscriptions

VARIABLE table    (* the period of each subscribed pair *)

Pairs == Commands \X Ports

Init == table = [k \in {} |-> 0]

(* A subscribed pair gets a new period; another needs a free place. *)
Subscribe(k, d) ==
  /\ k \in DOMAIN table \/ Cardinality(DOMAIN table) < MaxSubscriptions
  /\ table' = [j \in DOMAIN table \cup {k} |-> IF j = k THEN d ELSE table[j]]

Unsubscribe(k) == table' = Restrict(table, DOMAIN table \ {k})

Clear == table' = [k \in {} |-> 0]

Next ==
  \/ \E k \in Pairs : Unsubscribe(k) \/ \E d \in Delays : Subscribe(k, d)
  \/ Clear

Spec == Init /\ [][Next]_table

=============================================================================
