------------------------------- MODULE TxFifo -------------------------------
(***************************************************************************)
(* What a serial port's transmit path promises to its users: messages are  *)
(* accepted whole or not at all, at most Size - 1 bytes wait, and the      *)
(* bytes of accepted messages go out in order, as intact SLIP frames.      *)
(* Only a USB host that goes away may take waiting bytes with it.          *)
(***************************************************************************)
EXTENDS Integers, SlipCodec

CONSTANTS
  Size,       (* bytes of the buffer                                       *)
  Messages,   (* messages that may be accepted                             *)
  IsUsb,      (* the port may lose its host                                *)
  NONE        (* nothing sent yet                                          *)

VARIABLES
  queue,      (* encoded bytes not yet on the wire                         *)
  out,        (* the last byte on the wire                                 *)
  host        (* a USB host listens                                        *)

Init == queue = <<>> /\ out = NONE /\ host = FALSE

(* A message is accepted: its whole frame joins the queue at once. *)
Accept(m) ==
  /\ Len(queue) + Len(Frame(m.data)) < Size
  /\ queue' = queue \o Frame(m.data)
  /\ UNCHANGED <<out, host>>

(* The oldest byte goes out. *)
Transmit ==
  /\ queue # <<>>
  /\ out' = Head(queue)
  /\ queue' = Tail(queue)
  /\ UNCHANGED host

(* Without a host a part of the queue, from its head, is lost. *)
Lose ==
  /\ IsUsb /\ ~host
  /\ \E n \in 1 .. Len(queue) : queue' = SubSeq(queue, n + 1, Len(queue))
  /\ UNCHANGED <<out, host>>

(* The host comes or goes. *)
HostChange ==
  /\ IsUsb
  /\ host' = ~host
  /\ UNCHANGED <<queue, out>>

Next == (\E m \in Messages : Accept(m)) \/ Transmit \/ Lose \/ HostChange

Spec == Init /\ [][Next]_<<queue, out, host>>

=============================================================================
