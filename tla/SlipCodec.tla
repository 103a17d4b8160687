----------------------------- MODULE SlipCodec ------------------------------
(***************************************************************************)
(* The byte stuffing of modules/communication/inc/slip.h and src/slip.c.   *)
(* A byte is one of the four reserved values or a plain data value; the    *)
(* properties only tell these classes apart.                               *)
(***************************************************************************)
EXTENDS Integers, Sequences, SequencesExt

SLIP_END     == "END"        (* 0xC0 *)
SLIP_ESC     == "ESC"        (* 0xDB *)
SLIP_ESC_END == "ESC_END"    (* 0xDC *)
SLIP_ESC_ESC == "ESC_ESC"    (* 0xDD *)

(* The bytes that must not appear unescaped inside a frame. *)
Reserved == {SLIP_END, SLIP_ESC}

(* The bytes GenerateSLIP writes for one payload byte. *)
EscapeOf(b) == IF b = SLIP_END THEN SLIP_ESC_END ELSE SLIP_ESC_ESC

Encode(b) == IF b \in Reserved THEN <<SLIP_ESC, EscapeOf(b)>> ELSE <<b>>

(* The first n bytes of a payload, stuffed (slip.c:85-106).                *)
Stuffed(data, n) == FlattenSeq([i \in 1 .. n |-> Encode(data[i])])

(* What a whole frame looks like on the wire: an opening END, the stuffed  *)
(* payload, a closing END (slip.c:168-189).                                *)
Frame(data) == <<SLIP_END>> \o Stuffed(data, Len(data)) \o <<SLIP_END>>

=============================================================================
