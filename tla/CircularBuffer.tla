--------------------------- MODULE CircularBuffer ---------------------------
(***************************************************************************)
(* The index arithmetic of modules/communication/inc/circularbuffer.h and  *)
(* src/circularbuffer.c.  One writer moves head, one reader moves tail,    *)
(* and one cell always stays empty, so head = tail means "no unread byte". *)
(***************************************************************************)
EXTENDS Integers

CONSTANT Size    (* circular_buffer_t.size, the bytes of the data region *)

(* CircularBuffer_Init accepts a power of two only (isPowerOfTwo), which   *)
(* is what makes "& mask" the remainder modulo size.                       *)
ASSUME SizeAssumption ==
  /\ Size \in Nat \ {0}
  /\ \E k \in 0 .. Size : Size = 2 ^ k

Index == 0 .. (Size - 1)

(* x & Cbuff->mask, for a size that is a power of two. *)
Mask(x) == x % Size

(* CircularBuffer_SpaceLeft. *)
SpaceLeft(head, tail) == Mask(tail + Size - head - 1)

(* The size CircularBuffer_GetReadPointer reports: the unread bytes up to  *)
(* the top of the region; those after the wrap need a second call.         *)
ReadSize(head, tail) == IF head < tail THEN Size - tail ELSE head - tail

(* How many bytes wait between tail and head, the wrap included (the code  *)
(* never computes it; it is what ReadSize and SpaceLeft are about).        *)
Unread(head, tail) == Mask(head + Size - tail)

(* Cell i holds a byte that the reader has not taken yet. *)
IsUnread(i, head, tail) == Mask(i + Size - tail) < Unread(head, tail)

=============================================================================
