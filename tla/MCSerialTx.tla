----------------------------- MODULE MCSerialTx -----------------------------
(* Small instances of SerialTx for TLC. *)
EXTENDS SerialTx

MCBytes == {"a", "b", SLIP_END, SLIP_ESC, SLIP_ESC_END, SLIP_ESC_ESC}

(* One chunk of one byte, and two chunks the second of which may not fit   *)
(* in the worst case where it does in the best (the slow path).            *)
Plain ==
  {[data |-> <<"a">>, ends |-> {1}],
   [data |-> <<"b", "a", "b">>, ends |-> {1, 3}]}

(* Messages whose escapes either fit or make the encode loop give up. *)
Escaped ==
  {[data |-> <<SLIP_ESC, "a">>, ends |-> {1, 2}],
   [data |-> <<SLIP_END, SLIP_ESC, SLIP_ESC, SLIP_END, SLIP_END>>, ends |-> {5}]}

=============================================================================
