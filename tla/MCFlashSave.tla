---------------------------- MODULE MCFlashSave ----------------------------
(* A small instance of FlashSave: RC input settings, read before the serial *)
(* manager starts, and two records of the control module, read after it.    *)
EXTENDS FlashSave

CONSTANTS d0, d1

MCContents == [u \in Uids |-> IF u = "CONA" THEN {d0, d1} ELSE {d0}]

MCRecords == <<<<"RCIN">>, <<"CONA", "CONL">>>>

=============================================================================
