----------------------------- MODULE MCSerialRx -----------------------------
(* A buffer of four bytes that the line fills three times.                  *)
EXTENDS SerialRx
=============================================================================
