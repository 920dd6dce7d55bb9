----------------------------- MODULE MCAtClient -----------------------------
(* Two callers and an AT server that answers with at most one data line in  *)
(* front of OK or ERROR, into a buffer of one line.                         *)
EXTENDS AtClient

CONSTANTS c1, c2
=============================================================================
