----------------------------- MODULE MCExtension -----------------------------
(* Extension for TLC.  The values of the setting may be renamed in a        *)
(* behaviour, so one of them is enough to start with.                       *)
EXTENDS Extension

CONSTANT First

MCInit == Init /\ setting = First
MCSpec == MCInit /\ [][Next]_vars /\ Fairness
=============================================================================
