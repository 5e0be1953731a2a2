--------------------------- MODULE MCWindowsPower ---------------------------
(* Instances of WindowsPower for TLC; the .cfg file gives the bound.       *)
EXTENDS WindowsPower
=============================================================================
