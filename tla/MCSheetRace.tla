---------------------------- MODULE MCSheetRace -----------------------------
(* The kernel's four sheets; a pool with room for the slots a corrupted    *)
(* table grows into.                                                       *)
EXTENDS SheetRace

=============================================================================
