---------------------------- MODULE MCPageAlloc -----------------------------
(* A bitmap of six pages and a static pool of two: every pool size up to   *)
(* the capacity, every fragmentation.                                      *)
EXTENDS PageAlloc

=============================================================================
