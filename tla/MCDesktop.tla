----------------------------- MODULE MCDesktop ------------------------------
(* The kernel itself: four sheets in the pool of 16, a name of 31.         *)
EXTENDS Desktop

=============================================================================
