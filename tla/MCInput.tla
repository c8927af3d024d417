------------------------------- MODULE MCInput -------------------------------
(* A FIFO of two bytes, a letter, Enter and the keys to panic, a packet    *)
(* whose bytes look like anything, a tick and an exception.                *)
EXTENDS Input

MC_Keys == <<{"char"}, {"enter"}, {"panic"}>>

=============================================================================
