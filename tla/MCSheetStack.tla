---------------------------- MODULE MCSheetStack ----------------------------
(* SheetStack on a small pool, and its refinement of WindowOrder: the      *)
(* stack is the live part of the array sheets[].                           *)
EXTENDS SheetStack

Order == INSTANCE WindowOrder WITH
           order <- [i \in 1..ctl.top+1 |-> ctl.sheets[i-1]],
           used  <- ctl.flags

(* Every call of sheet_alloc, sheet_updown and sheet_free is one operation *)
(* on the stack of visible sheets, whatever its loops left above top       *)
(* (window.h:64-74, 209-253, 297-300).                                     *)
ImplementsWindowOrder == Order!Spec

=============================================================================
