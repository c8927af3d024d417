----------------------------- MODULE SheetStack -----------------------------
(***************************************************************************)
(* The sheet manager of kernel/window/window.h as a state machine: any     *)
(* sequence of sheet_alloc, sheet_updown and sheet_free calls with the     *)
(* arguments the kernel's callers pass.                                    *)
(***************************************************************************)
EXTENDS Sheets

VARIABLE ctl
vars == <<ctl>>

Init == ctl = shtctl_init

(* A full pool makes sheet_alloc return 0 and change nothing.              *)
Alloc == /\ FreeSlots(ctl) # {}
         /\ ctl' = sheet_alloc(ctl)

(* What the callers pass: a visible sheet is moved to a height that exists *)
(* (the kernel always passes top, top-1 or -1), a hidden one may also be   *)
(* put on top of the stack, at top+1, or above: the clamp brings it back.  *)
HeightsFor(s) == -1..(IF ctl.height[s] >= 0 THEN ctl.top ELSE ctl.top + 2)

UpDown(s) == /\ s \in ctl.flags
             /\ \E height \in HeightsFor(s) : ctl' = sheet_updown(ctl, s, height)

Free(s) == /\ s \in ctl.flags
           /\ ctl' = sheet_free(ctl, s)

Next == Alloc \/ \E s \in Sheet : UpDown(s) \/ Free(s)

Spec == Init /\ [][Next]_vars

-----------------------------------------------------------------------------
(* Type invariant of the sheet manager (struct SHTCTL, window.h:39-45).    *)
(* That top stays below MAX_SHEETS is what keeps the insertion loop of     *)
(* sheet_updown (sheets[h+1] = sheets[h]) inside the array.                *)
TypeOK == CtlType(ctl)

(* "sheets[] stays ordered by height" (window.h:207): each visible sheet   *)
(* is in exactly one slot, its height is the number of that slot, and the  *)
(* slots 0..top hold nothing else, however calls with stale entries above  *)
(* top follow one another.                                                 *)
ZOrder == ZOrderOf(ctl)

=============================================================================
