---------------------------- MODULE WindowOrder -----------------------------
(***************************************************************************)
(* What the sheet manager promises to its callers (window.h:205-209): the  *)
(* visible sheets form one stack, bottom first, and an operation on one    *)
(* sheet takes that sheet out of the stack and puts it back at the place   *)
(* asked for, without disturbing the others.  There is no array, no height *)
(* field and no clamp here: SheetStack has them and implements this.       *)
(***************************************************************************)
EXTENDS Integers, SequencesExt

CONSTANT Sheet

VARIABLES order,    \* the visible sheets, bottom first
          used      \* the sheets handed out to callers
vars == <<order, used>>

Init == order = <<>> /\ used = {}

Open(s) == /\ s \in Sheet \ used
           /\ used' = used \cup {s}
           /\ UNCHANGED order

Others(s) == RemoveFirst(order, s)

Place(s) == /\ s \in used
            /\ \E i \in 1..Len(Others(s))+1 : order' = InsertAt(Others(s), i, s)
            /\ UNCHANGED used

TakeOut(s) == /\ s \in used
              /\ order' = Others(s)
              /\ UNCHANGED used

Close(s) == /\ s \in used
            /\ order' = Others(s)
            /\ used' = used \ {s}

Next == \E s \in Sheet : Open(s) \/ Place(s) \/ TakeOut(s) \/ Close(s)

Spec == Init /\ [][Next]_vars

=============================================================================
