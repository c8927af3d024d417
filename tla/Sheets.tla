------------------------------- MODULE Sheets -------------------------------
(***************************************************************************)
(* The layer ("sheet") pool and its z-order: kernel/window/window.h.       *)
(*                                                                         *)
(* struct SHTCTL is a record.  A sheet is its slot in the pool sheets0[]   *)
(* (the "sid"), and NULL is the null pointer found in an array slot that   *)
(* was never written:                                                      *)
(*   ctl.top        height of the topmost visible sheet, -1 if none        *)
(*   ctl.sheets     the array sheets[MAX_SHEETS]; entries above top are    *)
(*                  whatever the last shift left there                     *)
(*   ctl.height     SHEET.height of every slot (-1 = hidden)               *)
(*   ctl.flags      the slots whose SHEET.flags is SHEET_USE               *)
(*                                                                         *)
(* Every operation is an operator from a ctl to a ctl, because the kernel  *)
(* calls several of them in a row inside one interrupt handler: Desktop    *)
(* and Compositor compose them, SheetStack is the state machine that calls *)
(* them one at a time.                                                     *)
(***************************************************************************)
EXTENDS Integers, FiniteSets

CONSTANTS MAX_SHEETS,   \* slots in the pool and in sheets[]
          NULL          \* the null SHEET pointer

ASSUME MaxSheetsAssumption == MAX_SHEETS \in Nat \ {0}

Sheet   == 0..MAX_SHEETS-1      \* sheets0[0..MAX_SHEETS-1], by sid
Slots   == 0..MAX_SHEETS-1      \* indices of sheets[]

ASSUME NullAssumption == NULL \notin Sheet

-----------------------------------------------------------------------------
(* shtctl_init on zero-initialised static storage.                         *)
shtctl_init ==
  [top    |-> -1,
   sheets |-> [h \in Slots |-> NULL],
   height |-> [s \in Sheet |-> 0],
   flags  |-> {}]

FreeSlots(ctl) == Sheet \ ctl.flags

(* sheet_alloc: the first slot that is not in use, hidden.                 *)
FirstFree(ctl) ==
  CHOOSE s \in FreeSlots(ctl) : \A t \in FreeSlots(ctl) : s <= t

sheet_alloc(ctl) ==
  LET s == FirstFree(ctl)
  IN  [ctl EXCEPT !.flags = @ \cup {s}, !.height[s] = -1]

(* The shifting loops of sheet_updown write "sheets[h]->height = h" for    *)
(* every slot h they move a sheet into.                                    *)
Renumber(height, sheets, lo, hi) ==
  [s \in Sheet |-> IF \E h \in lo..hi : sheets[h] = s
                     THEN CHOOSE h \in lo..hi : sheets[h] = s
                     ELSE height[s]]

(* old > height >= 0: the sheets in between move up by one slot.           *)
Lower(ctl, s, old, height) ==
  LET moved == [h \in Slots |->
                 IF h = height THEN s
                 ELSE IF h \in height+1..old THEN ctl.sheets[h-1]
                 ELSE ctl.sheets[h]]
  IN  [ctl EXCEPT !.sheets = moved,
                  !.height = Renumber([ctl.height EXCEPT ![s] = height],
                                      moved, height+1, old)]

(* old > height = -1: the gap is closed; slot top keeps a stale pointer.   *)
Hide(ctl, s, old) ==
  LET moved == [h \in Slots |->
                 IF h \in old..ctl.top-1 THEN ctl.sheets[h+1]
                 ELSE ctl.sheets[h]]
  IN  [ctl EXCEPT !.sheets = moved,
                  !.height = Renumber([ctl.height EXCEPT ![s] = -1],
                                      moved, old, ctl.top-1),
                  !.top = @ - 1]

(* 0 <= old < height: the sheets in between move down by one slot.         *)
Raise(ctl, s, old, height) ==
  LET moved == [h \in Slots |->
                 IF h = height THEN s
                 ELSE IF h \in old..height-1 THEN ctl.sheets[h+1]
                 ELSE ctl.sheets[h]]
  IN  [ctl EXCEPT !.sheets = moved,
                  !.height = Renumber([ctl.height EXCEPT ![s] = height],
                                      moved, old, height-1)]

(* Mutant: the new sheet overwrites its slot.                              *)
Show_NoShift(ctl, s, height) ==
  [ctl EXCEPT !.sheets[height] = s, !.height[s] = height, !.top = @ + 1]

(* old = -1 < height: the sheets from height to top make room.             *)
Show(ctl, s, height) ==
  LET moved == [h \in Slots |->
                 IF h = height THEN s
                 ELSE IF h \in height+1..ctl.top+1 THEN ctl.sheets[h-1]
                 ELSE ctl.sheets[h]]
  IN  [ctl EXCEPT !.sheets = moved,
                  !.height = Renumber([ctl.height EXCEPT ![s] = height],
                                      moved, height+1, ctl.top+1),
                  !.top = @ + 1]

(* Mutant: the upper clamp is missing.                                     *)
Clamp_NoUpper(ctl, height) == IF height < -1 THEN -1 ELSE height

(* The height sheet_updown really uses: -1 .. top+1.                       *)
Clamp(ctl, height) ==
  IF height > ctl.top + 1 THEN ctl.top + 1
  ELSE IF height < -1 THEN -1 ELSE height

sheet_updown(ctl, s, height) ==
  LET old == ctl.height[s]
      new == Clamp(ctl, height)
  IN  IF old > new
        THEN IF new >= 0 THEN Lower(ctl, s, old, new) ELSE Hide(ctl, s, old)
      ELSE IF old < new
        THEN IF old >= 0 THEN Raise(ctl, s, old, new) ELSE Show(ctl, s, new)
      ELSE ctl

(* Mutant: the slot is given back while the sheet is still in the stack.   *)
sheet_free_NoHide(ctl, s) == [ctl EXCEPT !.flags = @ \ {s}]

(* sheet_free: hide first, then return the slot to the pool.               *)
sheet_free(ctl, s) ==
  LET hidden == IF ctl.height[s] >= 0 THEN sheet_updown(ctl, s, -1) ELSE ctl
  IN  [hidden EXCEPT !.flags = @ \ {s}]

Visible(ctl) == {s \in ctl.flags : ctl.height[s] >= 0}

-----------------------------------------------------------------------------
(* The type of struct SHTCTL (window.h:39-45).                             *)
CtlType(ctl) ==
  ctl \in [top    : -1..MAX_SHEETS-1,
           sheets : [Slots -> Sheet \cup {NULL}],
           height : [Sheet -> -1..MAX_SHEETS-1],
           flags  : SUBSET Sheet]

(* sheets[] and the height fields describe one and the same z-order.       *)
ZOrderOf(ctl) ==
  /\ \A h \in 0..ctl.top : /\ ctl.sheets[h] \in ctl.flags
                          /\ ctl.height[ctl.sheets[h]] = h
  /\ \A s \in ctl.flags : ctl.height[s] >= 0 =>
                            /\ ctl.height[s] <= ctl.top
                            /\ ctl.sheets[ctl.height[s]] = s

=============================================================================
