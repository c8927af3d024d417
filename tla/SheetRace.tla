----------------------------- MODULE SheetRace ------------------------------
(***************************************************************************)
(* The F1 key inside: the main loop calls win_minimize(win_sht) after      *)
(* io_sti, so that the mouse interrupt isr2c may come between any two      *)
(* statements of win_minimize and of the sheet_updown it calls             *)
(* (kernel.cpp:939-942, 254-268; window.h:209-232).  The interrupt runs to *)
(* its end: it is one Packet of module Desktop.                            *)
(***************************************************************************)
EXTENDS Desktop

VARIABLES at,    \* the statement the main loop is about to execute
          old,   \* sheet_updown's local "old"
          h      \* its loop counter

raceVars == <<ctl, g_wins, g_login_sht, dragging, g_drag_sht, bar, screen_bar,
              login_len, pc, at, old, h>>
taskbar == <<bar, screen_bar>>

RaceInit == Init /\ at = "idle" /\ old = 0 /\ h = 0

Interrupt == Packet /\ UNCHANGED <<at, old, h>>

Goto(from, to) == at = from /\ at' = to

(* win_minimize: the slot is found, the sheet is visible, min is set and   *)
(* the drag of this window is given up.                                    *)
F1Found ==
  /\ Goto("idle", "updown") /\ pc = "loop"
  /\ ctl.height[Win] >= 0
  /\ \E i \in SlotsOf(Win) : SetMin(i, TRUE)
  /\ DropDrag(Win)
  /\ UNCHANGED <<ctl, taskbar, dragging, login, old, h>>

(* sheet_updown(s, -1): old = sht->height; sht->height = -1; a sheet that  *)
(* is hidden by now is left alone.                                         *)
F1SetHeight ==
  /\ Goto("updown", IF ctl.height[Win] > -1 THEN "test" ELSE "draw")
  /\ old' = ctl.height[Win] /\ h' = ctl.height[Win]
  /\ ctl' = [ctl EXCEPT !.height[Win] = -1]
  /\ UNCHANGED <<g_wins, taskbar, mouse, login>>

(* for (h = old; h < top; h++) sheets[h] = sheets[h+1] ...                 *)
F1Shift ==
  /\ at = "test" /\ h < ctl.top /\ at' = "number"
  /\ ctl' = [ctl EXCEPT !.sheets[h] = ctl.sheets[h+1]]
  /\ UNCHANGED <<g_wins, taskbar, mouse, login, old, h>>

(* ... sheets[h]->height = h; the pointer is read again, not the old value *)
F1Number ==
  /\ Goto("number", "test")
  /\ ctl' = [ctl EXCEPT !.height[ctl.sheets[h]] = h]
  /\ h' = h + 1
  /\ UNCHANGED <<g_wins, taskbar, mouse, login, old>>

(* top--                                                                   *)
F1Top ==
  /\ at = "test" /\ h >= ctl.top /\ at' = "draw"
  /\ ctl' = [ctl EXCEPT !.top = @ - 1]
  /\ UNCHANGED <<g_wins, taskbar, mouse, login, old, h>>

(* taskbar_draw and sheet_refresh; back to the main loop.                  *)
F1Draw ==
  /\ Goto("draw", "idle")
  /\ DrawBar(g_wins)
  /\ UNCHANGED <<ctl, g_wins, mouse, login, old, h>>

F1 == F1Found \/ F1SetHeight \/ F1Shift \/ F1Number \/ F1Top \/ F1Draw

RaceNext == \/ F1 \/ Interrupt
            \/ /\ at = "idle" /\ UNCHANGED <<at, old, h>>
               /\ KeyName \/ KeyEnter \/ FileSaved \/ EnterUser

RaceSpec == RaceInit /\ [][RaceNext]_raceVars

-----------------------------------------------------------------------------
(* "The sheet operations cannot be re-entered: a mouse packet in the       *)
(* middle of one would wreck the layer table" (kernel.cpp:652-655, which   *)
(* is why the other sections are wrapped in cli/sti): between two keys the *)
(* table is in order.                                                      *)
TableInOrder == at = "idle" => ZOrderOf(ctl)

=============================================================================
