------------------------------ MODULE Desktop -------------------------------
(***************************************************************************)
(* The window manager: the mouse interrupt isr2c (kernel/sys/isr.h) and    *)
(* the main loop of kernel/kernel.cpp, which share the sheet manager, the  *)
(* window slots g_wins[] behind the taskbar buttons and the drag state.    *)
(*                                                                         *)
(* A mouse packet is one interrupt and is atomic, and so is each section   *)
(* of the main loop between cli and sti.  Which sheet and which part of it *)
(* the pointer meets is an input: geometry and pixels are in Compositor.   *)
(* The F1 key, which the main loop handles with interrupts enabled, is     *)
(* atomic here; SheetRace looks inside it.                                 *)
(***************************************************************************)
EXTENDS Sheets, Sequences

CONSTANTS Back, Win, Cursor, Login,   \* sids in the order of allocation
          MaxName                     \* characters login_buf takes (31)

ASSUME DesktopAssumption ==
  /\ MAX_SHEETS >= 4 /\ Back = 0 /\ Win = 1 /\ Cursor = 2 /\ Login = 3
  /\ MaxName \in Nat \ {0}

Windows == {Win, Login}
Places  == 1..4                       \* g_wins[4]: taskbar button places
NoButton == [sht |-> NULL, min |-> FALSE]

VARIABLES
  ctl,          \* the sheet manager
  g_wins,       \* g_wins[0..g_wincnt-1]: the sheet and its min flag
  g_login_sht,  \* the login sheet, null once it is gone
  dragging,     \* g_mmx >= 0: the button went down in a title bar
  g_drag_sht,   \* the sheet that follows the mouse
  bar,          \* taskbar buttons in the back sheet's buffer ...
  screen_bar,   \* ... and on the screen
  login_len,    \* characters typed
  pc            \* main loop: "loop", "saving", "saved" (login file), "user"

vars == <<ctl, g_wins, g_login_sht, dragging, g_drag_sht, bar, screen_bar,
          login_len, pc>>
mouse == <<dragging, g_drag_sht>>
login == <<g_login_sht, login_len, pc>>

-----------------------------------------------------------------------------
(* taskbar_paint: one button per slot; it erases nothing.                  *)
taskbar_paint(old, wins) ==
  [i \in Places |-> IF i \in DOMAIN wins THEN wins[i] ELSE old[i]]

(* taskbar_draw, and sheet_refresh of the strip of the back sheet.         *)
DrawBar(wins) == /\ bar' = taskbar_paint(bar, wins)
                 /\ screen_bar' = bar'

(* Mutant: buttons are painted over the old ones.                          *)
RefreshAll_NoClear(wins) == DrawBar(wins)

(* shtctl_refresh_all clears the back buffer before the buttons are        *)
(* painted, and shows everything.                                          *)
RefreshAll(wins) == /\ bar' = taskbar_paint([i \in Places |-> NoButton], wins)
                    /\ screen_bar' = bar'

SlotsOf(s) == {i \in DOMAIN g_wins : g_wins[i].sht = s}

(* Mutant: the slot does not learn that its window was hidden or shown.    *)
SetMin_Forgotten(i, min) == UNCHANGED g_wins

SetMin(i, min) == g_wins' = [g_wins EXCEPT ![i].min = min]

(* Mutant: a window that is hidden while it is dragged stays the target.   *)
DropDrag_Kept(s) == UNCHANGED g_drag_sht

DropDrag(s) == g_drag_sht' = IF g_drag_sht = s THEN NULL ELSE g_drag_sht

(* win_minimize(s) on the sheet manager c.                                 *)
win_minimize(c, s) ==
  IF SlotsOf(s) = {} \/ c.height[s] < 0
    THEN ctl' = c /\ UNCHANGED <<g_wins, bar, screen_bar>>
    ELSE /\ \E i \in SlotsOf(s) : SetMin(i, TRUE)
         /\ ctl' = sheet_updown(c, s, -1)
         /\ DrawBar(g_wins')

(* win_remove(s): the slots behind its first slot move up.                 *)
SlotOf(s) == CHOOSE i \in SlotsOf(s) : \A j \in SlotsOf(s) : i <= j

win_remove(s) ==
  /\ g_wins' = IF SlotsOf(s) = {} THEN g_wins
               ELSE [k \in 1..Len(g_wins)-1 |->
                       IF k < SlotOf(s) THEN g_wins[k] ELSE g_wins[k+1]]
  /\ g_login_sht' = IF SlotsOf(s) # {} /\ g_login_sht = s THEN NULL ELSE g_login_sht

(* win_closed(s) on the sheet manager c.                                   *)
win_closed(c, s) ==
  /\ win_remove(s)
  /\ ctl' = sheet_free(c, s)
  /\ RefreshAll(g_wins')

-----------------------------------------------------------------------------
(* Boot (kernel.cpp:599-703): sheets allocated, shown and registered.      *)
Booted ==
  LET add(c, s, h) == sheet_updown(sheet_alloc(c), s, h)
      four == add(add(add(add(shtctl_init, Back, 0), Win, 1), Cursor, 2), Login, 3)
  IN  sheet_updown(four, Cursor, four.top)

Init ==
  /\ ctl = Booted
  /\ g_wins = <<[sht |-> Win, min |-> FALSE], [sht |-> Login, min |-> FALSE]>>
  /\ g_login_sht = Login
  /\ dragging = FALSE /\ g_drag_sht = NULL
  /\ bar = taskbar_paint([i \in Places |-> NoButton], g_wins)
  /\ screen_bar = bar
  /\ login_len = 0 /\ pc = "loop"

-----------------------------------------------------------------------------
(* isr2c: a packet with the left button up.                                *)
Release == /\ dragging' = FALSE /\ g_drag_sht' = NULL
           /\ UNCHANGED <<ctl, g_wins, bar, screen_bar, login>>

(* isr2c: button down on the taskbar: taskbar_click on the i-th button.    *)
TaskbarRestore(i) ==
  /\ ~dragging /\ i \in DOMAIN g_wins /\ g_wins[i].min
  /\ SetMin(i, FALSE)
  /\ LET shown == sheet_updown(ctl, g_wins[i].sht, ctl.top)
     IN  ctl' = sheet_updown(shown, Cursor, shown.top)
  /\ DrawBar(g_wins')
  /\ UNCHANGED <<mouse, login>>

TaskbarMinimize(i) ==
  /\ ~dragging /\ i \in DOMAIN g_wins /\ ~g_wins[i].min
  /\ SetMin(i, TRUE)
  /\ ctl' = sheet_updown(ctl, g_wins[i].sht, -1)
  /\ DropDrag(g_wins[i].sht)
  /\ DrawBar(g_wins')
  /\ UNCHANGED <<dragging, login>>

(* Mutant: the window goes on top and the cursor is not put back.          *)
Raised_NoCursor(s) == sheet_updown(ctl, s, ctl.top)

(* isr2c: button down inside sheet s, neither the back sheet (j > 0) nor   *)
(* the cursor: it is raised to just below the cursor, then its close       *)
(* button, its minimise button and its title bar are tried in this order.  *)
(* The login window has no close button; the title bar extends under it.   *)
Raised(s) ==
  LET up == IF ctl.height[s] < ctl.top-1 THEN sheet_updown(ctl, s, ctl.top-1) ELSE ctl
  IN  sheet_updown(up, Cursor, up.top)

Under(s) == /\ ~dragging
            /\ s # Cursor /\ s \in {ctl.sheets[j] : j \in 1..ctl.top}

(* Mutant: every window has a close button.                                *)
Closable_All(s) == TRUE

Closable(s) == s # g_login_sht

PressClose(s) ==
  /\ Under(s) /\ Closable(s)
  /\ win_closed(Raised(s), s)
  /\ dragging' = FALSE /\ g_drag_sht' = NULL
  /\ UNCHANGED <<login_len, pc>>

PressMinimize(s) ==
  /\ Under(s)
  /\ win_minimize(Raised(s), s)
  /\ dragging' = FALSE /\ g_drag_sht' = NULL
  /\ UNCHANGED login

PressTitle(s) ==
  /\ Under(s)
  /\ ctl' = Raised(s)
  /\ dragging' = TRUE /\ g_drag_sht' = s
  /\ UNCHANGED <<g_wins, bar, screen_bar, login>>

PressBody(s) ==
  /\ Under(s)
  /\ ctl' = Raised(s)
  /\ UNCHANGED <<g_wins, bar, screen_bar, mouse, login>>

Packet == \/ Release
          \/ \E i \in Places : TaskbarRestore(i) \/ TaskbarMinimize(i)
          \/ \E s \in Sheet : PressClose(s) \/ PressMinimize(s)
                              \/ PressTitle(s) \/ PressBody(s)

-----------------------------------------------------------------------------
(* Main loop, key F1.                                                      *)
KeyF1 == /\ pc = "loop"
         /\ win_minimize(ctl, Win)
         /\ IF SlotsOf(Win) # {} /\ ctl.height[Win] >= 0
              THEN DropDrag(Win) ELSE UNCHANGED g_drag_sht
         /\ UNCHANGED <<dragging, login>>

CanType == login_len < MaxName

(* Main loop, a key that is a character or Backspace.                      *)
KeyName == /\ pc = "loop"
           /\ \/ login_len > 0 /\ login_len' = login_len - 1
              \/ CanType /\ login_len' = login_len + 1
           /\ UNCHANGED <<ctl, g_wins, bar, screen_bar, mouse, g_login_sht, pc>>

(* Main loop, Enter: the login file is written with interrupts enabled;    *)
(* nothing says when exfat_write_file comes back, and its result is        *)
(* ignored ...                                                             *)
KeyEnter == /\ pc = "loop" /\ pc' = "saving"
            /\ UNCHANGED <<ctl, g_wins, bar, screen_bar, mouse, g_login_sht,
                           login_len>>

FileSaved == /\ pc = "saving" /\ pc' = "saved"
             /\ UNCHANGED <<ctl, g_wins, bar, screen_bar, mouse, g_login_sht,
                            login_len>>

(* ... then the login window is torn down and user mode entered, after     *)
(* which only interrupts run kernel code.                                  *)
EnterUser ==
  /\ pc = "saved" /\ pc' = "user"
  /\ win_remove(Login)
  /\ ctl' = sheet_free(ctl, Login)
  /\ RefreshAll(g_wins')
  /\ UNCHANGED <<mouse, login_len>>

MainLoop == KeyF1 \/ KeyName \/ KeyEnter \/ FileSaved \/ EnterUser

Next == Packet \/ MainLoop

Spec == Init /\ [][Next]_vars

-----------------------------------------------------------------------------
(* Every handler calls sheet_updown with heights that exist, so the stack  *)
(* stays ordered, with the desktop below and the cursor above all windows: *)
(* "cursor top is handled in the click handler only" (kernel.cpp:908-910). *)
StackInOrder == /\ ZOrderOf(ctl)
                /\ ctl.top >= 1
                /\ ctl.sheets[0] = Back /\ ctl.sheets[ctl.top] = Cursor

(* Every window in use has exactly one taskbar button, and the min flag of *)
(* its slot, which decides what the next click on the button does, says    *)
(* whether it is really hidden (kernel.cpp:239-247, 254-290).              *)
SlotsMatchStack ==
  /\ \A s \in Windows \cap ctl.flags : Cardinality(SlotsOf(s)) = 1
  /\ \A i \in DOMAIN g_wins :
       /\ g_wins[i].sht \in ctl.flags
       /\ g_wins[i].min <=> ctl.height[g_wins[i].sht] = -1

(* A sheet that follows the mouse is on the screen.  One case is left: the *)
(* login window destroyed under the mouse (EnterUser does not clear        *)
(* g_drag_sht), where sheet_slide moves a free, hidden sheet.              *)
DragTargetLive ==
  g_drag_sht # NULL =>
    \/ g_drag_sht \in Visible(ctl)
    \/ pc = "user" /\ g_drag_sht = Login /\ Login \notin ctl.flags

(* The taskbar on the screen shows the slots: a button per window, dark    *)
(* when it is minimised, and none left of a window that is gone            *)
(* (kernel.cpp:211-227, window.h:303-325).                                 *)
TaskbarCurrent ==
  /\ screen_bar = bar
  /\ bar = taskbar_paint([i \in Places |-> NoButton], g_wins)

(* One click, key or login step takes at most one window off the screen,   *)
(* raising or removing others only shifts them; a window that is destroyed *)
(* never comes back, and the login window is only destroyed by the step    *)
(* that leaves the main loop (isr.h:80-101, kernel.cpp:972-982).           *)
Gone(s) == s \in Visible(ctl) /\ s \notin Visible(ctl)'

OneWindowGoes ==
  [][/\ \A s, t \in Windows : Gone(s) /\ Gone(t) => s = t
     /\ ctl'.flags \subseteq ctl.flags
     /\ Login \in ctl.flags \ ctl'.flags => pc = "saved" /\ pc' = "user"]_vars

=============================================================================
