---------------------------- MODULE DesktopProofs ----------------------------
(***************************************************************************)
(* The window manager for every pool of at least four sheets and every     *)
(* sequence of packets and keys: the stack stays in order with the desktop *)
(* below and the cursor on top, the taskbar's slots say which windows are  *)
(* hidden, and what follows the mouse is on the screen.                    *)
(*                                                                         *)
(* Every handler is made of four operations on the stack: showing a hidden *)
(* window below the cursor, raising a visible one to there, hiding one and *)
(* freeing one.  The first lemmas say what each of them does to the order  *)
(* of the stack and to the other sheets.                                   *)
(***************************************************************************)
EXTENDS Desktop, SheetsProofs, SequenceTheorems

(* The stack as every handler finds and leaves it.                         *)
Good(c) ==
  /\ WellFormed(c)
  /\ c.top >= 1 /\ c.sheets[0] = Back /\ c.sheets[c.top] = Cursor
  /\ c.flags \subseteq {Back, Win, Cursor, Login}

(* Whether a sheet is on the screen does not change.                       *)
SameVisible(c, d, S) == \A v \in S : d.height[v] >= 0 <=> c.height[v] >= 0

(* What the shifting loops do not renumber keeps its height, what they     *)
(* renumber is visible before and after.                                   *)
LEMMA RenumberVisible ==
  ASSUME NEW height, NEW sheets, NEW lo \in Int, NEW hi \in Int, 0 <= lo,
         NEW v \in Sheet, height[v] \in Int,
         (\E h \in lo..hi : sheets[h] = v) => height[v] >= 0
  PROVE  Renumber(height, sheets, lo, hi)[v] >= 0 <=> height[v] >= 0
<1>1. CASE \E h \in lo..hi : sheets[h] = v
  <2>1. Renumber(height, sheets, lo, hi)[v] = CHOOSE h \in lo..hi : sheets[h] = v
    BY <1>1 DEF Renumber
  <2>2. (CHOOSE h \in lo..hi : sheets[h] = v) \in lo..hi BY <1>1
  <2> QED BY <1>1, <2>1, <2>2
<1>2. CASE ~ \E h \in lo..hi : sheets[h] = v
  BY <1>2 DEF Renumber
<1> QED BY <1>1, <1>2

(* Hiding a window.                                                        *)
LEMMA HideGood ==
  ASSUME NEW c, Good(c), NEW s \in c.flags, s # Back, s # Cursor, c.height[s] >= 0
  PROVE  LET d == Hide(c, s, c.height[s])
         IN  Good(d) /\ d.flags = c.flags /\ d.height[s] = -1 /\ SameVisible(c, d, c.flags \ {s})
<1> DEFINE old == c.height[s]
           d == Hide(c, s, old)
           base == [c.height EXCEPT ![s] = -1]
<1>1. WellFormed(c) /\ c.top >= 1 /\ c.sheets[0] = Back /\ c.sheets[c.top] = Cursor
  BY DEF Good
<1>2. WellFormed(d) /\ d.height[s] = -1 /\ d.flags = c.flags BY <1>1, HideKeeps
<1>3. old \in Int /\ 0 <= old /\ old <= c.top /\ c.sheets[old] = s /\ old \in Slots
  BY <1>1, Numbers
<1>4. old # 0 /\ old # c.top BY <1>1, <1>3
<1>5. d.top = c.top - 1 /\ \A h \in Slots : d.sheets[h] = IF h \in old..c.top-1 THEN c.sheets[h+1]
                                                          ELSE c.sheets[h]
  BY <1>1 DEF Hide, WellFormed, CtlType
<1>6. 0 \in Slots /\ c.top - 1 \in Slots /\ d.top >= 1
  BY <1>1, <1>3, <1>4, <1>5, Numbers
<1>7. d.sheets[0] = Back /\ d.sheets[d.top] = Cursor
  BY <1>1, <1>3, <1>4, <1>5, <1>6, Numbers
<1>8. SameVisible(c, d, c.flags \ {s})
  <2> SUFFICES ASSUME NEW v \in c.flags \ {s} PROVE d.height[v] >= 0 <=> c.height[v] >= 0
    BY DEF SameVisible
  <2> DEFINE moved == [h \in Slots |-> IF h \in old..c.top-1 THEN c.sheets[h+1] ELSE c.sheets[h]]
  <2>1. d.height = Renumber(base, moved, old, c.top-1)
    BY <1>1 DEF Hide, WellFormed, CtlType
  <2>2. v \in Sheet /\ base[v] = c.height[v] /\ base[v] \in Int
    BY <1>1, Numbers DEF WellFormed, CtlType
  <2>3. ASSUME NEW h \in old..c.top-1, moved[h] = v PROVE c.height[v] >= 0
    <3>1. h \in Slots /\ h + 1 \in 0..c.top /\ moved[h] = c.sheets[h+1]
      BY <1>1, <1>3, <2>3, Numbers
    <3>2. c.height[c.sheets[h+1]] = h + 1 BY <1>1, <3>1, LiveSlots
    <3> QED BY <2>3, <3>1, <3>2
  <2> HIDE DEF moved, base, d
  <2>4. c.top - 1 \in Int BY <1>1, Numbers
  <2> QED BY <1>3, <2>1, <2>2, <2>3, <2>4, RenumberVisible
<1> QED BY <1>2, <1>5, <1>6, <1>7, <1>8 DEF Good

(* Showing a hidden window, right below the cursor.                        *)
LEMMA ShowGood ==
  ASSUME NEW c, Good(c), NEW s \in c.flags, c.height[s] = -1
  PROVE  LET d == Show(c, s, c.top)
         IN  /\ Good(d) /\ d.flags = c.flags /\ d.height[s] >= 0
             /\ d.top = c.top + 1 /\ SameVisible(c, d, c.flags \ {s})
<1> DEFINE d == Show(c, s, c.top)
           base == [c.height EXCEPT ![s] = c.top]
           moved == [h \in Slots |-> IF h = c.top THEN s
                                     ELSE IF h \in c.top+1..c.top+1 THEN c.sheets[h-1]
                                     ELSE c.sheets[h]]
           r == Renumber(base, moved, c.top+1, c.top+1)
<1>1. WellFormed(c) /\ c.top >= 1 /\ c.sheets[0] = Back /\ c.sheets[c.top] = Cursor
  BY DEF Good
<1>2. c.top \in Int /\ c.top + 1 \in Slots /\ c.top \in Slots /\ 0 \in Slots
  BY <1>1, RoomToShow, Numbers
<1>3. WellFormed(d) BY <1>1, <1>2, ShowKeeps
<1>8. d = [c EXCEPT !.sheets = moved, !.height = r, !.top = @ + 1] BY DEF Show
<1>9. /\ moved[0] = IF c.top = 0 THEN s ELSE c.sheets[0]
      /\ moved[c.top] = s /\ moved[c.top+1] = c.sheets[c.top]
  BY <1>1, <1>2, SMT
<1>10. ASSUME NEW h \in c.top+1..c.top+1 PROVE moved[h] = c.sheets[c.top]
  BY <1>2, <1>9, SMT
<1> HIDE DEF d, r, moved, base
<1>4. d.top = c.top + 1 /\ d.flags = c.flags /\ d.sheets = moved /\ d.height = r
  BY <1>1, <1>8 DEF WellFormed, CtlType
<1>5. d.sheets[0] = Back /\ d.sheets[c.top] = s /\ d.sheets[d.top] = Cursor
  BY <1>1, <1>2, <1>4, <1>9, SMT
<1>6. d.height[s] = c.top
  <2>1. c.top \in 0..d.top BY <1>1, <1>2, <1>4
  <2> QED BY <1>3, <1>5, <2>1, LiveSlots
<1>7. SameVisible(c, d, c.flags \ {s})
  <2> SUFFICES ASSUME NEW v \in c.flags \ {s} PROVE d.height[v] >= 0 <=> c.height[v] >= 0
    BY DEF SameVisible
  <2>1. v \in Sheet /\ base[v] = c.height[v] /\ base[v] \in Int
    BY <1>1, <1>2, Numbers DEF WellFormed, CtlType, base
  <2>2. ASSUME NEW h \in c.top+1..c.top+1, moved[h] = v PROVE c.height[v] >= 0
    <3>1. moved[h] = c.sheets[c.top] BY <1>10
    <3>2. c.top \in 0..c.top BY <1>1, <1>2
    <3>3. c.height[c.sheets[c.top]] = c.top BY <1>1, <3>2, LiveSlots
    <3>4. v = c.sheets[c.top] BY <2>2, <3>1
    <3> QED BY <1>1, <1>2, <3>3, <3>4, SMT
  <2>3. c.top + 1 \in Int /\ 0 <= c.top + 1 BY <1>1, <1>2, SMT
  <2>4. r[v] >= 0 <=> base[v] >= 0 BY <2>1, <2>2, <2>3, RenumberVisible, SMT DEF r
  <2> QED BY <1>4, <2>1, <2>4
<1> QED BY <1>1, <1>2, <1>3, <1>4, <1>5, <1>6, <1>7 DEF Good, d

(* Raising a visible window to right below the cursor.                     *)
LEMMA RaiseGood ==
  ASSUME NEW c, Good(c), NEW s \in c.flags, s # Back, c.height[s] >= 0, c.height[s] < c.top - 1
  PROVE  LET d == Raise(c, s, c.height[s], c.top - 1)
         IN  Good(d) /\ d.flags = c.flags /\ d.top = c.top /\ SameVisible(c, d, c.flags)
<1> DEFINE old == c.height[s]
           d == Raise(c, s, old, c.top - 1)
           base == [c.height EXCEPT ![s] = c.top - 1]
           moved == [h \in Slots |-> IF h = c.top - 1 THEN s
                                     ELSE IF h \in old..c.top-1-1 THEN c.sheets[h+1]
                                     ELSE c.sheets[h]]
           r == Renumber(base, moved, old, c.top-1-1)
<1>1. WellFormed(c) /\ c.top >= 1 /\ c.sheets[0] = Back /\ c.sheets[c.top] = Cursor
  BY DEF Good
<1>2. c.top \in Int /\ c.top \in Slots /\ 0 \in Slots /\ c.top - 1 \in Int /\ c.top - 1 <= c.top
      /\ old \in Int /\ 0 <= old /\ c.sheets[old] = s /\ old # 0
  BY <1>1, Numbers
<1>3. WellFormed(d) BY <1>1, <1>2, RaiseKeeps
<1>8. d = [c EXCEPT !.sheets = moved, !.height = r] BY DEF Raise
<1>9. moved[0] = c.sheets[0] /\ moved[c.top] = c.sheets[c.top]
  BY <1>1, <1>2, SMT
<1>10. ASSUME NEW h \in old..c.top-1-1 PROVE h + 1 \in 0..c.top /\ moved[h] = c.sheets[h+1]
  <2>1. h \in 0..c.top /\ h + 1 \in 0..c.top /\ h # c.top - 1 BY <1>2, SMT
  <2>2. h \in Slots BY <1>1, <2>1, Numbers
  <2> QED BY <2>1, <2>2
<1> HIDE DEF d, r, moved, base
<1>4. d.top = c.top /\ d.flags = c.flags /\ d.sheets = moved /\ d.height = r
  BY <1>1, <1>8 DEF WellFormed, CtlType
<1>5. d.sheets[0] = Back /\ d.sheets[d.top] = Cursor
  BY <1>1, <1>4, <1>9
<1>6. SameVisible(c, d, c.flags)
  <2> SUFFICES ASSUME NEW v \in c.flags PROVE d.height[v] >= 0 <=> c.height[v] >= 0
    BY DEF SameVisible
  <2>1. v \in Sheet /\ base[v] \in Int /\ (base[v] >= 0 <=> c.height[v] >= 0)
    <3>1. v \in Sheet /\ s \in Sheet /\ c.height \in [Sheet -> -1..MAX_SHEETS-1]
      BY <1>1 DEF WellFormed, CtlType
    <3>2. base[v] = IF v = s THEN c.top - 1 ELSE c.height[v] BY <3>1 DEF base
    <3>3. c.height[v] \in Int BY <3>1, <1>1, Numbers
    <3> QED BY <1>1, <1>2, <3>1, <3>2, <3>3, SMT
  <2>2. ASSUME NEW h \in old..c.top-1-1, moved[h] = v PROVE c.height[v] >= 0
    <3>1. h + 1 \in 0..c.top /\ moved[h] = c.sheets[h+1] BY <1>10
    <3>2. c.height[c.sheets[h+1]] = h + 1 BY <1>1, <3>1, LiveSlots
    <3> QED BY <2>2, <3>1, <3>2, <1>2, SMT
  <2>3. c.top-1-1 \in Int BY <1>2, SMT
  <2>4. (\E h \in old..c.top-1-1 : moved[h] = v) => base[v] >= 0 BY <2>1, <2>2
  <2>5. r[v] >= 0 <=> base[v] >= 0 BY <1>2, <2>1, <2>3, <2>4, RenumberVisible, SMT DEF r
  <2> QED BY <1>4, <2>1, <2>5
<1> QED BY <1>1, <1>3, <1>4, <1>5, <1>6 DEF Good, d

(* The cursor is on top already and stays there.                           *)
LEMMA CursorStays == ASSUME NEW c, Good(c) PROVE sheet_updown(c, Cursor, c.top) = c
<1>1. WellFormed(c) /\ c.top \in Int /\ c.top >= 1 /\ c.sheets[c.top] = Cursor
  BY Numbers DEF Good
<1>2. c.top \in 0..c.top BY <1>1
<1>3. c.height[Cursor] = c.top BY <1>1, <1>2, LiveSlots
<1>4. c.height[Cursor] \in Int /\ -1 <= c.top /\ c.top <= c.top + 1 BY <1>1, <1>3
<1> QED BY <1>1, <1>3, <1>4, UpDownIs

(* sheet_free of a window, hidden or not.                                  *)
LEMMA FreeGood ==
  ASSUME NEW c, Good(c), NEW s \in c.flags, s # Back, s # Cursor
  PROVE  LET d == sheet_free(c, s)
         IN  Good(d) /\ d.flags = c.flags \ {s} /\ SameVisible(c, d, c.flags \ {s})
<1> DEFINE hidden == IF c.height[s] >= 0 THEN sheet_updown(c, s, -1) ELSE c
           d == sheet_free(c, s)
<1>1. c.height[s] \in Int /\ -1 <= c.height[s] /\ c.top \in Int /\ -1 <= c.top /\ WellFormed(c)
      /\ s \in Sheet
  BY Numbers DEF Good
<1>2. d = [hidden EXCEPT !.flags = @ \ {s}] BY DEF sheet_free
<1>3. Good(hidden) /\ hidden.flags = c.flags /\ SameVisible(c, hidden, c.flags \ {s})
  <2>1. CASE c.height[s] >= 0
    <3>1. sheet_updown(c, s, -1) = Hide(c, s, c.height[s]) BY <1>1, <2>1, UpDownIs
    <3> QED BY <2>1, <3>1, HideGood
  <2>2. CASE ~(c.height[s] >= 0) BY <2>2 DEF SameVisible
  <2> QED BY <2>1, <2>2
<1>4. WellFormed(d) BY <1>1, FreeKeeps
<1> HIDE DEF hidden
<1>5. d.top = hidden.top /\ d.sheets = hidden.sheets /\ d.height = hidden.height
      /\ d.flags = hidden.flags \ {s}
  BY <1>2, <1>3 DEF Good, WellFormed, CtlType
<1> HIDE DEF d
<1> QED BY <1>3, <1>4, <1>5 DEF Good, SameVisible, d

(* What a click in a window does first.                                    *)
LEMMA RaisedGood ==
  ASSUME Good(ctl), NEW s \in Sheet, Under(s)
  PROVE  /\ Good(Raised(s)) /\ Raised(s).flags = ctl.flags /\ s \in ctl.flags
         /\ SameVisible(ctl, Raised(s), ctl.flags) /\ ctl.height[s] >= 0
         /\ s # Back /\ s # Cursor
<1>1. WellFormed(ctl) /\ ctl.top \in Int /\ ctl.top >= 1 /\ ctl.sheets[0] = Back
  BY Numbers DEF Good
<1>2. PICK j \in 1..ctl.top : s = ctl.sheets[j] BY DEF Under
<1>3. j \in 0..ctl.top /\ 0 \in 0..ctl.top BY <1>1, <1>2
<1>4. ctl.height[s] = j /\ s \in ctl.flags /\ s # Back BY <1>1, <1>2, <1>3, LiveSlots
<1> DEFINE up == IF ctl.height[s] < ctl.top-1 THEN sheet_updown(ctl, s, ctl.top-1) ELSE ctl
<1>6. Good(up) /\ up.flags = ctl.flags /\ SameVisible(ctl, up, ctl.flags)
  <2>1. CASE ctl.height[s] < ctl.top-1
    <3>1. sheet_updown(ctl, s, ctl.top-1) = Raise(ctl, s, ctl.height[s], ctl.top-1)
      BY <1>1, <1>2, <1>4, <2>1, UpDownIs
    <3> QED BY <1>2, <1>4, <2>1, <3>1, RaiseGood
  <2>2. CASE ~(ctl.height[s] < ctl.top-1) BY <2>2 DEF SameVisible
  <2> QED BY <2>1, <2>2
<1>7. Raised(s) = sheet_updown(up, Cursor, up.top) BY DEF Raised
<1> HIDE DEF up
<1>8. Raised(s) = up BY <1>6, <1>7, CursorStays
<1> QED BY <1>2, <1>4, <1>6, <1>8 DEF Under

-----------------------------------------------------------------------------
(* What the taskbar's slots hold, for the sheet manager c.                 *)
SlotsOk(c, w) ==
  /\ \E n \in 0..2 : w \in [1..n -> [sht : Windows, min : BOOLEAN]]
  /\ \A i \in DOMAIN w : w[i].sht \in c.flags /\ (w[i].min <=> c.height[w[i].sht] = -1)
  /\ \A i, j \in DOMAIN w : w[i].sht = w[j].sht => i = j
  /\ \A s \in Windows \cap c.flags : \E i \in DOMAIN w : w[i].sht = s

(* What may follow the mouse.                                              *)
DragOk(c, g) ==
  g # NULL => (g \in c.flags /\ c.height[g] >= 0) \/ (g = Login /\ Login \notin c.flags)

(* The inductive invariant.                                                *)
DInv ==
  /\ Good(ctl) /\ SlotsOk(ctl, g_wins) /\ DragOk(ctl, g_drag_sht)
  /\ pc # "user" <=> Login \in ctl.flags
  /\ pc # "user" => g_login_sht = Login
  /\ TaskbarCurrent

(* The sheet manager as the kernel starts with it.                         *)
LEMMA BootedGood ==
  /\ Good(Booted) /\ Booted.flags = {Back, Win, Cursor, Login}
  /\ Booted.height[Win] = 1 /\ Booted.height[Login] = 2
<1> DEFINE add(c, s, h) == sheet_updown(sheet_alloc(c), s, h)
           one == add(shtctl_init, Back, 0)
           two == add(one, Win, 1)
           three == add(two, Cursor, 2)
           four == add(three, Login, 3)
<1>1. Booted = sheet_updown(four, Cursor, four.top) BY DEF Booted
<1>2. BootedTo(shtctl_init, 0)
  BY MaxSheetsAssumption DEF BootedTo, WellFormed, CtlType, ZOrderOf, shtctl_init
<1>3. BootedTo(one, 1) BY <1>2, BootStep, DesktopAssumption
<1> HIDE DEF one
<1>4. BootedTo(two, 2) BY <1>3, BootStep, DesktopAssumption
<1> HIDE DEF two
<1>5. BootedTo(three, 3) BY <1>4, BootStep, DesktopAssumption
<1> HIDE DEF three
<1>6. BootedTo(four, 4) BY <1>5, BootStep, DesktopAssumption
<1> HIDE DEF four
<1>7. WellFormed(four) /\ four.flags = 0..3 /\ four.top = 3 /\ four.sheets[0] = 0
      /\ four.sheets[1] = 1 /\ four.sheets[2] = 2 /\ four.sheets[3] = 3
  BY <1>6 DEF BootedTo
<1>8. four.height[2] = 2 /\ 2 \in four.flags BY <1>7, LiveSlots
<1>9. Booted = Raise(four, 2, 2, 3)
  BY <1>1, <1>7, <1>8, UpDownIs, DesktopAssumption
<1>10. WellFormed(Booted) BY <1>7, <1>8, <1>9, RaiseKeeps
<1> DEFINE moved == [h \in Slots |-> IF h = 3 THEN 2
                                     ELSE IF h \in 2..3-1 THEN four.sheets[h+1] ELSE four.sheets[h]]
           r == Renumber([four.height EXCEPT ![2] = 3], moved, 2, 3-1)
<1>11. Booted = [four EXCEPT !.sheets = moved, !.height = r] BY <1>9 DEF Raise
<1>12. moved[0] = 0 /\ moved[1] = 1 /\ moved[2] = 3 /\ moved[3] = 2
  <2>1. \A h \in 0..3 : h \in Slots BY DesktopAssumption, MaxSheetsAssumption DEF Slots
  <2> QED BY <1>7, <2>1
<1> HIDE DEF moved, r
<1>13. Booted.flags = 0..3 /\ Booted.top = 3 /\ Booted.sheets = moved
  BY <1>7, <1>11 DEF WellFormed, CtlType
<1>14. Booted.height[1] = 1 /\ Booted.height[3] = 2 BY <1>10, <1>12, <1>13, LiveSlots
<1>15. {Back, Win, Cursor, Login} = 0..3 BY DesktopAssumption
<1> QED BY <1>10, <1>12, <1>13, <1>14, <1>15, DesktopAssumption DEF Good

(* The invariant holds when the main loop starts.                          *)
LEMMA InitDInv == Init => DInv
<1> SUFFICES ASSUME Init PROVE DInv OBVIOUS
<1>1. Good(ctl) /\ ctl.flags = {Back, Win, Cursor, Login} /\ ctl.height[Win] = 1
      /\ ctl.height[Login] = 2
  BY BootedGood DEF Init
<1>2. g_wins = <<[sht |-> Win, min |-> FALSE], [sht |-> Login, min |-> FALSE]>>
  BY DEF Init
<1>3. SlotsOk(ctl, g_wins)
  <2>1. g_wins \in [1..2 -> [sht : Windows, min : BOOLEAN]]
    <3> DEFINE one == [sht |-> Win, min |-> FALSE]
               two == [sht |-> Login, min |-> FALSE]
               Slot == [sht : Windows, min : BOOLEAN]
    <3>1. one \in Slot /\ two \in Slot BY DEF Windows
    <3> HIDE DEF one, two, Slot
    <3>2. <<one, two>> \in Seq(Slot) /\ Len(<<one, two>>) = 2 BY <3>1
    <3>3. <<one, two>> \in [1..2 -> Slot] BY <3>2, LenProperties
    <3> QED BY <1>2, <3>3 DEF one, two, Slot
  <2>2. DOMAIN g_wins = 1..2 BY <2>1
  <2>3. g_wins[1].sht = Win /\ g_wins[2].sht = Login /\ ~g_wins[1].min /\ ~g_wins[2].min
    BY <1>2
  <2>4. Win # Login BY DesktopAssumption
  <2> QED BY <1>1, <2>1, <2>2, <2>3, <2>4 DEF SlotsOk, Windows
<1>4. pc # "user" /\ g_login_sht = Login /\ g_drag_sht = NULL /\ TaskbarCurrent
  BY DEF Init, TaskbarCurrent
<1> QED BY <1>1, <1>3, <1>4 DEF DInv, DragOk

-----------------------------------------------------------------------------
(* A window was shown or hidden and the min flag of its slot follows it.   *)
LEMMA SlotToggled ==
  ASSUME NEW c, NEW d, Good(c), Good(d), NEW w, SlotsOk(c, w), NEW i \in DOMAIN w,
         NEW b \in BOOLEAN, d.flags = c.flags,
         SameVisible(c, d, c.flags \ {w[i].sht}), b <=> d.height[w[i].sht] = -1
  PROVE  SlotsOk(d, [w EXCEPT ![i].min = b]) /\ DOMAIN [w EXCEPT ![i].min = b] = DOMAIN w
<1> DEFINE Slot == [sht : Windows, min : BOOLEAN]
           v == [w EXCEPT ![i].min = b]
<1>1. PICK n \in 0..2 : w \in [1..n -> Slot] BY DEF SlotsOk
<1>2. DOMAIN w = 1..n BY <1>1
<1>3. v \in [1..n -> Slot] BY <1>1
<1>4. \A j \in 1..n : v[j].sht = w[j].sht /\ v[j].min = IF j = i THEN b ELSE w[j].min
  BY <1>1, <1>2
<1> HIDE DEF v
<1>5. ASSUME NEW j \in 1..n
      PROVE  v[j].sht \in d.flags /\ (v[j].min <=> d.height[v[j].sht] = -1)
  <2>1. w[j].sht \in c.flags /\ (w[j].min <=> c.height[w[j].sht] = -1)
    BY <1>2 DEF SlotsOk
  <2>2. CASE j = i BY <1>4, <2>1, <2>2
  <2>3. CASE j # i
    <3>1. w[j].sht # w[i].sht BY <1>2, <2>3 DEF SlotsOk
    <3>2. w[j].sht \in c.flags \ {w[i].sht} BY <2>1, <3>1
    <3>3. d.height[w[j].sht] >= 0 <=> c.height[w[j].sht] >= 0 BY <3>2 DEF SameVisible
    <3>4. /\ c.height[w[j].sht] \in Int /\ -1 <= c.height[w[j].sht]
          /\ d.height[w[j].sht] \in Int /\ -1 <= d.height[w[j].sht]
      BY <2>1, Numbers DEF Good
    <3>5. d.height[w[j].sht] = -1 <=> c.height[w[j].sht] = -1 BY <3>3, <3>4
    <3> QED BY <1>4, <2>1, <2>3, <3>5
  <2> QED BY <2>2, <2>3
<1>6. \A j, k \in 1..n : v[j].sht = v[k].sht => j = k BY <1>2, <1>4 DEF SlotsOk
<1>7. \A s \in Windows \cap d.flags : \E j \in 1..n : v[j].sht = s
  BY <1>2, <1>4 DEF SlotsOk
<1>8. DOMAIN v = 1..n BY <1>3
<1>9. SlotsOk(d, v) BY <1>3, <1>5, <1>6, <1>7, <1>8 DEF SlotsOk
<1> QED BY <1>2, <1>8, <1>9 DEF v

(* Nothing appeared and nothing disappeared.                               *)
LEMMA SlotsSame ==
  ASSUME NEW c, NEW d, Good(c), Good(d), NEW w, SlotsOk(c, w), d.flags = c.flags,
         SameVisible(c, d, c.flags)
  PROVE  SlotsOk(d, w)
<1>1. ASSUME NEW i \in DOMAIN w
      PROVE  w[i].sht \in d.flags /\ (w[i].min <=> d.height[w[i].sht] = -1)
  <2>1. w[i].sht \in c.flags /\ (w[i].min <=> c.height[w[i].sht] = -1) BY DEF SlotsOk
  <2>2. d.height[w[i].sht] >= 0 <=> c.height[w[i].sht] >= 0 BY <2>1 DEF SameVisible
  <2>3. /\ c.height[w[i].sht] \in Int /\ -1 <= c.height[w[i].sht]
        /\ d.height[w[i].sht] \in Int /\ -1 <= d.height[w[i].sht]
    BY <2>1, Numbers DEF Good
  <2> QED BY <2>1, <2>2, <2>3
<1> QED BY <1>1 DEF SlotsOk

(* A window that is in use has one slot.                                   *)
LEMMA OneSlot ==
  ASSUME NEW c, SlotsOk(c, g_wins), NEW s \in Windows \cap c.flags
  PROVE  \E i \in DOMAIN g_wins : g_wins[i].sht = s /\ SlotsOf(s) = {i}
<1>1. PICK i \in DOMAIN g_wins : g_wins[i].sht = s BY DEF SlotsOk
<1>2. \A j \in DOMAIN g_wins : g_wins[j].sht = s => j = i BY <1>1 DEF SlotsOk
<1> QED BY <1>1, <1>2 DEF SlotsOf

(* win_remove and sheet_free of a window.                                  *)
LEMMA SlotRemoved ==
  ASSUME NEW c, NEW d, Good(c), Good(d), SlotsOk(c, g_wins), NEW s \in Windows \cap c.flags,
         d.flags = c.flags \ {s}, SameVisible(c, d, c.flags \ {s}), win_remove(s)
  PROVE  /\ SlotsOk(d, g_wins')
         /\ g_login_sht' = IF g_login_sht = s THEN NULL ELSE g_login_sht
<1> DEFINE Slot == [sht : Windows, min : BOOLEAN]
           from(k) == IF k < SlotOf(s) THEN k ELSE k + 1
<1>1. PICK n \in 0..2 : g_wins \in [1..n -> Slot] BY DEF SlotsOk
<1>2. DOMAIN g_wins = 1..n /\ Len(g_wins) = n
  <2> HIDE DEF Slot
  <2>1. g_wins \in Seq(Slot) BY <1>1
  <2>2. DOMAIN g_wins = 1..Len(g_wins) /\ Len(g_wins) \in Nat BY <2>1, LenProperties
  <2> QED BY <1>1, <2>2
<1>3. PICK i \in 1..n : g_wins[i].sht = s /\ SlotsOf(s) = {i} BY <1>2, OneSlot
<1>4. SlotOf(s) = i BY <1>3 DEF SlotOf
<1>5. g_wins' = [k \in 1..n-1 |-> IF k < i THEN g_wins[k] ELSE g_wins[k+1]]
      /\ g_login_sht' = IF g_login_sht = s THEN NULL ELSE g_login_sht
  BY <1>2, <1>3, <1>4 DEF win_remove
<1>6. \A k \in 1..n-1 : /\ from(k) \in 1..n /\ from(k) # i
                        /\ g_wins'[k] = g_wins[from(k)]
  BY <1>3, <1>4, <1>5
<1>7. \A j, k \in 1..n-1 : from(j) = from(k) => j = k BY <1>3, <1>4
<1>8. ASSUME NEW j \in 1..n, j # i PROVE \E k \in 1..n-1 : from(k) = j
  <2>1. CASE j < i
    <3>1. j \in 1..n-1 /\ from(j) = j BY <1>3, <1>4, <2>1
    <3> QED BY <3>1
  <2>2. CASE j > i
    <3>1. j-1 \in 1..n-1 /\ from(j-1) = j BY <1>3, <1>4, <2>2
    <3> QED BY <3>1
  <2> QED BY <1>3, <1>8, <2>1, <2>2
<1>9. n-1 \in 0..2 /\ g_wins' \in [1..n-1 -> Slot] /\ DOMAIN g_wins' = 1..n-1
  BY <1>1, <1>3, <1>5
<1> HIDE DEF from
<1>10. ASSUME NEW k \in 1..n-1
       PROVE  g_wins'[k].sht \in d.flags /\ (g_wins'[k].min <=> d.height[g_wins'[k].sht] = -1)
  <2> DEFINE t == g_wins[from(k)].sht
  <2>1. from(k) \in 1..n /\ from(k) # i /\ g_wins'[k] = g_wins[from(k)] BY <1>6
  <2>2. t \in c.flags /\ (g_wins[from(k)].min <=> c.height[t] = -1)
    BY <1>2, <2>1 DEF SlotsOk
  <2>3. t # s BY <1>2, <1>3, <2>1 DEF SlotsOk
  <2> HIDE DEF t
  <2>4. t \in c.flags \ {s} /\ t \in d.flags BY <2>2, <2>3
  <2>5. d.height[t] >= 0 <=> c.height[t] >= 0 BY <2>4 DEF SameVisible
  <2>6. c.height[t] \in Int /\ -1 <= c.height[t] /\ d.height[t] \in Int /\ -1 <= d.height[t]
    BY <2>4, Numbers DEF Good
  <2>7. d.height[t] = -1 <=> c.height[t] = -1 BY <2>5, <2>6
  <2> QED BY <2>1, <2>2, <2>4, <2>7 DEF t
<1>11. \A j, k \in 1..n-1 : g_wins'[j].sht = g_wins'[k].sht => j = k
  BY <1>2, <1>6, <1>7 DEF SlotsOk
<1>12. ASSUME NEW t \in Windows \cap d.flags PROVE \E k \in 1..n-1 : g_wins'[k].sht = t
  <2>1. t \in Windows \cap c.flags /\ t # s OBVIOUS
  <2>2. PICK j \in 1..n : g_wins[j].sht = t BY <1>2, <2>1 DEF SlotsOk
  <2>3. j # i BY <1>3, <2>1, <2>2
  <2>4. PICK k \in 1..n-1 : from(k) = j BY <1>8, <2>3
  <2> QED BY <1>6, <2>2, <2>4
<1>13. SlotsOk(d, g_wins') BY <1>9, <1>10, <1>11, <1>12 DEF SlotsOk
<1> QED BY <1>5, <1>13

(* The taskbar is drawn again for as many slots as before.                 *)
LEMMA BarDrawn ==
  ASSUME TaskbarCurrent, DrawBar(g_wins'), DOMAIN g_wins' = DOMAIN g_wins
  PROVE  TaskbarCurrent'
BY DEF TaskbarCurrent, DrawBar, taskbar_paint

(* The taskbar is cleared and drawn again.                                 *)
LEMMA BarCleared == ASSUME RefreshAll(g_wins') PROVE TaskbarCurrent'
BY DEF TaskbarCurrent, RefreshAll, taskbar_paint

-----------------------------------------------------------------------------
(* At most the sheet s is shown, hidden or freed by the step.              *)
Only(s) == /\ ctl'.flags \subseteq ctl.flags /\ ctl.flags \ {s} \subseteq ctl'.flags
           /\ SameVisible(ctl, ctl', ctl.flags \ {s})

(* The login window only goes with the main loop.                          *)
LoginStays == Login \in ctl.flags \ ctl'.flags => pc = "saved" /\ pc' = "user"

(* What each step is shown to do.                                          *)
StepOk == DInv' /\ (\E s \in Sheet : Only(s)) /\ LoginStays

(* The windows are sheets of the pool.                                     *)
LEMMA WindowSheets ==
  /\ Windows \subseteq Sheet /\ Back \notin Windows /\ Cursor \notin Windows
  /\ \A c : Good(c) => c.flags \subseteq Windows \cup {Back, Cursor}
BY DesktopAssumption, MaxSheetsAssumption DEF Windows, Sheet, Good

(* A step that shows or hides s alone, and lets go of it when it hides it. *)
LEMMA DragSame ==
  ASSUME NEW c, NEW d, NEW g, NEW s, DragOk(c, g), d.flags = c.flags,
         SameVisible(c, d, c.flags \ {s}), g = s => s \in d.flags /\ d.height[s] >= 0
  PROVE  DragOk(d, g)
BY DEF DragOk, SameVisible

(* win_minimize, after the click has raised windows or not.                *)
LEMMA Minimised ==
  ASSUME DInv, NEW c, Good(c), c.flags = ctl.flags, SameVisible(ctl, c, ctl.flags),
         NEW s \in Windows, win_minimize(c, s)
  PROVE  /\ Good(ctl') /\ SlotsOk(ctl', g_wins') /\ TaskbarCurrent'
         /\ ctl'.flags = ctl.flags /\ SameVisible(ctl, ctl', ctl.flags \ {s})
         /\ SlotsOf(s) = {} \/ c.height[s] < 0 => ctl' = c
<1>1. SlotsOk(c, g_wins) /\ TaskbarCurrent BY SlotsSame DEF DInv
<1>2. CASE SlotsOf(s) = {} \/ c.height[s] < 0
  <2>1. ctl' = c /\ UNCHANGED <<g_wins, bar, screen_bar>> BY <1>2 DEF win_minimize
  <2>2. TaskbarCurrent' BY <1>1, <2>1 DEF TaskbarCurrent
  <2> QED BY <1>1, <2>1, <2>2 DEF SameVisible
<1>3. CASE ~(SlotsOf(s) = {} \/ c.height[s] < 0)
  <2>1. /\ \E i \in SlotsOf(s) : SetMin(i, TRUE)
        /\ ctl' = sheet_updown(c, s, -1) /\ DrawBar(g_wins')
    BY <1>3 DEF win_minimize
  <2>2. PICK i \in DOMAIN g_wins : g_wins[i].sht = s /\ SetMin(i, TRUE)
    BY <2>1 DEF SlotsOf
  <2>3. s \in c.flags BY <1>1, <2>2 DEF SlotsOk
  <2>4. c.height[s] \in Int /\ c.height[s] >= 0 /\ c.top \in Int /\ -1 <= c.top
    BY <1>3, <2>3, Numbers DEF Good
  <2>5. ctl' = Hide(c, s, c.height[s]) BY <2>1, <2>4, UpDownIs
  <2>6. /\ Good(ctl') /\ ctl'.flags = c.flags /\ ctl'.height[s] = -1
        /\ SameVisible(c, ctl', c.flags \ {s})
    BY <2>3, <2>4, <2>5, HideGood, WindowSheets
  <2>7. g_wins' = [g_wins EXCEPT ![i].min = TRUE] BY <2>2 DEF SetMin
  <2>8. SlotsOk(ctl', g_wins') /\ DOMAIN g_wins' = DOMAIN g_wins
    BY <1>1, <2>2, <2>6, <2>7, SlotToggled
  <2>9. TaskbarCurrent' BY <1>1, <2>1, <2>8, BarDrawn
  <2> QED BY <1>3, <2>6, <2>8, <2>9 DEF SameVisible
<1> QED BY <1>2, <1>3

(* A packet with the button up.                                            *)
LEMMA ReleaseOk == DInv /\ Release => StepOk
<1> SUFFICES ASSUME DInv, Release PROVE StepOk OBVIOUS
<1>1. UNCHANGED <<ctl, g_wins, bar, screen_bar, g_login_sht, pc>> /\ g_drag_sht' = NULL
  BY DEF Release, login
<1>2. DInv' BY <1>1 DEF DInv, DragOk, TaskbarCurrent
<1>3. Only(Login) /\ Login \in Sheet BY <1>1, WindowSheets DEF Only, SameVisible, Windows
<1> QED BY <1>1, <1>2, <1>3 DEF StepOk, LoginStays

(* Main loop: typing, and Enter.                                           *)
LEMMA TypeOk == DInv /\ (KeyName \/ KeyEnter \/ FileSaved) => StepOk
<1> SUFFICES ASSUME DInv, KeyName \/ KeyEnter \/ FileSaved PROVE StepOk OBVIOUS
<1>1. /\ UNCHANGED <<ctl, g_wins, bar, screen_bar, g_login_sht, g_drag_sht>>
      /\ pc # "user" /\ pc' # "user"
  BY DEF KeyName, KeyEnter, FileSaved, mouse
<1>2. DInv' BY <1>1 DEF DInv, DragOk, TaskbarCurrent
<1>3. Only(Login) /\ Login \in Sheet BY <1>1, WindowSheets DEF Only, SameVisible, Windows
<1> QED BY <1>1, <1>2, <1>3 DEF StepOk, LoginStays

(* A click in a window, on nothing in particular or on its title bar.      *)
LEMMA PressOk ==
  ASSUME DInv, NEW s \in Sheet, PressTitle(s) \/ PressBody(s)
  PROVE  StepOk
<1>1. /\ Under(s) /\ ctl' = Raised(s) /\ UNCHANGED <<g_wins, bar, screen_bar, g_login_sht, pc>>
      /\ g_drag_sht' \in {g_drag_sht, s}
  BY DEF PressTitle, PressBody, login, mouse
<1>2. /\ Good(ctl') /\ ctl'.flags = ctl.flags /\ s \in ctl.flags
      /\ SameVisible(ctl, ctl', ctl.flags) /\ ctl.height[s] >= 0
  BY <1>1, RaisedGood DEF DInv
<1>3. SlotsOk(ctl', g_wins') BY <1>1, <1>2, SlotsSame DEF DInv
<1>4. DragOk(ctl', g_drag_sht') BY <1>1, <1>2 DEF DInv, DragOk, SameVisible
<1>5. TaskbarCurrent' BY <1>1 DEF DInv, TaskbarCurrent
<1>6. DInv' BY <1>1, <1>2, <1>3, <1>4, <1>5 DEF DInv
<1>7. Only(s) BY <1>2 DEF Only, SameVisible
<1> QED BY <1>2, <1>6, <1>7 DEF StepOk, LoginStays

(* A click on a minimise button.                                           *)
LEMMA PressMinimizeOk ==
  ASSUME DInv, NEW s \in Sheet, PressMinimize(s)
  PROVE  StepOk
<1>1. /\ Under(s) /\ win_minimize(Raised(s), s) /\ g_drag_sht' = NULL
      /\ UNCHANGED <<g_login_sht, pc>>
  BY DEF PressMinimize, login
<1>2. /\ Good(Raised(s)) /\ Raised(s).flags = ctl.flags /\ s \in ctl.flags
      /\ SameVisible(ctl, Raised(s), ctl.flags) /\ s # Back /\ s # Cursor
  BY <1>1, RaisedGood DEF DInv
<1>3. s \in Windows BY <1>2, WindowSheets DEF DInv
<1>4. /\ Good(ctl') /\ SlotsOk(ctl', g_wins') /\ TaskbarCurrent'
      /\ ctl'.flags = ctl.flags /\ SameVisible(ctl, ctl', ctl.flags \ {s})
  BY <1>1, <1>2, <1>3, Minimised
<1>5. DInv' BY <1>1, <1>4 DEF DInv, DragOk
<1>6. Only(s) BY <1>4 DEF Only
<1> QED BY <1>4, <1>5, <1>6 DEF StepOk, LoginStays

(* Key F1.                                                                 *)
LEMMA KeyF1Ok == DInv /\ KeyF1 => StepOk
<1> SUFFICES ASSUME DInv, KeyF1 PROVE StepOk OBVIOUS
<1>1. /\ pc = "loop" /\ win_minimize(ctl, Win) /\ UNCHANGED <<g_login_sht, pc>>
      /\ IF SlotsOf(Win) # {} /\ ctl.height[Win] >= 0
           THEN DropDrag(Win) ELSE UNCHANGED g_drag_sht
  BY DEF KeyF1, login
<1>2. Good(ctl) /\ SameVisible(ctl, ctl, ctl.flags) /\ Win \in Windows /\ Win \in Sheet
  BY WindowSheets DEF DInv, SameVisible, Windows
<1>3. /\ Good(ctl') /\ SlotsOk(ctl', g_wins') /\ TaskbarCurrent'
      /\ ctl'.flags = ctl.flags /\ SameVisible(ctl, ctl', ctl.flags \ {Win})
      /\ SlotsOf(Win) = {} \/ ctl.height[Win] < 0 => ctl' = ctl
  BY <1>1, <1>2, Minimised
<1>4. DragOk(ctl', g_drag_sht')
  <2>1. CASE SlotsOf(Win) # {} /\ ctl.height[Win] >= 0
    <3>1. g_drag_sht' = IF g_drag_sht = Win THEN NULL ELSE g_drag_sht
      BY <1>1, <2>1 DEF DropDrag
    <3>2. CASE g_drag_sht = Win BY <3>1, <3>2 DEF DragOk
    <3>3. CASE g_drag_sht # Win BY <1>3, <3>1, <3>3, DragSame DEF DInv
    <3> QED BY <3>2, <3>3
  <2>2. CASE SlotsOf(Win) = {}
    BY <1>1, <1>3, <2>2 DEF DInv
  <2>3. CASE SlotsOf(Win) # {} /\ ~(ctl.height[Win] >= 0)
    <3>1. PICK i \in DOMAIN g_wins : g_wins[i].sht = Win BY <2>3 DEF SlotsOf
    <3>2. Win \in ctl.flags BY <3>1 DEF DInv, SlotsOk
    <3>3. ctl.height[Win] < 0 BY <1>2, <2>3, <3>2, Numbers DEF Good
    <3> QED BY <1>1, <1>3, <2>3, <3>3 DEF DInv
  <2> QED BY <2>1, <2>2, <2>3
<1>5. DInv' BY <1>1, <1>3, <1>4 DEF DInv
<1>6. Only(Win) BY <1>3 DEF Only
<1> QED BY <1>2, <1>3, <1>5, <1>6 DEF StepOk, LoginStays

(* A click on the taskbar button of a window that is shown.                *)
LEMMA TaskbarMinimizeOk ==
  ASSUME DInv, NEW i \in Places, TaskbarMinimize(i)
  PROVE  StepOk
<1> DEFINE s == g_wins[i].sht
<1>1. /\ i \in DOMAIN g_wins /\ ~g_wins[i].min /\ g_wins' = [g_wins EXCEPT ![i].min = TRUE]
      /\ ctl' = sheet_updown(ctl, s, -1) /\ DrawBar(g_wins')
      /\ g_drag_sht' = (IF g_drag_sht = s THEN NULL ELSE g_drag_sht)
      /\ UNCHANGED <<g_login_sht, pc>>
  BY DEF TaskbarMinimize, SetMin, DropDrag, login
<1>2. s \in Windows /\ s \in ctl.flags /\ ctl.height[s] # -1
  <2>1. PICK n \in 0..2 : g_wins \in [1..n -> [sht : Windows, min : BOOLEAN]]
    BY DEF DInv, SlotsOk
  <2> QED BY <1>1, <2>1 DEF DInv, SlotsOk
<1>3. Good(ctl) /\ SlotsOk(ctl, g_wins) /\ s \in Sheet BY <1>2, WindowSheets DEF DInv
<1>4. ctl.height[s] \in Int /\ ctl.height[s] >= 0 /\ ctl.top \in Int /\ -1 <= ctl.top
  BY <1>2, <1>3, Numbers DEF Good
<1>5. ctl' = Hide(ctl, s, ctl.height[s]) BY <1>1, <1>4, UpDownIs
<1>6. /\ Good(ctl') /\ ctl'.flags = ctl.flags /\ ctl'.height[s] = -1
      /\ SameVisible(ctl, ctl', ctl.flags \ {s})
  BY <1>2, <1>3, <1>4, <1>5, HideGood, WindowSheets
<1>7. SlotsOk(ctl', g_wins') /\ DOMAIN g_wins' = DOMAIN g_wins
  BY <1>1, <1>3, <1>6, SlotToggled
<1>8. TaskbarCurrent' BY <1>1, <1>7, BarDrawn DEF DInv
<1> HIDE DEF s
<1>9. DragOk(ctl', g_drag_sht')
  <2>1. CASE g_drag_sht = s BY <1>1, <2>1 DEF DragOk
  <2>2. CASE g_drag_sht # s BY <1>1, <1>6, <2>2, DragSame DEF DInv
  <2> QED BY <2>1, <2>2
<1>10. DInv' BY <1>1, <1>6, <1>7, <1>8, <1>9 DEF DInv
<1>11. Only(s) BY <1>6 DEF Only
<1> QED BY <1>3, <1>6, <1>10, <1>11 DEF StepOk, LoginStays

(* A click on the taskbar button of a window that is hidden.               *)
LEMMA TaskbarRestoreOk ==
  ASSUME DInv, NEW i \in Places, TaskbarRestore(i)
  PROVE  StepOk
<1> DEFINE s == g_wins[i].sht
           shown == sheet_updown(ctl, s, ctl.top)
<1>1. /\ i \in DOMAIN g_wins /\ g_wins[i].min /\ g_wins' = [g_wins EXCEPT ![i].min = FALSE]
      /\ ctl' = sheet_updown(shown, Cursor, shown.top) /\ DrawBar(g_wins')
      /\ UNCHANGED <<g_drag_sht, g_login_sht, pc>>
  <2>1. i \in DOMAIN g_wins /\ g_wins[i].min BY DEF TaskbarRestore
  <2>2. g_wins' = [g_wins EXCEPT ![i].min = FALSE] BY DEF TaskbarRestore, SetMin
  <2>3. ctl' = sheet_updown(shown, Cursor, shown.top) BY DEF TaskbarRestore
  <2>4. DrawBar(g_wins') BY DEF TaskbarRestore
  <2>5. UNCHANGED <<g_drag_sht, g_login_sht, pc>> BY DEF TaskbarRestore, mouse, login
  <2> QED BY <2>1, <2>2, <2>3, <2>4, <2>5
<1>2. s \in Windows /\ s \in ctl.flags /\ ctl.height[s] = -1
  <2>1. PICK n \in 0..2 : g_wins \in [1..n -> [sht : Windows, min : BOOLEAN]]
    BY DEF DInv, SlotsOk
  <2> QED BY <1>1, <2>1 DEF DInv, SlotsOk
<1>3. Good(ctl) /\ SlotsOk(ctl, g_wins) /\ s \in Sheet BY <1>2, WindowSheets DEF DInv
<1>4. ctl.top \in Int /\ -1 < ctl.top BY <1>3, Numbers DEF Good
<1>5. shown = Show(ctl, s, ctl.top) BY <1>2, <1>4, UpDownIs
<1>6. /\ Good(shown) /\ shown.flags = ctl.flags /\ shown.height[s] >= 0
      /\ SameVisible(ctl, shown, ctl.flags \ {s})
  BY <1>2, <1>3, <1>5, ShowGood
<1> HIDE DEF shown
<1>7. ctl' = shown BY <1>1, <1>6, CursorStays
<1>8. FALSE <=> ctl'.height[g_wins[i].sht] = -1 BY <1>2, <1>6, <1>7
<1>9. SlotsOk(ctl', g_wins') /\ DOMAIN g_wins' = DOMAIN g_wins
  <2>1. Good(ctl') /\ ctl'.flags = ctl.flags BY <1>6, <1>7
  <2>2. SameVisible(ctl, ctl', ctl.flags \ {g_wins[i].sht}) BY <1>6, <1>7
  <2>3. SlotsOk(ctl', [g_wins EXCEPT ![i].min = FALSE])
        /\ DOMAIN [g_wins EXCEPT ![i].min = FALSE] = DOMAIN g_wins
    BY <1>1, <1>3, <1>8, <2>1, <2>2, SlotToggled, Zenon
  <2> QED BY <1>1, <2>3
<1>10. TaskbarCurrent' BY <1>1, <1>9, BarDrawn DEF DInv
<1> HIDE DEF s
<1>11. DragOk(ctl', g_drag_sht') BY <1>1, <1>2, <1>6, <1>7, DragSame DEF DInv
<1>12. DInv' BY <1>1, <1>6, <1>7, <1>9, <1>10, <1>11 DEF DInv
<1>13. Only(s) BY <1>6, <1>7 DEF Only
<1> QED BY <1>3, <1>6, <1>7, <1>12, <1>13 DEF StepOk, LoginStays

(* A click on a close button.                                              *)
LEMMA PressCloseOk ==
  ASSUME DInv, NEW s \in Sheet, PressClose(s)
  PROVE  StepOk
<1>1. /\ Under(s) /\ s # g_login_sht /\ win_remove(s) /\ ctl' = sheet_free(Raised(s), s)
      /\ RefreshAll(g_wins') /\ g_drag_sht' = NULL /\ pc' = pc
  BY DEF PressClose, Closable, win_closed
<1>2. /\ Good(Raised(s)) /\ Raised(s).flags = ctl.flags /\ s \in ctl.flags
      /\ SameVisible(ctl, Raised(s), ctl.flags) /\ s # Back /\ s # Cursor
  BY <1>1, RaisedGood DEF DInv
<1>3. s \in Windows BY <1>2, WindowSheets DEF DInv
<1>4. /\ Good(ctl') /\ ctl'.flags = ctl.flags \ {s}
      /\ SameVisible(Raised(s), ctl', ctl.flags \ {s})
  BY <1>1, <1>2, FreeGood
<1>5. SlotsOk(Raised(s), g_wins) BY <1>2, SlotsSame DEF DInv
<1>6. /\ SlotsOk(ctl', g_wins')
      /\ g_login_sht' = IF g_login_sht = s THEN NULL ELSE g_login_sht
  BY <1>1, <1>2, <1>3, <1>4, <1>5, SlotRemoved
<1>7. TaskbarCurrent' BY <1>1, BarCleared
<1>8. pc # "user" => s # Login BY <1>1 DEF DInv
<1>9. Login \in ctl'.flags <=> Login \in ctl.flags BY <1>4, <1>8 DEF DInv
<1>10. DInv' BY <1>1, <1>4, <1>6, <1>7, <1>9 DEF DInv, DragOk
<1>11. Only(s) BY <1>2, <1>4 DEF Only, SameVisible
<1> QED BY <1>9, <1>10, <1>11 DEF StepOk, LoginStays

(* The main loop leaves for user mode.                                     *)
LEMMA EnterUserOk == DInv /\ EnterUser => StepOk
<1> SUFFICES ASSUME DInv, EnterUser PROVE StepOk OBVIOUS
<1>1. /\ pc = "saved" /\ pc' = "user" /\ win_remove(Login)
      /\ ctl' = sheet_free(ctl, Login) /\ RefreshAll(g_wins') /\ g_drag_sht' = g_drag_sht
  BY DEF EnterUser, mouse
<1>2. Login \in Windows /\ Login \in ctl.flags /\ Login # Back /\ Login # Cursor
  BY <1>1, DesktopAssumption DEF DInv, Windows
<1>3. /\ Good(ctl') /\ ctl'.flags = ctl.flags \ {Login}
      /\ SameVisible(ctl, ctl', ctl.flags \ {Login})
  BY <1>1, <1>2, FreeGood DEF DInv
<1>4. SlotsOk(ctl', g_wins')
  BY <1>1, <1>2, <1>3, SlotRemoved DEF DInv
<1>5. TaskbarCurrent' BY <1>1, BarCleared
<1>6. DragOk(ctl', g_drag_sht') BY <1>1, <1>3 DEF DInv, DragOk, SameVisible
<1>7. DInv' BY <1>1, <1>3, <1>4, <1>5, <1>6 DEF DInv
<1>8. Only(Login) /\ Login \in Sheet BY <1>2, <1>3, WindowSheets DEF Only
<1> QED BY <1>1, <1>7, <1>8 DEF StepOk, LoginStays

-----------------------------------------------------------------------------
(* Every packet and every step of the main loop.                           *)
LEMMA StepIsOk == DInv /\ Next => StepOk
<1> SUFFICES ASSUME DInv, Next PROVE StepOk OBVIOUS
<1>1. CASE Release BY <1>1, ReleaseOk
<1>2. CASE \E i \in Places : TaskbarRestore(i) \/ TaskbarMinimize(i)
  BY <1>2, TaskbarRestoreOk, TaskbarMinimizeOk
<1>3. CASE \E s \in Sheet : PressClose(s) \/ PressMinimize(s) \/ PressTitle(s) \/ PressBody(s)
  BY <1>3, PressCloseOk, PressMinimizeOk, PressOk
<1>4. CASE MainLoop
  <2>1. CASE KeyF1 BY <2>1, KeyF1Ok
  <2>2. CASE KeyName \/ KeyEnter \/ FileSaved BY <2>2, TypeOk
  <2>3. CASE EnterUser BY <2>3, EnterUserOk
  <2> QED BY <1>4, <2>1, <2>2, <2>3 DEF MainLoop
<1> QED BY <1>1, <1>2, <1>3, <1>4 DEF Next, Packet

(* The invariant of the window manager.                                    *)
LEMMA DesktopInvariant == Spec => []DInv
<1>1. DInv /\ [Next]_vars => DInv'
  <2>1. CASE Next BY <2>1, StepIsOk DEF StepOk
  <2>2. DInv /\ UNCHANGED vars => DInv'
    BY DEF vars, DInv, DragOk, TaskbarCurrent
  <2> QED BY <2>1, <2>2
<1> QED BY <1>1, InitDInv, PTL DEF Spec

(* Whatever the mouse and the keyboard do, with any pool of at least four  *)
(* sheets: the z-order stays consistent, the desktop below and the cursor  *)
(* on top (window.h:209-253, kernel.cpp:908-910).                          *)
THEOREM DesktopStack == Spec => []StackInOrder
<1>1. DInv => StackInOrder BY DEF DInv, Good, WellFormed, StackInOrder
<1> QED BY <1>1, DesktopInvariant, PTL

(* Every window has one taskbar button, and its min flag is right          *)
(* (kernel.cpp:239-247, 254-290).                                          *)
THEOREM DesktopSlots == Spec => []SlotsMatchStack
<1>1. DInv => SlotsMatchStack
  <2> SUFFICES ASSUME DInv PROVE SlotsMatchStack OBVIOUS
  <2>1. ASSUME NEW s \in Windows \cap ctl.flags PROVE Cardinality(SlotsOf(s)) = 1
    <3>1. \E i \in DOMAIN g_wins : SlotsOf(s) = {i} BY OneSlot DEF DInv
    <3> QED BY <3>1, FS_Singleton
  <2> QED BY <2>1 DEF SlotsMatchStack, DInv, SlotsOk
<1> QED BY <1>1, DesktopInvariant, PTL

(* What follows the mouse is on the screen (isr.h:56-66, 84-101).          *)
THEOREM DesktopDrag == Spec => []DragTargetLive
<1>1. DInv => DragTargetLive
  BY DEF DInv, DragOk, DragTargetLive, Visible
<1> QED BY <1>1, DesktopInvariant, PTL

(* The taskbar shows the slots (kernel.cpp:211-227, window.h:303-325).     *)
THEOREM DesktopTaskbar == Spec => []TaskbarCurrent
<1>1. DInv => TaskbarCurrent BY DEF DInv
<1> QED BY <1>1, DesktopInvariant, PTL

(* No click, key or login step takes two windows off the screen, none      *)
(* brings a destroyed one back (isr.h:80-101, kernel.cpp:972-982).         *)
THEOREM DesktopOneGoes == Spec => OneWindowGoes
<1> DEFINE A == /\ \A s, t \in Windows : Gone(s) /\ Gone(t) => s = t
                /\ ctl'.flags \subseteq ctl.flags
                /\ Login \in ctl.flags \ ctl'.flags => pc = "saved" /\ pc' = "user"
<1>1. DInv /\ [Next]_vars => [A]_vars
  <2> SUFFICES ASSUME DInv, Next PROVE A OBVIOUS
  <2>1. StepOk BY StepIsOk
  <2>2. PICK u \in Sheet : Only(u) BY <2>1 DEF StepOk
  <2>3. ASSUME NEW s \in Windows, Gone(s) PROVE s = u
    BY <2>2, <2>3 DEF Gone, Visible, Only, SameVisible
  <2> QED BY <2>1, <2>2, <2>3 DEF StepOk, LoginStays, Only
<1> QED BY <1>1, DesktopInvariant, PTL DEF Spec, OneWindowGoes

=============================================================================
