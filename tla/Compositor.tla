----------------------------- MODULE Compositor -----------------------------
(***************************************************************************)
(* How the sheets reach the screen: sheet_refreshmap, sheet_refreshsub and *)
(* their callers in kernel/window/window.h, driven the way isr2c, the      *)
(* taskbar and the main loop drive them (kernel/sys/isr.h, kernel.cpp).    *)
(*                                                                         *)
(* A display is a record: the sheet manager ctl (module Sheets), pos (vx0, *)
(* vy0 of every sheet), map (the sid that owns a screen pixel) and vram    *)
(* (whose pixel the framebuffer shows, and by how many shadows it was      *)
(* darkened since it was last drawn).  A sheet's buffer is its shape: for  *)
(* each local pixel whether it is opaque, part of the drop shadow (high    *)
(* byte set) or transparent (col_inv).                                     *)
(***************************************************************************)
EXTENDS Sheets, FiniteSetsExt

CONSTANTS XSIZE, YSIZE,  \* the screen
          SHAPE,         \* SHAPE[s][<<x, y>>]: kind of a pixel of sheet s
          BootPos,       \* where the boot code puts each sheet
          Positions,     \* where windows and cursor may be moved to
          MaxDark,       \* darkening at which a colour component reaches 0
          Win, Login,    \* the two windows, both with a shadow
          Cursor, Back,  \* the mouse cursor, the desktop background
          Strip          \* screen pixels refreshed for taskbar and clock

Kinds == {"opaque", "shadow", "clear"}
Cell  == (0..XSIZE-1) \X (0..YSIZE-1)

ASSUME CompositorAssumption ==
  /\ XSIZE \in Nat \ {0} /\ YSIZE \in Nat \ {0} /\ MaxDark \in Nat \ {0}
  /\ Back = 0 /\ Win = 1 /\ Cursor = 2 /\ Login = 3 /\ MAX_SHEETS >= 4
  /\ SHAPE[Back] = [p \in Cell |-> "opaque"]
  /\ BootPos \in [Sheet -> Int \X Int] /\ BootPos[Back] = <<0, 0>>
  /\ Positions \subseteq Int \X Int
  /\ Strip \subseteq Cell

Windows == {Win, Login}

(* g_shadow_shts[0..g_shadow_cnt-1], in the order of registration.         *)
g_shadow_shts == <<Win, Login>>

-----------------------------------------------------------------------------
(* The screen pixels of a sheet's rectangle, not yet clipped.              *)
Rect(d, s) == {<<d.pos[s][1] + q[1], d.pos[s][2] + q[2]>> : q \in DOMAIN SHAPE[s]}

Kind(d, s, p) ==
  LET q == <<p[1] - d.pos[s][1], p[2] - d.pos[s][2]>>
  IN  IF q \in DOMAIN SHAPE[s] THEN SHAPE[s][q] ELSE "clear"

At(d, h) == d.ctl.sheets[h]

(* Mutant: shadow pixels are registered too.                               *)
Registers_Shadow(d, s, p) == Kind(d, s, p) # "clear"

(* Which pixels of a sheet are registered in map.                          *)
Registers(d, s, p) == Kind(d, s, p) = "opaque"

(* sheet_refreshmap: in the area, from height h0 up, the highest sheet     *)
(* with an opaque pixel is written last; a pixel that no such sheet covers *)
(* keeps its old owner.                                                    *)
sheet_refreshmap(d, area, h0) ==
  LET owners(p) == {h \in h0..d.ctl.top : Registers(d, At(d, h), p)}
  IN  [d EXCEPT !.map =
        [p \in Cell |-> IF p \in area /\ owners(p) # {}
                          THEN At(d, Max(owners(p))) ELSE d.map[p]]]

(* Each shadow takes a step off the colour, down to zero.                  *)
Darken(dark, shades) == Min({MaxDark, dark + shades})

(* sheet_refreshsub: from h0 up to h1, a sheet draws the pixels map says   *)
(* are its own, and darkens what the framebuffer holds wherever it has a   *)
(* shadow pixel, whoever owns it.                                          *)
sheet_refreshsub(d, area, h0, h1) ==
  LET drawn(p) == {h \in h0..h1 : d.map[p] = At(d, h) /\ p \in Rect(d, At(d, h))}
      start(p) == IF drawn(p) = {} THEN h0 ELSE Max(drawn(p)) + 1
      shades(p) == Cardinality({h \in start(p)..h1 :
                                  Kind(d, At(d, h), p) = "shadow"})
      pixel(p) == IF drawn(p) = {} THEN d.vram[p]
                  ELSE [own |-> d.map[p], dark |-> 0]
      result(p) == [own  |-> pixel(p).own,
                    dark |-> Darken(pixel(p).dark, shades(p))]
  IN  [d EXCEPT !.vram = [p \in Cell |-> IF p \in area THEN result(p) ELSE d.vram[p]]]

(* Mutant: the sheet right below is left out.                              *)
Below_OffByOne(h) == h - 2

(* Where a sheet of height h leaves, the sheets below it are redrawn.      *)
Below(h) == h - 1

(* sheet_updown with the refresh of each of its branches.                  *)
updown(d, s, height) ==
  LET old == d.ctl.height[s]
      new == Clamp(d.ctl, height)
      m   == [d EXCEPT !.ctl = sheet_updown(d.ctl, s, height)]
      r   == Rect(d, s)
  IN  IF old > new
        THEN IF new >= 0
               THEN sheet_refreshsub(sheet_refreshmap(m, r, new+1), r, new+1, old)
               ELSE sheet_refreshsub(sheet_refreshmap(m, r, 0), r, 0, Below(old))
      ELSE IF old < new
        THEN sheet_refreshsub(sheet_refreshmap(m, r, new), r, new, new)
      ELSE d

(* Mutant: the new place is drawn before the old one is uncovered.         *)
sheet_slide_Swapped(d, s, to) ==
  LET h    == d.ctl.height[s]
      m    == [d EXCEPT !.pos[s] = to]
      maps == sheet_refreshmap(sheet_refreshmap(m, Rect(d, s), 0), Rect(m, s), h)
  IN  IF h < 0 THEN m
      ELSE sheet_refreshsub(sheet_refreshsub(maps, Rect(m, s), h, h),
                            Rect(d, s), 0, Below(h))

(* sheet_slide: both places are registered, the old one is uncovered, then *)
(* the sheet is drawn at the new one.                                      *)
sheet_slide(d, s, to) ==
  LET h    == d.ctl.height[s]
      m    == [d EXCEPT !.pos[s] = to]
      from == Rect(d, s)
      goal == Rect(m, s)
      maps == sheet_refreshmap(sheet_refreshmap(m, from, 0), goal, h)
  IN  IF h < 0 THEN m
      ELSE sheet_refreshsub(sheet_refreshsub(maps, from, 0, Below(h)), goal, h, h)

(* sheet_refresh: the sheet draws the area, and every other visible shadow *)
(* window whose rectangle meets the area is drawn again as a whole.        *)
sheet_refresh(d, s, area) ==
  LET h == d.ctl.height[s]
      redraw(e, g) ==
        IF g # s /\ e.ctl.height[g] >= 0 /\ Rect(e, g) \cap area # {}
          THEN sheet_refreshsub(e, Rect(e, g), e.ctl.height[g], e.ctl.height[g])
          ELSE e
  IN  IF h < 0 THEN d
      ELSE redraw(redraw(sheet_refreshsub(d, area, h, h), g_shadow_shts[1]), g_shadow_shts[2])

(* Mutant: the back sheet is skipped.                                      *)
shtctl_refresh_all_SkipsBack(d) ==
  LET m == sheet_refreshmap(d, Cell, 0) IN sheet_refreshsub(m, Cell, 1, m.ctl.top)

(* shtctl_refresh_all: everything from the back sheet up, everywhere.      *)
shtctl_refresh_all(d) ==
  LET m == sheet_refreshmap(d, Cell, 0) IN sheet_refreshsub(m, Cell, 0, m.ctl.top)

(* sheet_free with the refresh that hiding the sheet does.                 *)
free(d, s) ==
  LET hidden == updown(d, s, -1)
  IN  [hidden EXCEPT !.ctl.flags = @ \ {s}]

-----------------------------------------------------------------------------
(* The boot code (kernel.cpp:599-696): each sheet takes the next free slot *)
(* of the pool, is put in place and shown; map is zeroed static storage    *)
(* and the framebuffer already shows the bare desktop.                     *)
place(d, s) ==
  [d EXCEPT !.ctl = sheet_alloc(d.ctl),
            !.pos = [t \in Sheet |-> IF t = s THEN BootPos[s] ELSE d.pos[t]]]

Bare ==
  [ctl  |-> shtctl_init,
   pos  |-> [s \in Sheet |-> <<0, 0>>],
   map  |-> [p \in Cell |-> 0],
   vram |-> [p \in Cell |-> [own |-> Back, dark |-> 0]]]

BackShown   == updown(place(Bare, Back), Back, 0)
WinShown    == updown(place(BackShown, Win), Win, 1)
CursorShown == shtctl_refresh_all(updown(place(WinShown, Cursor), Cursor, 2))
LoginShown  == updown(place(CursorShown, Login), Login, 3)
Booted      == shtctl_refresh_all(updown(LoginShown, Cursor, LoginShown.ctl.top))

VARIABLE display
vars == <<display>>

Init == display = Booted

height == display.ctl.height
top    == display.ctl.top

(* Every mouse packet ends with the cursor following the mouse             *)
(* (isr.h:116-122).                                                        *)
CursorFollows(d) == \E to \in Positions : display' = sheet_slide(d, Cursor, to)

MoveCursor == CursorFollows(display)

(* A press inside a window brings it to just below the cursor              *)
(* (isr.h:80-85).                                                          *)
Raised(d, s) ==
  LET up == IF d.ctl.height[s] < d.ctl.top-1 THEN updown(d, s, d.ctl.top-1) ELSE d
  IN  updown(up, Cursor, up.ctl.top)

Click(s) == height[s] >= 0 /\ CursorFollows(Raised(display, s))

(* A packet in drag mode: the window just below the cursor, then the       *)
(* cursor (isr.h:108-112).                                                 *)
Drag(s) ==
  /\ height[s] = top-1
  /\ \E to \in Positions : CursorFollows(sheet_slide(display, s, to))

(* The main loop runs until the login, which never returns to it.          *)
MainLoop == Login \in display.ctl.flags

(* Minimising from the title bar, from the taskbar, and with the F1 key of *)
(* the main loop, which moves no cursor (kernel.cpp:239-247, 254-268, 942).*)
Hidden(d, s) == sheet_refresh(updown(d, s, -1), Back, Strip)

Minimize(s) ==
  /\ height[s] >= 0
  /\ \/ CursorFollows(Hidden(Raised(display, s), s))
     \/ CursorFollows(Hidden(display, s))
     \/ s = Win /\ MainLoop /\ display' = Hidden(display, s)

(* A minimised window comes back from the taskbar (kernel.cpp:236-239).    *)
Restore(s) ==
  /\ s \in display.ctl.flags /\ height[s] < 0
  /\ LET shown == updown(display, s, top)
     IN  CursorFollows(sheet_refresh(updown(shown, Cursor, shown.ctl.top),
                                     Back, Strip))

(* The close button of the WinDOS window, and the end of the login, which  *)
(* destroys the login window (kernel.cpp:274-279, 974-976).                *)
Close == /\ height[Win] >= 0
         /\ CursorFollows(shtctl_refresh_all(free(Raised(display, Win), Win)))

LoginDone == /\ MainLoop
             /\ display' = shtctl_refresh_all(free(display, Login))

(* The clock is drawn into the taskbar once per second (kernel.cpp:921-935)*)
ClockTick == /\ MainLoop
             /\ display' = sheet_refresh(display, Back, Strip)

(* The input box of the login window is redrawn after a key: a region of   *)
(* opaque pixels of that window (kernel.cpp:1001-1003).                    *)
InputBox(d) == {p \in Rect(d, Login) : Kind(d, Login, p) = "opaque"}

TypeKey == /\ MainLoop
           /\ display' = sheet_refresh(display, Login, InputBox(display))

Next == \/ MoveCursor \/ Close \/ LoginDone \/ ClockTick \/ TypeKey
        \/ \E s \in Windows : Click(s) \/ Drag(s) \/ Minimize(s) \/ Restore(s)

Spec == Init /\ [][Next]_vars

-----------------------------------------------------------------------------
(* The painter's algorithm, the definition the incremental code is         *)
(* measured against: a pixel belongs to the highest visible sheet that is  *)
(* opaque there, and each visible shadow above the owner darkens it once.  *)
TopOwner(d, p) ==
  At(d, Max({h \in 0..d.ctl.top : Kind(d, At(d, h), p) = "opaque"}))

ShadowsOn(d, p) ==
  Cardinality({h \in 0..d.ctl.top : /\ Kind(d, At(d, h), p) = "shadow"
                                    /\ h > d.ctl.height[TopOwner(d, p)]})

(* map is always what the painter's algorithm computes from scratch,       *)
(* although every operation only revisits the rectangles it touches and    *)
(* starts at the height it thinks is enough (window.h:221, 230, 250, 289). *)
MapIsPainter == \A p \in Cell : display.map[p] = TopOwner(display, p)

(* No pixel of a hidden, moved or covered sheet stays on the screen: the   *)
(* framebuffer shows a pixel of the sheet map names (window.h:222, 231,    *)
(* 251, 291-292).                                                          *)
ScreenShowsOwners == \A p \in Cell : display.vram[p].own = display.map[p]

(* "pixel = lower layer - depth x step" (window.h:184).                    *)
ExactPicture(d) ==
  \A p \in Cell : d.vram[p] = [own  |-> TopOwner(d, p),
                               dark |-> Min({MaxDark, ShadowsOn(d, p)})]

(* Moving the cursor or dragging the window below it neither wipes out a   *)
(* shadow nor darkens anything twice (window.h:180, 283-294): an exact     *)
(* picture stays exact.                                                    *)
DragKeepsPicture ==
  [][(MoveCursor \/ \E s \in Windows : Drag(s)) /\ ExactPicture(display)
       => ExactPicture(display')]_vars

(* A full refresh repairs whatever the partial ones did to the shadows     *)
(* (window.h:310-325): after the login window is destroyed the picture is  *)
(* exact.                                                                  *)
FullRefreshRepairs == [][LoginDone => ExactPicture(display')]_vars

=============================================================================
