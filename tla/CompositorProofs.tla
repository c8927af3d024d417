-------------------------- MODULE CompositorProofs --------------------------
(***************************************************************************)
(* The screen, for every size of it, every shape of the windows and of the *)
(* cursor, every place they are moved to and every sequence of the         *)
(* kernel's calls: map names the highest opaque sheet of every pixel, the  *)
(* framebuffer shows that sheet's pixel, and a full refresh makes the      *)
(* shadows exact.                                                          *)
(*                                                                         *)
(* The code never computes a pixel's owner afresh: each operation goes     *)
(* through one rectangle, from the height it thinks is enough.  The lemmas *)
(* about sheet_updown and sheet_slide say why it is enough: where the pass *)
(* does not reach, the owner before is the owner after.                    *)
(***************************************************************************)
EXTENDS Compositor, SheetsProofs

(* x is the highest visible sheet that is opaque at p.                     *)
IsTop(d, p, x) ==
  /\ x \in Visible(d.ctl) /\ Kind(d, x, p) = "opaque"
  /\ \A t \in Visible(d.ctl) : Kind(d, t, p) = "opaque" =>
                                 d.ctl.height[t] <= d.ctl.height[x]

(* The stack as every operation finds and leaves it.                       *)
Stacked(c) ==
  /\ WellFormed(c) /\ c.top >= 1
  /\ {Back, Cursor} \subseteq c.flags /\ c.flags \subseteq {Back, Win, Cursor, Login}
  /\ c.height[Back] = 0 /\ c.height[Cursor] = c.top
  /\ \A s \in Windows : c.height[s] >= 0 => s \in c.flags

Shaped(d) == d = [ctl |-> d.ctl, pos |-> d.pos, map |-> d.map, vram |-> d.vram]

Placed(d) == d.pos \in [Sheet -> Int \X Int] /\ d.pos[Back] = <<0, 0>>

(* Everything but the picture.                                             *)
Frame(d) == Shaped(d) /\ Stacked(d.ctl) /\ Placed(d)

(* The inductive invariant.                                                *)
Painted(d) == \A p \in Cell : IsTop(d, p, d.map[p]) /\ d.vram[p].own = d.map[p]
Sound(d)   == Frame(d) /\ Painted(d)

-----------------------------------------------------------------------------
(* A nonempty set of heights has a highest one.                            *)
LEMMA Highest ==
  ASSUME NEW n \in Int, NEW S \in SUBSET (0..n), S # {}
  PROVE  Max(S) \in S /\ \A y \in S : y <= Max(S)
<1> DEFINE F == {n - h : h \in S}
<1>1. F \subseteq Nat /\ F # {}
  <2>1. \A h \in S : n - h \in Nat
    OBVIOUS
  <2>2. PICK h \in S : TRUE
    OBVIOUS
  <2>3. n - h \in F
    OBVIOUS
  <2> QED
    BY <2>1, <2>3
<1>2. PICK m \in F : \A t \in F : m <= t
  BY <1>1, LeastNat
<1>3. PICK x \in S : m = n - x
  BY <1>2
<1>4. \A y \in S : x >= y
  <2> TAKE y \in S
  <2>1. m <= n - y
    BY <1>2
  <2> QED
    BY <1>3, <2>1
<1>5. Max(S) \in S /\ \A y \in S : Max(S) >= y
  BY <1>3, <1>4 DEF Max
<1> QED
  BY <1>5

(* The sids of the four sheets.                                            *)
LEMMA Sids ==
  /\ Back \in Sheet /\ Win \in Sheet /\ Cursor \in Sheet /\ Login \in Sheet
  /\ Back # Win /\ Back # Cursor /\ Back # Login /\ Win # Cursor /\ Win # Login /\ Cursor # Login
  /\ Windows \subseteq Sheet /\ MAX_SHEETS \in Nat /\ MAX_SHEETS >= 4
BY CompositorAssumption, MaxSheetsAssumption DEF Sheet, Windows

(* A visible sheet is found at its height, and only one is there.          *)
LEMMA AtHeight ==
  ASSUME NEW d, WellFormed(d.ctl)
  PROVE  /\ \A x \in Visible(d.ctl) : /\ x \in Sheet /\ d.ctl.height[x] \in 0..d.ctl.top
                                      /\ At(d, d.ctl.height[x]) = x
         /\ \A h \in 0..d.ctl.top : At(d, h) \in Visible(d.ctl) /\ d.ctl.height[At(d, h)] = h
<1>1. \A x \in Visible(d.ctl) : /\ x \in Sheet /\ d.ctl.height[x] \in 0..d.ctl.top
                                /\ d.ctl.sheets[d.ctl.height[x]] = x
  BY Numbers DEF Visible
<1>2. \A h \in 0..d.ctl.top : d.ctl.sheets[h] \in Visible(d.ctl) /\ d.ctl.height[d.ctl.sheets[h]] = h
  BY LiveSlots DEF Visible
<1> QED
  BY <1>1, <1>2 DEF At

(* The highest opaque sheet is unique.                                     *)
LEMMA OneTop ==
  ASSUME NEW d, WellFormed(d.ctl), NEW p, NEW x, NEW y, IsTop(d, p, x), IsTop(d, p, y)
  PROVE  x = y
<1>1. x \in Visible(d.ctl) /\ y \in Visible(d.ctl)
  BY DEF IsTop
<1>2. d.ctl.height[x] <= d.ctl.height[y] /\ d.ctl.height[y] <= d.ctl.height[x]
  BY DEF IsTop
<1>3. d.ctl.height[x] \in Int /\ d.ctl.height[y] \in Int
  BY <1>1, AtHeight
<1>4. d.ctl.height[x] = d.ctl.height[y]
  BY <1>2, <1>3
<1> QED
  BY <1>1, <1>4, AtHeight

(* Opaque pixels and shadow pixels are in the rectangle.                   *)
LEMMA OpaqueInside ==
  ASSUME NEW d, Placed(d), NEW s \in Sheet, NEW p \in Cell, Kind(d, s, p) # "clear"
  PROVE  p \in Rect(d, s)
<1> DEFINE q == <<p[1] - d.pos[s][1], p[2] - d.pos[s][2]>>
<1>1. q \in DOMAIN SHAPE[s]
  BY DEF Kind
<1>2. p[1] \in Int /\ p[2] \in Int /\ p = <<p[1], p[2]>>
  BY CompositorAssumption DEF Cell
<1>3. d.pos[s][1] \in Int /\ d.pos[s][2] \in Int
  BY DEF Placed
<1>4. d.pos[s][1] + q[1] = p[1] /\ d.pos[s][2] + q[2] = p[2]
  BY <1>2, <1>3
<1> QED
  BY <1>1, <1>2, <1>4 DEF Rect

(* The back sheet is opaque everywhere on the screen.                      *)
LEMMA BackEverywhere ==
  ASSUME NEW d, Frame(d), NEW p \in Cell
  PROVE  Back \in Visible(d.ctl) /\ Kind(d, Back, p) = "opaque"
<1>1. Back \in Visible(d.ctl)
  BY DEF Frame, Stacked, Visible
<1>2. d.pos[Back][1] = 0 /\ d.pos[Back][2] = 0
  BY DEF Frame, Placed
<1>3. p[1] \in Int /\ p[2] \in Int /\ p = <<p[1], p[2]>>
  BY CompositorAssumption DEF Cell
<1>4. <<p[1] - d.pos[Back][1], p[2] - d.pos[Back][2]>> = p
  BY <1>2, <1>3
<1>5. SHAPE[Back] = [c \in Cell |-> "opaque"]
  BY CompositorAssumption
<1> QED
  BY <1>1, <1>4, <1>5 DEF Kind

(* What a pixel looks like depends on the place of the sheet alone.        *)
LEMMA SameKind ==
  ASSUME NEW d, NEW e, NEW s, e.pos[s] = d.pos[s]
  PROVE  Rect(e, s) = Rect(d, s) /\ \A p : Kind(e, s, p) = Kind(d, s, p)
BY DEF Rect, Kind

(* ... and who is on top on the stack and the places.                      *)
LEMMA SameTop ==
  ASSUME NEW d, NEW e, e.pos = d.pos, e.ctl = d.ctl
  PROVE  /\ \A p, x : IsTop(e, p, x) <=> IsTop(d, p, x)
         /\ \A s : Rect(e, s) = Rect(d, s) /\ \A p : Kind(e, s, p) = Kind(d, s, p)
         /\ \A h : At(e, h) = At(d, h)
<1>1. \A s : Rect(e, s) = Rect(d, s) /\ \A p : Kind(e, s, p) = Kind(d, s, p)
  BY SameKind
<1>2. \A p, x : IsTop(e, p, x) <=> IsTop(d, p, x)
  BY <1>1 DEF IsTop
<1> QED
  BY <1>1, <1>2 DEF At

-----------------------------------------------------------------------------
(* sheet_refreshmap (window.h:101-131).                                    *)
LEMMA MapParts ==
  ASSUME NEW d, Shaped(d), NEW area, NEW h0
  PROVE  LET e == sheet_refreshmap(d, area, h0)
         IN  Shaped(e) /\ e.ctl = d.ctl /\ e.pos = d.pos /\ e.vram = d.vram
<1> DEFINE e == sheet_refreshmap(d, area, h0)
           new == e.map
<1>1. e = [d EXCEPT !.map = new]
  BY DEF sheet_refreshmap, Shaped
<1> HIDE DEF e, new
<1>2. Shaped(e) /\ e.ctl = d.ctl /\ e.pos = d.pos /\ e.vram = d.vram
  BY <1>1 DEF Shaped
<1> QED
  BY <1>2 DEF e

(* Either the pixel gets its owner, which is at h0 or above, or it keeps   *)
(* the one it had because none of those sheets is opaque there.            *)
LEMMA MapPixel ==
  ASSUME NEW d, Shaped(d), WellFormed(d.ctl), NEW area, NEW h0 \in Nat, NEW p \in Cell
  PROVE  LET x == sheet_refreshmap(d, area, h0).map[p]
         IN  \/ p \in area /\ IsTop(d, p, x) /\ d.ctl.height[x] >= h0
             \/ /\ x = d.map[p]
                /\ p \in area => \A t \in Visible(d.ctl) :
                                   Kind(d, t, p) = "opaque" => d.ctl.height[t] < h0
<1> DEFINE owners == {h \in h0..d.ctl.top : Registers(d, At(d, h), p)}
           x == sheet_refreshmap(d, area, h0).map[p]
<1>1. x = IF p \in area /\ owners # {} THEN At(d, Max(owners)) ELSE d.map[p]
  BY DEF sheet_refreshmap, Shaped
<1>2. d.ctl.top \in Int
  BY Numbers
<1>3. \A t \in Visible(d.ctl) : Kind(d, t, p) = "opaque" /\ d.ctl.height[t] >= h0
                                  => d.ctl.height[t] \in owners
  BY <1>2, AtHeight DEF Registers
<1>4. CASE p \in area /\ owners # {}
  <2>1. owners \in SUBSET (0..d.ctl.top)
    BY <1>2
  <2> DEFINE m == Max(owners)
  <2>2. m \in owners /\ \A y \in owners : y <= m
    BY <1>2, <1>4, <2>1, Highest
  <2>3. m \in 0..d.ctl.top /\ m >= h0 /\ Kind(d, At(d, m), p) = "opaque"
    BY <1>2, <2>2 DEF Registers
  <2>4. x = At(d, m)
    BY <1>1, <1>4
  <2> HIDE DEF owners, m, x
  <2>5. x \in Visible(d.ctl) /\ d.ctl.height[x] = m /\ Kind(d, x, p) = "opaque"
    BY <2>3, <2>4, AtHeight
  <2>6. ASSUME NEW t \in Visible(d.ctl), Kind(d, t, p) = "opaque"
        PROVE  d.ctl.height[t] <= m
    <3>1. d.ctl.height[t] \in Int
      BY AtHeight
    <3> QED
      BY <1>3, <2>2, <2>3, <2>6, <3>1
  <2> QED
    BY <1>4, <2>3, <2>5, <2>6 DEF IsTop, x
<1>5. CASE ~(p \in area /\ owners # {})
  <2>1. x = d.map[p]
    BY <1>1, <1>5
  <2>2. ASSUME p \in area, NEW t \in Visible(d.ctl), Kind(d, t, p) = "opaque"
        PROVE  d.ctl.height[t] < h0
    <3>1. d.ctl.height[t] \in Int
      BY AtHeight
    <3>2. ~(d.ctl.height[t] >= h0)
      BY <1>3, <1>5, <2>2
    <3> QED
      BY <3>1, <3>2
  <2> QED
    BY <2>1, <2>2
<1> QED
  BY <1>4, <1>5

(* From the back sheet up every pixel of the area gets its owner.          *)
LEMMA MapFromBack ==
  ASSUME NEW d, Frame(d), NEW area, NEW p \in Cell
  PROVE  LET x == sheet_refreshmap(d, area, 0).map[p]
         IN  IF p \in area THEN IsTop(d, p, x) ELSE x = d.map[p]
<1>1. Shaped(d) /\ WellFormed(d.ctl)
  BY DEF Frame, Stacked
<1>2. Back \in Visible(d.ctl) /\ Kind(d, Back, p) = "opaque"
  BY BackEverywhere
<1>3. d.ctl.height[Back] \in 0..d.ctl.top /\ d.ctl.top \in Int
  BY <1>1, <1>2, AtHeight, Numbers
<1>4. ~(d.ctl.height[Back] < 0)
  BY <1>3
<1> HIDE DEF sheet_refreshmap
<1> QED
  BY <1>1, <1>2, <1>4, MapPixel

(* The pixel's owner is among the sheets from h0 up to h1 and draws it.    *)
DrawnBy(d, p, h0, h1) ==
  \E h \in h0..h1 : d.map[p] = At(d, h) /\ p \in Rect(d, At(d, h))

(* sheet_refreshsub (window.h:133-195) writes nothing but the screen, and  *)
(* a pixel changes its owner only to the one map names.                    *)
LEMMA SubPixel ==
  ASSUME NEW d, Shaped(d), NEW area, NEW h0, NEW h1
  PROVE  LET e == sheet_refreshsub(d, area, h0, h1)
         IN  /\ Shaped(e) /\ e.ctl = d.ctl /\ e.pos = d.pos /\ e.map = d.map
             /\ \A p \in Cell :
                  e.vram[p].own = IF p \in area /\ DrawnBy(d, p, h0, h1)
                                  THEN d.map[p] ELSE d.vram[p].own
<1> DEFINE e == sheet_refreshsub(d, area, h0, h1)
           drawn(p) == {h \in h0..h1 : d.map[p] = At(d, h) /\ p \in Rect(d, At(d, h))}
           start(p) == IF drawn(p) = {} THEN h0 ELSE Max(drawn(p)) + 1
           shades(p) == Cardinality({h \in start(p)..h1 :
                                       Kind(d, At(d, h), p) = "shadow"})
           pixel(p) == IF drawn(p) = {} THEN d.vram[p]
                       ELSE [own |-> d.map[p], dark |-> 0]
           result(p) == [own  |-> pixel(p).own,
                         dark |-> Darken(pixel(p).dark, shades(p))]
<1>1. e = [d EXCEPT !.vram = [p \in Cell |-> IF p \in area THEN result(p) ELSE d.vram[p]]]
  BY DEF sheet_refreshsub
<1> HIDE DEF e, shades, start
<1>2. Shaped(e) /\ e.ctl = d.ctl /\ e.pos = d.pos /\ e.map = d.map
  BY <1>1 DEF Shaped
<1>3. ASSUME NEW p \in Cell
      PROVE  e.vram[p] = IF p \in area THEN result(p) ELSE d.vram[p]
  BY <1>1 DEF Shaped
<1>4. ASSUME NEW p \in Cell
      PROVE  e.vram[p].own = IF p \in area /\ drawn(p) # {} THEN d.map[p] ELSE d.vram[p].own
  <2>1. result(p).own = pixel(p).own
    OBVIOUS
  <2>2. pixel(p).own = IF drawn(p) = {} THEN d.vram[p].own ELSE d.map[p]
    OBVIOUS
  <2> HIDE DEF result, pixel, drawn
  <2> QED
    BY <1>3, <2>1, <2>2
<1>5. \A p \in Cell : drawn(p) # {} <=> DrawnBy(d, p, h0, h1)
  BY DEF DrawnBy
<1> HIDE DEF drawn
<1> QED
  BY <1>2, <1>4, <1>5 DEF e

-----------------------------------------------------------------------------
(* A change of the stack moves one sheet and keeps the order of the rest.  *)
OthersKept(c, k, s) ==
  /\ Visible(k) \ {s} = Visible(c) \ {s}
  /\ \A t, x \in Visible(c) \ {s} : c.height[t] <= c.height[x] <=> k.height[t] <= k.height[x]

(* Replacing the stack or the places leaves the picture.                   *)
LEMMA NewStack ==
  ASSUME NEW d, Shaped(d), NEW k
  PROVE  LET m == [d EXCEPT !.ctl = k]
         IN  Shaped(m) /\ m.ctl = k /\ m.pos = d.pos /\ m.map = d.map /\ m.vram = d.vram
BY DEF Shaped

(* A sheet that is not opaque at p is out of the comparison: the others    *)
(* stand to each other as before.                                          *)
LEMMA TopMoves ==
  ASSUME NEW d, NEW m, NEW s, NEW p, NEW x, OthersKept(d.ctl, m.ctl, s), m.pos = d.pos,
         Kind(d, s, p) # "opaque", IsTop(d, p, x)
  PROVE  IsTop(m, p, x)
<1>1. \A t : Kind(m, t, p) = Kind(d, t, p)
  BY SameKind
<1>2. x \in Visible(d.ctl) \ {s} /\ Kind(m, x, p) = "opaque"
  BY <1>1 DEF IsTop
<1>3. ASSUME NEW t \in Visible(m.ctl), Kind(m, t, p) = "opaque"
      PROVE  m.ctl.height[t] <= m.ctl.height[x]
  <2>1. t \in Visible(d.ctl) \ {s} /\ Kind(d, t, p) = "opaque"
    BY <1>1, <1>3 DEF OthersKept
  <2>2. d.ctl.height[t] <= d.ctl.height[x]
    BY <2>1 DEF IsTop
  <2> QED
    BY <1>2, <2>1, <2>2 DEF OthersKept
<1> QED
  BY <1>2, <1>3 DEF OthersKept, IsTop

(* An owner that is now above s, and was, is the owner it was.             *)
LEMMA TopWas ==
  ASSUME NEW d, NEW m, WellFormed(d.ctl), NEW s, NEW p, NEW x,
         OthersKept(d.ctl, m.ctl, s), m.pos = d.pos, IsTop(m, p, x), x # s,
         s \in Visible(d.ctl) => d.ctl.height[s] <= d.ctl.height[x]
  PROVE  IsTop(d, p, x)
<1>1. \A t : Kind(m, t, p) = Kind(d, t, p)
  BY SameKind
<1>2. x \in Visible(d.ctl) \ {s} /\ Kind(d, x, p) = "opaque"
  BY <1>1 DEF IsTop, OthersKept
<1>3. ASSUME NEW t \in Visible(d.ctl) \ {s}, Kind(d, t, p) = "opaque"
      PROVE  d.ctl.height[t] <= d.ctl.height[x]
  <2>1. t \in Visible(m.ctl) /\ Kind(m, t, p) = "opaque"
    BY <1>1, <1>3 DEF OthersKept
  <2>2. m.ctl.height[t] <= m.ctl.height[x]
    BY <2>1 DEF IsTop
  <2> QED
    BY <1>2, <1>3, <2>2 DEF OthersKept
<1> QED
  BY <1>2, <1>3 DEF IsTop

(* A sheet that comes up is registered and drawn from its own height on:   *)
(* what is above it now was above it before (window.h:234-252).            *)
LEMMA LiftPaints ==
  ASSUME NEW d, Sound(d), NEW k, WellFormed(k), NEW s \in Visible(k), OthersKept(d.ctl, k, s),
         \A t \in Visible(d.ctl) \ {s} :
           k.height[t] > k.height[s] => d.ctl.height[t] >= d.ctl.height[s]
  PROVE  LET m == [d EXCEPT !.ctl = k]
             r == Rect(d, s)
             h == k.height[s]
         IN  Painted(sheet_refreshsub(sheet_refreshmap(m, r, h), r, h, h))
<1> DEFINE m == [d EXCEPT !.ctl = k]
           r == Rect(d, s)
           new == k.height[s]
           mp == sheet_refreshmap(m, r, new)
           e == sheet_refreshsub(mp, r, new, new)
<1>1. Shaped(d) /\ Placed(d) /\ WellFormed(d.ctl) /\ Painted(d)
  BY DEF Sound, Frame, Stacked
<1>2. Shaped(m) /\ m.ctl = k /\ m.pos = d.pos /\ m.map = d.map /\ m.vram = d.vram
  BY <1>1, NewStack
<1> HIDE DEF m
<1>3. s \in Sheet /\ new \in Nat /\ At(m, new) = s
  <2>1. WellFormed(m.ctl) /\ s \in Visible(m.ctl) /\ new = m.ctl.height[s]
    BY <1>2
  <2>2. s \in Sheet /\ new \in 0..m.ctl.top /\ m.ctl.top \in Int /\ At(m, new) = s
    BY <2>1, AtHeight, Numbers
  <2> QED
    BY <2>2
<1> HIDE DEF new
<1>4. Shaped(mp) /\ mp.ctl = k /\ mp.pos = d.pos /\ mp.vram = d.vram
  BY <1>2, MapParts
<1>5. At(mp, new) = s /\ Rect(mp, s) = r
  BY <1>2, <1>3, <1>4, SameKind DEF At
<1> HIDE DEF mp
<1>6. /\ e.ctl = k /\ e.pos = d.pos /\ e.map = mp.map
      /\ \A p \in Cell : e.vram[p].own = IF p \in r /\ DrawnBy(mp, p, new, new)
                                         THEN mp.map[p] ELSE mp.vram[p].own
  BY <1>4, SubPixel
<1> HIDE DEF e
<1>7. ASSUME NEW p \in Cell
      PROVE  IsTop(e, p, e.map[p]) /\ e.vram[p].own = e.map[p]
  <2> DEFINE x == mp.map[p]
             y == d.map[p]
  <2>1. IsTop(d, p, y) /\ d.vram[p].own = y
    BY <1>1 DEF Painted
  <2>2. \/ p \in r /\ IsTop(m, p, x) /\ m.ctl.height[x] >= new
        \/ x = m.map[p] /\ (p \in r => \A t \in Visible(m.ctl) :
                                         Kind(m, t, p) = "opaque" => m.ctl.height[t] < new)
    BY <1>2, <1>3, MapPixel DEF mp
  <2>3. IsTop(m, p, x) /\ (x = y \/ (x = s /\ p \in r))
    <3>1. CASE p \in r /\ IsTop(m, p, x) /\ k.height[x] >= new
      <4>1. ASSUME x # s PROVE IsTop(d, p, x)
        <5>1. x \in Visible(k)
          BY <1>2, <3>1 DEF IsTop
        <5>2. k.height[x] \in Int /\ At(m, k.height[x]) = x
          BY <1>2, <5>1, AtHeight
        <5>3. k.height[x] > new
          BY <1>3, <3>1, <4>1, <5>2
        <5>4. x \in Visible(d.ctl) \ {s}
          BY <4>1, <5>1 DEF OthersKept
        <5>5. d.ctl.height[x] >= d.ctl.height[s]
          BY <5>3, <5>4 DEF new
        <5>6. d.ctl.height[x] \in Int /\ d.ctl.height[s] \in Int
          BY <1>1, <1>3, <5>4, Numbers, AtHeight
        <5> QED
          BY <1>1, <1>2, <3>1, <4>1, <5>5, <5>6, TopWas
      <4> QED
        BY <1>1, <2>1, <3>1, <4>1, OneTop
    <3>2. CASE x = m.map[p] /\ (p \in r => \A t \in Visible(m.ctl) :
                                           Kind(m, t, p) = "opaque" => m.ctl.height[t] < new)
      <4>1. Kind(d, s, p) # "opaque"
        <5> SUFFICES ASSUME Kind(d, s, p) = "opaque" PROVE FALSE
          OBVIOUS
        <5>1. p \in r
          BY <1>1, <1>3, OpaqueInside
        <5>2. Kind(m, s, p) = "opaque"
          BY <1>2, SameKind
        <5>3. new < new
          BY <1>2, <3>2, <5>1, <5>2 DEF new
        <5> QED
          BY <1>3, <5>3
      <4> QED
        BY <1>2, <2>1, <3>2, <4>1, TopMoves
    <3> QED
      BY <1>2, <2>2, <3>1, <3>2
  <2>4. IsTop(e, p, x)
    BY <1>2, <1>6, <2>3, SameTop
  <2>5. e.vram[p].own = IF p \in r /\ x = s THEN x ELSE y
    <3>1. new..new = {new}
      BY <1>3
    <3>2. DrawnBy(mp, p, new, new) <=> x = s /\ p \in r
      BY <1>5, <3>1 DEF DrawnBy
    <3> QED
      BY <1>4, <1>6, <2>1, <3>2
  <2> QED
    BY <1>6, <2>3, <2>4, <2>5
<1> QED
  BY <1>7 DEF Painted, e, mp, m, new

(* Where a sheet leaves, every pixel of its rectangle gets a new owner,    *)
(* and those that were below it are drawn: one that was above it is on the *)
(* screen already (window.new:224-232).                                      *)
LEMMA HidePaints ==
  ASSUME NEW d, Sound(d), NEW k, WellFormed(k), NEW s \in Visible(d.ctl), s \notin Visible(k),
         OthersKept(d.ctl, k, s), Stacked(k),
         \A t \in Visible(d.ctl) \ {s} :
           k.height[t] >= d.ctl.height[s] => d.ctl.height[t] >= d.ctl.height[s]
  PROVE  LET m == [d EXCEPT !.ctl = k]
             r == Rect(d, s)
         IN  Painted(sheet_refreshsub(sheet_refreshmap(m, r, 0), r, 0, Below(d.ctl.height[s])))
<1> DEFINE m == [d EXCEPT !.ctl = k]
           r == Rect(d, s)
           old == d.ctl.height[s]
           mp == sheet_refreshmap(m, r, 0)
           e == sheet_refreshsub(mp, r, 0, Below(old))
<1>1. Shaped(d) /\ Placed(d) /\ WellFormed(d.ctl) /\ Painted(d)
  BY DEF Sound, Frame, Stacked
<1>2. Shaped(m) /\ m.ctl = k /\ m.pos = d.pos /\ m.map = d.map /\ m.vram = d.vram
  BY <1>1, NewStack
<1>3. s \in Sheet /\ old \in Int /\ 0 <= old
  BY <1>1, AtHeight, Numbers
<1> HIDE DEF m, old
<1>4. Frame(m)
  BY <1>1, <1>2 DEF Frame, Placed
<1>5. Shaped(mp) /\ mp.ctl = k /\ mp.pos = d.pos /\ mp.vram = d.vram
  BY <1>2, MapParts
<1>6. ASSUME NEW p \in Cell
      PROVE  IF p \in r THEN IsTop(m, p, mp.map[p]) ELSE mp.map[p] = d.map[p]
  BY <1>2, <1>4, MapFromBack
<1> HIDE DEF mp
<1>7. /\ e.ctl = k /\ e.pos = d.pos /\ e.map = mp.map
      /\ \A p \in Cell : e.vram[p].own = IF p \in r /\ DrawnBy(mp, p, 0, Below(old))
                                         THEN mp.map[p] ELSE mp.vram[p].own
  BY <1>5, SubPixel
<1> HIDE DEF e
<1>8. ASSUME NEW p \in Cell
      PROVE  IsTop(e, p, e.map[p]) /\ e.vram[p].own = e.map[p]
  <2> DEFINE x == mp.map[p]
             y == d.map[p]
  <2>1. IsTop(d, p, y) /\ d.vram[p].own = y
    BY <1>1 DEF Painted
  <2>2. CASE p \in r
    <3>1. IsTop(m, p, x) /\ x \in Visible(k) /\ x # s
      BY <1>2, <1>6, <2>2 DEF IsTop
    <3>2. x \in Sheet /\ k.height[x] \in 0..k.top /\ k.top \in Int /\ At(mp, k.height[x]) = x
      BY <1>5, <3>1, AtHeight, Numbers
    <3>3. CASE k.height[x] < old
      <4>1. k.height[x] \in 0..Below(old)
        BY <1>3, <3>2, <3>3 DEF Below
      <4>2. p \in Rect(mp, x)
        <5>1. Placed(mp)
          BY <1>1, <1>5 DEF Placed
        <5>2. Kind(m, x, p) = "opaque"
          BY <3>1 DEF IsTop
        <5>3. mp.pos[x] = m.pos[x]
          BY <1>2, <1>5
        <5>4. Kind(mp, x, p) = Kind(m, x, p)
          BY <5>3, SameKind
        <5> QED
          BY <3>2, <5>1, <5>2, <5>4, OpaqueInside
      <4>3. DrawnBy(mp, p, 0, Below(old))
        BY <3>2, <4>1, <4>2 DEF DrawnBy
      <4> QED
        BY <1>2, <1>7, <2>2, <3>1, <4>3, SameTop
    <3>4. CASE ~(k.height[x] < old)
      <4>1. k.height[x] >= old
        BY <1>3, <3>2, <3>4
      <4>2. x \in Visible(d.ctl) \ {s}
        BY <3>1 DEF OthersKept
      <4>3. d.ctl.height[x] >= d.ctl.height[s]
        BY <4>1, <4>2 DEF old
      <4>4. d.ctl.height[x] \in Int /\ d.ctl.height[s] \in Int
        BY <1>1, <4>2, AtHeight
      <4>5. IsTop(d, p, x)
        BY <1>1, <1>2, <3>1, <4>3, <4>4, TopWas
      <4>6. x = y
        BY <1>1, <2>1, <4>5, OneTop
      <4> QED
        BY <1>2, <1>5, <1>7, <2>1, <3>1, <4>6, SameTop
    <3> QED
      BY <3>3, <3>4
  <2>3. CASE p \notin r
    <3>1. Kind(d, s, p) # "opaque"
      BY <1>1, <1>3, <2>3, OpaqueInside
    <3>2. IsTop(m, p, y)
      BY <1>2, <2>1, <3>1, TopMoves
    <3> QED
      BY <1>2, <1>5, <1>6, <1>7, <2>1, <2>3, <3>2, SameTop
  <2> QED
    BY <2>2, <2>3
<1> QED
  BY <1>8 DEF Painted, e, mp, m, old

(* sheet_slide (window.h:273-295): the old place from the back sheet up,   *)
(* the new one from the sheet's own height up.                             *)
LEMMA SlidePaints ==
  ASSUME NEW d, Sound(d), NEW s \in Visible(d.ctl), s # Back, NEW to \in Int \X Int
  PROVE  /\ Sound(sheet_slide(d, s, to)) /\ sheet_slide(d, s, to).ctl = d.ctl
<1> DEFINE old == d.ctl.height[s]
           m == [d EXCEPT !.pos[s] = to]
           from == Rect(d, s)
           goal == Rect(m, s)
           m1 == sheet_refreshmap(m, from, 0)
           m2 == sheet_refreshmap(m1, goal, old)
           e1 == sheet_refreshsub(m2, from, 0, Below(old))
           e == sheet_refreshsub(e1, goal, old, old)
<1>1. Shaped(d) /\ Placed(d) /\ Stacked(d.ctl) /\ WellFormed(d.ctl) /\ Painted(d)
  BY DEF Sound, Frame, Stacked
<1>2. /\ Shaped(m) /\ m.ctl = d.ctl /\ m.map = d.map /\ m.vram = d.vram
      /\ m.pos = [d.pos EXCEPT ![s] = to]
  BY <1>1 DEF Shaped
<1>3. s \in Sheet /\ old \in Nat /\ old \in 0..d.ctl.top /\ At(d, old) = s
  BY <1>1, AtHeight, Numbers
<1>4. sheet_slide(d, s, to) = e
  <2>1. ~(old < 0)
    BY <1>3
  <2> QED
    BY <2>1 DEF sheet_slide
<1> HIDE DEF m, old
<1>5. Placed(m) /\ \A t \in Sheet \ {s} : \A p : Kind(m, t, p) = Kind(d, t, p)
  <2>1. \A t \in Sheet \ {s} : m.pos[t] = d.pos[t]
    BY <1>1, <1>2 DEF Placed
  <2>2. Placed(m)
    BY <1>1, <1>2, <1>3, Sids DEF Placed
  <2> QED
    BY <2>1, <2>2, SameKind
<1>6. Frame(m)
  BY <1>1, <1>2, <1>5 DEF Frame
<1>7. Shaped(m1) /\ m1.ctl = d.ctl /\ m1.pos = m.pos /\ m1.vram = d.vram
  BY <1>2, MapParts
<1>8. ASSUME NEW p \in Cell
      PROVE  IF p \in from THEN IsTop(m, p, m1.map[p]) ELSE m1.map[p] = d.map[p]
  BY <1>2, <1>6, MapFromBack
<1> HIDE DEF m1
<1>9. Shaped(m2) /\ m2.ctl = d.ctl /\ m2.pos = m.pos /\ m2.vram = d.vram
  BY <1>7, MapParts
<1>10. ASSUME NEW p \in Cell
       PROVE  \/ p \in goal /\ IsTop(m, p, m2.map[p]) /\ d.ctl.height[m2.map[p]] >= old
              \/ m2.map[p] = m1.map[p] /\ (p \in goal => Kind(m, s, p) # "opaque")
  <2>1. \/ p \in goal /\ IsTop(m1, p, m2.map[p]) /\ m1.ctl.height[m2.map[p]] >= old
        \/ /\ m2.map[p] = m1.map[p]
           /\ p \in goal => \A t \in Visible(m1.ctl) :
                              Kind(m1, t, p) = "opaque" => m1.ctl.height[t] < old
    BY <1>1, <1>3, <1>7, MapPixel
  <2>2. s \in Visible(m1.ctl) /\ m1.ctl.height[s] = old /\ ~(old < old)
    BY <1>3, <1>7 DEF old
  <2>3. \A x : IsTop(m1, p, x) <=> IsTop(m, p, x)
    BY <1>2, <1>7, SameTop
  <2>4. Kind(m1, s, p) = Kind(m, s, p)
    BY <1>7, SameKind
  <2> QED
    BY <1>7, <2>1, <2>2, <2>3, <2>4
<1> HIDE DEF m2
<1>11. /\ Shaped(e1) /\ e1.ctl = d.ctl /\ e1.pos = m.pos /\ e1.map = m2.map
       /\ \A p \in Cell : e1.vram[p].own = IF p \in from /\ DrawnBy(m2, p, 0, Below(old))
                                           THEN m2.map[p] ELSE m2.vram[p].own
  BY <1>9, SubPixel
<1> HIDE DEF e1
<1>12. /\ Shaped(e) /\ e.ctl = d.ctl /\ e.pos = m.pos /\ e.map = m2.map
       /\ \A p \in Cell : e.vram[p].own = IF p \in goal /\ DrawnBy(e1, p, old, old)
                                          THEN m2.map[p] ELSE e1.vram[p].own
  BY <1>11, SubPixel
<1> HIDE DEF e
<1>13. ASSUME NEW p \in Cell
       PROVE  IsTop(e, p, e.map[p]) /\ e.vram[p].own = e.map[p]
  <2> DEFINE x == m2.map[p]
             y == d.map[p]
  <2>1. IsTop(d, p, y) /\ d.vram[p].own = y
    BY <1>1 DEF Painted
  <2>2. p \notin from => Kind(d, s, p) # "opaque"
    BY <1>1, <1>3, OpaqueInside
  <2>3. p \notin goal => Kind(m, s, p) # "opaque"
    BY <1>3, <1>5, OpaqueInside
  <2>4. \A t \in Visible(d.ctl) \ {s} : t \in Sheet /\ Kind(m, t, p) = Kind(d, t, p)
    BY <1>1, <1>5, AtHeight
  <2>5. IsTop(m, p, x)
    <3>1. CASE x = m1.map[p] /\ Kind(m, s, p) # "opaque"
      <4>1. CASE p \in from
        BY <1>8, <3>1, <4>1
      <4>2. CASE p \notin from
        <5>1. x = y /\ Kind(d, s, p) # "opaque"
          BY <1>8, <2>2, <3>1, <4>2
        <5> QED
          BY <1>2, <2>1, <2>4, <3>1, <5>1 DEF IsTop
      <4> QED
        BY <4>1, <4>2
    <3> QED
      BY <1>10, <2>3, <3>1
  <2>6. IsTop(e, p, e.map[p])
    BY <1>2, <1>12, <2>5, SameTop
  <2>7. x \in Visible(d.ctl) /\ x \in Sheet /\ d.ctl.height[x] \in 0..d.ctl.top /\ d.ctl.top \in Int
    BY <1>1, <1>2, <2>5, AtHeight, Numbers DEF IsTop
  <2>8. p \in Rect(m, x) /\ At(d, d.ctl.height[x]) = x
    BY <1>1, <1>5, <2>5, <2>7, AtHeight, OpaqueInside DEF IsTop
  <2>9. CASE x = s
    <3>1. p \in goal
      BY <2>3, <2>5, <2>9 DEF IsTop
    <3>2. At(e1, old) = x /\ p \in Rect(e1, At(e1, old)) /\ e1.map[p] = x
      BY <1>3, <1>11, <2>8, <2>9, SameKind DEF At
    <3>3. DrawnBy(e1, p, old, old)
      <4>1. old \in old..old
        BY <1>3
      <4> QED
        BY <3>2, <4>1 DEF DrawnBy
    <3> QED
      BY <1>12, <2>6, <3>1, <3>3
  <2>10. CASE x # s /\ p \in from /\ d.ctl.height[x] < old
    <3>1. d.ctl.height[x] \in 0..Below(old)
      BY <1>3, <2>7, <2>10 DEF Below
    <3>2. At(m2, d.ctl.height[x]) = x /\ p \in Rect(m2, x)
      BY <1>9, <2>8, SameKind DEF At
    <3>3. DrawnBy(m2, p, 0, Below(old))
      BY <3>1, <3>2 DEF DrawnBy
    <3> QED
      BY <1>11, <1>12, <2>6, <2>10, <3>3
  <2>11. CASE x # s /\ ~(p \in from /\ d.ctl.height[x] < old)
    <3>1. p \in from => d.ctl.height[s] <= d.ctl.height[x]
      BY <1>3, <2>7, <2>11 DEF old
    <3>2. Kind(d, s, p) = "opaque" => d.ctl.height[s] <= d.ctl.height[x]
      BY <2>2, <3>1
    <3>3. IsTop(d, p, x)
      BY <1>2, <2>4, <2>5, <2>7, <2>11, <3>2 DEF IsTop
    <3>4. x = y
      BY <1>1, <2>1, <3>3, OneTop
    <3> QED
      BY <1>9, <1>11, <1>12, <2>1, <2>6, <3>4
  <2> QED
    BY <2>9, <2>10, <2>11
<1>14. Frame(e)
  BY <1>1, <1>5, <1>12 DEF Frame, Placed
<1> QED
  BY <1>4, <1>12, <1>13, <1>14 DEF Sound, Painted

(* sheet_refresh (window.h:255-271) draws what map already says.           *)
LEMMA SubPaints ==
  ASSUME NEW d, Sound(d), NEW area, NEW h0, NEW h1
  PROVE  Sound(sheet_refreshsub(d, area, h0, h1)) /\ sheet_refreshsub(d, area, h0, h1).ctl = d.ctl
<1> DEFINE e == sheet_refreshsub(d, area, h0, h1)
<1>1. Shaped(d) /\ Placed(d) /\ Stacked(d.ctl) /\ Painted(d)
  BY DEF Sound, Frame
<1>2. /\ Shaped(e) /\ e.ctl = d.ctl /\ e.pos = d.pos /\ e.map = d.map
      /\ \A p \in Cell : e.vram[p].own = IF p \in area /\ DrawnBy(d, p, h0, h1)
                                         THEN d.map[p] ELSE d.vram[p].own
  BY <1>1, SubPixel
<1> HIDE DEF e
<1>3. Frame(e)
  BY <1>1, <1>2 DEF Frame, Placed
<1>4. Painted(e)
  BY <1>1, <1>2, SameTop DEF Painted
<1> QED
  BY <1>2, <1>3, <1>4 DEF Sound, e

LEMMA RefreshPaints ==
  ASSUME NEW d, Sound(d), NEW s, NEW area
  PROVE  Sound(sheet_refresh(d, s, area)) /\ sheet_refresh(d, s, area).ctl = d.ctl
<1> DEFINE h == d.ctl.height[s]
           redraw(e, g) ==
             IF g # s /\ e.ctl.height[g] >= 0 /\ Rect(e, g) \cap area # {}
               THEN sheet_refreshsub(e, Rect(e, g), e.ctl.height[g], e.ctl.height[g])
               ELSE e
           e0 == sheet_refreshsub(d, area, h, h)
           e1 == redraw(e0, g_shadow_shts[1])
           e2 == redraw(e1, g_shadow_shts[2])
<1>1. sheet_refresh(d, s, area) = IF h < 0 THEN d ELSE e2
  BY DEF sheet_refresh
<1>2. ASSUME NEW e, NEW g, Sound(e) PROVE Sound(redraw(e, g)) /\ redraw(e, g).ctl = e.ctl
  BY <1>2, SubPaints
<1>3. Sound(e0) /\ e0.ctl = d.ctl
  BY SubPaints
<1> HIDE DEF e0, redraw
<1>4. Sound(e1) /\ e1.ctl = d.ctl
  BY <1>2, <1>3
<1> HIDE DEF e1
<1>5. Sound(e2) /\ e2.ctl = d.ctl
  BY <1>2, <1>4
<1> QED
  BY <1>1, <1>5

(* shtctl_refresh_all (window.h:310-325) needs nothing but the frame.      *)
LEMMA RefreshAllPaints ==
  ASSUME NEW d, Frame(d)
  PROVE  Sound(shtctl_refresh_all(d)) /\ shtctl_refresh_all(d).ctl = d.ctl
<1> DEFINE m == sheet_refreshmap(d, Cell, 0)
           e == sheet_refreshsub(m, Cell, 0, m.ctl.top)
<1>1. Shaped(d) /\ Placed(d) /\ Stacked(d.ctl) /\ WellFormed(d.ctl)
  BY DEF Frame, Stacked
<1>2. shtctl_refresh_all(d) = e
  BY DEF shtctl_refresh_all
<1>3. Shaped(m) /\ m.ctl = d.ctl /\ m.pos = d.pos
  BY <1>1, MapParts
<1>4. \A p \in Cell : IsTop(d, p, m.map[p])
  BY MapFromBack
<1> HIDE DEF m
<1>5. /\ Shaped(e) /\ e.ctl = d.ctl /\ e.pos = d.pos /\ e.map = m.map
      /\ \A p \in Cell : e.vram[p].own = IF p \in Cell /\ DrawnBy(m, p, 0, m.ctl.top)
                                         THEN m.map[p] ELSE m.vram[p].own
  BY <1>3, SubPixel
<1> HIDE DEF e
<1>6. ASSUME NEW p \in Cell PROVE DrawnBy(m, p, 0, m.ctl.top)
  <2> DEFINE x == m.map[p]
  <2>1. IsTop(d, p, x)
    BY <1>4
  <2>2. x \in Visible(d.ctl) /\ Kind(d, x, p) = "opaque"
    BY <2>1 DEF IsTop
  <2>3. x \in Sheet /\ d.ctl.height[x] \in 0..d.ctl.top /\ At(d, d.ctl.height[x]) = x
    BY <1>1, <2>2, AtHeight
  <2>4. p \in Rect(d, x)
    BY <1>1, <2>2, <2>3, OpaqueInside
  <2> QED
    BY <1>3, <2>3, <2>4, SameTop DEF DrawnBy
<1>7. Painted(e)
  BY <1>4, <1>5, <1>6, SameTop DEF Painted
<1>8. Frame(e)
  BY <1>1, <1>5 DEF Frame, Placed
<1> QED
  BY <1>2, <1>5, <1>7, <1>8 DEF Sound

-----------------------------------------------------------------------------
(* The numbers of a stack.                                                 *)
LEMMA StackNumbers ==
  ASSUME NEW c, Stacked(c)
  PROVE  /\ WellFormed(c) /\ c.top \in Int /\ c.top >= 1 /\ c.flags \subseteq Sheet
         /\ Back \in c.flags /\ Cursor \in c.flags /\ Cursor \in Visible(c)
         /\ c.height[Back] = 0 /\ c.height[Cursor] = c.top
         /\ \A t \in Sheet : c.height[t] \in Int /\ -1 <= c.height[t]
         /\ \A t \in Visible(c) : t \in Sheet /\ t \in c.flags /\ c.height[t] \in 0..c.top
         /\ \A t, x \in Visible(c) : c.height[t] = c.height[x] => t = x
<1>1. WellFormed(c) /\ c.top >= 1 /\ Back \in c.flags /\ Cursor \in c.flags
      /\ c.height[Back] = 0 /\ c.height[Cursor] = c.top
  BY DEF Stacked
<1>2. /\ c.top \in Int /\ c.flags \subseteq Sheet
      /\ \A t \in Sheet : c.height[t] \in Int /\ -1 <= c.height[t]
      /\ \A t \in c.flags : c.height[t] >= 0 => c.height[t] <= c.top /\ c.sheets[c.height[t]] = t
  BY <1>1, Numbers
<1> QED
  BY <1>1, <1>2 DEF Visible

(* A visible window goes to just below the cursor.                         *)
LEMMA RaisedStack ==
  ASSUME NEW c, Stacked(c), NEW s \in Windows, c.height[s] >= 0, c.height[s] < c.top - 1
  PROVE  LET k == sheet_updown(c, s, c.top - 1)
         IN  /\ Stacked(k) /\ OthersKept(c, k, s) /\ s \in Visible(k) /\ k.height[s] = c.top - 1
             /\ k.flags = c.flags /\ k.top = c.top
             /\ \A t \in Visible(c) \ {s} :
                  k.height[t] > k.height[s] => c.height[t] >= c.height[s]
<1> DEFINE k == sheet_updown(c, s, c.top - 1)
           new == c.top - 1
           old == c.height[s]
<1>1. /\ WellFormed(c) /\ c.top \in Int /\ c.top >= 1 /\ c.height[Back] = 0
      /\ c.height[Cursor] = c.top /\ Back \in c.flags /\ Cursor \in Visible(c)
      /\ \A t \in Visible(c) : t \in Sheet /\ t \in c.flags /\ c.height[t] \in 0..c.top
      /\ \A t, x \in Visible(c) : c.height[t] = c.height[x] => t = x
  BY StackNumbers
<1>2. s \in c.flags /\ s \in Sheet /\ s # Back /\ s # Cursor /\ s \in Visible(c)
  BY Sids DEF Stacked, Windows, Visible
<1>3. new \in Int /\ old \in Int /\ 0 <= old /\ old < new /\ new <= c.top /\ new < c.top
  BY <1>1, <1>2
<1>4. k = Raise(c, s, old, new)
  BY <1>1, <1>3, UpDownIs
<1> HIDE DEF k, new
<1>5. /\ k.flags = c.flags /\ k.top = c.top /\ k.height[s] = new
      /\ \A t \in Visible(c) \ {s} : k.height[t] = IF c.height[t] \in old+1..new
                                                   THEN c.height[t] - 1 ELSE c.height[t]
      /\ \A t \in Sheet \ Visible(c) : k.height[t] = c.height[t]
  BY <1>1, <1>2, <1>3, <1>4, RaiseHeights
<1>6. WellFormed(k)
  BY <1>1, <1>2, <1>3, <1>4, RaiseKeeps
<1> HIDE DEF old
<1>7. \A t \in Visible(c) \ {s} : k.height[t] \in Int /\ k.height[t] >= 0
  BY <1>1, <1>3, <1>5
<1>8. Visible(k) \ {s} = Visible(c) \ {s}
  <2>1. ASSUME NEW t \in c.flags \ {s} PROVE t \in Visible(k) <=> t \in Visible(c)
    <3>1. CASE t \in Visible(c)
      BY <1>5, <1>7, <3>1 DEF Visible
    <3>2. CASE t \notin Visible(c)
      BY <1>1, <1>5, <3>2, Numbers DEF Visible
    <3> QED
      BY <3>1, <3>2
  <2> QED
    BY <1>5, <2>1 DEF Visible
<1>9. ASSUME NEW t \in Visible(c) \ {s}, NEW x \in Visible(c) \ {s}
      PROVE  c.height[t] <= c.height[x] <=> k.height[t] <= k.height[x]
  <2>1. c.height[t] \in Int /\ c.height[x] \in Int /\ c.height[t] # old /\ c.height[x] # old
    BY <1>1, <1>2 DEF old
  <2>2. /\ k.height[t] = IF c.height[t] \in old+1..new THEN c.height[t] - 1 ELSE c.height[t]
        /\ k.height[x] = IF c.height[x] \in old+1..new THEN c.height[x] - 1 ELSE c.height[x]
    BY <1>5
  <2>3. c.height[t] = c.height[x] => t = x
    BY <1>1
  <2> QED
    BY <1>3, <2>1, <2>2, <2>3
<1>10. s \in Visible(k)
  BY <1>2, <1>3, <1>5 DEF Visible
<1>11. k.height[Back] = 0 /\ k.height[Cursor] = k.top
  <2>1. Back \in Visible(c) \ {s} /\ Cursor \in Visible(c) \ {s}
    BY <1>1, <1>2 DEF Visible
  <2>2. 0 \notin old+1..new /\ c.top \notin old+1..new
    BY <1>1, <1>3
  <2> QED
    BY <1>1, <1>5, <2>1, <2>2
<1>12. \A w \in Windows : k.height[w] >= 0 => w \in k.flags
  BY <1>2, <1>5, Sids DEF Stacked, Visible
<1>13. ASSUME NEW t \in Visible(c) \ {s}, k.height[t] > new PROVE c.height[t] >= old
  BY <1>1, <1>3, <1>5, <1>13
<1>14. Stacked(k)
  BY <1>1, <1>5, <1>6, <1>11, <1>12 DEF Stacked
<1> QED
  BY <1>5, <1>8, <1>9, <1>10, <1>13, <1>14 DEF OthersKept, k, new, old

(* A hidden window comes up below the cursor.                              *)
LEMMA ShownStack ==
  ASSUME NEW c, Stacked(c), NEW s \in Windows \cap c.flags, c.height[s] < 0
  PROVE  LET k == sheet_updown(c, s, c.top)
         IN  /\ Stacked(k) /\ OthersKept(c, k, s) /\ s \in Visible(k) /\ k.height[s] = c.top
             /\ c.height[s] = -1
             /\ \A t \in Visible(c) \ {s} :
                  k.height[t] > k.height[s] => c.height[t] >= c.height[s]
<1> DEFINE k == sheet_updown(c, s, c.top)
<1>1. /\ WellFormed(c) /\ c.top \in Int /\ c.top >= 1 /\ c.height[Back] = 0
      /\ c.height[Cursor] = c.top /\ Back \in c.flags /\ Cursor \in Visible(c)
      /\ \A t \in Visible(c) : t \in Sheet /\ t \in c.flags /\ c.height[t] \in 0..c.top
      /\ \A t, x \in Visible(c) : c.height[t] = c.height[x] => t = x
      /\ \A t \in Sheet : c.height[t] \in Int /\ -1 <= c.height[t]
  BY StackNumbers
<1>2. /\ s \in c.flags /\ s \in Sheet /\ s # Back /\ s # Cursor /\ s \notin Visible(c)
      /\ c.height[s] = -1
  BY <1>1, Sids DEF Windows, Visible
<1>3. k = Show(c, s, c.top)
  BY <1>1, <1>2, UpDownIs
<1> HIDE DEF k
<1>4. /\ k.flags = c.flags /\ k.top = c.top + 1 /\ k.height[s] = c.top
      /\ \A t \in Visible(c) : k.height[t] = IF c.height[t] >= c.top
                                             THEN c.height[t] + 1 ELSE c.height[t]
      /\ \A t \in Sheet \ Visible(c) : t # s => k.height[t] = c.height[t]
  <2>1. c.top \in Int /\ 0 <= c.top /\ c.top <= c.top + 1
    BY <1>1
  <2> QED
    BY <1>1, <1>2, <1>3, <2>1, ShowHeights
<1>5. WellFormed(k)
  <2>1. c.top \in Int /\ 0 <= c.top /\ c.top <= c.top + 1
    BY <1>1
  <2> QED
    BY <1>1, <1>2, <1>3, <2>1, ShowKeeps
<1>6. Visible(k) \ {s} = Visible(c) \ {s}
  <2>1. ASSUME NEW t \in c.flags \ {s} PROVE t \in Visible(k) <=> t \in Visible(c)
    <3>1. CASE t \in Visible(c)
      BY <1>1, <1>4, <3>1 DEF Visible
    <3>2. CASE t \notin Visible(c)
      BY <1>1, <1>4, <3>2, Numbers DEF Visible
    <3> QED
      BY <3>1, <3>2
  <2> QED
    BY <1>4, <2>1 DEF Visible
<1>7. \A t, x \in Visible(c) \ {s} : c.height[t] <= c.height[x] <=> k.height[t] <= k.height[x]
  BY <1>1, <1>4
<1>8. s \in Visible(k)
  BY <1>1, <1>2, <1>4 DEF Visible
<1>9. k.height[Back] = 0 /\ k.height[Cursor] = k.top
  <2>1. Back \in Visible(c) /\ ~(0 >= c.top)
    BY <1>1 DEF Visible
  <2> QED
    BY <1>1, <1>4, <2>1
<1>10. \A w \in Windows : k.height[w] >= 0 => w \in k.flags
  BY <1>2, <1>4, Sids DEF Stacked, Visible
<1>11. ASSUME NEW t \in Visible(c) \ {s} PROVE c.height[t] >= c.height[s]
  BY <1>1, <1>2
<1>12. Stacked(k)
  BY <1>1, <1>4, <1>5, <1>9, <1>10 DEF Stacked
<1> QED
  BY <1>2, <1>4, <1>6, <1>7, <1>8, <1>11, <1>12 DEF OthersKept, k

(* A visible window is hidden.                                             *)
LEMMA HiddenStack ==
  ASSUME NEW c, Stacked(c), NEW s \in Windows, c.height[s] >= 0
  PROVE  LET k == sheet_updown(c, s, -1)
         IN  /\ Stacked(k) /\ OthersKept(c, k, s) /\ s \notin Visible(k) /\ k.height[s] = -1
             /\ k.flags = c.flags
             /\ \A t \in Visible(c) \ {s} :
                  k.height[t] >= c.height[s] => c.height[t] >= c.height[s]
<1> DEFINE k == sheet_updown(c, s, -1)
           old == c.height[s]
<1>1. /\ WellFormed(c) /\ c.top \in Int /\ c.top >= 1 /\ c.height[Back] = 0
      /\ c.height[Cursor] = c.top /\ Back \in c.flags /\ Cursor \in Visible(c)
      /\ \A t \in Visible(c) : t \in Sheet /\ t \in c.flags /\ c.height[t] \in 0..c.top
      /\ \A t, x \in Visible(c) : c.height[t] = c.height[x] => t = x
  BY StackNumbers
<1>2. s \in c.flags /\ s \in Sheet /\ s # Back /\ s # Cursor /\ s \in Visible(c)
  BY Sids DEF Stacked, Windows, Visible
<1>3. old \in Int /\ 0 <= old /\ old <= c.top /\ Back \in Visible(c)
  BY <1>1, <1>2 DEF Visible
<1>4. k = Hide(c, s, old)
  BY <1>1, <1>3, UpDownIs
<1> HIDE DEF k
<1>5. /\ k.flags = c.flags /\ k.top = c.top - 1 /\ k.height[s] = -1
      /\ \A t \in Visible(c) \ {s} : k.height[t] = IF c.height[t] > old
                                                   THEN c.height[t] - 1 ELSE c.height[t]
      /\ \A t \in Sheet \ Visible(c) : k.height[t] = c.height[t]
  BY <1>1, <1>2, <1>3, <1>4, HideHeights
<1>6. WellFormed(k)
  BY <1>1, <1>2, <1>3, <1>4, HideKeeps
<1>7. old # 0 /\ old # c.top
  BY <1>1, <1>2, <1>3
<1> HIDE DEF old
<1>8. \A t \in Visible(c) \ {s} : k.height[t] \in Int /\ k.height[t] >= 0
  BY <1>1, <1>3, <1>5
<1>9. Visible(k) \ {s} = Visible(c) \ {s}
  <2>1. ASSUME NEW t \in c.flags \ {s} PROVE t \in Visible(k) <=> t \in Visible(c)
    <3>1. CASE t \in Visible(c)
      BY <1>5, <1>8, <3>1 DEF Visible
    <3>2. CASE t \notin Visible(c)
      BY <1>1, <1>5, <3>2, Numbers DEF Visible
    <3> QED
      BY <3>1, <3>2
  <2> QED
    BY <1>5, <2>1 DEF Visible
<1>10. ASSUME NEW t \in Visible(c) \ {s}, NEW x \in Visible(c) \ {s}
       PROVE  c.height[t] <= c.height[x] <=> k.height[t] <= k.height[x]
  <2>1. c.height[t] \in Int /\ c.height[x] \in Int /\ c.height[t] # old /\ c.height[x] # old
    BY <1>1, <1>2 DEF old
  <2>2. /\ k.height[t] = IF c.height[t] > old THEN c.height[t] - 1 ELSE c.height[t]
        /\ k.height[x] = IF c.height[x] > old THEN c.height[x] - 1 ELSE c.height[x]
    BY <1>5
  <2> QED
    BY <1>3, <2>1, <2>2
<1>11. s \notin Visible(k)
  BY <1>5 DEF Visible
<1>12. k.height[Back] = 0 /\ k.height[Cursor] = k.top /\ k.top >= 1
  <2>1. Back \in Visible(c) \ {s} /\ Cursor \in Visible(c) \ {s}
    BY <1>1, <1>2, <1>3
  <2>2. ~(0 > old) /\ c.top > old /\ c.top >= 2
    BY <1>1, <1>3, <1>7
  <2> QED
    BY <1>1, <1>5, <2>1, <2>2
<1>13. \A w \in Windows : k.height[w] >= 0 => w \in k.flags
  BY <1>2, <1>5, Sids DEF Stacked, Visible
<1>14. ASSUME NEW t \in Visible(c) \ {s}, k.height[t] >= old PROVE c.height[t] >= old
  BY <1>1, <1>3, <1>5, <1>14
<1>15. Stacked(k)
  BY <1>1, <1>5, <1>6, <1>12, <1>13 DEF Stacked
<1> QED
  BY <1>5, <1>9, <1>10, <1>11, <1>14, <1>15 DEF OthersKept, k, old

-----------------------------------------------------------------------------
(* sheet_updown and its refresh: what it leaves of stack and places.       *)
LEMMA UpdownParts ==
  ASSUME NEW d, Shaped(d), NEW s, NEW h
  PROVE  /\ Shaped(updown(d, s, h)) /\ updown(d, s, h).pos = d.pos
         /\ updown(d, s, h).ctl = sheet_updown(d.ctl, s, h)
<1> DEFINE old == d.ctl.height[s]
           new == Clamp(d.ctl, h)
           k == sheet_updown(d.ctl, s, h)
           m == [d EXCEPT !.ctl = k]
           r == Rect(d, s)
           Is(e) == Shaped(e) /\ e.ctl = k /\ e.pos = d.pos
<1>1. Is(m)
  BY NewStack
<1> HIDE DEF m
<1>2. ASSUME NEW h0, NEW h1 PROVE Is(sheet_refreshsub(sheet_refreshmap(m, r, h0), r, h0, h1))
  <2> DEFINE mp == sheet_refreshmap(m, r, h0)
  <2>1. Is(mp)
    BY <1>1, MapParts
  <2> HIDE DEF mp
  <2>2. Is(sheet_refreshsub(mp, r, h0, h1))
    BY <2>1, SubPixel
  <2> QED
    BY <2>2 DEF mp
<1>3. CASE old > new \/ old < new
  <2>1. \E h0, h1 : updown(d, s, h) = sheet_refreshsub(sheet_refreshmap(m, r, h0), r, h0, h1)
    BY <1>3 DEF updown, m
  <2> HIDE DEF k, r
  <2>2. Is(updown(d, s, h))
    BY <1>2, <2>1
  <2> QED
    BY <2>2 DEF k
<1>4. CASE ~(old > new) /\ ~(old < new)
  <2>1. updown(d, s, h) = d /\ sheet_updown(d.ctl, s, h) = d.ctl
    BY <1>4 DEF updown, sheet_updown
  <2> QED
    BY <2>1
<1> QED
  BY <1>3, <1>4

LEMMA RefreshAllParts ==
  ASSUME NEW d, Shaped(d)
  PROVE  /\ Shaped(shtctl_refresh_all(d)) /\ shtctl_refresh_all(d).pos = d.pos
         /\ shtctl_refresh_all(d).ctl = d.ctl
<1> DEFINE m == sheet_refreshmap(d, Cell, 0)
<1>1. Shaped(m) /\ m.ctl = d.ctl /\ m.pos = d.pos
  BY MapParts
<1>2. shtctl_refresh_all(d) = sheet_refreshsub(m, Cell, 0, m.ctl.top)
  BY DEF shtctl_refresh_all
<1> HIDE DEF m
<1> QED
  BY <1>1, <1>2, SubPixel

(* A window that comes up.                                                 *)
LEMMA WindowUp ==
  ASSUME NEW d, Sound(d), NEW s \in Windows, NEW h \in Int, -1 <= h, h <= d.ctl.top,
         d.ctl.height[s] \in Int, d.ctl.height[s] < h,
         LET k == sheet_updown(d.ctl, s, h)
         IN  /\ Stacked(k) /\ OthersKept(d.ctl, k, s) /\ s \in Visible(k) /\ k.height[s] = h
             /\ \A t \in Visible(d.ctl) \ {s} :
                  k.height[t] > k.height[s] => d.ctl.height[t] >= d.ctl.height[s]
  PROVE  Sound(updown(d, s, h))
<1> DEFINE k == sheet_updown(d.ctl, s, h)
           m == [d EXCEPT !.ctl = k]
           r == Rect(d, s)
           e == updown(d, s, h)
<1>1. Shaped(d) /\ Placed(d) /\ WellFormed(d.ctl) /\ d.ctl.top \in Int
  BY Numbers DEF Sound, Frame, Stacked
<1>2. Clamp(d.ctl, h) = h
  BY <1>1 DEF Clamp
<1>3. e = sheet_refreshsub(sheet_refreshmap(m, r, h), r, h, h)
  <2>1. ~(d.ctl.height[s] > h)
    OBVIOUS
  <2> QED
    BY <1>2, <2>1 DEF updown
<1>4. Shaped(e) /\ e.pos = d.pos /\ e.ctl = k
  BY <1>1, UpdownParts
<1> HIDE DEF e, k
<1>5. Painted(e)
  BY <1>3, LiftPaints DEF k, Stacked
<1>6. Frame(e)
  BY <1>1, <1>4 DEF Frame, Placed, k
<1> QED
  BY <1>5, <1>6 DEF Sound, e

(* Raised to just below the cursor ...                                     *)
LEMMA RaisePaints ==
  ASSUME NEW d, Sound(d), NEW s \in Windows, d.ctl.height[s] >= 0,
         d.ctl.height[s] < d.ctl.top - 1
  PROVE  LET e == updown(d, s, d.ctl.top - 1)
         IN  Sound(e) /\ e.ctl.height[s] >= 0
<1>1. Stacked(d.ctl) /\ Shaped(d)
  BY DEF Sound, Frame
<1>2. /\ d.ctl.top \in Int /\ d.ctl.top >= 1 /\ d.ctl.height[s] \in Int
      /\ d.ctl.top - 1 \in Int /\ -1 <= d.ctl.top - 1 /\ d.ctl.top - 1 <= d.ctl.top
      /\ d.ctl.top - 1 >= 0
  BY <1>1, StackNumbers, Sids
<1>3. Sound(updown(d, s, d.ctl.top - 1))
  BY <1>1, <1>2, RaisedStack, WindowUp
<1>4. updown(d, s, d.ctl.top - 1).ctl.height[s] = d.ctl.top - 1
  BY <1>1, UpdownParts, RaisedStack
<1> QED
  BY <1>2, <1>3, <1>4

(* ... or shown there.                                                     *)
LEMMA ShowPaints ==
  ASSUME NEW d, Sound(d), NEW s \in Windows, s \in d.ctl.flags, d.ctl.height[s] < 0
  PROVE  Sound(updown(d, s, d.ctl.top))
<1>1. Stacked(d.ctl)
  BY DEF Sound, Frame
<1>2. /\ d.ctl.top \in Int /\ d.ctl.top >= 1 /\ d.ctl.height[s] \in Int
      /\ -1 <= d.ctl.top /\ d.ctl.top <= d.ctl.top /\ d.ctl.height[s] < d.ctl.top
  BY <1>1, StackNumbers, Sids
<1> QED
  BY <1>1, <1>2, ShownStack, WindowUp

(* A window that is hidden, if it was visible.                             *)
LEMMA HidePaintsAll ==
  ASSUME NEW d, Sound(d), NEW s \in Windows
  PROVE  LET e == updown(d, s, -1)
         IN  /\ Sound(e) /\ e.ctl.height[s] = -1 /\ e.ctl.flags = d.ctl.flags
<1> DEFINE k == sheet_updown(d.ctl, s, -1)
           m == [d EXCEPT !.ctl = k]
           r == Rect(d, s)
           old == d.ctl.height[s]
           e == updown(d, s, -1)
<1>1. Shaped(d) /\ Placed(d) /\ Stacked(d.ctl)
  BY DEF Sound, Frame
<1>2. old \in Int /\ -1 <= old /\ d.ctl.top \in Int /\ d.ctl.top >= 1
  BY <1>1, StackNumbers, Sids
<1>3. Clamp(d.ctl, -1) = -1
  BY <1>2 DEF Clamp
<1>4. CASE old >= 0
  <2>1. e = sheet_refreshsub(sheet_refreshmap(m, r, 0), r, 0, Below(old))
    <3>1. old > -1 /\ ~(-1 >= 0)
      BY <1>2, <1>4
    <3> QED
      BY <1>3, <3>1 DEF updown
  <2>2. Shaped(e) /\ e.pos = d.pos /\ e.ctl = k
    BY <1>1, UpdownParts
  <2>3. /\ Stacked(k) /\ OthersKept(d.ctl, k, s) /\ s \notin Visible(k) /\ k.height[s] = -1
        /\ k.flags = d.ctl.flags
        /\ \A t \in Visible(d.ctl) \ {s} :
             k.height[t] >= d.ctl.height[s] => d.ctl.height[t] >= d.ctl.height[s]
    BY <1>1, <1>4, HiddenStack
  <2>4. s \in Visible(d.ctl) /\ WellFormed(k)
    BY <1>1, <1>4, <2>3 DEF Stacked, Visible
  <2> HIDE DEF e, k
  <2>5. Painted(e)
    BY <2>1, <2>3, <2>4, HidePaints
  <2>6. Frame(e)
    BY <1>1, <2>2, <2>3 DEF Frame, Placed
  <2> QED
    BY <2>2, <2>3, <2>5, <2>6 DEF Sound, e
<1>5. CASE old < 0
  <2>1. old = -1
    BY <1>2, <1>5
  <2>2. ~(old > -1) /\ ~(old < -1)
    BY <2>1
  <2>3. e = d
    BY <1>3, <2>2 DEF updown
  <2> QED
    BY <2>1, <2>3
<1> QED
  BY <1>2, <1>4, <1>5

(* The cursor is the top sheet already.                                    *)
LEMMA CursorStays ==
  ASSUME NEW d, Sound(d)
  PROVE  updown(d, Cursor, d.ctl.top) = d
<1>1. d.ctl.height[Cursor] = d.ctl.top /\ d.ctl.top \in Int /\ d.ctl.top >= 1
  BY StackNumbers DEF Sound, Frame
<1>2. Clamp(d.ctl, d.ctl.top) = d.ctl.top /\ ~(d.ctl.top > d.ctl.top) /\ ~(d.ctl.top < d.ctl.top)
  BY <1>1 DEF Clamp
<1> QED
  BY <1>1, <1>2 DEF updown

(* A window that is freed leaves a frame for the full refresh.             *)
LEMMA FreeFrame ==
  ASSUME NEW d, Sound(d), NEW s \in Windows
  PROVE  Frame(free(d, s))
<1> DEFINE h == updown(d, s, -1)
           e == free(d, s)
<1>1. Sound(h) /\ h.ctl.height[s] = -1
  BY HidePaintsAll
<1>2. e = [h EXCEPT !.ctl.flags = @ \ {s}]
  BY DEF free
<1> HIDE DEF h, e
<1>3. Shaped(h) /\ Placed(h) /\ Stacked(h.ctl) /\ WellFormed(h.ctl) /\ s \in Sheet /\ s # Back /\ s # Cursor
  BY <1>1, Sids DEF Sound, Frame, Stacked, Windows
<1>4. Shaped(e) /\ e.pos = h.pos /\ e.ctl = [h.ctl EXCEPT !.flags = @ \ {s}]
  BY <1>2, <1>3 DEF Shaped
<1> DEFINE c == [h.ctl EXCEPT !.flags = @ \ {s}]
<1>5. /\ c.top = h.ctl.top /\ c.height = h.ctl.height /\ c.sheets = h.ctl.sheets
      /\ c.flags = h.ctl.flags \ {s}
  BY <1>3 DEF WellFormed, CtlType
<1>6. CtlType(c)
  BY <1>3 DEF WellFormed, CtlType
<1> HIDE DEF c
<1>7. ZOrderOf(c)
  <2>1. \A g \in 0..h.ctl.top : h.ctl.sheets[g] # s
    BY <1>1, <1>3, LiveSlots
  <2> QED
    BY <1>3, <1>5, <2>1 DEF WellFormed, ZOrderOf
<1>8. \A w \in Windows : c.height[w] >= 0 => w \in c.flags
  BY <1>1, <1>3, <1>5 DEF Stacked
<1>9. Stacked(c)
  BY <1>3, <1>5, <1>6, <1>7, <1>8 DEF Stacked, WellFormed
<1> QED
  BY <1>3, <1>4, <1>9 DEF Frame, Placed, e, c

-----------------------------------------------------------------------------
(* Every packet ends with the cursor at its new place.                     *)
LEMMA FollowPaints ==
  ASSUME NEW d, Sound(d), CursorFollows(d)
  PROVE  Sound(display')
<1>1. PICK to \in Positions : display' = sheet_slide(d, Cursor, to)
  BY DEF CursorFollows
<1>2. to \in Int \X Int
  BY CompositorAssumption
<1>3. Cursor \in Visible(d.ctl) /\ Cursor # Back
  BY StackNumbers, Sids DEF Sound, Frame
<1> QED
  BY <1>1, <1>2, <1>3, SlidePaints

LEMMA RaisedPaints ==
  ASSUME NEW d, Sound(d), NEW s \in Windows, d.ctl.height[s] >= 0
  PROVE  Sound(Raised(d, s)) /\ Raised(d, s).ctl.height[s] >= 0
<1> DEFINE up == IF d.ctl.height[s] < d.ctl.top-1 THEN updown(d, s, d.ctl.top-1) ELSE d
<1>1. Sound(up) /\ up.ctl.height[s] >= 0
  BY RaisePaints
<1>2. Raised(d, s) = updown(up, Cursor, up.ctl.top)
  BY DEF Raised
<1> HIDE DEF up
<1> QED
  BY <1>1, <1>2, CursorStays

LEMMA HiddenPaints ==
  ASSUME NEW d, Sound(d), NEW s \in Windows
  PROVE  Sound(Hidden(d, s))
BY HidePaintsAll, RefreshPaints DEF Hidden

LEMMA RestorePaints ==
  ASSUME Sound(display), NEW s \in Windows, Restore(s)
  PROVE  Sound(display')
<1> DEFINE shown == updown(display, s, top)
           up == updown(shown, Cursor, shown.ctl.top)
           e == sheet_refresh(up, Back, Strip)
<1>1. s \in display.ctl.flags /\ display.ctl.height[s] < 0 /\ CursorFollows(e)
  BY DEF Restore, height
<1>2. Sound(shown)
  BY <1>1, ShowPaints DEF top
<1> HIDE DEF shown
<1>3. up = shown
  BY <1>2, CursorStays
<1> HIDE DEF up
<1>4. Sound(e)
  BY <1>2, <1>3, RefreshPaints
<1> HIDE DEF e
<1> QED
  BY <1>1, <1>4, FollowPaints

LEMMA DragPaints ==
  ASSUME Sound(display), NEW s \in Windows, Drag(s)
  PROVE  Sound(display')
<1>1. PICK to \in Positions : CursorFollows(sheet_slide(display, s, to))
  BY DEF Drag
<1>2. Stacked(display.ctl) /\ display.ctl.height[s] = display.ctl.top - 1
  BY DEF Drag, Sound, Frame, height, top
<1>3. s \in Visible(display.ctl) /\ s # Back
  <2>1. display.ctl.height[s] >= 0
    BY <1>2, StackNumbers
  <2>2. s \in display.ctl.flags
    BY <1>2, <2>1 DEF Stacked
  <2> QED
    BY <2>1, <2>2, Sids DEF Visible, Windows
<1>4. to \in Int \X Int
  BY CompositorAssumption
<1>5. Sound(sheet_slide(display, s, to))
  BY <1>3, <1>4, SlidePaints
<1> HIDE DEF sheet_slide
<1> QED
  BY <1>1, <1>5, FollowPaints

LEMMA MinimizePaints ==
  ASSUME Sound(display), NEW s \in Windows, Minimize(s)
  PROVE  Sound(display')
<1>1. display.ctl.height[s] >= 0
  BY DEF Minimize, height
<1>2. Sound(Hidden(display, s))
  BY HiddenPaints
<1>3. Sound(Hidden(Raised(display, s), s))
  BY <1>1, RaisedPaints, HiddenPaints
<1>4. CASE CursorFollows(Hidden(Raised(display, s), s))
  BY <1>3, <1>4, FollowPaints
<1>5. CASE CursorFollows(Hidden(display, s))
  BY <1>2, <1>5, FollowPaints
<1>6. CASE display' = Hidden(display, s)
  BY <1>2, <1>6
<1> QED
  BY <1>4, <1>5, <1>6 DEF Minimize

LEMMA ClosePaints ==
  ASSUME Sound(display), Close
  PROVE  Sound(display')
<1>1. Win \in Windows /\ display.ctl.height[Win] >= 0
  BY DEF Close, height, Windows
<1> DEFINE e == free(Raised(display, Win), Win)
<1>2. Frame(e)
  BY <1>1, RaisedPaints, FreeFrame
<1>3. CursorFollows(shtctl_refresh_all(e))
  BY DEF Close
<1> HIDE DEF e
<1> QED
  BY <1>2, <1>3, RefreshAllPaints, FollowPaints

LEMMA LoginDonePaints ==
  ASSUME Sound(display), LoginDone
  PROVE  Sound(display')
<1>1. Login \in Windows /\ display' = shtctl_refresh_all(free(display, Login))
  BY DEF LoginDone, Windows
<1>2. Frame(free(display, Login))
  BY <1>1, FreeFrame
<1> QED
  BY <1>1, <1>2, RefreshAllPaints

(* Every step of the kernel leaves a sound picture.                        *)
LEMMA StepPaints == Sound(display) /\ [Next]_vars => Sound(display')
<1> SUFFICES ASSUME Sound(display), [Next]_vars PROVE Sound(display')
  OBVIOUS
<1>1. CASE MoveCursor
  BY <1>1, FollowPaints DEF MoveCursor
<1>2. CASE Close
  BY <1>2, ClosePaints
<1>3. CASE LoginDone
  BY <1>3, LoginDonePaints
<1>4. CASE ClockTick
  BY <1>4, RefreshPaints DEF ClockTick
<1>5. CASE TypeKey
  BY <1>5, RefreshPaints DEF TypeKey
<1>6. ASSUME NEW s \in Windows, Click(s) PROVE Sound(display')
  <2>1. display.ctl.height[s] >= 0 /\ CursorFollows(Raised(display, s))
    BY <1>6 DEF Click, height
  <2> QED
    BY <2>1, RaisedPaints, FollowPaints
<1>7. ASSUME NEW s \in Windows, Drag(s) PROVE Sound(display')
  BY <1>7, DragPaints
<1>8. ASSUME NEW s \in Windows, Minimize(s) PROVE Sound(display')
  BY <1>8, MinimizePaints
<1>9. ASSUME NEW s \in Windows, Restore(s) PROVE Sound(display')
  BY <1>9, RestorePaints
<1>10. CASE UNCHANGED vars
  BY <1>10 DEF vars
<1> QED
  BY <1>1, <1>2, <1>3, <1>4, <1>5, <1>6, <1>7, <1>8, <1>9, <1>10 DEF Next

-----------------------------------------------------------------------------
(* The boot code puts one sheet after the other on top.                    *)
LEMMA PlaceStep ==
  ASSUME NEW d, Shaped(d), NEW s \in 0..3, BootedTo(d.ctl, s), d.pos \in [Sheet -> Int \X Int],
         d.pos[Back] = <<0, 0>>
  PROVE  LET e == updown(place(d, s), s, s)
         IN  /\ Shaped(e) /\ BootedTo(e.ctl, s+1) /\ e.pos \in [Sheet -> Int \X Int]
             /\ e.pos[Back] = <<0, 0>>
<1> DEFINE m == place(d, s)
           e == updown(m, s, s)
           to == [t \in Sheet |-> IF t = s THEN BootPos[s] ELSE d.pos[t]]
<1>1. m = [d EXCEPT !.ctl = sheet_alloc(d.ctl), !.pos = to]
  BY DEF place
<1>2. s \in Sheet
  BY Sids DEF Sheet
<1>3. to \in [Sheet -> Int \X Int] /\ to[Back] = <<0, 0>>
  BY <1>2, CompositorAssumption, Sids
<1> HIDE DEF m, to
<1>4. Shaped(m) /\ m.ctl = sheet_alloc(d.ctl) /\ m.pos = to
  BY <1>1 DEF Shaped
<1>5. Shaped(e) /\ e.pos = to /\ e.ctl = sheet_updown(sheet_alloc(d.ctl), s, s)
  BY <1>4, UpdownParts
<1> HIDE DEF e
<1>6. BootedTo(e.ctl, s+1)
  BY <1>5, BootStep, CompositorAssumption
<1> QED
  BY <1>3, <1>5, <1>6 DEF e, m

(* Raising the cursor over the login window completes the stack.           *)
LEMMA CursorOnTop ==
  ASSUME NEW c, BootedTo(c, 4)
  PROVE  Stacked(sheet_updown(c, Cursor, c.top))
<1> DEFINE k == sheet_updown(c, Cursor, c.top)
<1>1. WellFormed(c) /\ c.flags = 0..3 /\ c.top = 3 /\ \A h \in 0..3 : c.sheets[h] = h
  BY DEF BootedTo
<1>2. \A h \in 0..3 : c.height[h] = h
  BY <1>1, LiveSlots
<1>3. Back = 0 /\ Win = 1 /\ Cursor = 2 /\ Login = 3
  BY CompositorAssumption
<1>4. k = Raise(c, Cursor, c.height[Cursor], 3)
  BY <1>1, <1>2, <1>3, UpDownIs
<1> HIDE DEF k
<1>5. WellFormed(k)
  BY <1>1, <1>2, <1>3, <1>4, RaiseKeeps
<1>6. /\ k.flags = c.flags /\ k.top = c.top /\ k.height[Cursor] = 3
      /\ \A t \in Visible(c) \ {Cursor} :
           k.height[t] = IF c.height[t] \in c.height[Cursor]+1..3
                         THEN c.height[t] - 1 ELSE c.height[t]
  BY <1>1, <1>2, <1>3, <1>4, RaiseHeights
<1>7. k.height[Back] = 0
  BY <1>1, <1>2, <1>3, <1>6 DEF Visible
<1> QED
  BY <1>1, <1>3, <1>5, <1>6, <1>7 DEF Stacked, Windows, k

LEMMA BootPaints == Init => Sound(display)
<1> SUFFICES Sound(Booted)
  BY DEF Init
<1> DEFINE Up(d, k) == /\ Shaped(d) /\ BootedTo(d.ctl, k) /\ d.pos \in [Sheet -> Int \X Int]
                       /\ d.pos[Back] = <<0, 0>>
<1>1. Back = 0 /\ Win = 1 /\ Cursor = 2 /\ Login = 3
  BY CompositorAssumption
<1>2. Up(Bare, 0)
  <2>1. BootedTo(shtctl_init, 0)
    BY MaxSheetsAssumption DEF BootedTo, WellFormed, CtlType, ZOrderOf, shtctl_init, Sheet, Slots
  <2> QED
    BY <2>1, Sids DEF Shaped, Bare
<1>3. ASSUME NEW d, NEW s \in 0..3, Up(d, s) PROVE Up(updown(place(d, s), s, s), s + 1)
  BY <1>3, PlaceStep
<1> HIDE DEF Up
<1>4. Up(BackShown, 1)
  <2>1. Up(updown(place(Bare, 0), 0, 0), 0 + 1)
    BY <1>2, <1>3
  <2> QED
    BY <1>1, <2>1 DEF BackShown
<1>5. Up(WinShown, 2)
  <2>1. Up(updown(place(BackShown, 1), 1, 1), 1 + 1)
    BY <1>3, <1>4
  <2> QED
    BY <1>1, <2>1 DEF WinShown
<1>6. Up(CursorShown, 3)
  <2> DEFINE over == updown(place(WinShown, 2), 2, 2)
  <2>1. Up(over, 2 + 1)
    BY <1>3, <1>5
  <2>2. CursorShown = shtctl_refresh_all(over)
    BY <1>1 DEF CursorShown
  <2> HIDE DEF over
  <2> QED
    BY <2>1, <2>2, RefreshAllParts DEF Up
<1>7. Up(LoginShown, 4)
  <2>1. Up(updown(place(CursorShown, 3), 3, 3), 3 + 1)
    BY <1>3, <1>6
  <2> QED
    BY <1>1, <2>1 DEF LoginShown
<1>8. Frame(updown(LoginShown, Cursor, LoginShown.ctl.top))
  BY <1>7, UpdownParts, CursorOnTop DEF Up, Frame, Placed
<1> QED
  BY <1>8, RefreshAllPaints DEF Booted

(* The inductive invariant, of the state.                                  *)
PictureSound == Sound(display)

LEMMA AlwaysSound == Spec => []PictureSound
<1>1. Init => PictureSound
  BY BootPaints DEF PictureSound
<1>2. PictureSound /\ [Next]_vars => PictureSound'
  BY StepPaints DEF PictureSound
<1> QED
  BY <1>1, <1>2, PTL DEF Spec

-----------------------------------------------------------------------------
(* The painter's choice is the highest opaque sheet.                       *)
LEMMA PainterPicks ==
  ASSUME NEW d, WellFormed(d.ctl), NEW p, NEW x, IsTop(d, p, x)
  PROVE  TopOwner(d, p) = x
<1> DEFINE S == {h \in 0..d.ctl.top : Kind(d, At(d, h), p) = "opaque"}
           m == Max(S)
<1>1. x \in Visible(d.ctl) /\ Kind(d, x, p) = "opaque"
  BY DEF IsTop
<1>2. d.ctl.height[x] \in S /\ d.ctl.top \in Int
  BY <1>1, AtHeight, Numbers
<1>3. m \in S /\ \A y \in S : y <= m
  <2>1. S \in SUBSET (0..d.ctl.top) /\ S # {}
    BY <1>2
  <2> HIDE DEF S
  <2> QED
    BY <1>2, <2>1, Highest
<1>4. TopOwner(d, p) = At(d, m)
  BY DEF TopOwner
<1> HIDE DEF m
<1>5. At(d, m) \in Visible(d.ctl) /\ d.ctl.height[At(d, m)] = m /\ Kind(d, At(d, m), p) = "opaque"
  BY <1>3, AtHeight
<1>6. m <= d.ctl.height[x]
  BY <1>5 DEF IsTop
<1>7. d.ctl.height[x] <= m /\ m \in Int /\ d.ctl.height[x] \in Int
  BY <1>2, <1>3
<1>8. d.ctl.height[x] = m
  BY <1>6, <1>7
<1> QED
  BY <1>1, <1>4, <1>8, AtHeight

(* map is always what the painter's algorithm computes from scratch        *)
(* (window.h:221, 230, 250, 289).                                          *)
THEOREM MapAsPainted == Spec => []MapIsPainter
<1>1. PictureSound => MapIsPainter
  <2> SUFFICES ASSUME PictureSound, NEW p \in Cell
               PROVE  display.map[p] = TopOwner(display, p)
    BY DEF MapIsPainter
  <2>1. WellFormed(display.ctl) /\ IsTop(display, p, display.map[p])
    BY DEF PictureSound, Sound, Painted, Frame, Stacked
  <2> QED
    BY <2>1, PainterPicks
<1> QED
  BY <1>1, AlwaysSound, PTL

(* The framebuffer always shows a pixel of the sheet that map names        *)
(* (window.h:222, 231, 251, 291-292).                                      *)
THEOREM ScreenAsMapped == Spec => []ScreenShowsOwners
<1>1. PictureSound => ScreenShowsOwners
  BY DEF PictureSound, Sound, Painted, ScreenShowsOwners
<1> QED
  BY <1>1, AlwaysSound, PTL

-----------------------------------------------------------------------------
(* Shadow pixels over p between two heights.                               *)
Shades(d, p, lo, hi) == Cardinality({h \in lo..hi : Kind(d, At(d, h), p) = "shadow"})

(* A pixel as the painter leaves it.                                       *)
Exact(d, p) == d.vram[p] = [own  |-> TopOwner(d, p),
                            dark |-> Min({MaxDark, ShadowsOn(d, p)})]

LEMMA MinIs ==
  ASSUME NEW a \in Int, NEW b \in Int
  PROVE  Min({a, b}) = IF a <= b THEN a ELSE b
BY DEF Min

(* Darkening twice adds up.                                                *)
LEMMA DarkenTwice ==
  ASSUME NEW a \in Nat, NEW b \in Nat
  PROVE  /\ Darken(0, a) = Min({MaxDark, a})
         /\ Darken(Min({MaxDark, a}), b) = Min({MaxDark, a + b})
<1>1. MaxDark \in Nat \ {0}
  BY CompositorAssumption
<1>2. Min({MaxDark, a}) = IF MaxDark <= a THEN MaxDark ELSE a
  BY <1>1, MinIs
<1> DEFINE m == Min({MaxDark, a})
<1>3. m \in Nat
  BY <1>1, <1>2
<1>4. Min({MaxDark, m + b}) = IF MaxDark <= m + b THEN MaxDark ELSE m + b
  BY <1>1, <1>3, MinIs
<1>5. Min({MaxDark, a + b}) = IF MaxDark <= a + b THEN MaxDark ELSE a + b
  BY <1>1, MinIs
<1> HIDE DEF m
<1>6. Min({MaxDark, m + b}) = Min({MaxDark, a + b})
  BY <1>1, <1>2, <1>3, <1>4, <1>5 DEF m
<1> QED
  BY <1>6 DEF Darken, m

(* Counting shadows.                                                       *)
LEMMA ShadesCount ==
  ASSUME NEW d, NEW p, NEW lo \in Int, NEW hi \in Int
  PROVE  /\ Shades(d, p, lo, hi) \in Nat
         /\ hi < lo => Shades(d, p, lo, hi) = 0
         /\ lo <= hi => Shades(d, p, lo, hi) = Shades(d, p, lo, hi - 1) + Shades(d, p, hi, hi)
<1> DEFINE S(l, h) == {g \in l..h : Kind(d, At(d, g), p) = "shadow"}
<1>1. ASSUME NEW l \in Int, NEW h \in Int PROVE IsFiniteSet(S(l, h)) /\ Cardinality(S(l, h)) \in Nat
  <2>1. IsFiniteSet(l..h)
    BY FS_Interval
  <2>2. IsFiniteSet(S(l, h))
    BY <2>1, FS_Subset
  <2> QED
    BY <2>2, FS_CardinalityType
<1>2. ASSUME hi < lo PROVE Cardinality(S(lo, hi)) = 0
  <2>1. S(lo, hi) = {}
    BY <1>2
  <2> QED
    BY <2>1, FS_EmptySet
<1>3. ASSUME lo <= hi
      PROVE  Cardinality(S(lo, hi)) = Cardinality(S(lo, hi - 1)) + Cardinality(S(hi, hi))
  <2>1. S(lo, hi) = S(lo, hi - 1) \cup S(hi, hi) /\ S(lo, hi - 1) \cap S(hi, hi) = {}
    BY <1>3
  <2>2. hi - 1 \in Int
    OBVIOUS
  <2>3. IsFiniteSet(S(lo, hi - 1)) /\ IsFiniteSet(S(hi, hi))
    BY <1>1, <2>2
  <2> HIDE DEF S
  <2>4. Cardinality(S(lo, hi - 1) \cup S(hi, hi))
          = Cardinality(S(lo, hi - 1)) + Cardinality(S(hi, hi)) - Cardinality({})
    BY <2>1, <2>3, FS_Union
  <2> QED
    BY <1>1, <2>1, <2>2, <2>4, FS_EmptySet
<1> QED
  BY <1>1, <1>2, <1>3 DEF Shades

(* Where no pixel of those heights changed, neither did the count.         *)
LEMMA ShadesSame ==
  ASSUME NEW d, NEW e, NEW p, NEW lo \in Int, NEW hi \in Int,
         \A h \in lo..hi : Kind(e, At(e, h), p) = Kind(d, At(d, h), p)
  PROVE  Shades(e, p, lo, hi) = Shades(d, p, lo, hi)
<1>1. {h \in lo..hi : Kind(e, At(e, h), p) = "shadow"} = {h \in lo..hi : Kind(d, At(d, h), p) = "shadow"}
  OBVIOUS
<1> QED
  BY <1>1 DEF Shades

LEMMA NoShades ==
  ASSUME NEW d, NEW p, NEW lo \in Int, NEW hi \in Int,
         \A h \in lo..hi : Kind(d, At(d, h), p) # "shadow"
  PROVE  Shades(d, p, lo, hi) = 0
<1>1. {h \in lo..hi : Kind(d, At(d, h), p) = "shadow"} = {}
  OBVIOUS
<1> QED
  BY <1>1, FS_EmptySet DEF Shades

(* The exact picture in those terms.                                       *)
LEMMA ExactIs ==
  ASSUME NEW d, WellFormed(d.ctl), NEW p, NEW x, IsTop(d, p, x)
  PROVE  Exact(d, p) <=> d.vram[p] = [own  |-> x,
                                      dark |-> Min({MaxDark, Shades(d, p, d.ctl.height[x] + 1, d.ctl.top)})]
<1> DEFINE k == d.ctl.height[x]
           n == d.ctl.top
<1>1. TopOwner(d, p) = x
  BY PainterPicks
<1>2. k \in 0..n /\ n \in Int
  BY AtHeight, Numbers DEF IsTop
<1> HIDE DEF k, n
<1>3. {h \in 0..n : Kind(d, At(d, h), p) = "shadow" /\ h > k}
        = {h \in k+1..n : Kind(d, At(d, h), p) = "shadow"}
  BY <1>2
<1>4. ShadowsOn(d, p) = Shades(d, p, k + 1, n)
  BY <1>1, <1>3 DEF ShadowsOn, Shades, k, n
<1> QED
  BY <1>1, <1>4 DEF Exact, k, n

(* What sheet_refreshsub makes of a pixel whose owner map knows.           *)
SubResult(d, area, h0, h1, p) ==
  LET k == d.ctl.height[d.map[p]]
  IN  IF p \notin area THEN d.vram[p]
      ELSE IF k \in h0..h1
        THEN [own |-> d.map[p], dark |-> Darken(0, Shades(d, p, k + 1, h1))]
      ELSE [own |-> d.vram[p].own, dark |-> Darken(d.vram[p].dark, Shades(d, p, h0, h1))]

LEMMA SubDark ==
  ASSUME NEW d, Shaped(d), Placed(d), WellFormed(d.ctl), NEW area, NEW h0 \in Nat, NEW h1 \in Int,
         h1 <= d.ctl.top, NEW p \in Cell, IsTop(d, p, d.map[p])
  PROVE  sheet_refreshsub(d, area, h0, h1).vram[p] = SubResult(d, area, h0, h1, p)
<1> DEFINE e == sheet_refreshsub(d, area, h0, h1)
           x == d.map[p]
           k == d.ctl.height[x]
           drawn == {h \in h0..h1 : x = At(d, h) /\ p \in Rect(d, At(d, h))}
           start == IF drawn = {} THEN h0 ELSE Max(drawn) + 1
           shades == Cardinality({h \in start..h1 : Kind(d, At(d, h), p) = "shadow"})
           pixel == IF drawn = {} THEN d.vram[p] ELSE [own |-> x, dark |-> 0]
<1>1. x \in Visible(d.ctl) /\ Kind(d, x, p) = "opaque" /\ d.ctl.top \in Int
  BY Numbers DEF IsTop
<1>2. x \in Sheet /\ k \in 0..d.ctl.top /\ At(d, k) = x
  BY <1>1, AtHeight
<1>3. p \in Rect(d, x)
  BY <1>1, <1>2, OpaqueInside
<1>4. \A h \in 0..d.ctl.top : At(d, h) = x => h = k
  BY AtHeight
<1>5. drawn = IF k \in h0..h1 THEN {k} ELSE {}
  <2>1. \A h \in h0..h1 : h \in 0..d.ctl.top
    BY <1>1
  <2> HIDE DEF k, x
  <2> QED
    BY <1>2, <1>3, <1>4, <2>1
<1>6. e.vram[p] = IF p \in area THEN [own |-> pixel.own, dark |-> Darken(pixel.dark, shades)]
                  ELSE d.vram[p]
  BY DEF sheet_refreshsub, Shaped
<1> HIDE DEF e, drawn, k, x
<1>7. CASE k \in h0..h1
  <2>1. drawn = {k} /\ drawn # {}
    BY <1>5, <1>7
  <2>2. start = k + 1
    <3>1. {k} \in SUBSET (0..d.ctl.top) /\ {k} # {}
      BY <1>2
    <3>2. Max({k}) = k
      BY <1>1, <3>1, Highest
    <3> QED
      BY <2>1, <3>2
  <2>3. pixel.own = x /\ pixel.dark = 0
    BY <2>1
  <2> HIDE DEF pixel, start
  <2> QED
    BY <1>6, <1>7, <2>2, <2>3 DEF Shades, SubResult, e, k, x
<1>8. CASE k \notin h0..h1
  <2>1. drawn = {}
    BY <1>5, <1>8
  <2>2. start = h0 /\ pixel = d.vram[p]
    BY <2>1
  <2> HIDE DEF pixel, start
  <2> QED
    BY <1>6, <1>8, <2>2 DEF Shades, SubResult, e, k, x
<1> QED
  BY <1>7, <1>8 DEF e

(* The full refresh draws every pixel of the screen afresh and darkens it  *)
(* once for every shadow above it.                                         *)
LEMMA RefreshAllExact ==
  ASSUME NEW d, Frame(d)
  PROVE  ExactPicture(shtctl_refresh_all(d))
<1> DEFINE m == sheet_refreshmap(d, Cell, 0)
           e == shtctl_refresh_all(d)
<1>1. Shaped(d) /\ Placed(d) /\ Stacked(d.ctl) /\ WellFormed(d.ctl) /\ d.ctl.top \in Int
  BY Numbers DEF Frame, Stacked
<1>2. Shaped(m) /\ m.ctl = d.ctl /\ m.pos = d.pos
  BY <1>1, MapParts
<1>3. e = sheet_refreshsub(m, Cell, 0, m.ctl.top)
  BY DEF shtctl_refresh_all
<1>4. \A p \in Cell : IsTop(d, p, m.map[p])
  BY MapFromBack
<1>5. Shaped(e) /\ e.ctl = d.ctl /\ e.pos = d.pos
  BY <1>1, RefreshAllParts
<1> HIDE DEF m, e
<1>6. ASSUME NEW p \in Cell PROVE Exact(e, p)
  <2> DEFINE x == m.map[p]
             k == m.ctl.height[x]
             n == m.ctl.top
  <2>1. IsTop(m, p, x) /\ IsTop(e, p, x)
    BY <1>2, <1>4, <1>5, SameTop
  <2>2. k \in 0..n /\ n \in Int
    BY <1>1, <1>2, <2>1, AtHeight DEF IsTop
  <2>3. e.vram[p] = [own |-> x, dark |-> Darken(0, Shades(m, p, k + 1, n))]
    <3>1. Shaped(m) /\ Placed(m) /\ WellFormed(m.ctl) /\ 0 \in Nat /\ n <= n
      BY <1>1, <1>2, <2>2 DEF Placed
    <3>2. e.vram[p] = SubResult(m, Cell, 0, n, p)
      BY <1>3, <2>1, <2>2, <3>1, SubDark
    <3> QED
      BY <2>2, <3>2 DEF SubResult
  <2>4. Shades(e, p, k + 1, n) = Shades(m, p, k + 1, n)
    <3>1. \A h : Kind(e, At(e, h), p) = Kind(m, At(m, h), p)
      BY <1>2, <1>5, SameKind DEF At
    <3> QED
      BY <2>2, <3>1, ShadesSame
  <2>5. Darken(0, Shades(m, p, k + 1, n)) = Min({MaxDark, Shades(m, p, k + 1, n)})
    BY <2>2, ShadesCount, DarkenTwice
  <2> QED
    BY <1>1, <1>2, <1>5, <2>1, <2>3, <2>4, <2>5, ExactIs
<1> QED
  BY <1>6 DEF ExactPicture, Exact, e

(* Whatever the partial refreshes did to the shadows, the full one when    *)
(* the login window goes repairs it (window.h:310-325, kernel.cpp:974).    *)
THEOREM LoginEndRepairs == Spec => FullRefreshRepairs
<1>1. PictureSound /\ LoginDone => ExactPicture(display')
  <2> SUFFICES ASSUME PictureSound, LoginDone PROVE ExactPicture(display')
    OBVIOUS
  <2>1. Login \in Windows /\ display' = shtctl_refresh_all(free(display, Login))
    BY DEF LoginDone, Windows
  <2>2. Frame(free(display, Login))
    BY <2>1, FreeFrame DEF PictureSound
  <2> QED
    BY <2>1, <2>2, RefreshAllExact
<1>2. PictureSound /\ [Next]_vars => [LoginDone => ExactPicture(display')]_vars
  BY <1>1
<1> QED
  BY <1>2, AlwaysSound, PTL DEF Spec, FullRefreshRepairs

-----------------------------------------------------------------------------
(* Heights without a shadow do not count.                                  *)
LEMMA ShadesUpTo ==
  ASSUME NEW d, NEW p, NEW lo \in Int, NEW hi \in Int, NEW n \in Int, hi <= n,
         \A h \in hi+1..n : Kind(d, At(d, h), p) # "shadow"
  PROVE  Shades(d, p, lo, n) = Shades(d, p, lo, hi)
<1>1. {h \in lo..n : Kind(d, At(d, h), p) = "shadow"} = {h \in lo..hi : Kind(d, At(d, h), p) = "shadow"}
  OBVIOUS
<1> QED
  BY <1>1 DEF Shades

(* A pixel is exact after sheet_slide if nothing above the sheet covers it *)
(* and it was exact before or in the rectangle the sheet leaves: the pass  *)
(* over the old place counts the shadows below the sheet, the one over the *)
(* new place adds its own, once (window.h:283-294).                        *)
LEMMA SlideExact ==
  ASSUME NEW d, Sound(d), NEW s \in Visible(d.ctl), s # Back, NEW to \in Int \X Int,
         NEW p \in Cell, p \notin Rect(d, s) => Exact(d, p),
         \A t \in Visible(d.ctl) : d.ctl.height[t] > d.ctl.height[s] => Kind(d, t, p) = "clear"
  PROVE  Exact(sheet_slide(d, s, to), p)
<1> DEFINE old == d.ctl.height[s]
           n == d.ctl.top
           m == [d EXCEPT !.pos[s] = to]
           from == Rect(d, s)
           goal == Rect(m, s)
           m1 == sheet_refreshmap(m, from, 0)
           m2 == sheet_refreshmap(m1, goal, old)
           e1 == sheet_refreshsub(m2, from, 0, Below(old))
           e == sheet_refreshsub(e1, goal, old, old)
           x == e.map[p]
           k == d.ctl.height[x]
<1>1. Shaped(d) /\ Placed(d) /\ Stacked(d.ctl) /\ WellFormed(d.ctl) /\ Painted(d)
  BY DEF Sound, Frame, Stacked
<1>2. /\ Shaped(m) /\ m.ctl = d.ctl /\ m.vram = d.vram /\ m.pos = [d.pos EXCEPT ![s] = to]
  BY <1>1 DEF Shaped
<1>3. s \in Sheet /\ old \in Nat /\ old \in 0..n /\ At(d, old) = s /\ n \in Int
  BY <1>1, AtHeight, Numbers
<1>4. sheet_slide(d, s, to) = e
  <2>1. ~(old < 0)
    BY <1>3
  <2> QED
    BY <2>1 DEF sheet_slide
<1>5. Sound(e)
  BY <1>4, SlidePaints
<1> HIDE DEF m, old
<1>6. Shaped(m1) /\ m1.ctl = d.ctl /\ m1.pos = m.pos /\ m1.vram = d.vram
  BY <1>2, MapParts
<1> HIDE DEF m1
<1>7. Shaped(m2) /\ m2.ctl = d.ctl /\ m2.pos = m.pos /\ m2.vram = d.vram
  BY <1>6, MapParts
<1> HIDE DEF m2
<1>8. Shaped(e1) /\ e1.ctl = d.ctl /\ e1.pos = m.pos /\ e1.map = m2.map
  BY <1>7, SubPixel
<1> HIDE DEF e1
<1>9. Shaped(e) /\ e.ctl = d.ctl /\ e.pos = m.pos /\ e.map = m2.map
  BY <1>8, SubPixel
<1> HIDE DEF e
<1>10. Placed(m) /\ \A t \in Sheet \ {s} : Kind(m, t, p) = Kind(d, t, p)
  <2>1. \A t \in Sheet \ {s} : m.pos[t] = d.pos[t]
    BY <1>1, <1>2 DEF Placed
  <2>2. Placed(m)
    BY <1>5, <1>9 DEF Sound, Frame, Placed
  <2> QED
    BY <2>1, <2>2, SameKind
<1>11. IsTop(e, p, x)
  BY <1>5 DEF Sound, Painted
<1>12. IsTop(m, p, x) /\ IsTop(m2, p, x) /\ IsTop(e1, p, x)
  BY <1>2, <1>7, <1>8, <1>9, <1>11, SameTop
<1>13. \A h : /\ At(m, h) = At(d, h) /\ At(m2, h) = At(d, h) /\ At(e1, h) = At(d, h)
              /\ At(e, h) = At(d, h)
              /\ Kind(m2, At(d, h), p) = Kind(m, At(d, h), p)
              /\ Kind(e1, At(d, h), p) = Kind(m, At(d, h), p)
              /\ Kind(e, At(d, h), p) = Kind(m, At(d, h), p)
  BY <1>2, <1>7, <1>8, <1>9, SameKind DEF At
<1>14. /\ x \in Visible(d.ctl) /\ x \in Sheet /\ k \in 0..n /\ At(d, k) = x
       /\ Kind(m, x, p) = "opaque"
  BY <1>1, <1>2, <1>12, AtHeight DEF IsTop
<1>15. \A h \in old+1..n : At(d, h) \in Sheet \ {s} /\ Kind(d, At(d, h), p) = "clear"
  <2> TAKE h \in old+1..n
  <2>1. h \in 0..n
    BY <1>3
  <2>2. At(d, h) \in Visible(d.ctl) /\ d.ctl.height[At(d, h)] = h
    BY <1>1, <2>1, AtHeight
  <2>3. h > old /\ h # old
    BY <1>3
  <2> QED
    BY <1>1, <2>2, <2>3, AtHeight DEF old
<1>16. \A h \in old+1..n : Kind(m, At(d, h), p) = "clear"
  BY <1>10, <1>15
<1>17. k <= old /\ k \in Int /\ (x # s => k < old)
  <2>1. ~(k \in old+1..n)
    BY <1>14, <1>16
  <2>2. x # s => k # old
    BY <1>3, <1>14
  <2> QED
    BY <1>3, <1>14, <2>1, <2>2
<1> DEFINE Sh(lo, hi) == Shades(m, p, lo, hi)
<1>18. \A lo, hi \in Int : /\ Shades(m2, p, lo, hi) = Sh(lo, hi)
                           /\ Shades(e1, p, lo, hi) = Sh(lo, hi)
                           /\ Shades(e, p, lo, hi) = Sh(lo, hi)
  BY <1>13, ShadesSame
<1>19. Sh(k + 1, n) = Sh(k + 1, old)
  BY <1>3, <1>13, <1>16, <1>17, ShadesUpTo
<1>20. SUFFICES e.vram[p] = [own |-> x, dark |-> Min({MaxDark, Sh(k + 1, old)})]
  <2>1. Shades(e, p, k + 1, n) = Sh(k + 1, old)
    BY <1>3, <1>17, <1>18, <1>19
  <2> QED
    BY <1>1, <1>4, <1>9, <1>11, <1>20, <2>1, ExactIs
<1>21. e.vram[p] = IF p \notin goal THEN e1.vram[p]
                   ELSE IF k \in old..old
                     THEN [own |-> x, dark |-> Darken(0, Sh(k + 1, old))]
                   ELSE [own |-> e1.vram[p].own, dark |-> Darken(e1.vram[p].dark, Sh(old, old))]
  <2>1. Placed(e1) /\ WellFormed(e1.ctl) /\ old <= e1.ctl.top /\ old \in Nat /\ old \in Int
    BY <1>1, <1>3, <1>8, <1>10 DEF Placed
  <2>2. e1.map[p] = x /\ e1.ctl.height[e1.map[p]] = k
    BY <1>8, <1>9
  <2>3. Shades(e1, p, k + 1, old) = Sh(k + 1, old) /\ Shades(e1, p, old, old) = Sh(old, old)
    BY <1>3, <1>17, <1>18
  <2>4. IsTop(e1, p, e1.map[p])
    BY <1>12, <2>2
  <2> HIDE DEF goal, x, k, Sh
  <2>5. e.vram[p] = SubResult(e1, goal, old, old, p)
    BY <1>8, <2>1, <2>4, SubDark DEF e
  <2> QED
    BY <2>2, <2>3, <2>5 DEF SubResult
<1>22. Sh(k + 1, old) \in Nat /\ Sh(old, old) \in Nat /\ Sh(k + 1, old - 1) \in Nat
  BY <1>3, <1>17, ShadesCount
<1>23. CASE x = s
  <2>1. k = old /\ k \in old..old
    BY <1>3, <1>23 DEF old
  <2>2. p \in goal
    BY <1>3, <1>10, <1>14, <1>23, OpaqueInside
  <2>3. Darken(0, Sh(k + 1, old)) = Min({MaxDark, Sh(k + 1, old)})
    BY <1>22, DarkenTwice
  <2> QED
    BY <1>21, <2>1, <2>2, <2>3
<1>24. CASE x # s
  <2>1. k < old /\ k \notin old..old /\ k \in 0..Below(old) /\ Below(old) \in Int /\ Below(old) = old - 1
    BY <1>3, <1>14, <1>17, <1>24 DEF Below
  <2> DEFINE a == Sh(k + 1, old - 1)
             b == Sh(old, old)
  <2>2. Sh(k + 1, old) = a + b
    BY <1>3, <1>17, <2>1, ShadesCount
  <2>3. e1.vram[p] = [own |-> x, dark |-> Min({MaxDark, a})]
    <3>1. CASE p \in from
      <4>1. Placed(m2) /\ WellFormed(m2.ctl) /\ Below(old) <= m2.ctl.top /\ 0 \in Nat
        BY <1>1, <1>3, <1>7, <1>10, <2>1 DEF Placed
      <4>2. m2.map[p] = x /\ m2.ctl.height[m2.map[p]] = k
        BY <1>7, <1>9
      <4>3. Shades(m2, p, k + 1, Below(old)) = a
        BY <1>3, <1>17, <1>18, <2>1
      <4>4. Darken(0, a) = Min({MaxDark, a})
        BY <1>22, DarkenTwice
      <4>5. IsTop(m2, p, m2.map[p])
        BY <1>12, <4>2
      <4> HIDE DEF x, k, a, from
      <4>6. e1.vram[p] = SubResult(m2, from, 0, Below(old), p)
        BY <1>7, <2>1, <4>1, <4>5, SubDark DEF e1
      <4> QED
        BY <2>1, <3>1, <4>2, <4>3, <4>4, <4>6 DEF SubResult
    <3>2. CASE p \notin from
      <4>1. Kind(d, s, p) = "clear"
        BY <1>1, <1>3, <3>2, OpaqueInside
      <4>2. \A t \in Visible(d.ctl) \ {s} : Kind(m, t, p) = Kind(d, t, p)
        BY <1>1, <1>10, AtHeight
      <4>3. IsTop(d, p, x)
        BY <1>2, <1>12, <1>24, <4>1, <4>2 DEF IsTop
      <4>4. Exact(d, p)
        BY <3>2
      <4>5. d.vram[p] = [own |-> x, dark |-> Min({MaxDark, Shades(d, p, k + 1, n)})]
        BY <1>1, <4>3, <4>4, ExactIs
      <4>6. \A h \in old..n : Kind(d, At(d, h), p) # "shadow"
        <5> TAKE h \in old..n
        <5>1. h = old \/ h \in old+1..n
          BY <1>3
        <5> QED
          BY <1>3, <1>15, <4>1, <5>1
      <4>7. Shades(d, p, k + 1, n) = Shades(d, p, k + 1, old - 1)
        <5>1. (old - 1) + 1 = old /\ old - 1 \in Int /\ old - 1 <= n /\ k + 1 \in Int
          BY <1>3, <1>17
        <5> QED
          BY <1>3, <4>6, <5>1, ShadesUpTo
      <4>8. \A h \in k+1..old-1 : Kind(m, At(m, h), p) = Kind(d, At(d, h), p)
        <5> TAKE h \in k+1..old-1
        <5>1. h \in 0..n /\ h # old
          BY <1>3, <1>14
        <5>2. At(d, h) \in Visible(d.ctl) /\ d.ctl.height[At(d, h)] = h
          BY <1>1, <5>1, AtHeight
        <5>3. At(d, h) # s
          BY <5>1, <5>2 DEF old
        <5> QED
          BY <1>13, <4>2, <5>2, <5>3
      <4>9. a = Shades(d, p, k + 1, old - 1)
        BY <1>3, <1>17, <4>8, ShadesSame
      <4>10. e1.vram[p] = m2.vram[p]
        <5>1. Placed(m2) /\ WellFormed(m2.ctl) /\ Below(old) <= m2.ctl.top /\ 0 \in Nat
          BY <1>1, <1>3, <1>7, <1>10, <2>1 DEF Placed
        <5>2. m2.map[p] = x
          BY <1>9
        <5>3. IsTop(m2, p, m2.map[p])
          BY <1>12, <5>2
        <5> HIDE DEF x, k, from
        <5>4. e1.vram[p] = SubResult(m2, from, 0, Below(old), p)
          BY <1>7, <2>1, <5>1, <5>3, SubDark DEF e1
        <5> QED
          BY <3>2, <5>4 DEF SubResult
      <4> QED
        BY <1>7, <4>5, <4>7, <4>9, <4>10
    <3> QED
      BY <3>1, <3>2
  <2>4. a \in Nat /\ b \in Nat
    BY <1>22
  <2> HIDE DEF a, b
  <2>5. Darken(Min({MaxDark, a}), b) = Min({MaxDark, a + b})
    BY <2>4, DarkenTwice
  <2>6. CASE p \in goal
    <3>1. e.vram[p] = [own |-> e1.vram[p].own, dark |-> Darken(e1.vram[p].dark, Sh(old, old))]
      BY <1>21, <2>1, <2>6
    <3>2. e1.vram[p].own = x /\ e1.vram[p].dark = Min({MaxDark, a})
      BY <2>3
    <3> HIDE DEF Sh, x, k
    <3> QED
      BY <2>2, <2>5, <3>1, <3>2 DEF b
  <2>7. CASE p \notin goal
    <3>1. Kind(m, s, p) = "clear"
      BY <1>3, <1>10, <2>7, OpaqueInside
    <3>2. b = 0
      <4>1. \A h \in old..old : Kind(m, At(m, h), p) # "shadow"
        BY <1>3, <1>13, <3>1
      <4> QED
        BY <1>3, <4>1, NoShades DEF b
    <3>3. a + b = a
      BY <2>4, <3>2
    <3> QED
      BY <1>21, <2>2, <2>3, <2>7, <3>3
  <2> QED
    BY <2>6, <2>7
<1> QED
  BY <1>23, <1>24

(* The cursor follows the mouse: exact where it was not, exact all over.   *)
LEMMA FollowExact ==
  ASSUME NEW d, Sound(d), CursorFollows(d),
         \A p \in Cell : p \notin Rect(d, Cursor) => Exact(d, p)
  PROVE  ExactPicture(display')
<1>1. PICK to \in Positions : display' = sheet_slide(d, Cursor, to)
  BY DEF CursorFollows
<1>2. to \in Int \X Int
  BY CompositorAssumption
<1>3. /\ Cursor \in Visible(d.ctl) /\ Cursor # Back
      /\ \A t \in Visible(d.ctl) : ~(d.ctl.height[t] > d.ctl.height[Cursor])
  <2>1. Stacked(d.ctl)
    BY DEF Sound, Frame
  <2> QED
    BY <2>1, StackNumbers, Sids
<1>4. \A p \in Cell : Exact(sheet_slide(d, Cursor, to), p)
  BY <1>2, <1>3, SlideExact
<1> QED
  BY <1>1, <1>4 DEF ExactPicture, Exact

(* Moving the cursor or dragging the window below it keeps an exact        *)
(* picture exact (window.h:180, 283-294).                                  *)
THEOREM DragIsExact == Spec => DragKeepsPicture
<1> DEFINE A == MoveCursor \/ \E s \in Windows : Drag(s)
<1>1. ASSUME PictureSound, A, ExactPicture(display) PROVE ExactPicture(display')
  <2>1. Sound(display) /\ \A p \in Cell : Exact(display, p)
    BY <1>1 DEF PictureSound, ExactPicture, Exact
  <2>2. CASE MoveCursor
    BY <2>1, <2>2, FollowExact DEF MoveCursor
  <2>3. ASSUME NEW s \in Windows, Drag(s) PROVE ExactPicture(display')
    <3>1. PICK to \in Positions : CursorFollows(sheet_slide(display, s, to))
      BY <2>3 DEF Drag
    <3> DEFINE c == display.ctl
               e == sheet_slide(display, s, to)
    <3>2. Stacked(c) /\ c.height[s] = c.top - 1
      BY <2>1, <2>3 DEF Drag, Sound, Frame, height, top
    <3>3. s \in Visible(c) /\ s # Back /\ s # Cursor /\ Cursor \in Sheet
      <4>1. c.height[s] >= 0
        BY <3>2, StackNumbers
      <4>2. s \in c.flags
        BY <3>2, <4>1 DEF Stacked
      <4> QED
        BY <4>1, <4>2, Sids DEF Visible, Windows
    <3>4. to \in Int \X Int
      BY CompositorAssumption
    <3>5. \A t \in Visible(c) : c.height[t] > c.height[s] => t = Cursor
      BY <3>2, StackNumbers
    <3>6. Sound(e)
      BY <2>1, <3>3, <3>4, SlidePaints
    <3>7. Rect(e, Cursor) = Rect(display, Cursor) /\ Placed(display)
      <4>1. e.pos[Cursor] = display.pos[Cursor]
        <5> DEFINE m == [display EXCEPT !.pos[s] = to]
        <5>1. Shaped(display) /\ Placed(display)
          BY <2>1 DEF Sound, Frame
        <5>2. Shaped(m) /\ m.pos[Cursor] = display.pos[Cursor]
          BY <3>3, <5>1 DEF Shaped, Placed
        <5> DEFINE m1 == sheet_refreshmap(m, Rect(display, s), 0)
                   m2 == sheet_refreshmap(m1, Rect(m, s), c.height[s])
                   e1 == sheet_refreshsub(m2, Rect(display, s), 0, Below(c.height[s]))
                   e2 == sheet_refreshsub(e1, Rect(m, s), c.height[s], c.height[s])
        <5>3. e = IF c.height[s] < 0 THEN m ELSE e2
          BY DEF sheet_slide
        <5> HIDE DEF m
        <5>4. Shaped(m1) /\ m1.pos = m.pos
          BY <5>2, MapParts
        <5> HIDE DEF m1
        <5>5. Shaped(m2) /\ m2.pos = m.pos
          BY <5>4, MapParts
        <5> HIDE DEF m2
        <5>6. Shaped(e1) /\ e1.pos = m.pos
          BY <5>5, SubPixel
        <5> HIDE DEF e1
        <5>7. e2.pos = m.pos
          BY <5>6, SubPixel
        <5> HIDE DEF e2
        <5> QED
          BY <5>2, <5>3, <5>7
      <4> QED
        BY <2>1, <4>1, SameKind DEF Sound, Frame
    <3>8. ASSUME NEW p \in Cell, p \notin Rect(e, Cursor) PROVE Exact(e, p)
      <4>1. Kind(display, Cursor, p) = "clear"
        BY <3>3, <3>7, <3>8, OpaqueInside
      <4> QED
        BY <2>1, <3>3, <3>4, <3>5, <4>1, SlideExact
    <3> HIDE DEF e
    <3> QED
      BY <3>1, <3>6, <3>8, FollowExact DEF e
  <2> QED
    BY <1>1, <2>2, <2>3
<1>2. PictureSound /\ [Next]_vars => [A /\ ExactPicture(display) => ExactPicture(display')]_vars
  BY <1>1
<1> QED
  BY <1>2, AlwaysSound, PTL DEF Spec, DragKeepsPicture

=============================================================================
