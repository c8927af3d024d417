----------------------------- MODULE DrawProofs -----------------------------
(* Proofs about the clipped drawing primitives, for every buffer size and  *)
(* every rectangle of integers, and about the login window drawn with      *)
(* them, for every size of window, band, box and font and every sequence   *)
(* of keys.                                                                *)
EXTENDS LoginWindow, SequenceTheorems, TLAPS

USE DrawAssumption

Rectangle == [x : Int, y : Int, w : Int, h : Int]

(* One axis of clip_rect: the part of an interval that is below a limit.   *)
LEMMA ClipAxis ==
  ASSUME NEW v \in Int, NEW n \in Int, NEW f \in Nat
  PROVE  LET lo == AtLeast(v, 0)
             hi == AtMost(v + n, f)
         IN  /\ lo \in Int /\ hi \in Int
             /\ \A i \in Int : i \in lo..hi-1 <=> i \in v..v+n-1 /\ i \in 0..f-1
BY DEF AtLeast, AtMost

(* clip_rect returns the part of the rectangle that is in the buffer       *)
(* (draw.h:20-31).                                                         *)
LEMMA ClipRect ==
  ASSUME NEW r \in Rectangle
  PROVE  Pixels(clip_rect(r)) = Pixels(r) \cap Screen
<1> DEFINE x0 == AtLeast(r.x, 0)
           y0 == AtLeast(r.y, 0)
           x1 == AtMost(r.x + r.w, FW)
           y1 == AtMost(r.y + r.h, FH)
<1>1. r.x \in Int /\ r.y \in Int /\ r.w \in Int /\ r.h \in Int
  BY DEF Rectangle
<1>2. /\ x0 \in Int /\ x1 \in Int /\ y0 \in Int /\ y1 \in Int
      /\ \A i \in Int : i \in x0..x1-1 <=> i \in r.x..r.x+r.w-1 /\ i \in 0..FW-1
      /\ \A i \in Int : i \in y0..y1-1 <=> i \in r.y..r.y+r.h-1 /\ i \in 0..FH-1
  BY <1>1, ClipAxis, DrawAssumption
<1>3. (x0..x1-1) \X (y0..y1-1) = Pixels(r) \cap Screen
  <2> HIDE DEF x0, x1, y0, y1
  <2>1. /\ x0..x1-1 = (r.x..r.x+r.w-1) \cap (0..FW-1)
        /\ y0..y1-1 = (r.y..r.y+r.h-1) \cap (0..FH-1)
    BY <1>1, <1>2
  <2> QED
    BY <2>1 DEF Pixels, Screen
<1>4. CASE x1 <= x0 \/ y1 <= y0
  <2>1. (x0..x1-1) \X (y0..y1-1) = {}
    <3> HIDE DEF x0, x1, y0, y1
    <3>1. x0..x1-1 = {} \/ y0..y1-1 = {}
      BY <1>2, <1>4
    <3> QED
      BY <3>1
  <2>2. clip_rect(r) = Nothing
    BY <1>4 DEF clip_rect
  <2>3. Pixels(Nothing) = {}
    <3>1. 0..0 + 0 - 1 = {}
      OBVIOUS
    <3> QED
      BY <3>1 DEF Pixels, Nothing
  <2> QED
    BY <1>3, <2>1, <2>2, <2>3
<1>5. CASE ~(x1 <= x0 \/ y1 <= y0)
  <2>1. clip_rect(r) = [x |-> x0, y |-> y0, w |-> x1 - x0, h |-> y1 - y0]
    BY <1>5 DEF clip_rect
  <2>2. Pixels(clip_rect(r)) = (x0..x1-1) \X (y0..y1-1)
    <3> HIDE DEF x0, x1, y0, y1
    <3>1. x0 + (x1 - x0) - 1 = x1 - 1 /\ y0 + (y1 - y0) - 1 = y1 - 1
      BY <1>2
    <3> QED
      BY <2>1, <3>1 DEF Pixels
  <2> QED
    BY <1>3, <2>2
<1> QED
  BY <1>4, <1>5

(* The area blit_c writes to is the same part (draw.h:48-53).              *)
LEMMA BlitArea ==
  ASSUME NEW r \in Rectangle
  PROVE  Pixels(BlitTo(r)) = Pixels(r) \cap Screen
<1> DEFINE x0 == AtLeast(r.x, 0)
           y0 == AtLeast(r.y, 0)
           x1 == AtMost(r.x + r.w, FW)
           y1 == AtMost(r.y + r.h, FH)
<1>1. r.x \in Int /\ r.y \in Int /\ r.w \in Int /\ r.h \in Int
  BY DEF Rectangle
<1>2. /\ x0 \in Int /\ x1 \in Int /\ y0 \in Int /\ y1 \in Int
      /\ \A i \in Int : i \in x0..x1-1 <=> i \in r.x..r.x+r.w-1 /\ i \in 0..FW-1
      /\ \A i \in Int : i \in y0..y1-1 <=> i \in r.y..r.y+r.h-1 /\ i \in 0..FH-1
  BY <1>1, ClipAxis, DrawAssumption
<1>3. /\ x0 + (r.w - Skipped(r.x)) = r.x + r.w
      /\ y0 + (r.h - Skipped(r.y)) = r.y + r.h
  BY <1>1 DEF AtLeast, Skipped
<1>4. BlitTo(r) = [x |-> x0, y |-> y0, w |-> x1 - x0, h |-> y1 - y0]
  BY <1>3 DEF BlitTo
<1>5. Pixels(BlitTo(r)) = (x0..x1-1) \X (y0..y1-1)
  <2> HIDE DEF x0, x1, y0, y1
  <2>1. x0 + (x1 - x0) - 1 = x1 - 1 /\ y0 + (y1 - y0) - 1 = y1 - 1
    BY <1>2
  <2> QED
    BY <1>4, <2>1 DEF Pixels
<1>6. (x0..x1-1) \X (y0..y1-1) = Pixels(r) \cap Screen
  <2> HIDE DEF x0, x1, y0, y1
  <2>1. /\ x0..x1-1 = (r.x..r.x+r.w-1) \cap (0..FW-1)
        /\ y0..y1-1 = (r.y..r.y+r.h-1) \cap (0..FH-1)
    BY <1>1, <1>2
  <2> QED
    BY <2>1 DEF Pixels, Screen
<1> QED
  BY <1>5, <1>6

-----------------------------------------------------------------------------
(* A pixel of the buffer is at an address of the memory, and no other      *)
(* pixel is at the same one.                                               *)
LEMMA LaterRow ==
  ASSUME NEW y1 \in Int, NEW y2 \in Int, y1 < y2
  PROVE  y1 * STRIDE + STRIDE <= y2 * STRIDE
<1>1. PICK d \in Nat : y2 = y1 + 1 + d
  <2>1. y2 - y1 - 1 \in Nat /\ y2 = y1 + 1 + (y2 - y1 - 1)
    OBVIOUS
  <2> QED
    BY <2>1
<1>2. y2 * STRIDE = y1 * STRIDE + STRIDE + d * STRIDE
  BY <1>1
<1>3. d * STRIDE \in Nat /\ y1 * STRIDE \in Int /\ y2 * STRIDE \in Int
  BY <1>1
<1> QED
  BY <1>2, <1>3

LEMMA AddrInjective ==
  ASSUME NEW p \in Screen, NEW q \in Screen, Addr(p[1], p[2]) = Addr(q[1], q[2])
  PROVE  p = q
<1>1. /\ p[1] \in 0..FW-1 /\ p[2] \in 0..FH-1 /\ p = <<p[1], p[2]>>
      /\ q[1] \in 0..FW-1 /\ q[2] \in 0..FH-1 /\ q = <<q[1], q[2]>>
  BY DEF Screen
<1>2. p[2] * STRIDE + p[1] = q[2] * STRIDE + q[1]
  BY DEF Addr
<1>3. p[2] * STRIDE \in Int /\ q[2] * STRIDE \in Int
  BY <1>1
<1>4. ~(p[2] < q[2])
  <2>1. p[2] < q[2] => p[2] * STRIDE + STRIDE <= q[2] * STRIDE
    BY <1>1, LaterRow
  <2> QED
    BY <1>1, <1>2, <1>3, <2>1
<1>5. ~(q[2] < p[2])
  <2>1. q[2] < p[2] => q[2] * STRIDE + STRIDE <= p[2] * STRIDE
    BY <1>1, LaterRow
  <2> QED
    BY <1>1, <1>2, <1>3, <2>1
<1>6. p[2] = q[2]
  BY <1>1, <1>4, <1>5
<1>7. p[1] = q[1]
  BY <1>1, <1>2, <1>3, <1>6
<1> QED
  BY <1>1, <1>6, <1>7

LEMMA AddrInMemory ==
  ASSUME NEW p \in Screen
  PROVE  Addr(p[1], p[2]) \in Memory
<1>1. p[1] \in 0..FW-1 /\ p[2] \in 0..FH-1
  BY DEF Screen
<1>2. p[2] * STRIDE + STRIDE <= FH * STRIDE
  BY <1>1, LaterRow
<1>3. p[2] * STRIDE \in Nat /\ FH * STRIDE \in Nat /\ STRIDE * FH = FH * STRIDE
  BY <1>1
<1> QED
  BY <1>1, <1>2, <1>3 DEF Addr, Memory

(* Writing pixels of the buffer changes those and no other pixel.          *)
LEMMA PaintedAt ==
  ASSUME NEW colour, DOMAIN colour \subseteq Screen, NEW p \in Screen
  PROVE  Painted(colour)[Addr(p[1], p[2])] =
           IF p \in DOMAIN colour THEN colour[p] ELSE mem[Addr(p[1], p[2])]
<1> DEFINE a == Addr(p[1], p[2])
           here == {q \in DOMAIN colour : Addr(q[1], q[2]) = a}
<1>1. a \in Memory
  BY AddrInMemory
<1>2. Painted(colour)[a] = IF here = {} THEN mem[a] ELSE colour[CHOOSE q \in here : TRUE]
  BY <1>1 DEF Painted
<1>3. \A q \in here : q = p
  BY AddrInjective
<1>4. CASE p \in DOMAIN colour
  <2>1. here = {p}
    BY <1>3, <1>4
  <2>2. (CHOOSE q \in here : TRUE) = p
    BY <2>1
  <2> QED
    BY <1>2, <1>4, <2>1, <2>2
<1>5. CASE p \notin DOMAIN colour
  <2>1. here = {}
    BY <1>3, <1>5
  <2> QED
    BY <1>2, <1>5, <2>1
<1> QED
  BY <1>4, <1>5

-----------------------------------------------------------------------------
(* fill_rect_c, pixel by pixel.                                            *)
LEMMA FillAt ==
  ASSUME NEW r \in Rectangle, NEW color, NEW p \in Screen
  PROVE  fill_rect_c(r, color)[Addr(p[1], p[2])] =
           IF p \in Pixels(r) THEN color ELSE mem[Addr(p[1], p[2])]
<1> DEFINE colour == [q \in Pixels(clip_rect(r)) |-> color]
<1>1. DOMAIN colour = Pixels(r) \cap Screen
  BY ClipRect
<1>2. p \in Pixels(r) => colour[p] = color
  BY <1>1
<1>3. fill_rect_c(r, color) = Painted(colour)
  BY DEF fill_rect_c
<1> HIDE DEF colour
<1> QED
  BY <1>1, <1>2, <1>3, PaintedAt

(* What fill_rect_c paints is exactly the visible part of the rectangle    *)
(* (draw.h:20-41).                                                         *)
THEOREM FillIsExact == WinSpec => []FillExact
<1>1. FillExact
  <2>1. Rects \subseteq Rectangle
    BY DEF Rectangle
  <2> QED
    BY <2>1, FillAt DEF FillExact
<1> QED
  BY <1>1, PTL

(* What blit_c copies is exactly the visible part of the whole picture     *)
(* (draw.h:43-63).                                                         *)
THEOREM BlitIsExact == WinSpec => []BlitExact
<1>1. BlitExact
  <2> SUFFICES ASSUME NEW r \in Rects, NEW p \in Screen
               PROVE  blit_c(r)[Addr(p[1], p[2])] =
                        IF p \in Pixels(r) /\ SRC[<<p[1] - r.x, p[2] - r.y>>] # KEY
                        THEN SRC[<<p[1] - r.x, p[2] - r.y>>]
                        ELSE mem[Addr(p[1], p[2])]
    BY DEF BlitExact
  <2>1. r \in Rectangle
    BY DEF Rectangle
  <2>2. Pixels(BlitTo(r)) = Pixels(r) \cap Screen
    BY <2>1, BlitArea
  <2>3. BlitSource(r, p) = SRC[<<p[1] - r.x, p[2] - r.y>>]
    <3>1. r.x \in Int /\ r.y \in Int /\ p[1] \in Int /\ p[2] \in Int
      BY <2>1 DEF Rectangle, Screen
    <3>2. BlitTo(r).x = AtLeast(r.x, 0) /\ BlitTo(r).y = AtLeast(r.y, 0)
      BY DEF BlitTo
    <3>3. /\ Skipped(r.x) + p[1] - BlitTo(r).x = p[1] - r.x
          /\ Skipped(r.y) + p[2] - BlitTo(r).y = p[2] - r.y
      BY <3>1, <3>2 DEF Skipped, AtLeast
    <3> QED
      BY <3>3 DEF BlitSource
  <2> DEFINE drawn  == {q \in Pixels(BlitTo(r)) : BlitSource(r, q) # KEY}
             colour == [q \in drawn |-> BlitSource(r, q)]
  <2>4. DOMAIN colour = drawn /\ drawn \subseteq Screen
    BY <2>2
  <2>5. p \in drawn <=> p \in Pixels(r) /\ SRC[<<p[1] - r.x, p[2] - r.y>>] # KEY
    BY <2>2, <2>3
  <2>6. p \in drawn => colour[p] = SRC[<<p[1] - r.x, p[2] - r.y>>]
    BY <2>3
  <2>7. blit_c(r) = Painted(colour)
    BY DEF blit_c
  <2> HIDE DEF drawn, colour
  <2> QED
    BY <2>4, <2>5, <2>6, <2>7, PaintedAt
<1> QED
  BY <1>1, PTL

-----------------------------------------------------------------------------
(* Writing pixels of the buffer changes nothing outside them.              *)
LEMMA PaintedOutside ==
  ASSUME NEW colour, DOMAIN colour \subseteq Screen, NEW a \in Memory \ Visible
  PROVE  Painted(colour)[a] = mem[a]
<1>1. {p \in DOMAIN colour : Addr(p[1], p[2]) = a} = {}
  BY DEF Visible
<1> QED
  BY <1>1 DEF Painted

(* What each primitive paints is part of the visible pixels.               *)
LEMMA FillOutside ==
  ASSUME NEW r \in Rectangle, NEW color, NEW a \in Memory \ Visible
  PROVE  fill_rect_c(r, color)[a] = mem[a]
<1> DEFINE colour == [p \in Pixels(clip_rect(r)) |-> color]
<1>1. DOMAIN colour \subseteq Screen
  BY ClipRect
<1>2. fill_rect_c(r, color) = Painted(colour)
  BY DEF fill_rect_c
<1> HIDE DEF colour
<1> QED
  BY <1>1, <1>2, PaintedOutside

LEMMA BlitOutside ==
  ASSUME NEW r \in Rectangle, NEW a \in Memory \ Visible
  PROVE  blit_c(r)[a] = mem[a]
<1> DEFINE drawn  == {p \in Pixels(BlitTo(r)) : BlitSource(r, p) # KEY}
           colour == [p \in drawn |-> BlitSource(r, p)]
<1>1. DOMAIN colour \subseteq Screen
  BY BlitArea
<1>2. blit_c(r) = Painted(colour)
  BY DEF blit_c
<1> HIDE DEF colour
<1> QED
  BY <1>1, <1>2, PaintedOutside

(* The pixels of a picture or a text that are tested one by one.           *)
LEMMA TestedOutside ==
  ASSUME NEW P, NEW colour, DOMAIN colour = {p \in P : OnScreen(p)},
         NEW a \in Memory \ Visible
  PROVE  Painted(colour)[a] = mem[a]
<1>1. DOMAIN colour \subseteq Screen
  BY DEF OnScreen
<1> QED
  BY <1>1, PaintedOutside

LEMMA TextOutside ==
  ASSUME NEW x, NEW y, NEW text, NEW color, NEW a \in Memory \ Visible
  PROVE  put_str_cs(x, y, text, color)[a] = mem[a]
<1> DEFINE colour == [p \in {q \in TextPixels(x, y, text) : OnScreen(q)} |-> color]
<1>1. DOMAIN colour = {q \in TextPixels(x, y, text) : OnScreen(q)}
  OBVIOUS
<1>2. put_str_cs(x, y, text, color) = Painted(colour)
  BY DEF put_str_cs
<1> HIDE DEF colour
<1> QED
  BY <1>1, <1>2, TestedOutside

LEMMA ButtonOutside ==
  ASSUME NEW b, NEW a \in Memory \ Visible
  PROVE  button(b)[a] = mem[a]
<1> DEFINE bit(p) == <<(p[1] - b.r.x) \div S, (p[2] - b.r.y) \div S>>
           colour == [p \in {q \in Pixels(b.r) : OnScreen(q)} |->
                        IF bit(p) \in b.black THEN Black ELSE White]
<1>1. DOMAIN colour = {q \in Pixels(b.r) : OnScreen(q)}
  OBVIOUS
<1>2. button(b) = Painted(colour)
  BY DEF button
<1> HIDE DEF colour
<1> QED
  BY <1>1, <1>2, TestedOutside

LEMMA BandOutside ==
  ASSUME NEW a \in Memory \ Visible
  PROVE  shadow_band[a] = mem[a]
<1> DEFINE colour == [p \in {q \in Screen : Distance(q) # 0} |->
                        Shade(SHADOW - AtMost(Distance(p), SHADOW) + 3)]
<1>1. DOMAIN colour \subseteq Screen
  OBVIOUS
<1>2. shadow_band = Painted(colour)
  BY DEF shadow_band
<1> HIDE DEF colour
<1> QED
  BY <1>1, <1>2, PaintedOutside

(* The calls of another caller.                                            *)
LEMMA CallOutside ==
  ASSUME Next, NEW a \in Memory \ Visible
  PROVE  mem'[a] = mem[a]
<1>1. Rects \subseteq Rectangle
  BY DEF Rectangle
<1>2. CASE Fill
  BY <1>1, <1>2, FillOutside DEF Fill
<1>3. CASE Blit
  BY <1>1, <1>3, BlitOutside DEF Blit
<1>4. CASE Char
  <2>1. PICK r \in Rects, color \in Colors, s \in Scales :
          mem' = put_char_cs(r.x, r.y, color, s)
    BY <1>4 DEF Char
  <2> DEFINE colour == [p \in {p \in CharPixels(r.x, r.y, s) : OnScreen(p)} |-> color]
  <2>2. DOMAIN colour = {p \in CharPixels(r.x, r.y, s) : OnScreen(p)}
    OBVIOUS
  <2>3. mem' = Painted(colour)
    BY <2>1 DEF put_char_cs
  <2> HIDE DEF colour
  <2> QED
    BY <2>2, <2>3, TestedOutside
<1> QED
  BY <1>2, <1>3, <1>4 DEF Next

(* The rectangles the login window is made of.                             *)
LEMMA WindowRects ==
  /\ Window \in Rectangle /\ Box \in Rectangle /\ Cleared \in Rectangle
  /\ Strip(SHADOW, W, Bar) \in Rectangle /\ Strip(SHADOW, W, Edge) \in Rectangle
  /\ Strip(SHADOW, Edge, Bar) \in Rectangle /\ Strip(SHADOW + W - Edge, Edge, Bar) \in Rectangle
BY WindowAssumption DEF Window, Strip, Cleared, Rectangle

(* Nothing outside the visible pixels is ever written, whatever rectangles *)
(* and characters are asked for (draw.h:3, 116-154), and nothing outside   *)
(* the login window's buffer, however long the name.                       *)
THEOREM NothingElsePainted == WinSpec => []OnlyVisiblePainted
<1>1. WinInit => OnlyVisiblePainted
  BY DEF WinInit, Init, OnlyVisiblePainted
<1>2. OnlyVisiblePainted /\ [WinNext]_allvars => OnlyVisiblePainted'
  <2> SUFFICES ASSUME OnlyVisiblePainted, [WinNext]_allvars, NEW a \in Memory \ Visible
               PROVE  mem'[a] = 0
    BY DEF OnlyVisiblePainted
  <2>1. mem[a] = 0
    BY DEF OnlyVisiblePainted
  <2>2. CASE Content \/ TitleBar \/ TopFrame \/ LeftFrame \/ RightFrame \/ InputBox \/ ClearBox
    BY <2>1, <2>2, WindowRects, FillOutside
       DEF Content, TitleBar, TopFrame, LeftFrame, RightFrame, InputBox, ClearBox, Draws
  <2>3. CASE TitleText \/ LabelText \/ WriteName
    BY <2>1, <2>3, TextOutside DEF TitleText, LabelText, WriteName, Draws
  <2>4. CASE CloseBtn \/ MinBtn
    BY <2>1, <2>4, ButtonOutside DEF CloseBtn, MinBtn, Draws
  <2>5. CASE ShadowBand
    BY <2>1, <2>5, BandOutside DEF ShadowBand, Draws
  <2>6. CASE Key
    BY <2>1, <2>6 DEF Key
  <2>7. CASE OtherDraws
    BY <2>1, <2>7, CallOutside DEF OtherDraws
  <2>8. CASE NextBuffer
    BY <2>8 DEF NextBuffer
  <2>9. CASE UNCHANGED allvars
    BY <2>1, <2>9 DEF allvars
  <2> QED
    BY <2>2, <2>3, <2>4, <2>5, <2>6, <2>7, <2>8, <2>9 DEF WinNext
<1> QED
  BY <1>1, <1>2, PTL DEF WinSpec

-----------------------------------------------------------------------------
HIDE DrawAssumption

(* Arithmetic the solvers need help with.                                  *)
LEMMA DivBound ==
  ASSUME NEW m \in Nat, NEW k \in Nat \ {0}, NEW n \in Nat, n <= m \div k
  PROVE  n * k <= m
<1>1. m \div k \in Nat /\ (m \div k) * k <= m
  OBVIOUS
<1>2. PICK d \in Nat : m \div k = n + d
  <2>1. (m \div k) - n \in Nat /\ m \div k = n + ((m \div k) - n) BY <1>1
  <2> QED BY <2>1
<1>3. (m \div k) * k = n * k + d * k BY <1>2
<1>4. d * k \in Nat /\ n * k \in Nat BY <1>2
<1> QED BY <1>1, <1>3, <1>4

LEMMA MulLE ==
  ASSUME NEW a \in Int, NEW b \in Int, NEW s \in Nat, a <= b
  PROVE  a * s <= b * s
<1>1. PICK d \in Nat : b = a + d
  <2>1. b - a \in Nat /\ b = a + (b - a) OBVIOUS
  <2> QED BY <2>1
<1>2. b * s = a * s + d * s BY <1>1
<1>3. d * s \in Nat /\ a * s \in Int BY <1>1
<1> QED BY <1>2, <1>3

(* What lies in one of the t rows of a block lies in the block.            *)
LEMMA RowInBlock ==
  ASSUME NEW s \in Nat, NEW t \in Nat, NEW c \in 0..t-1, NEW r \in 0..s-1
  PROVE  c * s + r \in Nat /\ c * s + r < t * s
<1>1. c \in Nat /\ c + 1 \in Int /\ t \in Int /\ c + 1 <= t /\ r \in Nat /\ r < s
  OBVIOUS
<1>2. (c + 1) * s <= t * s
  BY <1>1, MulLE
<1>3. (c + 1) * s = c * s + s
  BY <1>1
<1>4. c * s \in Nat /\ t * s \in Int
  BY <1>1
<1> QED
  BY <1>1, <1>2, <1>3, <1>4

(* The end of a cell of a text.                                            *)
LEMMA CellEnd ==
  ASSUME NEW i \in Nat, NEW b \in 0..CELL-1, NEW sx \in 0..S-1, CELL \in Nat, S \in Nat
  PROVE  /\ (CELL * i + b) * S + sx \in Nat
         /\ (CELL * i + b) * S + sx < (i + 1) * (CELL * S)
<1>1. CELL * i \in Nat /\ CELL * i + b + 1 <= CELL * i + CELL /\ CELL * i + b + 1 \in Nat
  OBVIOUS
<1> DEFINE v == CELL * i
<1>2. (v + b + 1) * S <= (v + CELL) * S
  BY <1>1, MulLE
<1>3. (v + b + 1) * S = (v + b) * S + S /\ (v + b) * S \in Nat
  BY <1>1
<1>4. (v + CELL) * S = (i + 1) * (CELL * S)
  OBVIOUS
<1> HIDE DEF v
<1>5. (i + 1) * (CELL * S) \in Nat OBVIOUS
<1> QED BY <1>2, <1>3, <1>4, <1>5 DEF v

-----------------------------------------------------------------------------
(* Each step of the login window, pixel by pixel.                          *)
LEMMA TestedAt ==
  ASSUME NEW P, NEW colour, DOMAIN colour = {q \in P : OnScreen(q)}, NEW p \in Screen
  PROVE  Painted(colour)[Addr(p[1], p[2])] =
           IF p \in P THEN colour[p] ELSE mem[Addr(p[1], p[2])]
<1>1. DOMAIN colour \subseteq Screen /\ (p \in DOMAIN colour <=> p \in P)
  BY DEF OnScreen
<1> QED
  BY <1>1, PaintedAt

LEMMA TextAt ==
  ASSUME NEW x, NEW y, NEW text, NEW color, NEW p \in Screen
  PROVE  put_str_cs(x, y, text, color)[Addr(p[1], p[2])] =
           IF p \in TextPixels(x, y, text) THEN color ELSE mem[Addr(p[1], p[2])]
<1> DEFINE T == TextPixels(x, y, text)
           colour == [q \in {t \in T : OnScreen(t)} |-> color]
<1> HIDE DEF T
<1>1. DOMAIN colour = {q \in T : OnScreen(q)}
  OBVIOUS
<1>2. p \in T => colour[p] = color
  BY DEF OnScreen
<1>3. put_str_cs(x, y, text, color) = Painted(colour)
  BY DEF put_str_cs, T
<1> HIDE DEF colour
<1> QED
  BY <1>1, <1>2, <1>3, TestedAt DEF T

LEMMA ButtonAt ==
  ASSUME NEW b, NEW p \in Screen
  PROVE  button(b)[Addr(p[1], p[2])] \in {Black, White, mem[Addr(p[1], p[2])]}
<1> DEFINE bit(q) == <<(q[1] - b.r.x) \div S, (q[2] - b.r.y) \div S>>
           P == Pixels(b.r)
           colour == [q \in {t \in P : OnScreen(t)} |->
                        IF bit(q) \in b.black THEN Black ELSE White]
<1>1. button(b) = Painted(colour)
  BY DEF button
<1> HIDE DEF P, bit
<1>2. DOMAIN colour = {q \in P : OnScreen(q)}
  OBVIOUS
<1>3. p \in P => colour[p] \in {Black, White}
  BY DEF OnScreen
<1> HIDE DEF colour
<1>4. Painted(colour)[Addr(p[1], p[2])] =
        IF p \in P THEN colour[p] ELSE mem[Addr(p[1], p[2])]
  <2>1. DOMAIN colour \subseteq Screen /\ (p \in DOMAIN colour <=> p \in P)
    BY <1>2 DEF OnScreen
  <2> QED
    BY <2>1, PaintedAt
<1>5. CASE p \in P
  <2>1. Painted(colour)[Addr(p[1], p[2])] \in {Black, White}
    BY ONLY <1>3, <1>4, <1>5
  <2> QED
    BY ONLY <1>1, <2>1
<1>6. CASE p \notin P
  <2>1. Painted(colour)[Addr(p[1], p[2])] = mem[Addr(p[1], p[2])]
    BY ONLY <1>4, <1>6
  <2> QED
    BY ONLY <1>1, <2>1
<1> QED
  BY ONLY <1>5, <1>6

LEMMA BandAt ==
  ASSUME NEW p \in Screen
  PROVE  shadow_band[Addr(p[1], p[2])] =
           IF Distance(p) # 0 THEN Shade(SHADOW - AtMost(Distance(p), SHADOW) + 3)
           ELSE mem[Addr(p[1], p[2])]
<1> DEFINE colour == [q \in {t \in Screen : Distance(t) # 0} |->
                        Shade(SHADOW - AtMost(Distance(q), SHADOW) + 3)]
<1>1. DOMAIN colour \subseteq Screen /\ (p \in DOMAIN colour <=> Distance(p) # 0)
  OBVIOUS
<1>2. Distance(p) # 0 => colour[p] = Shade(SHADOW - AtMost(Distance(p), SHADOW) + 3)
  OBVIOUS
<1>3. shadow_band = Painted(colour)
  BY DEF shadow_band
<1> HIDE DEF colour
<1> QED
  BY <1>1, <1>2, <1>3, PaintedAt

(* The window is what is at distance 0, the rings of the band are what is  *)
(* at one distance.                                                        *)
LEMMA Geometry ==
  /\ Pixels(Window) \subseteq Screen
  /\ \A p \in Screen : Distance(p) = 0 <=> p \in Pixels(Window)
  /\ \A k \in 1..SHADOW : \A p \in Pixels(Grown(k)) \ Pixels(Grown(k-1)) :
       p \in Screen /\ Distance(p) = k /\ AtMost(Distance(p), SHADOW) = k
<1>1. Pixels(Window) = (SHADOW..SHADOW+W-1) \X (SHADOW..SHADOW+H-1)
  BY DEF Pixels, Window
<1>2. \A k : Pixels(Grown(k)) =
        (SHADOW-k..SHADOW-k+(W+2*k)-1) \X (SHADOW-k..SHADOW-k+(H+2*k)-1)
  BY DEF Pixels, Grown
<1>3. Screen = (0..W+2*SHADOW-1) \X (0..H+2*SHADOW-1)
  BY WindowAssumption DEF Screen
<1>4. W \in Nat /\ H \in Nat /\ SHADOW \in Nat
  BY WindowAssumption
<1>5. Pixels(Window) \subseteq Screen
  BY <1>1, <1>3, <1>4
<1>6. ASSUME NEW p \in Screen PROVE Distance(p) = 0 <=> p \in Pixels(Window)
  <2>1. p[1] \in 0..W+2*SHADOW-1 /\ p[2] \in 0..H+2*SHADOW-1 /\ p = <<p[1], p[2]>>
    BY <1>3
  <2> QED
    BY <1>1, <1>4, <2>1 DEF Distance, Away, AtLeast
<1>7. ASSUME NEW k \in 1..SHADOW, NEW p \in Pixels(Grown(k)) \ Pixels(Grown(k-1))
      PROVE  p \in Screen /\ Distance(p) = k /\ AtMost(Distance(p), SHADOW) = k
  <2>1. /\ p[1] \in SHADOW-k..SHADOW-k+(W+2*k)-1 /\ p[2] \in SHADOW-k..SHADOW-k+(H+2*k)-1
        /\ p = <<p[1], p[2]>>
    BY <1>2
  <2>2. ~(/\ p[1] \in SHADOW-(k-1)..SHADOW-(k-1)+(W+2*(k-1))-1
          /\ p[2] \in SHADOW-(k-1)..SHADOW-(k-1)+(H+2*(k-1))-1)
    BY <1>2, <2>1
  <2>3. p[1] \in 0..W+2*SHADOW-1 /\ p[2] \in 0..H+2*SHADOW-1
    BY <1>4, <2>1
  <2>4. Distance(p) = k
    BY <1>4, <2>1, <2>2 DEF Distance, Away, AtLeast
  <2>5. AtMost(k, SHADOW) = k
    BY <1>4 DEF AtMost
  <2>6. p \in Screen
    BY <1>3, <2>1, <2>3
  <2> QED
    BY <2>4, <2>5, <2>6
<1> QED
  BY <1>5, <1>6, <1>7

LEMMA ReachInt == Reach(SHADOW + W - NameX) \in Int
<1>1. S \in Nat \ {0} /\ CELL \in Nat \ {0} /\ SHADOW + W - NameX \in Int
  BY WindowAssumption DEF Pixels
<1>2. CELL * S \in Nat \ {0}
  <2>1. CELL * S >= 1 * S
    BY <1>1, MulLE
  <2> QED
    BY <1>1, <2>1
<1> QED
  BY <1>1, <1>2 DEF Reach

(* A name no longer than the window is wide is written inside it.          *)
LEMMA NameInside ==
  ASSUME NEW q \in Seq(DOMAIN Font), Len(q) <= Reach(SHADOW + W - NameX)
  PROVE  TextPixels(NameX, NameY, q) \subseteq Pixels(Window)
<1>1. /\ S \in Nat \ {0} /\ CELL \in Nat \ {0} /\ W \in Nat /\ H \in Nat /\ SHADOW \in Nat
      /\ Box.x \in Int /\ Box.y \in Int /\ Box.w \in Int /\ Box.h \in Int
  BY WindowAssumption
<1>2. NameX \in Box.x..Box.x+Box.w-1 /\ NameY \in Box.y..Box.y+Box.h-1
  BY WindowAssumption DEF Pixels
<1>3. \A y \in Box.y..Box.y+Box.h-1 : y \in SHADOW..SHADOW+H-1 /\ NameX \in SHADOW..SHADOW+W-1
  <2>1. Pixels(Box) \subseteq (SHADOW..SHADOW+W-1) \X (SHADOW..SHADOW+H-1)
    BY WindowAssumption DEF Pixels, Window
  <2>2. ASSUME NEW y \in Box.y..Box.y+Box.h-1
        PROVE  <<NameX, y>> \in (SHADOW..SHADOW+W-1) \X (SHADOW..SHADOW+H-1)
    BY <1>2, <2>1 DEF Pixels
  <2> QED
    BY <2>2
<1>4. CELL * S \in Nat \ {0} /\ SHADOW + W - NameX \in Nat
  <2>1. CELL * S # 0
    <3>1. CELL * S >= 1 * S
      BY <1>1, MulLE
    <3> QED
      BY <1>1, <3>1
  <2> QED
    BY <1>1, <1>2, <1>3, <2>1
<1>5. Len(q) * (CELL * S) <= SHADOW + W - NameX /\ Len(q) \in Nat
  BY <1>4, LenProperties, DivBound DEF Reach
<1>6. ASSUME NEW i \in DOMAIN q, NEW b \in Font[q[i]], NEW sx \in 0..S-1, NEW sy \in 0..S-1
      PROVE  <<NameX + (CELL * (i-1) + b[1]) * S + sx, NameY + b[2] * S + sy>> \in Pixels(Window)
  <2>1. i \in 1..Len(q) /\ q[i] \in DOMAIN Font
    BY LenProperties, ElementOfSeq
  <2>2. b[1] \in 0..CELL-1 /\ b[2] \in 0..2*CELL-1
    BY <2>1, WindowAssumption
  <2> DEFINE u == (CELL * (i-1) + b[1]) * S + sx
             v == b[2] * S + sy
  <2>3. u \in Nat /\ u < i * (CELL * S)
    <3>1. i - 1 \in Nat /\ (i - 1) + 1 = i
      BY <1>5, <2>1
    <3> QED
      <4>1. /\ i - 1 \in Nat /\ b[1] \in 0..CELL-1 /\ sx \in 0..S-1
            /\ CELL \in Nat /\ S \in Nat
        BY <1>1, <2>2, <3>1
      <4>2. u \in Nat /\ u < ((i - 1) + 1) * (CELL * S)
        BY ONLY <4>1, CellEnd
      <4> QED
        BY ONLY <3>1, <4>2, Zenon
  <2>4. i * (CELL * S) <= Len(q) * (CELL * S)
    BY <1>4, <1>5, <2>1, MulLE
  <2>5. v \in Nat /\ v < 2 * CELL * S
    <3>1. 2 * CELL \in Nat /\ S \in Nat
      BY <1>1
    <3>2. b[2] \in 0..2*CELL-1
      BY <2>2, Zenon
    <3> QED
      BY <3>1, <3>2, RowInBlock, Zenon
  <2>6. i * (CELL * S) \in Int /\ Len(q) * (CELL * S) \in Int /\ 2 * CELL * S \in Int
    BY <1>1, <1>4, <1>5, <2>1
  <2> HIDE DEF u, v
  <2>7. NameX + u \in SHADOW..SHADOW+W-1
    BY <1>1, <1>2, <1>3, <1>5, <2>3, <2>4, <2>6
  <2>8. NameY + v \in SHADOW..SHADOW+H-1
    <3>1. NameY + v \in Box.y..Box.y+Box.h-1
      <4>1. NameY + 2 * CELL * S <= Box.y + Box.h
        BY WindowAssumption
      <4> DEFINE t == 2 * CELL * S
      <4>2. /\ NameY >= Box.y /\ NameY \in Int /\ Box.y \in Int /\ Box.h \in Int
            /\ v \in Nat /\ v < t /\ t \in Int /\ NameY + t <= Box.y + Box.h
        BY <1>1, <1>2, <2>5, <2>6, <4>1
      <4> HIDE DEF t
      <4> QED
        BY ONLY <4>2
    <3> QED
      BY <1>3, <3>1
  <2>9. NameX + (CELL * (i-1) + b[1]) * S + sx = NameX + u /\ NameY + b[2] * S + sy = NameY + v
    <3>1. i \in Int /\ b[1] \in Int /\ b[2] \in Int
      <4>1. i \in Int
        BY <1>5, <2>1
      <4> QED
        BY <1>1, <2>2, <4>1
    <3>2. CELL * (i-1) + b[1] \in Int
      BY <1>1, <3>1
    <3>3. (CELL * (i-1) + b[1]) * S \in Int
      BY <1>1, <3>2
    <3>4. b[2] * S \in Int
      BY <1>1, <3>1
    <3> DEFINE e == (CELL * (i-1) + b[1]) * S
               f == b[2] * S
    <3>5. e \in Int /\ f \in Int /\ NameX \in Int /\ NameY \in Int /\ sx \in Int /\ sy \in Int
      BY <1>1, <1>2, <3>3, <3>4
    <3> HIDE DEF e, f
    <3>6. NameX + e + sx = NameX + (e + sx) /\ NameY + f + sy = NameY + (f + sy)
      BY <3>5
    <3> QED
      BY <3>6 DEF e, f, u, v
  <2> QED
    BY <2>7, <2>8, <2>9 DEF Pixels, Window
<1> QED
  BY <1>6 DEF TextPixels

(* The inductive invariant.  Inside the window no pixel is ever marked, in *)
(* the band each has its mark as long as no name has been longer than the  *)
(* window is wide, and the box is empty before the name is written.        *)
Making  == {"content", "bar", "top", "left", "right", "title", "close", "min", "shadow"}
Made    == {"label", "box", "key", "clear", "name"}

Typed ==
  /\ at \in Making \cup Made \cup {"other"}
  /\ name \in Seq(DOMAIN Font) /\ longest \in Nat /\ Len(name) <= longest
  /\ at \in Making \cup {"label", "box"} => name = <<>>

Plain ==
  at # "other" => \A p \in Screen : at \in Making \/ Distance(p) = 0 => Pixel(p) \in 0..5

Band ==
  at \in Made /\ longest <= Reach(SHADOW + W - NameX) =>
    \A p \in Screen : Distance(p) # 0 =>
      Pixel(p) = Shade(SHADOW - AtMost(Distance(p), SHADOW) + 3)

Empty == at = "name" => \A p \in Pixels(Box) : Pixel(p) = Dark

WinInv == Typed /\ Plain /\ Band /\ Empty /\ BoxShowsName

LEMMA InitWinInv == WinInit => WinInv
<1> SUFFICES ASSUME WinInit PROVE WinInv
  OBVIOUS
<1>1. Typed
  BY DEF WinInit, Typed, Making
<1>2. Plain
  BY AddrInMemory DEF WinInit, Init, Plain, Pixel
<1> QED
  BY <1>1, <1>2 DEF WinInit, WinInv, Band, Empty, BoxShowsName, Made

(* Making the window.                                                      *)
LEMMA MakingKeeps ==
  ASSUME WinInv, NEW from \in Making, NEW to \in Making, at = from, at' = to,
         UNCHANGED <<name, longest>>,
         \A p \in Screen : Pixel(p)' \in {Pixel(p)} \cup 1..5
  PROVE  WinInv'
<1>1. Typed'
  BY DEF WinInv, Typed
<1>2. Plain'
  BY DEF WinInv, Plain, Making
<1> QED
  BY <1>1, <1>2 DEF WinInv, Band, Empty, BoxShowsName, Making, Made

(* Every step of the login window keeps the invariant.                     *)
LEMMA WinStep == WinInv /\ [WinNext]_allvars => WinInv'
<1> SUFFICES ASSUME WinInv, [WinNext]_allvars PROVE WinInv'
  OBVIOUS
<1> USE DEF Grey, White, Frame, Black, Dark
<1>1. CASE Content \/ TitleBar \/ TopFrame \/ LeftFrame \/ RightFrame
  <2>1. PICK r \in Rectangle, color \in 1..5 : mem' = fill_rect_c(r, color)
    BY <1>1, WindowRects DEF Content, TitleBar, TopFrame, LeftFrame, RightFrame, Draws
  <2>2. \A p \in Screen : Pixel(p)' \in {Pixel(p)} \cup 1..5
    BY <2>1, FillAt DEF Pixel
  <2>3. at \in Making /\ at' \in Making /\ UNCHANGED <<name, longest>>
    BY <1>1 DEF Content, TitleBar, TopFrame, LeftFrame, RightFrame, Draws, Making
  <2> QED
    BY <2>2, <2>3, MakingKeeps
<1>2. CASE TitleText
  <2>1. \A p \in Screen : Pixel(p)' \in {Pixel(p)} \cup 1..5
    BY <1>2, TextAt DEF TitleText, Draws, Pixel
  <2>2. at \in Making /\ at' \in Making /\ UNCHANGED <<name, longest>>
    BY <1>2 DEF TitleText, Draws, Making
  <2> QED
    BY <2>1, <2>2, MakingKeeps
<1>3. CASE CloseBtn \/ MinBtn
  <2>1. PICK b : mem' = button(b)
    BY <1>3 DEF CloseBtn, MinBtn, Draws
  <2>2. \A p \in Screen : Pixel(p)' \in {Pixel(p)} \cup 1..5
    BY <2>1, ButtonAt DEF Pixel
  <2>3. at \in Making /\ at' \in Making /\ UNCHANGED <<name, longest>>
    BY <1>3 DEF CloseBtn, MinBtn, Draws, Making
  <2> QED
    BY <2>2, <2>3, MakingKeeps
<1>4. CASE ShadowBand
  <2>1. at = "shadow" /\ at' = "label" /\ UNCHANGED <<name, longest>> /\ mem' = shadow_band
    BY <1>4 DEF ShadowBand, Draws
  <2>2. \A p \in Screen : Pixel(p)' = IF Distance(p) # 0
                                      THEN Shade(SHADOW - AtMost(Distance(p), SHADOW) + 3)
                                      ELSE Pixel(p)
    BY <2>1, BandAt DEF Pixel
  <2>3. Typed'
    BY <2>1 DEF WinInv, Typed, Making, Made
  <2>4. Plain'
    BY <2>1, <2>2 DEF WinInv, Plain, Making
  <2>5. Band'
    BY <2>2 DEF Band
  <2> QED
    BY <2>1, <2>3, <2>4, <2>5 DEF WinInv, Empty, BoxShowsName
<1>5. CASE LabelText
  <2>1. /\ at = "label" /\ at' = "box" /\ UNCHANGED <<name, longest>>
        /\ mem' = put_str_cs(Label.x, Label.y, Label.text, Black)
    BY <1>5 DEF LabelText, Draws
  <2> DEFINE T == TextPixels(Label.x, Label.y, Label.text)
  <2>2. \A p \in Screen : Pixel(p)' = IF p \in T THEN Black ELSE Pixel(p)
    BY <2>1, TextAt DEF Pixel
  <2>3. \A p \in Screen : p \in T => Distance(p) = 0
    BY LabelAssumption, Geometry
  <2> HIDE DEF T
  <2>4. Typed'
    BY <2>1 DEF WinInv, Typed, Making, Made
  <2>5. Plain'
    BY <2>1, <2>2 DEF WinInv, Plain, Making
  <2>6. Band'
    BY <2>1, <2>2, <2>3 DEF WinInv, Band, Made
  <2> QED
    BY <2>1, <2>4, <2>5, <2>6 DEF WinInv, Empty, BoxShowsName
<1>6. CASE InputBox \/ ClearBox
  <2>1. /\ \/ at = "box" /\ at' = "key"
           \/ at = "clear" /\ at' = "name"
        /\ UNCHANGED <<name, longest>> /\ mem' = fill_rect_c(Box, Dark)
    <3>1. CASE InputBox
      BY <3>1 DEF InputBox, Draws
    <3>2. CASE ClearBox
      BY <3>2 DEF ClearBox, Draws, Cleared
    <3> QED
      BY <1>6, <3>1, <3>2
  <2>2. \A p \in Screen : Pixel(p)' = IF p \in Pixels(Box) THEN Dark ELSE Pixel(p)
    BY <2>1, WindowRects, FillAt DEF Pixel
  <2>3. \A p \in Pixels(Box) : p \in Screen /\ Distance(p) = 0
    BY WindowAssumption, Geometry
  <2>4. Typed'
    BY <2>1 DEF WinInv, Typed, Making, Made
  <2>5. Plain'
    BY <2>1, <2>2 DEF WinInv, Plain, Making
  <2>6. Band'
    BY <2>1, <2>2, <2>3 DEF WinInv, Band, Made
  <2>7. Empty'
    BY <2>2, <2>3 DEF Empty
  <2>8. BoxShowsName'
    <3>1. at' = "key" => name' = <<>>
      BY <2>1 DEF WinInv, Typed
    <3>2. TextPixels(NameX, NameY, <<>>) = {}
      BY DEF TextPixels
    <3> QED
      BY <2>2, <2>3, <3>1, <3>2 DEF BoxShowsName
  <2> QED
    BY <2>4, <2>5, <2>6, <2>7, <2>8 DEF WinInv
<1>7. CASE Key
  <2>1. at = "key" /\ at' = "clear" /\ mem' = mem /\ longest' = AtLeast(longest, Len(name'))
    BY <1>7 DEF Key
  <2>2. name \in Seq(DOMAIN Font) /\ longest \in Nat
    BY DEF WinInv, Typed
  <2>3. name' \in Seq(DOMAIN Font)
    <3>1. ASSUME NEW c \in DOMAIN Font, name' = Append(name, c) PROVE name' \in Seq(DOMAIN Font)
      BY <2>2, <3>1, AppendProperties
    <3>2. ASSUME name # <<>>, name' = SubSeq(name, 1, Len(name) - 1)
          PROVE  name' \in Seq(DOMAIN Font)
      <4>1. \A i \in 1..Len(name)-1 : i \in 1..Len(name)
        BY <2>2, LenProperties
      <4> QED
        BY <2>2, <3>2, <4>1, SubSeqProperties, LenProperties
    <3> QED
      BY <1>7, <2>2, <3>1, <3>2 DEF Key
  <2>4. longest' \in Nat /\ Len(name') <= longest' /\ longest <= longest'
    BY <2>1, <2>2, <2>3, LenProperties DEF AtLeast
  <2>5. Typed'
    BY <2>1, <2>3, <2>4 DEF Typed, Making, Made
  <2>6. Plain'
    BY <2>1 DEF WinInv, Plain, Pixel, Making
  <2>7. Band'
    <3>1. longest' <= Reach(SHADOW + W - NameX) => longest <= Reach(SHADOW + W - NameX)
      <4>1. Reach(SHADOW + W - NameX) \in Int
        BY ReachInt
      <4> QED
        BY <2>2, <2>4, <4>1
    <3> QED
      BY <2>1, <3>1 DEF WinInv, Band, Pixel, Made
  <2> QED
    BY <2>1, <2>5, <2>6, <2>7 DEF WinInv, Empty, BoxShowsName
<1>8. CASE WriteName
  <2>1. /\ at = "name" /\ at' = "key" /\ UNCHANGED <<name, longest>>
        /\ mem' = put_str_cs(NameX, NameY, name, White)
    BY <1>8 DEF WriteName, Draws
  <2> DEFINE T == TextPixels(NameX, NameY, name)
  <2>2. \A p \in Screen : Pixel(p)' = IF p \in T THEN White ELSE Pixel(p)
    BY <2>1, TextAt DEF Pixel
  <2>3. longest <= Reach(SHADOW + W - NameX) => \A p \in Screen : p \in T => Distance(p) = 0
    <3>1. Len(name) \in Int /\ longest \in Int /\ Reach(SHADOW + W - NameX) \in Int
      BY LenProperties, ReachInt DEF WinInv, Typed
    <3> QED
      BY <3>1, NameInside, Geometry DEF WinInv, Typed
  <2>4. TextPixels(NameX, NameY, name') = T
    BY <2>1
  <2> HIDE DEF T
  <2>5. Typed'
    BY <2>1 DEF WinInv, Typed, Making, Made
  <2>6. Plain'
    BY <2>1, <2>2 DEF WinInv, Plain, Making
  <2>7. Band'
    BY <2>1, <2>2, <2>3 DEF WinInv, Band, Made
  <2>8. BoxShowsName'
    <3>1. \A p \in Pixels(Box) : p \in Screen /\ Pixel(p) = Dark
      BY <2>1, WindowAssumption, Geometry DEF WinInv, Empty
    <3> QED
      BY <2>2, <2>4, <3>1 DEF BoxShowsName
  <2> QED
    BY <2>1, <2>5, <2>6, <2>7, <2>8 DEF WinInv, Empty
<1>9. CASE OtherDraws \/ NextBuffer
  <2>1. at = "other" /\ at' = "other" /\ UNCHANGED <<name, longest>>
    BY <1>9 DEF OtherDraws, NextBuffer, winvars
  <2> QED
    BY <2>1 DEF WinInv, Typed, Plain, Band, Empty, BoxShowsName, Made, Making
<1>10. CASE UNCHANGED allvars
  BY <1>10 DEF allvars, WinInv, Typed, Plain, Band, Empty, BoxShowsName, Pixel
<1> QED
  BY <1>1, <1>2, <1>3, <1>4, <1>5, <1>6, <1>7, <1>8, <1>9, <1>10 DEF WinNext

(* For every size of window, band, box and font and after every sequence   *)
(* of keys the box shows the name and nothing else, and the shadow around  *)
(* the window is whole until a name has reached it (kernel.cpp:155-179,    *)
(* 991-1000).                                                              *)
THEOREM LoginIsShown == WinSpec => []LoginShown
<1>1. WinInv => LoginShown
  <2> SUFFICES ASSUME WinInv PROVE ShadowKept
    BY DEF WinInv, LoginShown
  <2> SUFFICES ASSUME at \in {"key", "clear", "name"}, longest <= Reach(SHADOW + W - NameX)
               PROVE  /\ \A k \in 1..SHADOW : \A p \in Pixels(Grown(k)) \ Pixels(Grown(k-1)) :
                           Pixel(p) = Shade(SHADOW - k + 3)
                      /\ \A p \in Pixels(Window) : Pixel(p) < Shade(0)
    BY DEF ShadowKept
  <2>1. \A p \in Screen : Distance(p) # 0 =>
          Pixel(p) = Shade(SHADOW - AtMost(Distance(p), SHADOW) + 3)
    BY DEF WinInv, Band, Made
  <2>2. ASSUME NEW k \in 1..SHADOW, NEW p \in Pixels(Grown(k)) \ Pixels(Grown(k-1))
        PROVE  Pixel(p) = Shade(SHADOW - k + 3)
    <3>1. p \in Screen /\ Distance(p) = k /\ AtMost(Distance(p), SHADOW) = k /\ k # 0
      BY Geometry
    <3> QED
      BY <2>1, <3>1
  <2>3. ASSUME NEW p \in Pixels(Window) PROVE Pixel(p) < Shade(0)
    <3>1. p \in Screen /\ Distance(p) = 0
      BY Geometry
    <3>2. Pixel(p) \in 0..5
      BY <3>1 DEF WinInv, Plain
    <3> QED
      BY <3>2 DEF Shade
  <2> QED
    BY <2>2, <2>3
<1> QED
  BY <1>1, InitWinInv, WinStep, PTL DEF WinSpec

=============================================================================
