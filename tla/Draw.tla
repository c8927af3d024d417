-------------------------------- MODULE Draw --------------------------------
(***************************************************************************)
(* The clipped drawing primitives of kernel/sys/draw.h on a buffer of FW   *)
(* by FH pixels with rows STRIDE apart, in a memory that goes on before    *)
(* and behind it: "a write out of bounds hits other globals" is what they  *)
(* are there to prevent.  A colour is a number, 0 is what the memory holds *)
(* before anything is drawn.  Coordinates are those of the screen (at most *)
(* 8192), far from the limits of int.                                      *)
(***************************************************************************)
EXTENDS Integers

CONSTANTS FW, FH, STRIDE,    \* the buffer
          PAD,               \* pixels of memory before and behind it
          Rects,             \* what the callers ask for: [x, y, w, h]
          Colors,
          SRC, KEY,          \* SRC[<<sx, sy>>]: source picture; its key colour
          Glyph,             \* set bits of a character cell
          Scales

ASSUME DrawAssumption ==
  /\ {FW, FH, PAD} \subseteq Nat /\ STRIDE \in Nat /\ STRIDE >= FW
  /\ Rects \subseteq [x : Int, y : Int, w : Int, h : Int]
  /\ Glyph \subseteq Nat \X Nat /\ Scales \subseteq Nat \ {0}
  /\ 0 \notin Colors

Memory  == -PAD..STRIDE * FH + PAD - 1
Addr(px, py) == py * STRIDE + px
Screen  == (0..FW-1) \X (0..FH-1)
Visible == {Addr(p[1], p[2]) : p \in Screen}

VARIABLE mem
vars == mem

-----------------------------------------------------------------------------
(* Mutant: the far edge is not clipped.                                    *)
AtMost_Not(v, limit) == v

AtMost(v, limit) == IF v > limit THEN limit ELSE v

AtLeast(v, limit) == IF v < limit THEN limit ELSE v

Nothing == [x |-> 0, y |-> 0, w |-> 0, h |-> 0]

(* clip_rect; a rectangle wholly outside is Nothing.                       *)
clip_rect(r) ==
  LET x0 == AtLeast(r.x, 0)
      y0 == AtLeast(r.y, 0)
      x1 == AtMost(r.x + r.w, FW)
      y1 == AtMost(r.y + r.h, FH)
  IN  IF x1 <= x0 \/ y1 <= y0 THEN Nothing
      ELSE [x |-> x0, y |-> y0, w |-> x1 - x0, h |-> y1 - y0]

Pixels(r) == (r.x..r.x + r.w - 1) \X (r.y..r.y + r.h - 1)

(* The memory after pixels, each with its colour, are written.             *)
Painted(colour) ==
  [a \in Memory |->
    LET here == {p \in DOMAIN colour : Addr(p[1], p[2]) = a}
    IN  IF here = {} THEN mem[a] ELSE colour[CHOOSE p \in here : TRUE]]

(* The primitives, as what they make of the memory.                        *)
fill_rect_c(r, color) == Painted([p \in Pixels(clip_rect(r)) |-> color])

(* Mutant: the source does not move along with the clipped edge.           *)
Skipped_Not(v) == 0

(* blit_c: the first row and column of the source that is drawn.           *)
Skipped(v) == IF v < 0 THEN -v ELSE 0

(* ... and the part of the buffer it is drawn to.                          *)
BlitTo(r) ==
  LET x == AtLeast(r.x, 0)
      y == AtLeast(r.y, 0)
  IN  [x |-> x, y |-> y,
       w |-> AtMost(x + (r.w - Skipped(r.x)), FW) - x,
       h |-> AtMost(y + (r.h - Skipped(r.y)), FH) - y]

BlitSource(r, p) ==
  SRC[<<Skipped(r.x) + p[1] - BlitTo(r).x, Skipped(r.y) + p[2] - BlitTo(r).y>>]

blit_c(r) ==
  LET drawn == {p \in Pixels(BlitTo(r)) : BlitSource(r, p) # KEY}
  IN  Painted([p \in drawn |-> BlitSource(r, p)])

(* Mutant: rows above the buffer are drawn.                                *)
OnScreen_NoTop(p) == p[1] \in 0..FW-1 /\ p[2] < FH

(* put_char_cs, put_char_c when s is 1: each pixel is tested by itself.    *)
OnScreen(p) == p \in Screen

CharPixels(x, y, s) ==
  {<<x + b[1] * s + sx, y + b[2] * s + sy>> : b \in Glyph, sx \in 0..s-1, sy \in 0..s-1}

put_char_cs(x, y, color, s) ==
  Painted([p \in {p \in CharPixels(x, y, s) : OnScreen(p)} |-> color])

-----------------------------------------------------------------------------
Init == mem = [a \in Memory |-> 0]

Fill == \E r \in Rects, color \in Colors : mem' = fill_rect_c(r, color)

(* The callers' source has at least the size they ask for.                 *)
SourceFits(r) == (0..r.w-1) \X (0..r.h-1) \subseteq DOMAIN SRC

Blit == \E r \in Rects : SourceFits(r) /\ mem' = blit_c(r)

Char == \E r \in Rects, color \in Colors, s \in Scales :
          mem' = put_char_cs(r.x, r.y, color, s)

Next == Fill \/ Blit \/ Char

Spec == Init /\ [][Next]_vars

-----------------------------------------------------------------------------
(* "At most it is not drawn" (draw.h:3): whatever is asked for, nothing    *)
(* outside the visible pixels is written, neither before nor behind the    *)
(* buffer nor in the columns between its width and its stride.             *)
OnlyVisiblePainted == \A a \in Memory \ Visible : mem[a] = 0

(* fill_rect_c paints the part of the rectangle that is in the buffer, all *)
(* of it, and leaves every other visible pixel as it was (draw.h:20-41).   *)
FillExact ==
  \A r \in Rects, color \in Colors, p \in Screen :
    LET a == Addr(p[1], p[2])
    IN  fill_rect_c(r, color)[a] = IF p \in Pixels(r) THEN color ELSE mem[a]

(* A clipped copy is the visible part of the whole one: each pixel comes   *)
(* from the place in the source it would come from on an endless buffer,   *)
(* and a key pixel leaves what was there (draw.h:43-63).                   *)
BlitExact ==
  \A r \in Rects, p \in Screen :
    LET a == Addr(p[1], p[2])
        pixel == SRC[<<p[1] - r.x, p[2] - r.y>>]
    IN  SourceFits(r) =>
          blit_c(r)[a] = IF p \in Pixels(r) /\ pixel # KEY THEN pixel ELSE mem[a]

=============================================================================
