---------------------------- MODULE LoginWindow -----------------------------
(***************************************************************************)
(* The pixels of the login window: draw_win_shadow (kernel.cpp) makes the  *)
(* window with its title bar, its buttons and the band of shadow around    *)
(* it, then label and input box are drawn, and after every key the box is  *)
(* cleared and the name written again.  Everything is drawn into the       *)
(* sheet's buffer with the primitives of module Draw; text is clipped to   *)
(* the buffer, not to the window or the box.                               *)
(*                                                                         *)
(* Places are those in the buffer, where the window begins at SHADOW.  A   *)
(* colour with a mark in its high byte is a shadow of some depth.  A       *)
(* buffer that is not the login window's is drawn to by any calls of the   *)
(* primitives in any order.                                                *)
(***************************************************************************)
EXTENDS Draw, Sequences

CONSTANTS W, H,          \* LOGIN_W, LOGIN_H
          SHADOW,        \* width of the band
          S,             \* UI_SCALE
          CELL,          \* width of a character (8), half of its height
          Font,          \* Font[c]: set bits of a character
          Bar, Edge,     \* the title bar's height (24), its frame (2)
          Buttons,       \* each [r, black]: rectangle, black bits
          Title, Label,  \* texts, each [x, y, text]
          Box,           \* the input box, and where the name is written
          NameX, NameY,
          MaxName,       \* bytes of a name (31)
          MaxCalls       \* bound: calls of the primitives on another buffer

Window == [x |-> SHADOW, y |-> SHADOW, w |-> W, h |-> H]

ASSUME WindowAssumption ==
  /\ {W, H, SHADOW, S, CELL, Bar, Edge, MaxName, MaxCalls} \subseteq Nat \ {0}
  /\ FW = W + 2 * SHADOW /\ FH = H + 2 * SHADOW
  /\ Box \in [x : Int, y : Int, w : Int, h : Int] /\ Pixels(Box) \subseteq Pixels(Window)
  /\ <<NameX, NameY>> \in Pixels(Box) /\ NameY + 2 * CELL * S <= Box.y + Box.h
  /\ \A c \in DOMAIN Font : Font[c] \subseteq (0..CELL-1) \X (0..2*CELL-1)

Grey  == 1
White == 2
Frame == 3
Black == 4
Dark  == 5
Shade(depth) == 100 + depth

VARIABLES
  at,       \* what is drawn next; "key" when the main loop waits for a key,
            \* "other" when the buffer is that of another caller
  name,     \* login_buf[0..login_len-1]
  longest,  \* history: the greatest length the name has had
  calls     \* history: calls on the buffer of another caller

winvars == <<at, name, longest>>
allvars == <<mem, at, name, longest, calls>>

-----------------------------------------------------------------------------
(* put_str_cs: each character is a cell further on.                        *)
TextPixels(x, y, text) ==
  UNION {{<<x + (CELL * (i-1) + b[1]) * S + sx, y + b[2] * S + sy>> :
            b \in Font[text[i]], sx \in 0..S-1, sy \in 0..S-1} : i \in DOMAIN text}

ASSUME LabelAssumption == TextPixels(Label.x, Label.y, Label.text) \subseteq Pixels(Window)

put_str_cs(x, y, text, color) ==
  Painted([p \in {q \in TextPixels(x, y, text) : OnScreen(q)} |-> color])

(* A button, bit by bit of its picture, each pixel tested by itself.       *)
button(b) ==
  LET bit(p) == <<(p[1] - b.r.x) \div S, (p[2] - b.r.y) \div S>>
  IN  Painted([p \in {q \in Pixels(b.r) : OnScreen(q)} |->
                 IF bit(p) \in b.black THEN Black ELSE White])

(* Mutant: the band begins a column late on the right.                     *)
Away_Late(v, size) == IF v < SHADOW THEN SHADOW - v
                      ELSE IF v > SHADOW + size THEN v - (SHADOW + size - 1) ELSE 0

(* How far a row or column is from the window: dx and dy.                  *)
Away(v, size) == IF v < SHADOW THEN SHADOW - v
                 ELSE IF v >= SHADOW + size THEN v - (SHADOW + size - 1) ELSE 0

Distance(p) == AtLeast(Away(p[1], W), Away(p[2], H))

(* The shadow: the nearer, the deeper.                                     *)
shadow_band ==
  Painted([p \in {q \in Screen : Distance(q) # 0} |->
             Shade(SHADOW - AtMost(Distance(p), SHADOW) + 3)])

-----------------------------------------------------------------------------
Draws(from, to, pixels) == at = from /\ at' = to /\ mem' = pixels /\ UNCHANGED <<name, longest, calls>>

Strip(x, w, h) == [x |-> x, y |-> SHADOW, w |-> w, h |-> h]

(* draw_win_shadow.                                                        *)
Content    == Draws("content", "bar", fill_rect_c(Window, Grey))
TitleBar   == Draws("bar", "top", fill_rect_c(Strip(SHADOW, W, Bar), White))
TopFrame   == Draws("top", "left", fill_rect_c(Strip(SHADOW, W, Edge), Frame))
LeftFrame  == Draws("left", "right", fill_rect_c(Strip(SHADOW, Edge, Bar), Frame))
RightFrame == Draws("right", "title", fill_rect_c(Strip(SHADOW + W - Edge, Edge, Bar), Frame))
TitleText  == Draws("title", "close", put_str_cs(Title.x, Title.y, Title.text, Black))
CloseBtn   == Draws("close", "min", button(Buttons.close))
MinBtn     == Draws("min", "shadow", button(Buttons.min))
ShadowBand == Draws("shadow", "label", shadow_band)

(* The label and the box of the login window.                              *)
LabelText == Draws("label", "box", put_str_cs(Label.x, Label.y, Label.text, Black))
InputBox  == Draws("box", "key", fill_rect_c(Box, Dark))

(* A key while nobody has logged in: a character, Backspace or another.    *)
Key ==
  /\ at = "key" /\ at' = "clear"
  /\ \/ Len(name) < MaxName /\ \E c \in DOMAIN Font : name' = Append(name, c)
     \/ name # <<>> /\ name' = SubSeq(name, 1, Len(name) - 1)
     \/ name' = name
  /\ longest' = AtLeast(longest, Len(name'))
  /\ UNCHANGED <<mem, calls>>

(* Mutant: the box is cleared as if there were no shadow around it.        *)
Cleared_NoShadow == [Box EXCEPT !.x = @ - SHADOW, !.y = @ - SHADOW]

(* After each of them the box is cleared ...                               *)
Cleared == Box

ClearBox == Draws("clear", "name", fill_rect_c(Cleared, Dark))

(* ... and the name is written.                                            *)
WriteName == Draws("name", "key", put_str_cs(NameX, NameY, name, White))

(* Another caller draws whatever it likes; then it is the next one's turn, *)
(* on a buffer of its own.                                                 *)
OtherDraws == /\ at = "other" /\ calls < MaxCalls
              /\ Next /\ calls' = calls + 1 /\ UNCHANGED winvars

NextBuffer == /\ at = "other" /\ calls = MaxCalls
              /\ mem' = [a \in Memory |-> 0] /\ calls' = 0 /\ UNCHANGED winvars

WinInit == Init /\ at \in {"content", "other"} /\ name = <<>> /\ longest = 0 /\ calls = 0

WinNext ==
  \/ Content \/ TitleBar \/ TopFrame \/ LeftFrame \/ RightFrame \/ TitleText
  \/ CloseBtn \/ MinBtn \/ ShadowBand \/ LabelText \/ InputBox
  \/ Key \/ ClearBox \/ WriteName \/ OtherDraws \/ NextBuffer

WinSpec == WinInit /\ [][WinNext]_allvars

-----------------------------------------------------------------------------
Pixel(p) == mem[Addr(p[1], p[2])]

(* The window k pixels larger on each side.                                *)
Grown(k) == [x |-> SHADOW - k, y |-> SHADOW - k, w |-> W + 2 * k, h |-> H + 2 * k]

Reach(size) == size \div (CELL * S)

(* Around the window the shadow fades ring by ring, and there is none      *)
(* inside; a name longer than the window is wide does reach the band.      *)
ShadowKept ==
  at \in {"key", "clear", "name"} /\ longest <= Reach(SHADOW + W - NameX) =>
    /\ \A k \in 1..SHADOW : \A p \in Pixels(Grown(k)) \ Pixels(Grown(k-1)) :
         Pixel(p) = Shade(SHADOW - k + 3)
    /\ \A p \in Pixels(Window) : Pixel(p) < Shade(0)

BoxShowsName ==
  at = "key" =>
    \A p \in Pixels(Box) :
      Pixel(p) = IF p \in TextPixels(NameX, NameY, name) THEN White ELSE Dark

(* Whatever was typed and deleted before, the box shows the name and       *)
(* nothing else (kernel.cpp:991-1000), and the band of shadow is whole: a  *)
(* marked pixel inside the window would darken what is below it, an        *)
(* unmarked one in the band would hide it (kernel.cpp:155-179,             *)
(* window.h:181-200).                                                      *)
LoginShown == BoxShowsName /\ ShadowKept

=============================================================================
