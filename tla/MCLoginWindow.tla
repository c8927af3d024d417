--------------------------- MODULE MCLoginWindow ----------------------------
(* A buffer of 6 by 5 pixels with a stride of 7, for a window of 4 by 3    *)
(* with a band of one: the box has room for two characters, the window for *)
(* three, the band for a fourth.  The rectangles of other callers stick    *)
(* out on every side, by more than the buffer's size, or are empty.        *)
EXTENDS LoginWindow

MCRects  == [x : {-5, -1, 4}, y : {-1, 3}, w : {0, 3}, h : {3}]
              \cup {[x |-> -1, y |-> 2, w |-> 9, h |-> 1], [x |-> 2, y |-> -5, w |-> 1, h |-> 12]}
MCColors == {1, 2}
MCSrc    == [p \in (0..2) \X (0..2) |-> (p[1] + p[2]) % 3]
MCGlyph  == {<<0, 0>>, <<1, 0>>, <<1, 1>>}
MCScales == {1, 2}

MCFont    == [a |-> {<<0, 0>>, <<0, 1>>}, b |-> {<<0, 1>>}]
MCButtons == [close |-> [r |-> [x |-> 4, y |-> 1, w |-> 1, h |-> 1], black |-> {<<0, 0>>}],
              min   |-> [r |-> [x |-> 2, y |-> 1, w |-> 2, h |-> 1], black |-> {<<1, 0>>}]]
MCTitle   == [x |-> 1, y |-> 1, text |-> <<"a", "b">>]
MCLabel   == [x |-> 1, y |-> 2, text |-> <<"a">>]
MCBox     == [x |-> 2, y |-> 2, w |-> 2, h |-> 2]

=============================================================================
