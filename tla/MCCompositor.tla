---------------------------- MODULE MCCompositor ----------------------------
(* A screen of four pixels.  The two windows are an opaque middle between  *)
(* shadow pixels, the cursor has an opaque and a transparent pixel; every  *)
(* overlap and every order of the three is reached.                        *)
EXTENDS Compositor

Row(kinds) == [q \in {<<i-1, 0>> : i \in DOMAIN kinds} |-> kinds[q[1]+1]]

MCShape == [s \in Sheet |->
  CASE s = Back   -> [p \in Cell |-> "opaque"]
    [] s = Win    -> Row(<<"shadow", "opaque", "shadow">>)
    [] s = Cursor -> Row(<<"opaque", "clear">>)
    [] s = Login  -> Row(<<"opaque", "opaque", "shadow">>)]

MCBootPos == [s \in Sheet |-> CASE s = Win -> <<-1, 0>> [] s = Cursor -> <<2, 0>>
                                [] s = Login -> <<1, 0>> [] OTHER -> <<0, 0>>]
MCPositions == (-1..3) \X {0}
MCStrip == {<<3, 0>>}

=============================================================================
