-------------------------- MODULE SheetStackProofs --------------------------
(***************************************************************************)
(* The sheet manager for every pool size and every sequence of calls: it   *)
(* stays well formed, and it implements the stack of windows of            *)
(* WindowOrder, that is, every call takes one sheet out of the stack of    *)
(* visible sheets, puts it somewhere, or both, and leaves the others in    *)
(* order.                                                                  *)
(***************************************************************************)
EXTENDS MCSheetStack, SheetsProofs, SequenceTheorems

(* The empty sheet manager of shtctl_init is well formed.                  *)
LEMMA InitWellFormed == Init => WellFormed(ctl)
<1> SUFFICES ASSUME Init PROVE WellFormed(ctl) OBVIOUS
<1>1. CtlType(ctl)
  BY MaxSheetsAssumption DEF Init, shtctl_init, CtlType, Sheet
<1>2. ZOrderOf(ctl)
  BY DEF Init, shtctl_init, ZOrderOf
<1> QED BY <1>1, <1>2 DEF WellFormed

(* Each operation keeps it well formed.                                    *)
LEMMA StepWellFormed == WellFormed(ctl) /\ [Next]_vars => WellFormed(ctl)'
<1> SUFFICES ASSUME WellFormed(ctl), [Next]_vars PROVE WellFormed(ctl')
  OBVIOUS
<1>1. CASE Alloc
  BY <1>1, AllocKeeps DEF Alloc
<1>2. ASSUME NEW s \in Sheet, UpDown(s) PROVE WellFormed(ctl')
  <2>1. PICK height \in HeightsFor(s) : ctl' = sheet_updown(ctl, s, height)
    BY <1>2 DEF UpDown
  <2>2. s \in ctl.flags /\ ctl.top \in Int /\ ctl.height[s] \in Int
    BY <1>2 DEF UpDown, WellFormed, CtlType
  <2>3. height \in Int /\ (ctl.height[s] >= 0 => height <= ctl.top)
    BY <2>1, <2>2 DEF HeightsFor
  <2> QED BY <2>1, <2>2, <2>3, UpDownKeeps
<1>3. ASSUME NEW s \in Sheet, Free(s) PROVE WellFormed(ctl')
  BY <1>3, FreeKeeps DEF Free
<1>4. CASE UNCHANGED vars
  BY <1>4 DEF vars
<1> QED BY <1>1, <1>2, <1>3, <1>4 DEF Next

(* Type correctness: in particular top < MAX_SHEETS, so the insertion loop *)
(* of sheet_updown (window.h:242-245) never writes outside sheets[].       *)
THEOREM TypeCorrect == Spec => []TypeOK
<1>1. WellFormed(ctl) => TypeOK BY DEF WellFormed, TypeOK
<1> QED BY <1>1, InitWellFormed, StepWellFormed, PTL DEF Spec

(* The array sheets[] and the height fields always describe one and the    *)
(* same stack (window.h:207).                                              *)
THEOREM ZOrderInvariant == Spec => []ZOrder
<1>1. WellFormed(ctl) => ZOrder BY DEF WellFormed, ZOrder
<1> QED BY <1>1, InitWellFormed, StepWellFormed, PTL DEF Spec

-----------------------------------------------------------------------------
(* A sequence without its i-th element, place by place.                    *)
Without(q, i) == [j \in 1..Len(q)-1 |-> IF j < i THEN q[j] ELSE q[j+1]]

(* That is RemoveAt.                                                       *)
LEMMA RemoveIs ==
  ASSUME NEW S, NEW q \in Seq(S), NEW i \in 1..Len(q)
  PROVE  /\ Order!RemoveAt(q, i) = Without(q, i)
         /\ Without(q, i) \in Seq(S) /\ Len(Without(q, i)) = Len(q) - 1
<1> DEFINE a == SubSeq(q, 1, i-1)
           b == SubSeq(q, i+1, Len(q))
<1>1. Len(q) \in Nat /\ i \in Int /\ 1 <= i /\ i <= Len(q) BY LenProperties
<1>2. a \in Seq(S) /\ Len(a) = i - 1 /\ \A j \in 1..i-1 : a[j] = q[j]
  BY <1>1, SubSeqProperties
<1>3. b \in Seq(S) /\ Len(b) = Len(q) - i /\ \A j \in 1..Len(q)-i : b[j] = q[i+j]
  BY <1>1, SubSeqProperties
<1> HIDE DEF a, b
<1> DEFINE r == a \o b
<1>4. r \in Seq(S) /\ Len(r) = Len(q) - 1
  <2>1. r \in Seq(S) /\ Len(r) = Len(a) + Len(b) BY <1>2, <1>3, ConcatProperties
  <2> QED BY <1>1, <1>2, <1>3, <2>1
<1>5. \A j \in 1..Len(q)-1 : r[j] = IF j <= Len(a) THEN a[j] ELSE b[j - Len(a)]
  <2>1. \A j \in 1..Len(a)+Len(b) : r[j] = IF j <= Len(a) THEN a[j] ELSE b[j - Len(a)]
    BY <1>2, <1>3, ConcatProperties
  <2>2. Len(a) + Len(b) = Len(q) - 1 BY <1>1, <1>2, <1>3
  <2> QED BY <2>1, <2>2
<1>6. \A j \in 1..Len(q)-1 : r[j] = IF j < i THEN q[j] ELSE q[j+1]
  BY <1>1, <1>2, <1>3, <1>5
<1>7. r = [j \in 1..Len(q)-1 |-> r[j]]
  BY <1>4, LenProperties
<1> HIDE DEF r
<1>8. r = Without(q, i)
  BY <1>6, <1>7 DEF Without
<1> QED BY <1>4, <1>8 DEF Order!RemoveAt, a, b, r

(* A sequence with e inserted at the i-th place.                           *)
With(q, i, e) == [j \in 1..Len(q)+1 |-> IF j < i THEN q[j] ELSE IF j = i THEN e ELSE q[j-1]]

(* That is InsertAt.                                                       *)
LEMMA InsertIs ==
  ASSUME NEW S, NEW q \in Seq(S), NEW e \in S, NEW i \in 1..Len(q)+1
  PROVE  Order!InsertAt(q, i, e) = With(q, i, e)
<1> DEFINE a == SubSeq(q, 1, i-1)
           b == SubSeq(q, i, Len(q))
           ae == a \o <<e>>
<1>1. Len(q) \in Nat /\ i \in Int /\ 1 <= i /\ i <= Len(q) + 1 BY LenProperties
<1>2. a \in Seq(S) /\ Len(a) = i - 1 /\ \A j \in 1..i-1 : a[j] = q[j]
  BY <1>1, SubSeqProperties
<1>3. b \in Seq(S) /\ Len(b) = Len(q) - i + 1 /\ \A j \in 1..Len(q)-i+1 : b[j] = q[i+j-1]
  BY <1>1, SubSeqProperties
<1> HIDE DEF a, b
<1>4. <<e>> \in Seq(S) /\ Len(<<e>>) = 1 /\ <<e>>[1] = e OBVIOUS
<1>5. ae \in Seq(S) /\ Len(ae) = i /\ \A j \in 1..i : ae[j] = IF j < i THEN q[j] ELSE e
  BY <1>1, <1>2, <1>4, ConcatProperties
<1> HIDE DEF ae
<1> DEFINE r == ae \o b
<1>6. r \in Seq(S) /\ Len(r) = Len(q) + 1
  <2>1. r \in Seq(S) /\ Len(r) = Len(ae) + Len(b) BY <1>3, <1>5, ConcatProperties
  <2> QED BY <1>1, <1>3, <1>5, <2>1
<1>7. \A j \in 1..Len(q)+1 : r[j] = IF j <= Len(ae) THEN ae[j] ELSE b[j - Len(ae)]
  <2>1. \A j \in 1..Len(ae)+Len(b) : r[j] = IF j <= Len(ae) THEN ae[j] ELSE b[j - Len(ae)]
    BY <1>3, <1>5, ConcatProperties
  <2>2. Len(ae) + Len(b) = Len(q) + 1 BY <1>1, <1>3, <1>5
  <2> QED BY <2>1, <2>2
<1>8. \A j \in 1..Len(q)+1 : r[j] = IF j < i THEN q[j] ELSE IF j = i THEN e ELSE q[j-1]
  BY <1>1, <1>3, <1>5, <1>7
<1>9. r = [j \in 1..Len(q)+1 |-> r[j]]
  BY <1>6, LenProperties
<1> HIDE DEF r
<1>10. r = With(q, i, e)
  BY <1>8, <1>9 DEF With
<1> QED BY <1>10 DEF Order!InsertAt, a, b, ae, r

-----------------------------------------------------------------------------
(* The stack of visible sheets, bottom first.                              *)
OrderOf(c) == [i \in 1..c.top+1 |-> c.sheets[i-1]]

(* It is a sequence of sheets, each of them at its height.                 *)
LEMMA OrderIsSeq ==
  ASSUME NEW c, WellFormed(c)
  PROVE  /\ OrderOf(c) \in Seq(Sheet) /\ Len(OrderOf(c)) = c.top + 1
         /\ c.top \in Int /\ -1 <= c.top
         /\ \A i \in 1..c.top+1 : OrderOf(c)[i] = c.sheets[i-1] /\ c.height[OrderOf(c)[i]] = i - 1
<1>1. /\ c.top \in Int /\ -1 <= c.top
      /\ \A h \in 0..c.top : c.sheets[h] \in Sheet /\ c.height[c.sheets[h]] = h
  BY LiveSlots
<1>2. \A i \in 1..c.top+1 : i - 1 \in 0..c.top BY <1>1
<1>3. OrderOf(c) \in [1..c.top+1 -> Sheet] BY <1>1, <1>2 DEF OrderOf
<1>4. c.top + 1 \in Nat BY <1>1
<1>5. OrderOf(c) \in Seq(Sheet) /\ Len(OrderOf(c)) = c.top + 1
  <2>1. OrderOf(c) \in Seq(Sheet) BY <1>3, <1>4, SeqDef
  <2>2. DOMAIN OrderOf(c) = 1..c.top+1 BY <1>3
  <2> QED BY <1>4, <2>1, <2>2, LenProperties
<1> QED BY <1>1, <1>2, <1>5 DEF OrderOf

(* The stack without a sheet.                                              *)
LEMMA OthersIs ==
  ASSUME NEW c, WellFormed(c), NEW s \in c.flags
  PROVE  Order!RemoveFirst(OrderOf(c), s) =
           IF c.height[s] >= 0 THEN Without(OrderOf(c), c.height[s] + 1) ELSE OrderOf(c)
<1> DEFINE q == OrderOf(c)
           h == c.height[s]
<1>1. q \in Seq(Sheet) /\ Len(q) = c.top + 1 /\ c.top \in Int /\ -1 <= c.top
  BY OrderIsSeq
<1>2. \A i \in 1..Len(q) : c.height[q[i]] = i - 1 BY <1>1, OrderIsSeq
<1>3. h \in Int /\ -1 <= h /\ (h >= 0 => h <= c.top /\ q[h+1] = s)
  <2>1. h \in Int /\ -1 <= h BY MaxSheetsAssumption DEF WellFormed, CtlType
  <2>2. h >= 0 => h <= c.top /\ c.sheets[h] = s BY DEF WellFormed, ZOrderOf
  <2> QED BY <1>1, <2>1, <2>2 DEF OrderOf
<1> HIDE DEF q, h
<1>4. CASE h >= 0
  <2> DEFINE I == {i \in 1..Len(q) : q[i] = s}
  <2>1. h + 1 \in 1..Len(q) /\ q[h+1] = s BY <1>1, <1>3, <1>4
  <2>2. \A i \in 1..Len(q) : q[i] = s => i = h + 1
    BY <1>2, <1>3 DEF h
  <2>3. I = {h + 1} BY <2>1, <2>2
  <2> HIDE DEF I
  <2>4. Order!Min(I) = h + 1 BY <1>3, <2>3 DEF Order!Min
  <2>5. Order!RemoveFirst(q, s) = Order!RemoveAt(q, h + 1)
    BY <2>1, <2>3, <2>4 DEF Order!RemoveFirst, Order!SelectInSeq, I
  <2>6. Order!RemoveAt(q, h + 1) = Without(q, h + 1) BY <1>1, <2>1, RemoveIs
  <2> QED BY <1>4, <2>5, <2>6 DEF q, h
<1>5. CASE ~(h >= 0)
  <2>1. ~ \E i \in 1..Len(q) : q[i] = s
    BY <1>2, <1>5 DEF h
  <2> QED BY <1>5, <2>1 DEF Order!RemoveFirst, q, h
<1> QED BY <1>4, <1>5

-----------------------------------------------------------------------------
(* The steps.  A new sheet is hidden.                                      *)
LEMMA AllocOpens ==
  ASSUME WellFormed(ctl), Alloc
  PROVE  \E s \in Sheet : Order!Open(s)
<1> DEFINE s == FirstFree(ctl)
<1>1. s \in Sheet \ ctl.flags
  <2> DEFINE F == FreeSlots(ctl)
  <2>1. F \subseteq Nat /\ F # {} BY MaxSheetsAssumption DEF FreeSlots, Sheet, Alloc
  <2>2. \E m \in F : \A t \in F : m <= t BY <2>1, LeastNat
  <2> QED BY <2>2 DEF FirstFree, FreeSlots
<1>2. ctl' = [ctl EXCEPT !.flags = @ \cup {s}, !.height[s] = -1] BY DEF Alloc, sheet_alloc
<1>3. ctl'.top = ctl.top /\ ctl'.sheets = ctl.sheets /\ ctl'.flags = ctl.flags \cup {s}
  BY <1>1, <1>2 DEF WellFormed, CtlType
<1> QED BY <1>1, <1>3 DEF Order!Open

(* Taking a sheet out of the stack closes the gap.                         *)
LEMMA HideTakesOut ==
  ASSUME NEW c, WellFormed(c), NEW s \in c.flags, 0 <= c.height[s]
  PROVE  OrderOf(Hide(c, s, c.height[s])) = Order!RemoveFirst(OrderOf(c), s)
<1> DEFINE old == c.height[s]
           d == Hide(c, s, old)
           q == OrderOf(c)
<1>1. Order!RemoveFirst(q, s) = Without(q, old + 1) BY OthersIs
<1>2. Len(q) = c.top + 1 /\ c.top \in Int /\ -1 <= c.top BY OrderIsSeq
<1>3. old \in Int /\ 0 <= old /\ old <= c.top /\ c.top < MAX_SHEETS
  BY LiveSlots DEF WellFormed, CtlType, ZOrderOf
<1>4. /\ d.top = c.top - 1
      /\ d.sheets = [h \in Slots |->
                       IF h \in old..c.top-1 THEN c.sheets[h+1] ELSE c.sheets[h]]
  BY DEF Hide, WellFormed, CtlType
<1> HIDE DEF d, old
<1>5. \A i \in 1..c.top : i - 1 \in Slots /\ i \in Slots
  BY <1>2, <1>3, MaxSheetsAssumption DEF Slots
<1>6. \A i \in 1..c.top : d.sheets[i-1] = IF i < old + 1 THEN c.sheets[i-1] ELSE c.sheets[i]
  BY <1>2, <1>3, <1>4, <1>5
<1>7. \A i \in 1..c.top+1 : q[i] = c.sheets[i-1] BY <1>2 DEF OrderOf
<1>8. \A i \in 1..c.top : d.sheets[i-1] = IF i < old + 1 THEN q[i] ELSE q[i+1]
  BY <1>2, <1>3, <1>6, <1>7
<1>9. OrderOf(d) = [i \in 1..c.top |-> d.sheets[i-1]] BY <1>2, <1>4 DEF OrderOf
<1>10. Without(q, old + 1) = [i \in 1..c.top |-> IF i < old + 1 THEN q[i] ELSE q[i+1]]
  BY <1>2 DEF Without
<1>11. OrderOf(d) = Without(q, old + 1) BY <1>8, <1>9, <1>10
<1> QED BY <1>1, <1>11 DEF d, old

(* Showing a sheet inserts it at its new height.                           *)
LEMMA ShowInserts ==
  ASSUME NEW c, WellFormed(c), NEW s \in c.flags, c.height[s] = -1,
         NEW height \in Int, 0 <= height, height <= c.top + 1
  PROVE  OrderOf(Show(c, s, height)) = With(OrderOf(c), height + 1, s)
<1> DEFINE d == Show(c, s, height)
           q == OrderOf(c)
<1>1. Len(q) = c.top + 1 /\ c.top \in Int /\ -1 <= c.top BY OrderIsSeq
<1>2. c.top + 1 \in Slots BY RoomToShow
<1>3. /\ d.top = c.top + 1
      /\ d.sheets = [h \in Slots |->
                       IF h = height THEN s
                       ELSE IF h \in height+1..c.top+1 THEN c.sheets[h-1] ELSE c.sheets[h]]
  BY DEF Show, WellFormed, CtlType
<1> HIDE DEF d
<1>4. \A i \in 1..c.top+2 : i - 1 \in Slots
  BY <1>1, <1>2, MaxSheetsAssumption DEF Slots
<1>5. \A i \in 1..c.top+2 : d.sheets[i-1] =
        IF i < height + 1 THEN c.sheets[i-1] ELSE IF i = height + 1 THEN s ELSE c.sheets[i-2]
  BY <1>1, <1>3, <1>4
<1>6. \A i \in 1..c.top+1 : q[i] = c.sheets[i-1] BY <1>1 DEF OrderOf
<1>7. \A i \in 1..c.top+2 : d.sheets[i-1] =
        IF i < height + 1 THEN q[i] ELSE IF i = height + 1 THEN s ELSE q[i-1]
  BY <1>1, <1>5, <1>6
<1>8. OrderOf(d) = [i \in 1..c.top+2 |-> d.sheets[i-1]] BY <1>1, <1>3 DEF OrderOf
<1>9. With(q, height + 1, s) = [i \in 1..c.top+2 |->
        IF i < height + 1 THEN q[i] ELSE IF i = height + 1 THEN s ELSE q[i-1]]
  BY <1>1 DEF With
<1>10. OrderOf(d) = With(q, height + 1, s) BY <1>7, <1>8, <1>9
<1> QED BY <1>10 DEF d

(* Raising a visible sheet takes it out and inserts it higher up ...       *)
LEMMA RaiseMoves ==
  ASSUME NEW c, WellFormed(c), NEW s \in c.flags, NEW height \in Int,
         0 <= c.height[s], c.height[s] < height, height <= c.top
  PROVE  OrderOf(Raise(c, s, c.height[s], height)) =
           With(Without(OrderOf(c), c.height[s] + 1), height + 1, s)
<1> DEFINE old == c.height[s]
           d == Raise(c, s, old, height)
           q == OrderOf(c)
           w == Without(q, old + 1)
<1>1. Len(q) = c.top + 1 /\ c.top \in Int /\ -1 <= c.top BY OrderIsSeq
<1>2. old \in Int /\ 0 <= old /\ old < height /\ height <= c.top /\ c.top < MAX_SHEETS
  BY LiveSlots DEF WellFormed, CtlType
<1>3. /\ d.top = c.top
      /\ d.sheets = [h \in Slots |->
                       IF h = height THEN s
                       ELSE IF h \in old..height-1 THEN c.sheets[h+1] ELSE c.sheets[h]]
  BY DEF Raise, WellFormed, CtlType
<1> HIDE DEF d, old
<1>4. \A i \in 1..c.top+1 : i - 1 \in Slots
  BY <1>1, <1>2, MaxSheetsAssumption DEF Slots
<1>5. \A i \in 1..c.top+1 : d.sheets[i-1] =
        IF i = height + 1 THEN s ELSE IF i \in old+1..height THEN c.sheets[i] ELSE c.sheets[i-1]
  BY <1>1, <1>2, <1>3, <1>4
<1>6. \A i \in 1..c.top+1 : q[i] = c.sheets[i-1] BY <1>1 DEF OrderOf
<1>7. w = [j \in 1..c.top |-> IF j < old + 1 THEN q[j] ELSE q[j+1]] BY <1>1 DEF Without
<1>8. Len(w) = c.top
  <2>1. q \in Seq(Sheet) /\ old + 1 \in 1..Len(q) BY <1>1, <1>2, OrderIsSeq
  <2> HIDE DEF q
  <2> QED BY <1>1, <2>1, RemoveIs
<1> HIDE DEF w, q
<1>9. \A i \in 1..c.top : w[i] = IF i < old + 1 THEN c.sheets[i-1] ELSE c.sheets[i]
  <2>1. \A i \in 1..c.top : w[i] = IF i < old + 1 THEN q[i] ELSE q[i+1] BY <1>7
  <2>2. \A i \in 1..c.top : q[i] = c.sheets[i-1] /\ q[i+1] = c.sheets[i]
    BY <1>1, <1>6
  <2> QED BY <2>1, <2>2
<1>10. ASSUME NEW i \in 1..c.top+1
       PROVE  d.sheets[i-1] =
                IF i < height + 1 THEN w[i] ELSE IF i = height + 1 THEN s ELSE w[i-1]
  <2>1. CASE i < height + 1
    <3>1. i \in 1..c.top BY <1>1, <1>2, <2>1
    <3> QED BY <1>1, <1>2, <1>5, <1>9, <2>1, <3>1
  <2>2. CASE i = height + 1
    BY <1>2, <1>5, <2>2
  <2>3. CASE i > height + 1
    <3>1. i - 1 \in 1..c.top BY <1>1, <1>2, <2>3
    <3>2. w[i-1] = IF i - 1 < old + 1 THEN c.sheets[(i-1)-1] ELSE c.sheets[i-1] BY <1>9, <3>1
    <3> QED BY <1>1, <1>2, <1>5, <2>3, <3>1, <3>2
  <2> QED BY <1>1, <1>2, <2>1, <2>2, <2>3
<1>11. OrderOf(d) = [i \in 1..c.top+1 |-> d.sheets[i-1]] BY <1>3 DEF OrderOf
<1>12. With(w, height + 1, s) = [i \in 1..c.top+1 |->
         IF i < height + 1 THEN w[i] ELSE IF i = height + 1 THEN s ELSE w[i-1]]
  BY <1>8 DEF With
<1>13. OrderOf(d) = With(w, height + 1, s) BY <1>10, <1>11, <1>12
<1> QED BY <1>13 DEF d, old, w, q

(* ... and lowering it inserts it lower down.                              *)
LEMMA LowerMoves ==
  ASSUME NEW c, WellFormed(c), NEW s \in c.flags, NEW height \in Int,
         0 <= height, height < c.height[s]
  PROVE  OrderOf(Lower(c, s, c.height[s], height)) =
           With(Without(OrderOf(c), c.height[s] + 1), height + 1, s)
<1> DEFINE old == c.height[s]
           d == Lower(c, s, old, height)
           q == OrderOf(c)
           w == Without(q, old + 1)
<1>1. Len(q) = c.top + 1 /\ c.top \in Int /\ -1 <= c.top BY OrderIsSeq
<1>2. old \in Int /\ 0 <= height /\ height < old /\ old <= c.top /\ c.top < MAX_SHEETS
  BY LiveSlots DEF WellFormed, CtlType, ZOrderOf
<1>3. /\ d.top = c.top
      /\ d.sheets = [h \in Slots |->
                       IF h = height THEN s
                       ELSE IF h \in height+1..old THEN c.sheets[h-1] ELSE c.sheets[h]]
  BY DEF Lower, WellFormed, CtlType
<1> HIDE DEF d, old
<1>4. \A i \in 1..c.top+1 : i - 1 \in Slots
  BY <1>1, <1>2, MaxSheetsAssumption DEF Slots
<1>5. \A i \in 1..c.top+1 : d.sheets[i-1] =
        IF i = height + 1 THEN s ELSE IF i \in height+2..old+1 THEN c.sheets[i-2] ELSE c.sheets[i-1]
  BY <1>1, <1>2, <1>3, <1>4
<1>6. \A i \in 1..c.top+1 : q[i] = c.sheets[i-1] BY <1>1 DEF OrderOf
<1>7. w = [j \in 1..c.top |-> IF j < old + 1 THEN q[j] ELSE q[j+1]] BY <1>1 DEF Without
<1>8. Len(w) = c.top
  <2>1. q \in Seq(Sheet) /\ old + 1 \in 1..Len(q) BY <1>1, <1>2, OrderIsSeq
  <2> HIDE DEF q
  <2> QED BY <1>1, <2>1, RemoveIs
<1> HIDE DEF w, q
<1>9. \A i \in 1..c.top : w[i] = IF i < old + 1 THEN c.sheets[i-1] ELSE c.sheets[i]
  <2>1. \A i \in 1..c.top : w[i] = IF i < old + 1 THEN q[i] ELSE q[i+1] BY <1>7
  <2>2. \A i \in 1..c.top : q[i] = c.sheets[i-1] /\ q[i+1] = c.sheets[i]
    BY <1>1, <1>6
  <2> QED BY <2>1, <2>2
<1>10. ASSUME NEW i \in 1..c.top+1
       PROVE  d.sheets[i-1] =
                IF i < height + 1 THEN w[i] ELSE IF i = height + 1 THEN s ELSE w[i-1]
  <2>1. CASE i < height + 1
    <3>1. i \in 1..c.top BY <1>1, <1>2, <2>1
    <3> QED BY <1>1, <1>2, <1>5, <1>9, <2>1, <3>1
  <2>2. CASE i = height + 1
    BY <1>2, <1>5, <2>2
  <2>3. CASE i > height + 1
    <3>1. i - 1 \in 1..c.top BY <1>1, <1>2, <2>3
    <3>2. w[i-1] = IF i - 1 < old + 1 THEN c.sheets[(i-1)-1] ELSE c.sheets[i-1] BY <1>9, <3>1
    <3> QED BY <1>1, <1>2, <1>5, <2>3, <3>1, <3>2
  <2> QED BY <1>1, <1>2, <2>1, <2>2, <2>3
<1>11. OrderOf(d) = [i \in 1..c.top+1 |-> d.sheets[i-1]] BY <1>3 DEF OrderOf
<1>12. With(w, height + 1, s) = [i \in 1..c.top+1 |->
         IF i < height + 1 THEN w[i] ELSE IF i = height + 1 THEN s ELSE w[i-1]]
  BY <1>8 DEF With
<1>13. OrderOf(d) = With(w, height + 1, s) BY <1>10, <1>11, <1>12
<1> QED BY <1>13 DEF d, old, w, q

-----------------------------------------------------------------------------
(* sheet_updown to a height the callers pass: the sheet is taken out,      *)
(* placed, or left where it is.                                            *)
LEMMA UpDownMoves ==
  ASSUME WellFormed(ctl), NEW s \in Sheet, UpDown(s)
  PROVE  Order!TakeOut(s) \/ Order!Place(s) \/ UNCHANGED Order!vars
<1> DEFINE q == OrderOf(ctl)
           old == ctl.height[s]
<1>1. PICK height \in HeightsFor(s) : ctl' = sheet_updown(ctl, s, height)
  BY DEF UpDown
<1> DEFINE new == Clamp(ctl, height)
<1>2. s \in ctl.flags /\ ctl.top \in Int /\ -1 <= ctl.top /\ old \in Int /\ -1 <= old
      /\ (old >= 0 => old <= ctl.top)
  BY LiveSlots DEF UpDown, WellFormed, CtlType, ZOrderOf
<1>3. new \in Int /\ -1 <= new /\ new <= ctl.top + 1 /\ (old >= 0 => new <= ctl.top)
  BY <1>1, <1>2 DEF HeightsFor, Clamp
<1>4. q \in Seq(Sheet) /\ Len(q) = ctl.top + 1 BY OrderIsSeq
<1>5. q' = OrderOf(ctl') /\ ctl.flags \subseteq Sheet BY DEF OrderOf, WellFormed, CtlType
<1> HIDE DEF new
<1>6. CASE old > new /\ new < 0
  <2>1. ctl' = Hide(ctl, s, old) BY <1>1, <1>2, <1>3, <1>6 DEF sheet_updown, new
  <2>2. ctl'.flags = ctl.flags BY <2>1 DEF Hide, WellFormed, CtlType
  <2>3. OrderOf(ctl') = Order!RemoveFirst(q, s) BY <1>2, <1>3, <1>6, <2>1, HideTakesOut
  <2> QED BY <1>2, <2>2, <2>3 DEF Order!TakeOut, Order!Others, OrderOf
<1>7. CASE old < new /\ old < 0
  <2>1. ctl' = Show(ctl, s, new) /\ old = -1
    BY <1>1, <1>2, <1>3, <1>7 DEF sheet_updown, new
  <2>2. ctl'.flags = ctl.flags BY <2>1 DEF Show, WellFormed, CtlType
  <2>3. OrderOf(ctl') = With(q, new + 1, s) BY <1>2, <1>3, <1>7, <2>1, ShowInserts
  <2>4. Order!RemoveFirst(q, s) = q BY <1>2, <1>7, OthersIs
  <2>5. new + 1 \in 1..Len(q)+1 BY <1>2, <1>3, <1>4, <1>7
  <2>6. With(q, new + 1, s) = Order!InsertAt(q, new + 1, s) BY <1>4, <2>5, InsertIs
  <2> QED BY <1>2, <2>2, <2>3, <2>4, <2>5, <2>6 DEF Order!Place, Order!Others, OrderOf
<1>8. CASE old # new /\ old >= 0 /\ new >= 0
  <2> DEFINE w == Without(q, old + 1)
  <2>1. ctl' = IF old > new THEN Lower(ctl, s, old, new) ELSE Raise(ctl, s, old, new)
    BY <1>1, <1>2, <1>3, <1>8 DEF sheet_updown, new
  <2>2. ctl'.flags = ctl.flags BY <2>1 DEF Lower, Raise, WellFormed, CtlType
  <2>3. OrderOf(ctl') = With(w, new + 1, s)
    <3>1. CASE old > new BY <1>2, <1>3, <1>8, <2>1, <3>1, LowerMoves
    <3>2. CASE old < new BY <1>2, <1>3, <1>8, <2>1, <3>2, RaiseMoves
    <3> QED BY <1>2, <1>3, <1>8, <3>1, <3>2
  <2>4. Order!RemoveFirst(q, s) = w BY <1>2, <1>8, OthersIs
  <2>5. w \in Seq(Sheet) /\ Len(w) = ctl.top
    <3>1. old + 1 \in 1..Len(q) BY <1>2, <1>4, <1>8
    <3> QED BY <1>2, <1>4, <3>1, RemoveIs
  <2> HIDE DEF w
  <2>6. new + 1 \in 1..Len(w)+1 BY <1>2, <1>3, <1>8, <2>5
  <2>7. With(w, new + 1, s) = Order!InsertAt(w, new + 1, s) BY <2>5, <2>6, InsertIs
  <2> QED BY <1>2, <2>2, <2>3, <2>4, <2>6, <2>7 DEF Order!Place, Order!Others, OrderOf
<1>9. CASE old = new
  <2>1. ctl' = ctl BY <1>1, <1>2, <1>3, <1>9 DEF sheet_updown, new
  <2> QED BY <2>1 DEF Order!vars
<1> QED BY <1>2, <1>3, <1>6, <1>7, <1>8, <1>9

(* sheet_free: out of the stack and back to the pool.                      *)
LEMMA FreeCloses ==
  ASSUME WellFormed(ctl), NEW s \in Sheet, Free(s)
  PROVE  Order!Close(s)
<1> DEFINE hidden == IF ctl.height[s] >= 0 THEN Hide(ctl, s, ctl.height[s]) ELSE ctl
<1>1. s \in ctl.flags /\ ctl.height[s] \in Int /\ ctl.top \in Int /\ -1 <= ctl.top
  BY LiveSlots DEF Free, WellFormed, CtlType
<1>2. ctl' = [hidden EXCEPT !.flags = @ \ {s}]
  BY <1>1 DEF Free, sheet_free, sheet_updown, Clamp
<1>3. OrderOf(hidden) = Order!RemoveFirst(OrderOf(ctl), s)
  BY <1>1, HideTakesOut, OthersIs
<1>4. hidden.flags = ctl.flags /\ ctl'.top = hidden.top /\ ctl'.sheets = hidden.sheets
      /\ ctl'.flags = ctl.flags \ {s}
  BY <1>2 DEF Hide, WellFormed, CtlType
<1> HIDE DEF hidden
<1>5. OrderOf(ctl') = OrderOf(hidden) BY <1>4 DEF OrderOf
<1> QED BY <1>1, <1>3, <1>4, <1>5 DEF Order!Close, Order!Others, OrderOf

(* Every call of sheet_alloc, sheet_updown and sheet_free is one operation *)
(* on the stack of windows, for every pool size (window.h:64-74, 209-253,  *)
(* 297-300).                                                               *)
THEOREM SheetsImplementOrder == Spec => ImplementsWindowOrder
<1>1. Init => Order!Init
  BY DEF Init, shtctl_init, Order!Init
<1>2. WellFormed(ctl) /\ [Next]_vars => [Order!Next]_Order!vars
  <2> SUFFICES ASSUME WellFormed(ctl), [Next]_vars PROVE [Order!Next]_Order!vars OBVIOUS
  <2>1. CASE Alloc BY <2>1, AllocOpens DEF Order!Next
  <2>2. ASSUME NEW s \in Sheet, UpDown(s) PROVE Order!Next \/ UNCHANGED Order!vars
    BY <2>2, UpDownMoves DEF Order!Next
  <2>3. ASSUME NEW s \in Sheet, Free(s) PROVE Order!Next
    BY <2>3, FreeCloses DEF Order!Next
  <2>4. CASE UNCHANGED vars BY <2>4 DEF vars, Order!vars
  <2> QED BY <2>1, <2>2, <2>3, <2>4 DEF Next
<1> QED
  BY <1>1, <1>2, InitWellFormed, StepWellFormed, PTL DEF Spec, ImplementsWindowOrder, Order!Spec

=============================================================================
