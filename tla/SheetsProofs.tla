---------------------------- MODULE SheetsProofs ----------------------------
(***************************************************************************)
(* Lemmas about the operators of Sheets: each of them, called with what    *)
(* the kernel's callers pass, takes a well-formed sheet manager to a       *)
(* well-formed one.  The modules of proofs about the components cite them. *)
(***************************************************************************)
EXTENDS Sheets, FiniteSetTheorems, WellFoundedInduction, TLAPS

WellFormed(c) == CtlType(c) /\ ZOrderOf(c)

(* The shifting loops give every sheet they move the number of the slot it *)
(* is moved to, and leave the other heights alone, provided no sheet is in *)
(* two of the slots written (window.h:217-220, 226-229, 236-239, 242-245). *)
LEMMA RenumberMoves ==
  ASSUME NEW height \in [Sheet -> -1..MAX_SHEETS-1],
         NEW sheets, NEW lo \in Int, NEW hi \in Int,
         \A h \in lo..hi : h \in Slots /\ sheets[h] \in Sheet,
         \A h, k \in lo..hi : sheets[h] = sheets[k] => h = k
  PROVE  LET r == Renumber(height, sheets, lo, hi)
         IN  /\ r \in [Sheet -> -1..MAX_SHEETS-1]
             /\ \A h \in lo..hi : r[sheets[h]] = h
             /\ \A s \in Sheet : (\A h \in lo..hi : sheets[h] # s) =>
                                   r[s] = height[s]
<1> DEFINE r == Renumber(height, sheets, lo, hi)
<1>1. \A h \in lo..hi : r[sheets[h]] = h
  <2>1. ASSUME NEW h \in lo..hi PROVE r[sheets[h]] = h
    <3>1. sheets[h] \in Sheet BY <2>1
    <3>2. \E k \in lo..hi : sheets[k] = sheets[h] BY <2>1
    <3>3. r[sheets[h]] = CHOOSE k \in lo..hi : sheets[k] = sheets[h]
      BY <3>1, <3>2 DEF Renumber
    <3>4. r[sheets[h]] \in lo..hi /\ sheets[r[sheets[h]]] = sheets[h]
      BY <3>2, <3>3
    <3> QED BY <2>1, <3>4
  <2> QED BY <2>1
<1>2. \A s \in Sheet : (\A h \in lo..hi : sheets[h] # s) => r[s] = height[s]
  BY DEF Renumber
<1>3. \A s \in Sheet : r[s] \in -1..MAX_SHEETS-1
  <2>1. ASSUME NEW s \in Sheet, NEW h \in lo..hi, sheets[h] = s
        PROVE  r[s] \in -1..MAX_SHEETS-1
    BY <1>1, <2>1 DEF Slots
  <2> QED BY <1>2, <2>1
<1>4. r = [s \in Sheet |-> r[s]] BY DEF Renumber
<1> QED BY <1>1, <1>2, <1>3, <1>4

(* A sheet occupies one slot of the live part of sheets[].                 *)
LEMMA LiveSlots ==
  ASSUME NEW c, WellFormed(c)
  PROVE  /\ c.top \in Int /\ c.top < MAX_SHEETS /\ -1 <= c.top
         /\ \A h \in 0..c.top : /\ h \in Slots /\ c.sheets[h] \in Sheet
                                /\ c.sheets[h] \in c.flags
                                /\ c.height[c.sheets[h]] = h
         /\ \A h, k \in 0..c.top : c.sheets[h] = c.sheets[k] => h = k
BY MaxSheetsAssumption DEF WellFormed, CtlType, ZOrderOf, Slots, Sheet

(* A hidden sheet that is in use leaves room for one more slot: the        *)
(* insertion loop of sheet_updown never writes past sheets[MAX_SHEETS-1]   *)
(* (window.h:241-248).                                                     *)
LEMMA RoomToShow ==
  ASSUME NEW c, WellFormed(c), NEW s \in c.flags, c.height[s] = -1
  PROVE  c.top + 1 \in Slots
<1>1. c.top \in Int /\ -1 <= c.top /\ c.top < MAX_SHEETS BY LiveSlots
<1>2. s \in Sheet BY DEF WellFormed, CtlType
<1>3. CASE c.top = MAX_SHEETS - 1
  <2> DEFINE f == [h \in Slots |-> c.sheets[h]]
  <2>1. Slots = 0..c.top BY <1>3 DEF Slots
  <2>2. f \in [Slots -> Sheet \ {s}]
    <3>1. ASSUME NEW h \in Slots PROVE c.sheets[h] \in Sheet /\ c.sheets[h] # s
      BY <2>1, <1>1, LiveSlots, <3>1
    <3> QED BY <3>1
  <2>3. IsFiniteSet(Slots) /\ Cardinality(Slots) = MAX_SHEETS
    BY FS_Interval, MaxSheetsAssumption DEF Slots
  <2>4. IsFiniteSet(Sheet) /\ Cardinality(Sheet) = MAX_SHEETS
    BY FS_Interval, MaxSheetsAssumption DEF Sheet
  <2>5. IsFiniteSet(Sheet \ {s}) /\ Cardinality(Sheet \ {s}) = MAX_SHEETS - 1
    BY <2>4, <1>2, FS_RemoveElement
  <2>6. Cardinality(Sheet \ {s}) < Cardinality(Slots)
    BY <2>3, <2>5, MaxSheetsAssumption
  <2>7. \E h, k \in Slots : h # k /\ f[h] = f[k]
    <3> HIDE DEF f
    <3> QED BY <2>2, <2>3, <2>5, <2>6, FS_PigeonHole
  <2> QED BY <2>1, <2>7, LiveSlots
<1> QED BY <1>1, <1>3, MaxSheetsAssumption DEF Slots

(* Every nonempty set of natural numbers has a least element.              *)
LEMMA LeastNat ==
  ASSUME NEW F \in SUBSET Nat, F # {}
  PROVE  \E m \in F : \A t \in F : m <= t
<1> DEFINE R == OpToRel(<, Nat)
<1>1. \A x, y \in Nat : <<x, y>> \in R <=> x < y BY DEF OpToRel
<1>2. IsWellFoundedOn(R, Nat) BY NatLessThanWellFounded
<1> HIDE DEF R
<1>3. PICK x \in F : \A y \in F : ~(<<y, x>> \in R) BY <1>2, WFMin
<1>4. ASSUME NEW y \in F PROVE x <= y
  <2>1. x \in Nat /\ y \in Nat BY <1>3
  <2>2. ~(y < x) BY <1>1, <1>3, <2>1
  <2> QED BY <2>1, <2>2
<1> QED BY <1>3, <1>4

(* sheet_alloc (window.h:64-74).                                           *)
LEMMA AllocKeeps ==
  ASSUME NEW c, WellFormed(c), FreeSlots(c) # {}
  PROVE  WellFormed(sheet_alloc(c))
<1> DEFINE s == FirstFree(c)
<1>1. s \in Sheet \ c.flags
  <2> DEFINE F == FreeSlots(c)
  <2>1. F \subseteq Nat /\ F # {} BY MaxSheetsAssumption DEF FreeSlots, Sheet
  <2>2. \E m \in F : \A t \in F : m <= t
    BY <2>1, LeastNat
  <2> QED BY <2>2 DEF FirstFree, FreeSlots
<1>2. s \notin c.flags /\ s \in Sheet BY <1>1
<1>3. \A h \in 0..c.top : c.sheets[h] # s BY <1>2, LiveSlots
<1> HIDE DEF s
<1>4. sheet_alloc(c) = [c EXCEPT !.flags = @ \cup {s}, !.height[s] = -1]
  BY DEF sheet_alloc, s
<1>5. CtlType(sheet_alloc(c))
  <2>1. [c.height EXCEPT ![s] = -1] \in [Sheet -> -1..MAX_SHEETS-1]
    BY <1>2, MaxSheetsAssumption DEF WellFormed, CtlType
  <2>2. c.flags \cup {s} \in SUBSET Sheet
    BY <1>2 DEF WellFormed, CtlType
  <2> QED BY <1>4, <2>1, <2>2 DEF WellFormed, CtlType
<1>6. ZOrderOf(sheet_alloc(c))
  BY <1>2, <1>3, <1>4, LiveSlots DEF WellFormed, CtlType, ZOrderOf
<1> QED BY <1>5, <1>6 DEF WellFormed

(* sheet_updown, a visible sheet moved down (window.h:215-223).            *)
LEMMA LowerKeeps ==
  ASSUME NEW c, WellFormed(c), NEW s \in c.flags, NEW height \in Int,
         0 <= height, height < c.height[s]
  PROVE  WellFormed(Lower(c, s, c.height[s], height))
<1> DEFINE old == c.height[s]
           moved == [h \in Slots |->
                      IF h = height THEN s
                      ELSE IF h \in height+1..old THEN c.sheets[h-1]
                      ELSE c.sheets[h]]
           base == [c.height EXCEPT ![s] = height]
           r == Renumber(base, moved, height+1, old)
           d == Lower(c, s, old, height)
<1>1. /\ s \in Sheet /\ old \in 0..c.top /\ c.sheets[old] = s
      /\ c.top \in Int /\ c.top < MAX_SHEETS
  BY LiveSlots DEF WellFormed, CtlType, ZOrderOf
<1>2. /\ base \in [Sheet -> -1..MAX_SHEETS-1]
      /\ \A t \in Sheet : base[t] = IF t = s THEN height ELSE c.height[t]
  <2>1. height \in -1..MAX_SHEETS-1 BY <1>1, MaxSheetsAssumption
  <2>2. c.height \in [Sheet -> -1..MAX_SHEETS-1] BY DEF WellFormed, CtlType
  <2> QED BY <1>1, <2>1, <2>2
<1>3. moved \in [Slots -> Sheet \cup {NULL}]
  BY <1>1, LiveSlots DEF WellFormed, CtlType
<1>4. \A h \in height+1..old : /\ h \in Slots /\ h-1 \in 0..c.top
                              /\ moved[h] = c.sheets[h-1]
                              /\ moved[h] \in Sheet
  BY <1>1, LiveSlots DEF Slots
<1>5. \A h, k \in height+1..old : moved[h] = moved[k] => h = k
  BY <1>1, <1>4, LiveSlots
<1>6. /\ r \in [Sheet -> -1..MAX_SHEETS-1]
      /\ \A h \in height+1..old : r[moved[h]] = h
      /\ \A t \in Sheet : (\A h \in height+1..old : moved[h] # t) => r[t] = base[t]
  <2> HIDE DEF moved, base
  <2> QED BY <1>1, <1>2, <1>4, <1>5, RenumberMoves
<1>7. d = [c EXCEPT !.sheets = moved, !.height = r] BY DEF Lower
<1>8. \A h \in Slots : moved[h] = IF h = height THEN s
                                 ELSE IF h \in height+1..old THEN c.sheets[h-1]
                                 ELSE c.sheets[h]
  OBVIOUS
<1> HIDE DEF r, moved, base, d
<1>9. CtlType(d)
  BY <1>3, <1>6, <1>7 DEF WellFormed, CtlType
<1>10. d.top = c.top /\ d.flags = c.flags /\ d.sheets = moved /\ d.height = r
  BY <1>7 DEF WellFormed, CtlType
<1>11. ASSUME NEW h \in 0..c.top PROVE moved[h] \in c.flags /\ r[moved[h]] = h
  <2>1. h \in Slots BY <1>1, <1>11, MaxSheetsAssumption DEF Slots
  <2>2. CASE h = height
    <3>1. moved[h] = s BY <2>1, <2>2, <1>8
    <3>2. \A k \in height+1..old : moved[k] # s BY <1>1, <1>4, LiveSlots
    <3> QED BY <2>2, <3>1, <3>2, <1>1, <1>2, <1>6
  <2>3. CASE h \in height+1..old
    BY <2>3, <1>4, <1>6, LiveSlots
  <2>4. CASE h # height /\ h \notin height+1..old
    <3>1. moved[h] = c.sheets[h] BY <2>1, <2>4, <1>8
    <3>2. h # old BY <2>4, <1>1
    <3>3. c.sheets[h] # s BY <3>2, <1>1, <1>11, LiveSlots
    <3>4. \A k \in height+1..old : moved[k] # c.sheets[h]
      BY <2>4, <1>1, <1>4, <1>11, LiveSlots
    <3> QED BY <3>1, <3>3, <3>4, <1>2, <1>6, <1>11, LiveSlots
  <2> QED BY <2>2, <2>3, <2>4
<1>12. ASSUME NEW t \in c.flags, r[t] >= 0
       PROVE  r[t] <= c.top /\ moved[r[t]] = t
  <2>1. t \in Sheet BY DEF WellFormed, CtlType
  <2>2. CASE \E h \in 0..c.top : moved[h] = t
    BY <2>2, <1>1, <1>11
  <2>3. CASE \A h \in 0..c.top : moved[h] # t
    <3>1. t # s
      BY <2>3, <1>1, <1>8, MaxSheetsAssumption DEF Slots
    <3>2. r[t] = c.height[t] 
      BY <2>1, <2>3, <3>1, <1>1, <1>2, <1>6
    <3>3. c.height[t] \in 0..c.top /\ c.sheets[c.height[t]] = t
      BY <1>1, <1>12, <2>1, <3>2 DEF WellFormed, CtlType, ZOrderOf
    <3>4. \E h \in 0..c.top : moved[h] = t
      <4>1. CASE c.height[t] \in height..old-1
        <5>1. c.height[t] + 1 \in height+1..old BY <4>1, <1>1
        <5>2. moved[c.height[t] + 1] = c.sheets[c.height[t]] BY <5>1, <3>3, <1>1, <1>4
        <5> QED BY <5>1, <5>2, <3>3, <1>1
      <4>2. CASE c.height[t] \notin height..old-1
        <5>1. c.height[t] # old BY <3>1, <3>3, <1>1
        <5>2. c.height[t] \in Slots /\ c.height[t] # height 
              /\ c.height[t] \notin height+1..old
          BY <4>2, <5>1, <3>3, <1>1, MaxSheetsAssumption DEF Slots
        <5> QED BY <5>2, <1>8, <3>3
      <4> QED BY <4>1, <4>2
    <3> QED BY <2>3, <3>4
  <2> QED BY <2>2, <2>3
<1>13. ZOrderOf(d) BY <1>10, <1>11, <1>12 DEF ZOrderOf
<1> QED BY <1>9, <1>13 DEF WellFormed, d

(* sheet_updown, a visible sheet moved up (window.h:234-240).              *)
LEMMA RaiseKeeps ==
  ASSUME NEW c, WellFormed(c), NEW s \in c.flags, NEW height \in Int,
         0 <= c.height[s], c.height[s] < height, height <= c.top
  PROVE  WellFormed(Raise(c, s, c.height[s], height))
<1> DEFINE old == c.height[s]
           moved == [h \in Slots |->
                      IF h = height THEN s
                      ELSE IF h \in old..height-1 THEN c.sheets[h+1]
                      ELSE c.sheets[h]]
           base == [c.height EXCEPT ![s] = height]
           r == Renumber(base, moved, old, height-1)
           d == Raise(c, s, old, height)
<1>1. /\ s \in Sheet /\ old \in 0..c.top /\ c.sheets[old] = s
      /\ c.top \in Int /\ c.top < MAX_SHEETS
  BY LiveSlots DEF WellFormed, CtlType, ZOrderOf
<1>2. /\ base \in [Sheet -> -1..MAX_SHEETS-1]
      /\ \A t \in Sheet : base[t] = IF t = s THEN height ELSE c.height[t]
  <2>1. height \in -1..MAX_SHEETS-1 BY <1>1, MaxSheetsAssumption
  <2>2. c.height \in [Sheet -> -1..MAX_SHEETS-1] BY DEF WellFormed, CtlType
  <2> QED BY <1>1, <2>1, <2>2
<1>3. moved \in [Slots -> Sheet \cup {NULL}]
  BY <1>1, LiveSlots DEF WellFormed, CtlType
<1>4. \A h \in old..height-1 : /\ h \in Slots /\ h+1 \in 0..c.top
                              /\ moved[h] = c.sheets[h+1]
                              /\ moved[h] \in Sheet
  BY <1>1, LiveSlots, MaxSheetsAssumption DEF Slots
<1>5. \A h, k \in old..height-1 : moved[h] = moved[k] => h = k
  BY <1>1, <1>4, LiveSlots
<1>6. /\ r \in [Sheet -> -1..MAX_SHEETS-1]
      /\ \A h \in old..height-1 : r[moved[h]] = h
      /\ \A t \in Sheet : (\A h \in old..height-1 : moved[h] # t) => r[t] = base[t]
  <2> HIDE DEF moved, base
  <2> QED BY <1>1, <1>2, <1>4, <1>5, RenumberMoves
<1>7. d = [c EXCEPT !.sheets = moved, !.height = r] BY DEF Raise
<1>8. \A h \in Slots : moved[h] = IF h = height THEN s
                                 ELSE IF h \in old..height-1 THEN c.sheets[h+1]
                                 ELSE c.sheets[h]
  OBVIOUS
<1> HIDE DEF r, moved, base, d
<1>9. CtlType(d)
  BY <1>3, <1>6, <1>7 DEF WellFormed, CtlType
<1>10. d.top = c.top /\ d.flags = c.flags /\ d.sheets = moved /\ d.height = r
  BY <1>7 DEF WellFormed, CtlType
<1>11. ASSUME NEW h \in 0..c.top PROVE moved[h] \in c.flags /\ r[moved[h]] = h
  <2>1. h \in Slots BY <1>1, <1>11, MaxSheetsAssumption DEF Slots
  <2>2. CASE h = height
    <3>1. moved[h] = s BY <2>1, <2>2, <1>8
    <3>2. \A k \in old..height-1 : moved[k] # s BY <1>1, <1>4, LiveSlots
    <3> QED BY <2>2, <3>1, <3>2, <1>1, <1>2, <1>6
  <2>3. CASE h \in old..height-1
    BY <2>3, <1>4, <1>6, LiveSlots
  <2>4. CASE h # height /\ h \notin old..height-1
    <3>1. moved[h] = c.sheets[h] BY <2>1, <2>4, <1>8
    <3>2. h # old BY <2>4, <1>1
    <3>3. c.sheets[h] # s BY <3>2, <1>1, <1>11, LiveSlots
    <3>4. \A k \in old..height-1 : moved[k] # c.sheets[h]
      BY <2>4, <1>1, <1>4, <1>11, LiveSlots
    <3> QED BY <3>1, <3>3, <3>4, <1>2, <1>6, <1>11, LiveSlots
  <2> QED BY <2>2, <2>3, <2>4
<1>12. ASSUME NEW t \in c.flags, r[t] >= 0
       PROVE  r[t] <= c.top /\ moved[r[t]] = t
  <2>1. t \in Sheet BY DEF WellFormed, CtlType
  <2>2. CASE \E h \in 0..c.top : moved[h] = t
    BY <2>2, <1>1, <1>11
  <2>3. CASE \A h \in 0..c.top : moved[h] # t
    <3>1. t # s
      BY <2>3, <1>1, <1>8, MaxSheetsAssumption DEF Slots
    <3>2. r[t] = c.height[t]
      BY <2>1, <2>3, <3>1, <1>1, <1>2, <1>6
    <3>3. c.height[t] \in 0..c.top /\ c.sheets[c.height[t]] = t
      BY <1>1, <1>12, <2>1, <3>2 DEF WellFormed, CtlType, ZOrderOf
    <3>4. \E h \in 0..c.top : moved[h] = t
      <4>1. CASE c.height[t] \in old+1..height
        <5>1. c.height[t] - 1 \in old..height-1 BY <4>1, <1>1
        <5>2. moved[c.height[t] - 1] = c.sheets[c.height[t]] BY <5>1, <3>3, <1>1, <1>4
        <5> QED BY <5>1, <5>2, <3>3, <1>1
      <4>2. CASE c.height[t] \notin old+1..height
        <5>1. c.height[t] # old BY <3>1, <3>3, <1>1
        <5>2. c.height[t] \in Slots /\ c.height[t] # height
              /\ c.height[t] \notin old..height-1
          BY <4>2, <5>1, <3>3, <1>1, MaxSheetsAssumption DEF Slots
        <5> QED BY <5>2, <1>8, <3>3
      <4> QED BY <4>1, <4>2
    <3> QED BY <2>3, <3>4
  <2> QED BY <2>2, <2>3
<1>13. ZOrderOf(d) BY <1>10, <1>11, <1>12 DEF ZOrderOf
<1> QED BY <1>9, <1>13 DEF WellFormed, d

(* sheet_updown, a visible sheet hidden (window.h:224-232).                *)
LEMMA HideKeeps ==
  ASSUME NEW c, WellFormed(c), NEW s \in c.flags, 0 <= c.height[s]
  PROVE  /\ WellFormed(Hide(c, s, c.height[s]))
         /\ Hide(c, s, c.height[s]).height[s] = -1
         /\ Hide(c, s, c.height[s]).flags = c.flags
<1> DEFINE old == c.height[s]
           moved == [h \in Slots |->
                      IF h \in old..c.top-1 THEN c.sheets[h+1]
                      ELSE c.sheets[h]]
           base == [c.height EXCEPT ![s] = -1]
           r == Renumber(base, moved, old, c.top-1)
           d == Hide(c, s, old)
<1>1. /\ s \in Sheet /\ old \in 0..c.top /\ c.sheets[old] = s
      /\ c.top \in Int /\ c.top < MAX_SHEETS
  BY LiveSlots DEF WellFormed, CtlType, ZOrderOf
<1>2. /\ base \in [Sheet -> -1..MAX_SHEETS-1]
      /\ \A t \in Sheet : base[t] = IF t = s THEN -1 ELSE c.height[t]
  <2>1. -1 \in -1..MAX_SHEETS-1 BY MaxSheetsAssumption
  <2>2. c.height \in [Sheet -> -1..MAX_SHEETS-1] BY DEF WellFormed, CtlType
  <2> QED BY <1>1, <2>1, <2>2
<1>3. moved \in [Slots -> Sheet \cup {NULL}]
  BY <1>1, LiveSlots DEF WellFormed, CtlType
<1>4. \A h \in old..c.top-1 : /\ h \in Slots /\ h+1 \in 0..c.top
                             /\ moved[h] = c.sheets[h+1]
                             /\ moved[h] \in Sheet
  BY <1>1, LiveSlots, MaxSheetsAssumption DEF Slots
<1>5. \A h, k \in old..c.top-1 : moved[h] = moved[k] => h = k
  BY <1>1, <1>4, LiveSlots
<1>6. /\ r \in [Sheet -> -1..MAX_SHEETS-1]
      /\ \A h \in old..c.top-1 : r[moved[h]] = h
      /\ \A t \in Sheet : (\A h \in old..c.top-1 : moved[h] # t) => r[t] = base[t]
  <2> HIDE DEF moved, base
  <2> QED BY <1>1, <1>2, <1>4, <1>5, RenumberMoves
<1>7. d = [c EXCEPT !.sheets = moved, !.height = r, !.top = @ - 1] BY DEF Hide
<1>8. \A h \in Slots : moved[h] = IF h \in old..c.top-1 THEN c.sheets[h+1]
                                 ELSE c.sheets[h]
  OBVIOUS
<1> HIDE DEF r, moved, base, d
<1>9. CtlType(d)
  <2>1. c.top - 1 \in -1..MAX_SHEETS-1 BY <1>1, MaxSheetsAssumption
  <2> QED BY <1>3, <1>6, <1>7, <2>1 DEF WellFormed, CtlType
<1>10. /\ d.top = c.top - 1 /\ d.flags = c.flags
       /\ d.sheets = moved /\ d.height = r
  BY <1>7 DEF WellFormed, CtlType
<1>11. ASSUME NEW h \in 0..c.top-1
       PROVE  moved[h] \in c.flags /\ r[moved[h]] = h /\ moved[h] # s
  <2>1. h \in Slots BY <1>1, <1>11, MaxSheetsAssumption DEF Slots
  <2>2. CASE h \in old..c.top-1
    BY <2>2, <1>1, <1>4, <1>6, LiveSlots
  <2>3. CASE h \notin old..c.top-1
    <3>1. moved[h] = c.sheets[h] BY <2>1, <2>3, <1>8
    <3>2. h # old BY <2>3, <1>1, <1>11
    <3>3. c.sheets[h] # s BY <3>2, <1>1, <1>11, LiveSlots
    <3>4. \A k \in old..c.top-1 : moved[k] # c.sheets[h]
      BY <2>3, <1>1, <1>4, <1>11, LiveSlots
    <3> QED BY <3>1, <3>3, <3>4, <1>1, <1>2, <1>6, <1>11, LiveSlots
  <2> QED BY <2>2, <2>3
<1>12. r[s] = -1
  BY <1>1, <1>2, <1>6, <1>11
<1>13. ASSUME NEW t \in c.flags, r[t] >= 0
       PROVE  r[t] <= c.top - 1 /\ moved[r[t]] = t
  <2>1. t \in Sheet /\ t # s BY <1>12, <1>13 DEF WellFormed, CtlType
  <2>2. CASE \E h \in 0..c.top-1 : moved[h] = t
    BY <2>2, <1>1, <1>11
  <2>3. CASE \A h \in 0..c.top-1 : moved[h] # t
    <3>2. r[t] = c.height[t]
      BY <2>1, <2>3, <1>1, <1>2, <1>6
    <3>3. c.height[t] \in 0..c.top /\ c.sheets[c.height[t]] = t
      BY <1>1, <1>13, <2>1, <3>2 DEF WellFormed, CtlType, ZOrderOf
    <3>4. \E h \in 0..c.top-1 : moved[h] = t
      <4>1. CASE c.height[t] > old
        <5>1. c.height[t] - 1 \in old..c.top-1 BY <4>1, <3>3, <1>1
        <5>2. moved[c.height[t] - 1] = c.sheets[c.height[t]] BY <5>1, <3>3, <1>1, <1>4
        <5> QED BY <5>1, <5>2, <3>3, <1>1
      <4>2. CASE ~(c.height[t] > old)
        <5>1. c.height[t] # old BY <2>1, <3>3, <1>1
        <5>2. c.height[t] \in Slots /\ c.height[t] \in 0..c.top-1
              /\ c.height[t] \notin old..c.top-1
          BY <4>2, <5>1, <3>3, <1>1, MaxSheetsAssumption DEF Slots
        <5> QED BY <5>2, <1>8, <3>3
      <4> QED BY <4>1, <4>2
    <3> QED BY <2>3, <3>4
  <2> QED BY <2>2, <2>3
<1>14. ZOrderOf(d) BY <1>10, <1>11, <1>13 DEF ZOrderOf
<1> QED BY <1>9, <1>10, <1>12, <1>14 DEF WellFormed, d

(* sheet_updown, a hidden sheet shown (window.h:241-248).                  *)
LEMMA ShowKeeps ==
  ASSUME NEW c, WellFormed(c), NEW s \in c.flags, c.height[s] = -1,
         NEW height \in Int, 0 <= height, height <= c.top + 1
  PROVE  WellFormed(Show(c, s, height))
<1> DEFINE moved == [h \in Slots |->
                      IF h = height THEN s
                      ELSE IF h \in height+1..c.top+1 THEN c.sheets[h-1]
                      ELSE c.sheets[h]]
           base == [c.height EXCEPT ![s] = height]
           r == Renumber(base, moved, height+1, c.top+1)
           d == Show(c, s, height)
<1>1. /\ s \in Sheet /\ c.top \in Int /\ -1 <= c.top
      /\ c.top + 1 < MAX_SHEETS /\ \A h \in 0..c.top : c.sheets[h] # s
  BY RoomToShow, LiveSlots, MaxSheetsAssumption DEF WellFormed, CtlType, Slots
<1>2. /\ base \in [Sheet -> -1..MAX_SHEETS-1]
      /\ \A t \in Sheet : base[t] = IF t = s THEN height ELSE c.height[t]
  <2>1. height \in -1..MAX_SHEETS-1 BY <1>1, MaxSheetsAssumption
  <2>2. c.height \in [Sheet -> -1..MAX_SHEETS-1] BY DEF WellFormed, CtlType
  <2> QED BY <1>1, <2>1, <2>2
<1>3. moved \in [Slots -> Sheet \cup {NULL}]
  BY <1>1, LiveSlots DEF WellFormed, CtlType
<1>4. \A h \in height+1..c.top+1 : /\ h \in Slots /\ h-1 \in 0..c.top
                                  /\ moved[h] = c.sheets[h-1]
                                  /\ moved[h] \in Sheet
  BY <1>1, LiveSlots, MaxSheetsAssumption DEF Slots
<1>5. \A h, k \in height+1..c.top+1 : moved[h] = moved[k] => h = k
  BY <1>1, <1>4, LiveSlots
<1>6. /\ r \in [Sheet -> -1..MAX_SHEETS-1]
      /\ \A h \in height+1..c.top+1 : r[moved[h]] = h
      /\ \A t \in Sheet : (\A h \in height+1..c.top+1 : moved[h] # t) =>
                            r[t] = base[t]
  <2> HIDE DEF moved, base
  <2> QED BY <1>1, <1>2, <1>4, <1>5, RenumberMoves
<1>7. d = [c EXCEPT !.sheets = moved, !.height = r, !.top = @ + 1] BY DEF Show
<1>8. \A h \in Slots : moved[h] = IF h = height THEN s
                                 ELSE IF h \in height+1..c.top+1 THEN c.sheets[h-1]
                                 ELSE c.sheets[h]
  OBVIOUS
<1> HIDE DEF r, moved, base, d
<1>9. CtlType(d)
  <2>1. c.top + 1 \in -1..MAX_SHEETS-1 BY <1>1, MaxSheetsAssumption
  <2> QED BY <1>3, <1>6, <1>7, <2>1 DEF WellFormed, CtlType
<1>10. /\ d.top = c.top + 1 /\ d.flags = c.flags
       /\ d.sheets = moved /\ d.height = r
  BY <1>7 DEF WellFormed, CtlType
<1>11. ASSUME NEW h \in 0..c.top+1 PROVE moved[h] \in c.flags /\ r[moved[h]] = h
  <2>1. h \in Slots BY <1>1, <1>11, MaxSheetsAssumption DEF Slots
  <2>2. CASE h = height
    <3>1. moved[h] = s BY <2>1, <2>2, <1>8
    <3>2. \A k \in height+1..c.top+1 : moved[k] # s BY <1>1, <1>4
    <3> QED BY <2>2, <3>1, <3>2, <1>1, <1>2, <1>6
  <2>3. CASE h \in height+1..c.top+1
    BY <2>3, <1>4, <1>6, LiveSlots
  <2>4. CASE h # height /\ h \notin height+1..c.top+1
    <3>1. moved[h] = c.sheets[h] /\ h \in 0..c.top BY <1>1, <1>11, <2>1, <2>4, <1>8
    <3>2. c.sheets[h] # s BY <3>1, <1>1
    <3>3. \A k \in height+1..c.top+1 : moved[k] # c.sheets[h]
      BY <2>4, <3>1, <1>1, <1>4, <1>11, LiveSlots
    <3> QED BY <3>1, <3>2, <3>3, <1>2, <1>6, <1>11, LiveSlots
  <2> QED BY <2>2, <2>3, <2>4
<1>12. ASSUME NEW t \in c.flags, r[t] >= 0
       PROVE  r[t] <= c.top + 1 /\ moved[r[t]] = t
  <2>1. t \in Sheet BY DEF WellFormed, CtlType
  <2>2. CASE \E h \in 0..c.top+1 : moved[h] = t
    BY <2>2, <1>1, <1>11
  <2>3. CASE \A h \in 0..c.top+1 : moved[h] # t
    <3>1. t # s
      BY <2>3, <1>1, <1>8, MaxSheetsAssumption DEF Slots
    <3>2. r[t] = c.height[t]
      BY <2>1, <2>3, <3>1, <1>1, <1>2, <1>6
    <3>3. c.height[t] \in 0..c.top /\ c.sheets[c.height[t]] = t
      BY <1>1, <1>12, <2>1, <3>2 DEF WellFormed, CtlType, ZOrderOf
    <3>4. \E h \in 0..c.top+1 : moved[h] = t
      <4>1. CASE c.height[t] >= height
        <5>1. c.height[t] + 1 \in height+1..c.top+1 BY <4>1, <3>3, <1>1
        <5>2. moved[c.height[t] + 1] = c.sheets[c.height[t]] BY <5>1, <3>3, <1>1, <1>4
        <5> QED BY <5>1, <5>2, <3>3, <1>1
      <4>2. CASE c.height[t] < height
        <5>1. c.height[t] \in Slots /\ c.height[t] # height
              /\ c.height[t] \notin height+1..c.top+1
          BY <4>2, <3>3, <1>1, MaxSheetsAssumption DEF Slots
        <5>2. moved[c.height[t]] = t BY <5>1, <1>8, <3>3
        <5> QED BY <5>2, <3>3, <1>1
      <4> QED BY <3>3, <1>1, <4>1, <4>2
    <3> QED BY <2>3, <3>4
  <2> QED BY <2>2, <2>3
<1>13. ZOrderOf(d) BY <1>10, <1>11, <1>12 DEF ZOrderOf
<1> QED BY <1>9, <1>13 DEF WellFormed, d

(* Which of its four loops sheet_updown runs, where the clamp does nothing. *)
LEMMA UpDownIs ==
  ASSUME NEW c, NEW s, NEW height \in Int, c.height[s] \in Int,
         c.top \in Int, -1 <= height, height <= c.top + 1
  PROVE  /\ c.height[s] = height => sheet_updown(c, s, height) = c
         /\ c.height[s] > height /\ height = -1 =>
              sheet_updown(c, s, height) = Hide(c, s, c.height[s])
         /\ c.height[s] < height /\ c.height[s] >= 0 =>
              sheet_updown(c, s, height) = Raise(c, s, c.height[s], height)
         /\ c.height[s] = -1 /\ -1 < height =>
              sheet_updown(c, s, height) = Show(c, s, height)
<1> DEFINE old == c.height[s]
           new == Clamp(c, height)
<1>1. new = height BY DEF Clamp
<1>2. sheet_updown(c, s, height) =
        IF old > new
          THEN IF new >= 0 THEN Lower(c, s, old, new) ELSE Hide(c, s, old)
        ELSE IF old < new
          THEN IF old >= 0 THEN Raise(c, s, old, new) ELSE Show(c, s, new)
        ELSE c
  BY DEF sheet_updown
<1> HIDE DEF new
<1>3. CASE old = height
  <2>1. ~(old > new) /\ ~(old < new) BY <1>1, <1>3
  <2> QED BY <1>2, <1>3, <2>1
<1>4. CASE old > height /\ height = -1
  <2>1. old > new /\ ~(new >= 0) BY <1>1, <1>4
  <2> QED BY <1>2, <1>4, <2>1
<1>5. CASE old < height /\ old >= 0
  <2>1. ~(old > new) /\ old < new /\ ~(old = -1) BY <1>1, <1>5
  <2> QED BY <1>1, <1>2, <1>5, <2>1
<1>6. CASE old = -1 /\ -1 < height
  <2>1. ~(old > new) /\ old < new /\ ~(old >= 0) BY <1>1, <1>6
  <2> QED BY <1>1, <1>2, <1>6, <2>1
<1> QED BY <1>3, <1>4, <1>5, <1>6

(* sheet_updown (window.h:209-253): a visible sheet may only be moved to a *)
(* height that exists; for a hidden one the clamp makes any height legal.  *)
LEMMA UpDownKeeps ==
  ASSUME NEW c, WellFormed(c), NEW s \in c.flags, NEW height \in Int,
         c.height[s] >= 0 => height <= c.top
  PROVE  WellFormed(sheet_updown(c, s, height))
<1> DEFINE old == c.height[s]
           new == Clamp(c, height)
<1>1. old \in Int /\ -1 <= old /\ c.top \in Int /\ -1 <= c.top
  BY LiveSlots, MaxSheetsAssumption DEF WellFormed, CtlType
<1>2. new \in Int /\ -1 <= new /\ new <= c.top + 1 /\ (old >= 0 => new <= c.top)
  BY <1>1 DEF Clamp
<1>3. sheet_updown(c, s, height) =
        IF old > new
          THEN IF new >= 0 THEN Lower(c, s, old, new) ELSE Hide(c, s, old)
        ELSE IF old < new
          THEN IF old >= 0 THEN Raise(c, s, old, new) ELSE Show(c, s, new)
        ELSE c
  BY DEF sheet_updown
<1> HIDE DEF new
<1>4. CASE old > new /\ new >= 0
  BY <1>2, <1>3, <1>4, LowerKeeps
<1>5. CASE old > new /\ ~(new >= 0)
  BY <1>1, <1>2, <1>3, <1>5, HideKeeps
<1>6. CASE old < new /\ old >= 0
  <2>1. sheet_updown(c, s, height) = Raise(c, s, old, new)
    BY <1>1, <1>2, <1>3, <1>6
  <2> QED BY <1>2, <1>6, <2>1, RaiseKeeps
<1>7. CASE old < new /\ ~(old >= 0)
  <2>1. old = -1 /\ 0 <= new BY <1>1, <1>2, <1>7
  <2>2. sheet_updown(c, s, height) = Show(c, s, new)
    BY <1>1, <1>2, <1>3, <1>7
  <2> QED BY <1>2, <2>1, <2>2, ShowKeeps
<1>8. CASE old = new
  BY <1>1, <1>2, <1>3, <1>8
<1> QED BY <1>1, <1>2, <1>4, <1>5, <1>6, <1>7, <1>8

(* sheet_free (window.h:297-300): the sheet is hidden before its slot is   *)
(* given back, so no slot of the stack refers to a free sheet.             *)
LEMMA FreeKeeps ==
  ASSUME NEW c, WellFormed(c), NEW s \in c.flags
  PROVE  WellFormed(sheet_free(c, s))
<1> DEFINE d == IF c.height[s] >= 0 THEN sheet_updown(c, s, -1) ELSE c
<1>1. c.height[s] \in Int /\ -1 <= c.height[s] /\ c.top \in Int /\ -1 <= c.top
  BY LiveSlots, MaxSheetsAssumption DEF WellFormed, CtlType
<1>2. c.height[s] >= 0 => d = Hide(c, s, c.height[s])
  BY <1>1 DEF sheet_updown, Clamp
<1>3. WellFormed(d) /\ d.height[s] = -1 /\ s \in d.flags
  BY <1>1, <1>2, HideKeeps
<1>4. sheet_free(c, s) = [d EXCEPT !.flags = @ \ {s}] BY DEF sheet_free
<1> HIDE DEF d
<1>5. \A h \in 0..d.top : d.sheets[h] # s BY <1>3, LiveSlots
<1>6. CtlType([d EXCEPT !.flags = @ \ {s}])
  BY <1>3 DEF WellFormed, CtlType
<1>7. ZOrderOf([d EXCEPT !.flags = @ \ {s}])
  BY <1>3, <1>5 DEF WellFormed, CtlType, ZOrderOf
<1> QED BY <1>4, <1>6, <1>7 DEF WellFormed

(* The numbers that are used everywhere.                                   *)
LEMMA Numbers ==
  ASSUME NEW c, WellFormed(c)
  PROVE  /\ c.top \in Int /\ -1 <= c.top /\ c.top < MAX_SHEETS /\ MAX_SHEETS \in Nat
         /\ \A v \in Sheet : c.height[v] \in Int /\ -1 <= c.height[v]
         /\ c.flags \subseteq Sheet
         /\ \A v \in c.flags : c.height[v] >= 0 =>
              c.height[v] <= c.top /\ c.height[v] \in Slots /\ c.sheets[c.height[v]] = v
         /\ \A h \in 0..c.top : h \in Slots
BY MaxSheetsAssumption, LiveSlots DEF WellFormed, CtlType, ZOrderOf, Slots

(* The sheet manager after k of the calls of sheet_alloc and sheet_updown  *)
(* of kernel.cpp:599-681, which put each sheet on top.                     *)
BootedTo(c, k) == /\ WellFormed(c) /\ c.flags = 0..k-1 /\ c.top = k-1
                  /\ \A h \in 0..k-1 : c.sheets[h] = h

(* The next sheet gets the next sid and goes on top.                       *)
LEMMA BootStep ==
  ASSUME NEW k \in 0..3, NEW c, BootedTo(c, k), MAX_SHEETS >= 4
  PROVE  BootedTo(sheet_updown(sheet_alloc(c), k, k), k+1)
<1>1. WellFormed(c) /\ c.flags = 0..k-1 /\ c.top = k-1 /\ \A h \in 0..k-1 : c.sheets[h] = h
  BY DEF BootedTo
<1>2. k \in Sheet \ c.flags /\ MAX_SHEETS \in Nat /\ MAX_SHEETS >= 4 /\ k \in Slots
  BY <1>1, MaxSheetsAssumption DEF Sheet, Slots
<1>3. FirstFree(c) = k
  <2>1. FreeSlots(c) = k..MAX_SHEETS-1 BY <1>1, <1>2 DEF FreeSlots, Sheet
  <2>2. \A t \in k..MAX_SHEETS-1 : k <= t BY <1>2
  <2>3. \A m \in k..MAX_SHEETS-1 : (\A t \in k..MAX_SHEETS-1 : m <= t) => m = k BY <1>2
  <2> QED BY <1>2, <2>1, <2>2, <2>3 DEF FirstFree
<1> DEFINE a == sheet_alloc(c)
           d == sheet_updown(a, k, k)
<1>4. a = [c EXCEPT !.flags = @ \cup {k}, !.height[k] = -1] BY <1>3 DEF sheet_alloc
<1>5. WellFormed(a) BY <1>1, <1>2, AllocKeeps DEF FreeSlots
<1> HIDE DEF a
<1>6. a.flags = 0..k /\ a.top = k-1 /\ a.sheets = c.sheets /\ a.height[k] = -1
  BY <1>1, <1>2, <1>4 DEF WellFormed, CtlType
<1>7. d = Show(a, k, k) BY <1>6, UpDownIs
<1>8. WellFormed(d) BY <1>5, <1>6, <1>7, ShowKeeps
<1> DEFINE moved == [h \in Slots |-> IF h = k THEN k
                                     ELSE IF h \in k+1..a.top+1 THEN a.sheets[h-1] ELSE a.sheets[h]]
           r == Renumber([a.height EXCEPT ![k] = k], moved, k+1, a.top+1)
<1>9. d = [a EXCEPT !.sheets = moved, !.height = r, !.top = @ + 1] BY <1>7 DEF Show
<1>10. \A h \in 0..k : moved[h] = h
  <2>1. \A h \in 0..k : h \in Slots BY <1>2 DEF Slots
  <2> QED BY <1>1, <1>6, <2>1
<1> HIDE DEF moved, r, d
<1>11. d.sheets = moved /\ d.top = k /\ d.flags = 0..k
  BY <1>5, <1>6, <1>9 DEF WellFormed, CtlType
<1>12. (k+1)-1 = k OBVIOUS
<1>13. BootedTo(d, k+1) BY <1>8, <1>10, <1>11, <1>12 DEF BootedTo
<1> QED BY <1>13 DEF d, a

-----------------------------------------------------------------------------
(* What the shifting loops leave alone: a sheet that is in none of the     *)
(* slots they write.                                                       *)
LEMMA Untouched ==
  ASSUME NEW height, NEW sheets, NEW lo, NEW hi, NEW t \in Sheet,
         \A k \in lo..hi : sheets[k] # t
  PROVE  Renumber(height, sheets, lo, hi)[t] = height[t]
BY DEF Renumber

(* The heights after a visible sheet is raised: those it passes go down.   *)
LEMMA RaiseHeights ==
  ASSUME NEW c, WellFormed(c), NEW s \in c.flags, NEW height \in Int,
         0 <= c.height[s], c.height[s] < height, height <= c.top
  PROVE  LET d == Raise(c, s, c.height[s], height)
         IN  /\ d.flags = c.flags /\ d.top = c.top /\ d.height[s] = height
             /\ \A t \in Visible(c) \ {s} :
                  d.height[t] = IF c.height[t] \in c.height[s]+1..height
                                THEN c.height[t] - 1 ELSE c.height[t]
             /\ \A t \in Sheet \ Visible(c) : d.height[t] = c.height[t]
<1> DEFINE old == c.height[s]
           d == Raise(c, s, old, height)
           moved == [h \in Slots |->
                      IF h = height THEN s
                      ELSE IF h \in old..height-1 THEN c.sheets[h+1]
                      ELSE c.sheets[h]]
           base == [c.height EXCEPT ![s] = height]
<1>1. /\ c.top \in Int /\ c.top < MAX_SHEETS /\ old \in Int /\ s \in Sheet
      /\ \A h \in 0..c.top : h \in Slots
  BY Numbers
<1>2. WellFormed(d)
  BY RaiseKeeps
<1>3. d = [c EXCEPT !.sheets = moved, !.height = Renumber(base, moved, old, height-1)]
  BY DEF Raise
<1>4. \A h \in 0..c.top : moved[h] = IF h = height THEN s
                                     ELSE IF h \in old..height-1 THEN c.sheets[h+1]
                                     ELSE c.sheets[h]
  BY <1>1
<1>5. \A t \in Sheet \ {s} : base[t] = c.height[t]
  BY DEF WellFormed, CtlType
<1> HIDE DEF d, moved, base
<1>6. /\ d.top = c.top /\ d.flags = c.flags /\ d.sheets = moved
      /\ d.height = Renumber(base, moved, old, height-1)
  BY <1>3 DEF WellFormed, CtlType
<1>7. d.height[s] = height
  BY <1>1, <1>2, <1>4, <1>6, LiveSlots
<1>8. ASSUME NEW t \in Visible(c) \ {s}
      PROVE  d.height[t] = IF c.height[t] \in old+1..height THEN c.height[t] - 1 ELSE c.height[t]
  <2> DEFINE h == c.height[t]
  <2>1. t \in c.flags /\ h \in 0..c.top /\ c.sheets[h] = t /\ c.sheets[old] = s /\ h \in Int
    BY <1>1, Numbers DEF Visible
  <2>2. h # old
    BY <2>1
  <2> HIDE DEF h
  <2>3. CASE h \in old+1..height
    <3>1. h - 1 \in 0..c.top /\ h - 1 \in old..height-1 /\ h - 1 # height /\ (h - 1) + 1 = h
      BY <1>1, <2>1, <2>3
    <3>2. d.sheets[h-1] = t
      BY <1>4, <1>6, <2>1, <3>1
    <3> QED
      BY <1>2, <1>6, <2>3, <3>1, <3>2, LiveSlots DEF h
  <2>4. CASE h \notin old+1..height
    <3>1. h # height /\ h \notin old..height-1
      BY <1>1, <2>1, <2>2, <2>4
    <3>2. d.sheets[h] = t
      BY <1>4, <1>6, <2>1, <3>1
    <3> QED
      BY <1>2, <1>6, <2>1, <2>4, <3>2, LiveSlots DEF h
  <2> QED
    BY <2>3, <2>4
<1>9. ASSUME NEW t \in Sheet \ Visible(c) PROVE d.height[t] = c.height[t]
  <2>1. t # s
    BY DEF Visible
  <2>2. ASSUME NEW k \in old..height-1 PROVE moved[k] # t
    <3>1. k \in 0..c.top /\ k + 1 \in 0..c.top /\ moved[k] = c.sheets[k+1]
      BY <1>1, <1>4
    <3>2. c.sheets[k+1] \in c.flags /\ c.height[c.sheets[k+1]] = k + 1
      BY <3>1, LiveSlots
    <3> QED
      BY <3>1, <3>2 DEF Visible
  <2> QED
    BY <1>5, <1>6, <2>1, <2>2, Untouched
<1> QED
  BY <1>6, <1>7, <1>8, <1>9 DEF d

(* ... after a visible sheet is hidden: those above it go down ...         *)
LEMMA HideHeights ==
  ASSUME NEW c, WellFormed(c), NEW s \in c.flags, 0 <= c.height[s]
  PROVE  LET d == Hide(c, s, c.height[s])
         IN  /\ d.flags = c.flags /\ d.top = c.top - 1 /\ d.height[s] = -1
             /\ \A t \in Visible(c) \ {s} :
                  d.height[t] = IF c.height[t] > c.height[s] THEN c.height[t] - 1
                                ELSE c.height[t]
             /\ \A t \in Sheet \ Visible(c) : d.height[t] = c.height[t]
<1> DEFINE old == c.height[s]
           d == Hide(c, s, old)
           moved == [h \in Slots |-> IF h \in old..c.top-1 THEN c.sheets[h+1] ELSE c.sheets[h]]
           base == [c.height EXCEPT ![s] = -1]
<1>1. /\ c.top \in Int /\ c.top < MAX_SHEETS /\ old \in Int /\ s \in Sheet /\ old <= c.top
      /\ \A h \in 0..c.top : h \in Slots
  BY Numbers
<1>2. WellFormed(d) /\ d.height[s] = -1
  BY HideKeeps
<1>3. d = [c EXCEPT !.sheets = moved, !.height = Renumber(base, moved, old, c.top-1),
                    !.top = @ - 1]
  BY DEF Hide
<1>4. \A h \in 0..c.top : moved[h] = IF h \in old..c.top-1 THEN c.sheets[h+1] ELSE c.sheets[h]
  BY <1>1
<1>5. \A t \in Sheet \ {s} : base[t] = c.height[t]
  BY DEF WellFormed, CtlType
<1> HIDE DEF d, moved, base
<1>6. /\ d.top = c.top - 1 /\ d.flags = c.flags /\ d.sheets = moved
      /\ d.height = Renumber(base, moved, old, c.top-1)
  BY <1>3 DEF WellFormed, CtlType
<1>7. ASSUME NEW t \in Visible(c) \ {s}
      PROVE  d.height[t] = IF c.height[t] > old THEN c.height[t] - 1 ELSE c.height[t]
  <2> DEFINE h == c.height[t]
  <2>1. t \in c.flags /\ h \in 0..c.top /\ c.sheets[h] = t /\ c.sheets[old] = s /\ h \in Int
    BY <1>1, Numbers DEF Visible
  <2>2. h # old
    BY <2>1
  <2> HIDE DEF h
  <2>3. CASE h > old
    <3>1. h - 1 \in 0..d.top /\ h - 1 \in 0..c.top /\ h - 1 \in old..c.top-1 /\ (h - 1) + 1 = h
      BY <1>1, <1>6, <2>1, <2>3
    <3>2. d.sheets[h-1] = t
      BY <1>4, <1>6, <2>1, <3>1
    <3> QED
      BY <1>2, <2>3, <3>1, <3>2, LiveSlots DEF h
  <2>4. CASE ~(h > old)
    <3>1. h \in 0..d.top /\ h \notin old..c.top-1
      BY <1>1, <1>6, <2>1, <2>2, <2>4
    <3>2. d.sheets[h] = t
      BY <1>4, <1>6, <2>1, <3>1
    <3> QED
      BY <1>2, <2>4, <3>1, <3>2, LiveSlots DEF h
  <2> QED
    BY <2>3, <2>4
<1>8. ASSUME NEW t \in Sheet \ Visible(c) PROVE d.height[t] = c.height[t]
  <2>1. t # s
    BY DEF Visible
  <2>2. ASSUME NEW k \in old..c.top-1 PROVE moved[k] # t
    <3>1. k \in 0..c.top /\ k + 1 \in 0..c.top /\ moved[k] = c.sheets[k+1]
      BY <1>1, <1>4
    <3>2. c.sheets[k+1] \in c.flags /\ c.height[c.sheets[k+1]] = k + 1
      BY <3>1, LiveSlots
    <3> QED
      BY <3>1, <3>2 DEF Visible
  <2> QED
    BY <1>5, <1>6, <2>1, <2>2, Untouched
<1> QED
  BY <1>2, <1>6, <1>7, <1>8 DEF d

(* ... and after a hidden one is shown: those from there on go up.         *)
LEMMA ShowHeights ==
  ASSUME NEW c, WellFormed(c), NEW s \in c.flags, c.height[s] = -1,
         NEW height \in Int, 0 <= height, height <= c.top + 1
  PROVE  LET d == Show(c, s, height)
         IN  /\ d.flags = c.flags /\ d.top = c.top + 1 /\ d.height[s] = height
             /\ \A t \in Visible(c) :
                  d.height[t] = IF c.height[t] >= height THEN c.height[t] + 1 ELSE c.height[t]
             /\ \A t \in Sheet \ Visible(c) : t # s => d.height[t] = c.height[t]
<1> DEFINE d == Show(c, s, height)
           moved == [h \in Slots |->
                      IF h = height THEN s
                      ELSE IF h \in height+1..c.top+1 THEN c.sheets[h-1]
                      ELSE c.sheets[h]]
           base == [c.height EXCEPT ![s] = height]
<1>1. /\ c.top \in Int /\ -1 <= c.top /\ s \in Sheet
      /\ \A h \in 0..c.top+1 : h \in Slots
  <2>1. c.top \in Int /\ -1 <= c.top /\ s \in Sheet /\ c.top + 1 \in Slots
    BY Numbers, RoomToShow
  <2> QED
    BY <2>1, MaxSheetsAssumption DEF Slots
<1>2. WellFormed(d)
  BY ShowKeeps
<1>3. d = [c EXCEPT !.sheets = moved, !.height = Renumber(base, moved, height+1, c.top+1),
                    !.top = @ + 1]
  BY DEF Show
<1>4. \A h \in 0..c.top+1 : moved[h] = IF h = height THEN s
                                       ELSE IF h \in height+1..c.top+1 THEN c.sheets[h-1]
                                       ELSE c.sheets[h]
  BY <1>1
<1>5. \A t \in Sheet \ {s} : base[t] = c.height[t]
  BY DEF WellFormed, CtlType
<1> HIDE DEF d, moved, base
<1>6. /\ d.top = c.top + 1 /\ d.flags = c.flags /\ d.sheets = moved
      /\ d.height = Renumber(base, moved, height+1, c.top+1)
  BY <1>3 DEF WellFormed, CtlType
<1>7. d.height[s] = height
  <2>1. height \in 0..d.top /\ d.sheets[height] = s
    BY <1>1, <1>4, <1>6
  <2> QED
    BY <1>2, <2>1, LiveSlots
<1>8. ASSUME NEW t \in Visible(c)
      PROVE  d.height[t] = IF c.height[t] >= height THEN c.height[t] + 1 ELSE c.height[t]
  <2> DEFINE h == c.height[t]
  <2>1. t \in c.flags /\ h \in 0..c.top /\ c.sheets[h] = t /\ h \in Int
    BY <1>1, Numbers DEF Visible
  <2> HIDE DEF h
  <2>2. CASE h >= height
    <3>1. h + 1 \in 0..d.top /\ h + 1 \in 0..c.top+1 /\ h + 1 \in height+1..c.top+1
          /\ h + 1 # height /\ (h + 1) - 1 = h
      BY <1>1, <1>6, <2>1, <2>2
    <3>2. d.sheets[h+1] = t
      BY <1>4, <1>6, <2>1, <3>1
    <3> QED
      BY <1>2, <2>2, <3>1, <3>2, LiveSlots DEF h
  <2>3. CASE ~(h >= height)
    <3>1. h \in 0..d.top /\ h \in 0..c.top+1 /\ h # height /\ h \notin height+1..c.top+1
      BY <1>1, <1>6, <2>1, <2>3
    <3>2. d.sheets[h] = t
      BY <1>4, <1>6, <2>1, <3>1
    <3> QED
      BY <1>2, <2>3, <3>1, <3>2, LiveSlots DEF h
  <2> QED
    BY <2>2, <2>3
<1>9. ASSUME NEW t \in Sheet \ Visible(c), t # s PROVE d.height[t] = c.height[t]
  <2>1. ASSUME NEW k \in height+1..c.top+1 PROVE moved[k] # t
    <3>1. k \in 0..c.top+1 /\ k # height /\ k - 1 \in 0..c.top /\ moved[k] = c.sheets[k-1]
      BY <1>1, <1>4
    <3>2. c.sheets[k-1] \in c.flags /\ c.height[c.sheets[k-1]] = k - 1
      BY <3>1, LiveSlots
    <3> QED
      BY <3>1, <3>2 DEF Visible
  <2> QED
    BY <1>5, <1>6, <1>9, <2>1, Untouched
<1> QED
  BY <1>6, <1>7, <1>8, <1>9 DEF d

=============================================================================
