-------------------------- MODULE NvmeQueueProofs ---------------------------
(***************************************************************************)
(* The NVMe driver's queue pair and the log on disk, for every length of   *)
(* the queues and every number of commands and timeouts.                   *)
(*                                                                         *)
(* The completion queue: the phase bit at the head tells exactly whether   *)
(* there is an entry to take.  The argument follows the two pointers round *)
(* the ring: the entries below the controller's tail have its phase and the *)
(* others the opposite one, and the driver's phase is the controller's as  *)
(* long as both are in the same round.                                     *)
(*                                                                         *)
(* The submission queue: how many commands can be in it follows from how   *)
(* many calls there were, although the driver never looks.                 *)
(*                                                                         *)
(* The log runs on the queue pair and does to it only what Next allows, so *)
(* that all this holds there, and what the log promises follows from it:   *)
(* the page does not change while a command reads it.                      *)
(***************************************************************************)
EXTENDS LogDisk, FiniteSetTheorems, TLAPS

(* The next index of a ring, without a remainder.                          *)
LEMMA NextIndex ==
  ASSUME NEW i \in Index PROVE (i + 1) % QD = IF i = QD - 1 THEN 0 ELSE i + 1
<1>1. QD \in Nat /\ QD > 1 /\ i \in Int /\ 0 <= i /\ i < QD
  BY NvmeAssumption DEF Index
<1>2. CASE i = QD - 1
  BY <1>1, <1>2, SMT
<1>3. CASE i # QD - 1
  BY <1>1, <1>3, SMT
<1> QED BY <1>2, <1>3

(* How far the controller's tail is ahead of the driver's head.            *)
Apart == IF phase = dev_phase
           THEN head <= dev_tail /\ posted - consumed = dev_tail - head
           ELSE dev_tail < head /\ posted - consumed = dev_tail + QD - head

(* The two pointers, and what the phases of the entries are.               *)
Ring_ ==
  /\ head \in Index /\ dev_tail \in Index /\ phase \in 0..1 /\ dev_phase \in 0..1
  /\ posted \in Nat /\ consumed \in Nat /\ db_head = head
  /\ DOMAIN cq = Index
  /\ \A i \in Index : cq[i].phase = IF i < dev_tail THEN dev_phase ELSE 1 - dev_phase
  /\ Apart

(* The queues as nvme_create_io_queues leaves them.                        *)
LEMMA RingInit == Init => Ring_
<1> SUFFICES ASSUME Init PROVE Ring_ OBVIOUS
<1>1. 0 \in Index BY NvmeAssumption DEF Index
<1> QED BY <1>1, NvmeAssumption DEF Init, Ring_, Apart, Index, NoEntry

(* The entry at the head is taken and the head moves on.                   *)
LEMMA TakeKeepsRing == Ring_ /\ Take => Ring_'
<1> SUFFICES ASSUME Ring_, Take PROVE Ring_' OBVIOUS
<1>1. /\ cq[head].phase = phase /\ head' = Wrap(head) /\ phase' = Flip(head, phase)
      /\ db_head' = head' /\ consumed' = consumed + 1
      /\ UNCHANGED <<dev_tail, dev_phase, posted, cq>>
  BY DEF Take, Advance, device
<1>2. head' = IF head = QD - 1 THEN 0 ELSE head + 1
  BY <1>1, NextIndex DEF Wrap, Ring_
<1>3. QD \in Nat /\ QD > 1 BY NvmeAssumption
<1>4. head' \in Index
  BY <1>2, <1>3 DEF Ring_, Index
<1>5. posted - consumed > 0
  BY <1>1, <1>3 DEF Ring_, Apart, Index
<1>6. phase' \in 0..1 /\ dev_phase' \in 0..1 /\ posted' \in Nat /\ consumed' \in Nat
  BY <1>1 DEF Ring_, Flip
<1>7. \A i \in Index : cq'[i].phase = IF i < dev_tail' THEN dev_phase' ELSE 1 - dev_phase'
  BY <1>1 DEF Ring_
<1>8. Apart'
  <2>1. /\ head \in 0..QD-1 /\ dev_tail \in 0..QD-1
        /\ phase \in 0..1 /\ dev_phase \in 0..1 /\ posted \in Nat /\ consumed \in Nat
    BY DEF Ring_, Index
  <2>2. CASE phase = dev_phase
    <3>1. head <= dev_tail /\ posted - consumed = dev_tail - head
      BY <2>2 DEF Ring_, Apart
    <3>2. head < dev_tail /\ head # QD - 1
      BY ONLY <1>3, <1>5, <2>1, <3>1
    <3>3. head' = head + 1 /\ phase' = phase
      BY <1>1, <1>2, <3>2, NextIndex DEF Flip, Wrap, Ring_
    <3>4. head' <= dev_tail /\ posted - (consumed + 1) = dev_tail - head'
      BY ONLY <2>1, <3>1, <3>2, <3>3
    <3> QED BY <1>1, <2>2, <3>3, <3>4 DEF Apart
  <2>3. CASE phase # dev_phase
    <3>1. dev_tail < head /\ posted - consumed = dev_tail + QD - head
      BY <2>3 DEF Ring_, Apart
    <3>2. CASE head = QD - 1
      <4>1. head' = 0 /\ phase' = 1 - phase
        BY <1>1, <1>2, <3>2 DEF Flip
      <4>2. phase' = dev_phase
        BY ONLY <2>1, <2>3, <4>1
      <4>3. head' <= dev_tail /\ posted - (consumed + 1) = dev_tail - head'
        BY ONLY <1>3, <2>1, <3>1, <3>2, <4>1
      <4> QED BY <1>1, <4>2, <4>3 DEF Apart
    <3>3. CASE head # QD - 1
      <4>1. head' = head + 1 /\ head' # 0
        BY <1>2, <2>1, <3>3
      <4>2. phase' = phase
        BY <1>1, <3>3 DEF Flip
      <4>3. dev_tail < head' /\ posted - (consumed + 1) = dev_tail + QD - head'
        BY ONLY <1>3, <2>1, <3>1, <4>1
      <4> QED BY <1>1, <2>3, <4>2, <4>3 DEF Apart
    <3> QED BY <3>2, <3>3
  <2> QED BY <2>2, <2>3
<1> QED BY <1>1, <1>4, <1>6, <1>7, <1>8 DEF Ring_

(* The controller writes an entry at its tail.                             *)
LEMMA CompleteKeepsRing ==
  ASSUME NEW c, NEW sc, Ring_, Complete(c, sc) PROVE Ring_'
<1>1. /\ (dev_tail + 1) % QD # db_head
      /\ cq' = [cq EXCEPT ![dev_tail] = [cmd |-> c, phase |-> dev_phase, sc |-> sc]]
      /\ dev_tail' = (dev_tail + 1) % QD
      /\ dev_phase' = IF dev_tail' = 0 THEN 1 - dev_phase ELSE dev_phase
      /\ posted' = posted + 1
      /\ UNCHANGED <<head, phase, db_head, consumed>>
  BY DEF Complete, taken
<1>2. dev_tail' = IF dev_tail = QD - 1 THEN 0 ELSE dev_tail + 1
  BY <1>1, NextIndex DEF Ring_
<1>3. QD \in Nat /\ QD > 1 BY NvmeAssumption
<1>4. dev_tail \in Index /\ dev_tail' \in Index /\ dev_tail' # head
  BY <1>1, <1>2, <1>3 DEF Ring_, Index
<1>5. \A i \in Index : cq'[i].phase = IF i = dev_tail THEN dev_phase ELSE cq[i].phase
  BY <1>1, <1>4 DEF Ring_
<1>6. \A i \in Index : cq'[i].phase = IF i < dev_tail' THEN dev_phase' ELSE 1 - dev_phase'
  BY <1>1, <1>2, <1>3, <1>4, <1>5 DEF Ring_, Index
<1>7. DOMAIN cq' = Index BY <1>1 DEF Ring_
<1>8. phase' \in 0..1 /\ dev_phase' \in 0..1 /\ posted' \in Nat /\ consumed' \in Nat
  BY <1>1 DEF Ring_
<1>9. Apart'
  <2>1. /\ head \in 0..QD-1 /\ dev_tail \in 0..QD-1
        /\ phase \in 0..1 /\ dev_phase \in 0..1 /\ posted \in Nat /\ consumed \in Nat
    BY DEF Ring_, Index
  <2>5. phase' = phase /\ head' = head /\ posted' = posted + 1 /\ consumed' = consumed
    BY <1>1
  <2>2. CASE phase = dev_phase /\ dev_tail = QD - 1
    <3>1. dev_tail' = 0 /\ dev_phase' = 1 - phase /\ phase # dev_phase'
      BY <1>1, <1>2, <2>1, <2>2
    <3>2. posted - consumed = dev_tail - head
      BY <2>2 DEF Ring_, Apart
    <3>3. dev_tail' < head /\ posted + 1 - consumed = dev_tail' + QD - head
      BY <1>3, <1>4, <2>1, <2>2, <3>1, <3>2
    <3>4. dev_tail' < head' /\ posted' - consumed' = dev_tail' + QD - head'
      BY ONLY <1>3, <2>1, <2>5, <3>1, <3>3
    <3> QED BY <2>5, <3>1, <3>4 DEF Apart
  <2>3. CASE phase = dev_phase /\ dev_tail # QD - 1
    <3>1. dev_tail' = dev_tail + 1 /\ dev_phase' = dev_phase
      BY <1>1, <1>2, <2>1, <2>3
    <3>2. head <= dev_tail /\ posted - consumed = dev_tail - head
      BY <2>3 DEF Ring_, Apart
    <3>3. head <= dev_tail' /\ posted + 1 - consumed = dev_tail' - head
      BY ONLY <2>1, <3>1, <3>2
    <3>4. head' <= dev_tail' /\ posted' - consumed' = dev_tail' - head'
      BY ONLY <1>3, <2>1, <2>5, <3>1, <3>3
    <3>5. phase' = dev_phase'
      BY <2>3, <2>5, <3>1
    <3> QED BY ONLY <3>4, <3>5 DEF Apart
  <2>4. CASE phase # dev_phase
    <3>1. dev_tail < head /\ posted - consumed = dev_tail + QD - head
      BY <2>4 DEF Ring_, Apart
    <3>2. dev_tail # QD - 1
      BY ONLY <1>3, <2>1, <3>1
    <3>3. dev_tail' = dev_tail + 1 /\ dev_phase' = dev_phase
      BY <1>1, <1>2, <2>1, <3>2
    <3>4. dev_tail' < head /\ posted + 1 - consumed = dev_tail' + QD - head
      BY ONLY <1>3, <1>4, <2>1, <3>1, <3>3
    <3>5. dev_tail' < head' /\ posted' - consumed' = dev_tail' + QD - head'
      BY ONLY <1>3, <2>1, <2>5, <3>3, <3>4
    <3>6. phase' # dev_phase'
      BY <2>4, <2>5, <3>3
    <3> QED BY ONLY <3>5, <3>6 DEF Apart
  <2> QED BY <2>2, <2>3, <2>4
<1> QED BY <1>1, <1>4, <1>6, <1>7, <1>8, <1>9 DEF Ring_

(* Every step keeps the ring.                                              *)
LEMMA StepKeepsRing == Ring_ /\ [Next]_vars => Ring_'
<1> SUFFICES ASSUME Ring_, [Next]_vars PROVE Ring_' OBVIOUS
<1> DEFINE ringvars == <<head, dev_tail, phase, dev_phase, posted, consumed, db_head, cq>>
<1>1. UNCHANGED ringvars => Ring_'
  BY DEF Ring_, Apart
<1>2. CASE Call
  BY <1>1, <1>2 DEF Call, Submit, device, taken
<1>3. CASE Ring
  BY <1>1, <1>3 DEF Ring, device, taken
<1>4. CASE TimeOut
  BY <1>1, <1>4 DEF TimeOut, device, taken
<1>5. CASE Fetch
  BY <1>1, <1>5 DEF Fetch, taken
<1>6. CASE UNCHANGED vars
  BY <1>1, <1>6 DEF vars
<1> QED
  BY <1>2, <1>3, <1>4, <1>5, <1>6, TakeKeepsRing, CompleteKeepsRing DEF Next, Controller

(* The phase bit at the head says exactly whether there is an entry that   *)
(* was not taken (nvme.h:182-188).                                         *)
LEMMA RingTells == Ring_ => PhaseTells
BY NvmeAssumption DEF Ring_, Apart, PhaseTells, Index

(* So it does from the first state on, whatever driver and controller do.  *)
THEOREM PhaseBitTells == Spec => []PhaseTells
BY RingInit, StepKeepsRing, RingTells, PTL DEF Spec

-----------------------------------------------------------------------------
(* While no call has given up, one command at a time is under way, and     *)
(* where it is can be told: not rung yet, not fetched, with the            *)
(* controller, or completed in the entry at the head.                      *)
NoneLeft == running = {} /\ dev_head = db_tail /\ posted = consumed

Under(at) == calls = <<[at |-> at, cmd |-> issued, pos |-> calls[1].pos]>>

Stage ==
  \/ calls = <<>> /\ NoneLeft
  \/ Under("ring") /\ NoneLeft /\ calls[1].pos = tail /\ sq[tail].cmd = issued
  \/ /\ Under("poll") /\ running = {} /\ posted = consumed
     /\ db_tail = (dev_head + 1) % QD /\ sq[dev_head].cmd = issued
  \/ /\ Under("poll") /\ running = {issued} /\ posted = consumed /\ dev_head = db_tail
  \/ /\ Under("poll") /\ running = {} /\ posted = consumed + 1 /\ dev_head = db_tail
     /\ issued \in DOMAIN done /\ cq[head].sc = done[issued]

Single ==
  /\ timeouts \in Nat /\ issued \in Nat
  /\ timeouts = 0 =>
       /\ tail \in Index /\ dev_head \in Index /\ db_tail = tail /\ DOMAIN sq = Index
       /\ Stage
       /\ ret.cmd \in 0..issued /\ (calls # <<>> => ret.cmd < issued)
       /\ ret.cmd # 0 => ret.cmd \in DOMAIN done /\ ret.rc = done[ret.cmd]

(* Nothing is under way when the queues have been created.                 *)
LEMMA SingleInit == Init => Single
<1> SUFFICES ASSUME Init PROVE Single OBVIOUS
<1>1. 0 \in Index BY NvmeAssumption DEF Index
<1> QED BY <1>1 DEF Init, Single, Stage, NoneLeft

(* A command goes through the four stages in this order, and its call ends *)
(* with it.                                                                *)
LEMMA SingleStep == Ring_ /\ Single /\ [Next]_vars => Single'
<1> SUFFICES ASSUME Ring_, Single, [Next]_vars PROVE Single' OBVIOUS
<1> DEFINE singlevars == <<tail, dev_head, db_tail, sq, calls, running, posted, consumed,
                           issued, done, ret, timeouts, cq, head>>
<1>1. UNCHANGED singlevars => Single'
  BY DEF Single, Stage, NoneLeft, Under
<1>2. CASE Call
  <2> SUFFICES ASSUME timeouts = 0 PROVE Single'
    BY <1>2 DEF Call, Submit, Single, device
  <2>1. calls = <<>> /\ NoneLeft
    BY <1>2 DEF Call, Single, Stage, Under
  <2>2. calls' = <<[at |-> "ring", cmd |-> issued', pos |-> tail]>> /\ issued' = issued + 1
    BY <1>2, <2>1 DEF Call, Submit
  <2>3. UNCHANGED <<tail, db_tail, timeouts, ret, dev_head, running, done, posted, consumed>>
    BY <1>2 DEF Call, Submit, device, taken
  <2>4. sq'[tail].cmd = issued' /\ DOMAIN sq' = Index
    BY <1>2 DEF Call, Submit, Slot, Single
  <2>5. calls'[1].pos = tail /\ calls'[1].at = "ring" /\ Under("ring")'
    BY <2>2 DEF Under
  <2>6. Stage'
    BY <2>1, <2>3, <2>4, <2>5 DEF Stage, NoneLeft
  <2> QED BY <2>2, <2>3, <2>4, <2>6 DEF Single
<1>3. CASE Ring
  <2> SUFFICES ASSUME timeouts = 0 PROVE Single'
    BY <1>3 DEF Ring, Single, device
  <2>1. /\ calls[1].at = "ring" /\ Under("ring") /\ NoneLeft /\ calls[1].pos = tail
        /\ sq[tail].cmd = issued
    BY <1>3 DEF Ring, Top, Single, Stage, Under
  <2>2. Len(calls) = 1 /\ calls = <<[at |-> "ring", cmd |-> issued, pos |-> tail]>>
    BY <2>1 DEF Under
  <2>3. calls' = <<[at |-> "poll", cmd |-> issued, pos |-> tail]>>
    BY <1>3, <2>2 DEF Ring
  <2>4. /\ UNCHANGED <<sq, issued, timeouts, ret, dev_head, running, done, posted, consumed>>
        /\ tail' = (tail + 1) % QD /\ db_tail' = tail'
    BY <1>3, <2>2 DEF Ring, Top, Wrap, device, taken
  <2>5. tail' \in Index
    BY <2>4, NextIndex, NvmeAssumption DEF Single, Index
  <2>6. Under("poll")' /\ dev_head = tail
    BY <2>1, <2>3, <2>4 DEF Under, NoneLeft, Single
  <2>7. Stage'
    BY <2>1, <2>4, <2>6 DEF Stage, NoneLeft
  <2>8. calls # <<>> BY <2>2
  <2> QED BY <2>4, <2>5, <2>7, <2>8 DEF Single
<1>4. CASE Take
  <2> SUFFICES ASSUME timeouts = 0 PROVE Single'
    BY <1>4 DEF Take, Single, driver
  <2>1. /\ calls # <<>> /\ calls[Len(calls)].at = "poll" /\ cq[head].phase = phase
        /\ ret' = [cmd |-> calls[Len(calls)].cmd, rc |-> cq[head].sc]
        /\ consumed' = consumed + 1 /\ calls' = SubSeq(calls, 1, Len(calls) - 1)
        /\ UNCHANGED <<tail, sq, issued, db_tail, dev_head, running, done, posted, timeouts>>
    BY <1>4 DEF Take, Top, Pop, device, driver
  <2>2. posted > consumed
    BY <2>1, RingTells DEF PhaseTells
  <2>3. /\ Under("poll") /\ running = {} /\ dev_head = db_tail
        /\ issued \in DOMAIN done /\ cq[head].sc = done[issued] /\ posted = consumed + 1
    BY <2>1, <2>2 DEF Single, Stage, NoneLeft, Ring_
  <2>4. calls' = <<>> /\ ret' = [cmd |-> issued, rc |-> done[issued]]
    BY <2>1, <2>3 DEF Under
  <2>5. Stage'
    BY <2>1, <2>3, <2>4 DEF Stage, NoneLeft, Ring_
  <2>6. issued' \in Nat /\ ret'.cmd \in 0..issued'
    BY <2>1, <2>4 DEF Single
  <2> QED BY <2>1, <2>3, <2>4, <2>5, <2>6 DEF Single
<1>5. CASE TimeOut
  BY <1>5 DEF TimeOut, Single, driver
<1>6. CASE Fetch
  BY <1>6 DEF Fetch, driver, taken, Single, Stage, NoneLeft, Under
<1>7. ASSUME NEW c \in Cmd, NEW sc \in 0..1, Complete(c, sc) PROVE Single'
  <2> SUFFICES ASSUME timeouts = 0 PROVE Single'
    BY <1>7 DEF Complete, Single, driver
  <2>1. /\ c \in running /\ running' = running \ {c} /\ posted' = posted + 1
        /\ done' = [d \in DOMAIN done \cup {c} |-> IF d = c THEN sc ELSE done[d]]
        /\ cq' = [cq EXCEPT ![dev_tail] = [cmd |-> c, phase |-> dev_phase, sc |-> sc]]
        /\ UNCHANGED <<tail, sq, issued, head, consumed, db_tail, dev_head, calls, timeouts, ret>>
    BY <1>7 DEF Complete, driver, taken
  <2>2. Under("poll") /\ running = {issued} /\ posted = consumed /\ dev_head = db_tail
    BY <2>1 DEF Single, Stage, NoneLeft
  <2>3. dev_tail = head
    BY <2>2, NvmeAssumption DEF Ring_, Apart, Index
  <2>4. c = issued /\ running' = {} /\ cq'[head].sc = done'[issued] /\ issued \in DOMAIN done'
    BY <2>1, <2>2, <2>3 DEF Ring_
  <2>5. posted' = consumed' + 1 BY <2>1, <2>2
  <2>6. Stage'
    BY <2>1, <2>2, <2>4, <2>5 DEF Stage, Under
  <2>7. calls # <<>>
    <3>1. Len(calls) = 1 BY <2>2 DEF Under
    <3> QED BY <3>1
  <2>8. ret.cmd # 0 => ret.cmd \in DOMAIN done' /\ ret.rc = done'[ret.cmd]
    BY <2>1, <2>4, <2>7 DEF Single
  <2> QED BY <2>1, <2>6, <2>8 DEF Single
<1>8. CASE UNCHANGED vars
  BY <1>1, <1>8 DEF vars
<1> QED BY <1>2, <1>3, <1>4, <1>5, <1>6, <1>7, <1>8 DEF Next, Controller

(* Until the first call gives up, a call returns the status of its own     *)
(* command, although nothing compares identifiers (nvme.h:163-196).        *)
THEOREM OwnResults == Spec => []OwnResult
<1>1. Single => OwnResult BY DEF Single, OwnResult
<1> QED BY <1>1, RingInit, StepKeepsRing, SingleInit, SingleStep, PTL DEF Spec

-----------------------------------------------------------------------------
(* The submission queue.  Nothing looks at its room (nvme.h:172-178), so   *)
(* that entries survive until they are fetched must follow from how many   *)
(* commands there can be: each call that returned took an entry or gave    *)
(* up, and an entry is there only for a command that was fetched.          *)

(* A remainder below two rounds.                                           *)
LEMMA ModWrap ==
  ASSUME NEW Q \in Nat \ {0}, NEW x \in 0..2*Q-1
  PROVE  x % Q = IF x < Q THEN x ELSE x - Q
<1>1. CASE x < Q
  BY <1>1, SMT
<1>2. CASE x >= Q
  BY <1>2, SMT
<1> QED BY <1>1, <1>2

(* How far an index is from the controller's head; the entries rung for    *)
(* and not fetched; the commands rung for and fetched so far.              *)
Off(i) == IF i < dev_head THEN i - dev_head + QD ELSE i - dev_head
Ahead == Off(tail)
Calling(at) == calls # <<>> /\ calls[1].at = at
Rung == IF Calling("ring") THEN issued - 1 ELSE issued
Fetched == Rung - Ahead

(* No call, or one; a command not rung for is in the slot at the tail.     *)
OneCall ==
  \/ calls = <<>>
  \/ \E at \in {"ring", "poll"} : calls = <<[at |-> at, cmd |-> issued, pos |-> calls[1].pos]>>

SqInv ==
  /\ tail \in Index /\ dev_head \in Index /\ db_tail = tail /\ DOMAIN sq = Index
  /\ issued \in 0..MaxCmds /\ timeouts \in 0..MaxTimeouts
  /\ OneCall
  /\ Calling("ring") => issued > 0 /\ calls[1].pos = tail /\ sq[tail].cmd = issued
  /\ Rung = consumed + timeouts + (IF Calling("poll") THEN 1 ELSE 0)
  /\ Fetched \in Nat
  /\ \A i \in Index : Off(i) < Ahead => sq[i].cmd = Fetched + 1 + Off(i)
  /\ IsFiniteSet(running) /\ Cardinality(running) = Fetched - posted
  /\ running \cup DOMAIN done \subseteq 1..Fetched /\ running \cap DOMAIN done = {}

(* The queues are empty at first.                                          *)
LEMMA SqInit == Init => SqInv
<1> SUFFICES ASSUME Init PROVE SqInv OBVIOUS
<1>1. 0 \in Index /\ QD \in Nat /\ MaxCmds \in Nat /\ 0 \in 0..MaxTimeouts
  BY NvmeAssumption DEF Index
<1>2. calls = <<>> /\ ~Calling("ring") /\ ~Calling("poll") /\ Ahead = 0 /\ Rung = 0
  BY <1>1 DEF Init, Calling, Ahead, Off, Rung
<1>3. IsFiniteSet(running) /\ Cardinality(running) = 0
  BY FS_EmptySet DEF Init
<1>4. \A i \in Index : ~(Off(i) < 0)
  BY <1>1 DEF Init, Off, Index
<1> QED BY <1>1, <1>2, <1>3, <1>4 DEF Init, SqInv, OneCall, Fetched

(* What is ahead is what calls that gave up left behind, and the command   *)
(* of a call that waits.                                                   *)
LEMMA AheadIsBounded ==
  Ring_ /\ SqInv => /\ Ahead \in 0..QD-1
                    /\ Ahead <= timeouts + (IF Calling("poll") THEN 1 ELSE 0)
<1> SUFFICES ASSUME Ring_, SqInv
             PROVE  /\ Ahead \in 0..QD-1
                    /\ Ahead <= timeouts + (IF Calling("poll") THEN 1 ELSE 0)
  OBVIOUS
<1>1. QD \in Nat /\ Ahead \in 0..QD-1
  BY NvmeAssumption DEF SqInv, Ahead, Off, Index
<1>2. posted >= consumed /\ posted \in Nat /\ consumed \in Nat
  BY <1>1 DEF Ring_, Apart, Index
<1>3. Fetched - posted \in Nat
  BY FS_CardinalityType DEF SqInv
<1>4. Rung \in Int /\ Fetched = Rung - Ahead /\ timeouts \in Nat
  BY NvmeAssumption DEF SqInv, Rung, Fetched
<1> QED BY <1>1, <1>2, <1>3, <1>4 DEF SqInv

(* A call writes its command at the tail, which is none of those ahead.    *)
LEMMA CallKeepsSq == Ring_ /\ SqInv /\ Call => SqInv'
<1> SUFFICES ASSUME Ring_, SqInv, Call PROVE SqInv' OBVIOUS
<1>1. QD \in Nat /\ MaxCmds \in Nat
  BY NvmeAssumption
<1>2. /\ calls = <<>> /\ issued < MaxCmds /\ issued' = issued + 1
      /\ calls' = <<[at |-> "ring", cmd |-> issued', pos |-> tail]>>
      /\ UNCHANGED <<tail, db_tail, dev_head, running, done, posted, consumed, timeouts>>
      /\ DOMAIN sq' = Index /\ sq'[tail].cmd = issued'
      /\ \A i \in Index \ {tail} : sq'[i] = sq[i]
  BY DEF Call, Submit, Slot, SqInv, device, taken
<1>3. /\ Calling("ring")' /\ ~Calling("poll")' /\ ~Calling("ring") /\ ~Calling("poll")
      /\ OneCall' /\ calls'[1].pos = tail'
  BY <1>2 DEF Calling, OneCall
<1>4. Ahead' = Ahead /\ \A i \in Index : Off(i)' = Off(i)
  BY <1>2 DEF Ahead, Off
<1>5. Rung' = Rung /\ Rung = issued /\ Fetched' = Fetched /\ issued' \in 0..MaxCmds /\ issued' > 0
  BY <1>1, <1>2, <1>3, <1>4 DEF Rung, Fetched, SqInv
<1>6. \A i \in Index : Off(i)' < Ahead' => sq'[i].cmd = Fetched' + 1 + Off(i)'
  <2> SUFFICES ASSUME NEW i \in Index, Off(i) < Ahead PROVE sq'[i].cmd = Fetched + 1 + Off(i)
    BY <1>4, <1>5
  <2>1. i # tail
    BY <1>1 DEF Ahead, Off, Index, SqInv
  <2> QED BY <1>2, <2>1 DEF SqInv
<1> QED BY <1>2, <1>3, <1>5, <1>6 DEF SqInv

(* The doorbell makes it one of those ahead.                               *)
LEMMA RingKeepsSq == Ring_ /\ SqInv /\ Ring => SqInv'
<1> SUFFICES ASSUME Ring_, SqInv, Ring PROVE SqInv' OBVIOUS
<1>1. QD \in Nat /\ QD > 1 /\ MaxTimeouts \in 0..QD-2
  BY NvmeAssumption
<1>2. /\ Calling("ring") /\ calls = <<[at |-> "ring", cmd |-> issued, pos |-> tail]>>
      /\ issued > 0 /\ sq[tail].cmd = issued
  BY DEF Ring, Top, SqInv, OneCall, Calling
<1>3. /\ calls' = <<[at |-> "poll", cmd |-> issued, pos |-> tail]>>
      /\ tail' = (tail + 1) % QD /\ db_tail' = tail'
      /\ UNCHANGED <<sq, issued, dev_head, running, done, posted, consumed, timeouts>>
  BY <1>2 DEF Ring, Top, Wrap, device, taken
<1>4. /\ Calling("poll")' /\ ~Calling("ring")' /\ ~Calling("poll") /\ OneCall'
  BY <1>2, <1>3 DEF Calling, OneCall
<1>5. tail' \in Index /\ tail' = IF tail = QD - 1 THEN 0 ELSE tail + 1
  BY <1>1, <1>3, NextIndex DEF SqInv, Index
<1>6. Ahead \in 0..QD-1 /\ Ahead <= QD - 2
  BY <1>1, <1>4, AheadIsBounded DEF SqInv
<1>7. Ahead' = Ahead + 1 /\ \A i \in Index : Off(i)' = Off(i)
  <2>1. dev_head' = dev_head /\ tail \in Index /\ dev_head \in Index
    BY <1>3 DEF SqInv
  <2>3. Ahead' = Ahead + 1
    BY <1>1, <1>5, <1>6, <2>1 DEF Ahead, Off, Index
  <2>2. \A i \in Index : Off(i)' = Off(i)
    BY <1>3 DEF Off
  <2> QED BY <2>2, <2>3
<1>8. Rung' = Rung + 1 /\ Fetched' = Fetched /\ Rung = issued - 1
  BY <1>2, <1>3, <1>4, <1>6, <1>7 DEF Rung, Fetched, SqInv
<1>9. \A i \in Index : Off(i)' < Ahead' => sq'[i].cmd = Fetched' + 1 + Off(i)'
  <2> SUFFICES ASSUME NEW i \in Index, Off(i) < Ahead + 1 PROVE sq[i].cmd = Fetched + 1 + Off(i)
    BY <1>3, <1>7, <1>8
  <2>1. Off(i) \in 0..QD-1
    BY <1>1 DEF Off, Index, SqInv
  <2>2. CASE Off(i) < Ahead
    BY <2>2 DEF SqInv
  <2>3. CASE Off(i) = Ahead
    <3>1. i = tail
      BY <1>1, <2>3 DEF Off, Ahead, Index, SqInv
    <3>2. Fetched + 1 + Ahead = issued
      BY <1>6, <1>8 DEF Fetched, SqInv
    <3> QED BY <1>2, <2>3, <3>1, <3>2
  <2> QED BY <1>6, <2>1, <2>2, <2>3
<1>10. Rung' = consumed' + timeouts' + (IF Calling("poll")' THEN 1 ELSE 0)
  BY <1>1, <1>3, <1>4, <1>8 DEF SqInv, Ring_
<1> QED BY <1>3, <1>4, <1>5, <1>8, <1>9, <1>10 DEF SqInv

(* A call that returns, with an entry or without.                          *)
LEMMA ReturnKeepsSq == Ring_ /\ SqInv /\ (Take \/ TimeOut) => SqInv'
<1> SUFFICES ASSUME Ring_, SqInv, Take \/ TimeOut PROVE SqInv' OBVIOUS
<1>1. QD \in Nat /\ MaxTimeouts \in 0..QD-2
  BY NvmeAssumption
<1>2. Calling("poll") /\ calls' = <<>>
  BY DEF Take, TimeOut, Top, Pop, SqInv, OneCall, Calling
<1>3. ~Calling("ring") /\ ~Calling("ring")' /\ ~Calling("poll")' /\ OneCall'
  BY <1>2 DEF Calling, OneCall
<1>4. /\ UNCHANGED <<tail, db_tail, sq, issued, dev_head, running, done, posted>>
      /\ timeouts' \in 0..MaxTimeouts
      /\ consumed' + timeouts' = consumed + timeouts + 1
  <2>1. CASE Take
    BY <1>1, <2>1 DEF Take, SqInv, Ring_, driver, device
  <2>2. CASE TimeOut
    BY <1>1, <2>2 DEF TimeOut, SqInv, Ring_, driver, device, taken
  <2> QED BY <2>1, <2>2
<1>5. Rung' = Rung /\ Ahead' = Ahead /\ Fetched' = Fetched /\ \A i \in Index : Off(i)' = Off(i)
  BY <1>3, <1>4 DEF Rung, Ahead, Off, Fetched
<1>6. Rung' = consumed' + timeouts' + 0
  <2>1. consumed' \in Nat /\ timeouts' \in Nat
    <3>1. CASE Take BY <1>1, <3>1 DEF Take, SqInv, Ring_
    <3>2. CASE TimeOut BY <1>1, <3>2 DEF TimeOut, SqInv, Ring_, taken
    <3> QED BY <3>1, <3>2
  <2> QED BY <1>2, <1>4, <1>5, <2>1 DEF SqInv
<1> QED BY <1>3, <1>4, <1>5, <1>6 DEF SqInv

(* The controller fetches the first of those ahead.                        *)
LEMMA FetchKeepsSq == Ring_ /\ SqInv /\ Fetch => SqInv'
<1> SUFFICES ASSUME Ring_, SqInv, Fetch PROVE SqInv' OBVIOUS
<1>1. QD \in Nat /\ QD > 1
  BY NvmeAssumption
<1>2. /\ dev_head # tail /\ running' = running \cup {sq[dev_head].cmd}
      /\ dev_head' = (dev_head + 1) % QD
      /\ UNCHANGED <<tail, db_tail, sq, issued, calls, done, posted, consumed, timeouts>>
  BY DEF Fetch, SqInv, driver, taken
<1>3. dev_head' \in Index /\ dev_head' = IF dev_head = QD - 1 THEN 0 ELSE dev_head + 1
  BY <1>1, <1>2, NextIndex DEF SqInv, Index
<1>4. Ahead \in 1..QD-1 /\ Ahead' = Ahead - 1
  <2>1. dev_head # tail /\ tail' = tail /\ tail \in Index /\ dev_head \in Index
    BY <1>2 DEF SqInv
  <2> QED BY <1>1, <1>3, <2>1 DEF Ahead, Off, Index
<1>5. /\ Rung' = Rung /\ (Calling("ring")' <=> Calling("ring"))
      /\ (Calling("poll")' <=> Calling("poll")) /\ (OneCall' <=> OneCall)
  BY <1>2 DEF Rung, Calling, OneCall
<1>6. Fetched' = Fetched + 1 /\ Rung \in Int
  BY <1>4, <1>5, NvmeAssumption DEF Fetched, SqInv, Rung
<1>7. \A i \in Index : Off(i)' < Ahead' => Off(i) < Ahead /\ Off(i) = Off(i)' + 1
  <2>1. dev_head \in Index
    BY DEF SqInv
  <2> QED BY <1>1, <1>3, <1>4, <2>1 DEF Off, Index
<1>8. \A i \in Index : Off(i)' < Ahead' => sq'[i].cmd = Fetched' + 1 + Off(i)'
  <2> SUFFICES ASSUME NEW i \in Index, Off(i)' < Ahead' PROVE sq[i].cmd = Fetched' + 1 + Off(i)'
    BY <1>2
  <2>1. sq[i].cmd = Fetched + 1 + Off(i) /\ Off(i) = Off(i)' + 1
    BY <1>7 DEF SqInv
  <2>2. Off(i)' \in Int /\ Fetched \in Int
    BY <1>1, <1>3 DEF Off, Index, SqInv
  <2> QED BY <1>6, <2>1, <2>2
<1>9. sq[dev_head].cmd = Fetched'
  <2>1. Off(dev_head) = 0
    BY <1>1 DEF Off, SqInv, Index
  <2> QED BY <1>4, <1>6, <2>1 DEF SqInv
<1>10. /\ IsFiniteSet(running') /\ Cardinality(running') = Fetched' - posted'
       /\ running' \cup DOMAIN done' \subseteq 1..Fetched' /\ running' \cap DOMAIN done' = {}
  <2>1. Fetched \in Nat /\ Fetched' \notin running /\ Fetched' \notin DOMAIN done
    BY <1>6 DEF SqInv
  <2>2. IsFiniteSet(running') /\ Cardinality(running') = Cardinality(running) + 1
    BY <1>2, <1>9, <2>1, FS_AddElement DEF SqInv
  <2>3. posted \in Nat BY DEF Ring_
  <2> QED BY <1>2, <1>6, <1>9, <2>1, <2>2, <2>3 DEF SqInv
<1>11. Fetched' \in Nat BY <1>6 DEF SqInv
<1> QED BY <1>2, <1>3, <1>5, <1>8, <1>10, <1>11 DEF SqInv

(* The controller completes one of those it has fetched.                   *)
LEMMA CompleteKeepsSq ==
  ASSUME NEW c, NEW sc, Ring_, SqInv, Complete(c, sc) PROVE SqInv'
<1>1. /\ c \in running /\ running' = running \ {c} /\ posted' = posted + 1
      /\ DOMAIN done' = DOMAIN done \cup {c}
      /\ UNCHANGED <<tail, db_tail, dev_head, sq, issued, calls, consumed, timeouts>>
  BY DEF Complete, driver, taken
<1>2. /\ Rung' = Rung /\ Ahead' = Ahead /\ Fetched' = Fetched
      /\ (Calling("ring")' <=> Calling("ring")) /\ (Calling("poll")' <=> Calling("poll"))
      /\ (OneCall' <=> OneCall) /\ \A i \in Index : Off(i)' = Off(i)
  BY <1>1 DEF Rung, Calling, OneCall, Ahead, Off, Fetched
<1>3. IsFiniteSet(running') /\ Cardinality(running') = Cardinality(running) - 1
  BY <1>1, FS_RemoveElement DEF SqInv
<1>4. posted \in Nat BY DEF Ring_
<1> QED BY <1>1, <1>2, <1>3, <1>4 DEF SqInv

(* Every step keeps both queues.                                           *)
LEMMA StepKeepsSq == Ring_ /\ SqInv /\ [Next]_vars => SqInv'
<1> SUFFICES ASSUME Ring_, SqInv, [Next]_vars PROVE SqInv' OBVIOUS
<1>1. CASE UNCHANGED vars
  BY <1>1 DEF vars, SqInv, OneCall, Calling, Rung, Fetched, Ahead, Off
<1> QED BY <1>1, CallKeepsSq, RingKeepsSq, ReturnKeepsSq, FetchKeepsSq, CompleteKeepsSq
        DEF Next, Controller

(* What is ahead are the commands after the last one fetched, in order.    *)
LEMMA SqIsInOrder == Ring_ /\ SqInv => Unfetched
<1> SUFFICES ASSUME Ring_, SqInv PROVE Unfetched OBVIOUS
<1>1. QD \in Nat \ {0} /\ QD > 1 /\ MaxCmds \in Nat
  BY NvmeAssumption
<1>2. (db_tail - dev_head + QD) % QD = Ahead /\ Ahead \in 0..QD-1
  <2> DEFINE x == db_tail - dev_head + QD
  <2>1. tail \in Index /\ dev_head \in Index /\ x = tail - dev_head + QD
    BY <1>1 DEF SqInv, Index
  <2>2. x \in 0..2*QD-1
    BY <1>1, <2>1 DEF Index
  <2>3. x % QD = Ahead
    <3> HIDE DEF x
    <3>1. x % QD = IF x < QD THEN x ELSE x - QD
      BY <1>1, <2>2, ModWrap
    <3> QED BY <1>1, <2>1, <3>1 DEF Ahead, Off, Index
  <2>4. Ahead \in 0..QD-1
    BY <1>1, <2>1 DEF Ahead, Off, Index
  <2> QED BY <2>3, <2>4
<1>3. ASSUME NEW k \in 0..Ahead-1 PROVE sq[(dev_head + k) % QD].cmd = Fetched + 1 + k
  <2> DEFINE x == dev_head + k
  <2>1. dev_head \in Index /\ x \in 0..2*QD-1
    BY <1>1, <1>2 DEF SqInv, Index
  <2>2. x % QD \in Index /\ Off(x % QD) = k
    <3>1. x = dev_head + k
      OBVIOUS
    <3> HIDE DEF x
    <3>2. x % QD = IF x < QD THEN x ELSE x - QD
      BY <1>1, <2>1, ModWrap
    <3> QED BY <1>1, <1>2, <2>1, <3>1, <3>2 DEF Index, Off
  <2>3. \A i \in Index : Off(i) < Ahead => sq[i].cmd = Fetched + 1 + Off(i)
    BY DEF SqInv
  <2> HIDE DEF x
  <2>4. sq[x % QD].cmd = Fetched + 1 + k
    BY <1>2, <2>2, <2>3
  <2> QED BY <2>4 DEF x
<1>4. Fetched \in Nat /\ Fetched + Ahead <= MaxCmds
  BY <1>1, <1>2 DEF SqInv, Fetched, Rung
<1>5. ASSUME NEW k \in 0..Ahead-1
      PROVE  Fetched + 1 + k \in Cmd \ (running \cup DOMAIN done)
  BY <1>1, <1>2, <1>4 DEF SqInv, Cmd
<1>6. ASSUME NEW k \in 0..Ahead-1, k > 0
      PROVE  sq[(dev_head + k) % QD].cmd = sq[(dev_head + (k - 1)) % QD].cmd + 1
  <2>1. k - 1 \in 0..Ahead-1
    BY <1>2, <1>6
  <2>2. /\ sq[(dev_head + k) % QD].cmd = Fetched + 1 + k
        /\ sq[(dev_head + (k - 1)) % QD].cmd = Fetched + 1 + (k - 1)
    BY <1>3, <2>1
  <2> QED BY <1>4, <2>2
<1> DEFINE at(k) == sq[(dev_head + k) % QD].cmd
<1>7. \A k \in 0..Ahead-1 : /\ at(k) \in Cmd \ (running \cup DOMAIN done)
                            /\ k > 0 => at(k) = at(k-1) + 1
  BY <1>3, <1>5, <1>6
<1> HIDE DEF at
<1>8. \A k \in 0..((db_tail - dev_head + QD) % QD)-1 :
         /\ at(k) \in Cmd \ (running \cup DOMAIN done)
         /\ k > 0 => at(k) = at(k-1) + 1
  BY <1>2, <1>7
<1> QED BY <1>8 DEF Unfetched, at

(* What the controller has yet to fetch are commands issued and not        *)
(* fetched before, in order, although nothing looks at the room in the     *)
(* submission queue (nvme.h:172-178).                                      *)
THEOREM NothingOverwritten == Spec => []Unfetched
BY RingInit, StepKeepsRing, SqInit, StepKeepsSq, SqIsInOrder, PTL DEF Spec

(* The log on disk uses the driver and the controller as they are: each of *)
(* its steps is one of theirs or leaves them alone (logdisk.h:22-54).      *)
LEMMA LogStepIsQueueStep == [LogNext]_allvars => [Next]_vars
<1> SUFFICES ASSUME [LogNext]_allvars PROVE [Next]_vars OBVIOUS
<1>1. CASE logdisk_init \/ logdisk_sink \/ FlushFull
  BY <1>1 DEF logdisk_init, logdisk_sink, FlushFull
<1>2. CASE \E k \in Lens : out_str(k)
  BY <1>2 DEF out_str
<1>3. CASE FlushCall
  BY <1>3 DEF FlushCall, Next
<1>4. CASE FlushReturns
  BY <1>4 DEF FlushReturns, Next
<1>5. CASE (Ring \/ Fetch) /\ UNCHANGED logvars
  BY <1>5 DEF Next, Controller
<1>6. CASE \E c \in Cmd : Done(c)
  BY <1>6 DEF Done, Next, Controller
<1>7. CASE UNCHANGED allvars
  BY <1>7 DEF allvars
<1> QED BY <1>1, <1>2, <1>3, <1>4, <1>5, <1>6, <1>7 DEF LogNext

(* So whatever holds of the queues holds of them under the log.            *)
THEOREM LogUsesQueue == LogSpec => Spec
<1>1. LogInit => Init BY DEF LogInit
<1> QED BY <1>1, LogStepIsQueueStep, PTL DEF LogSpec, Spec

(* So the phase bit tells the log's calls when they are done.              *)
THEOREM LogPhaseTells == LogSpec => []PhaseTells
BY LogUsesQueue, PhaseBitTells, PTL

(* And they get the results of their own writes.                           *)
THEOREM LogOwnResults == LogSpec => []OwnResult
BY LogUsesQueue, OwnResults, PTL

(* And none of the log's writes is overwritten before it is fetched.       *)
THEOREM LogNothingOverwritten == LogSpec => []Unfetched
BY LogUsesQueue, NothingOverwritten, PTL


-----------------------------------------------------------------------------
(* The log itself, while no call has given up: the bytes in front of those *)
(* to come are in order in the page, the sectors that count as written are *)
(* in order and older than the page, and a flush that is under way writes  *)
(* the page, which does not change meanwhile, behind them.                 *)
Logs == [ok : BOOLEAN, len : 0..BUF_SZ, sect : Nat, first : Nat,
         buf : [0..BUF_SZ-1 -> Nat], disk : [0..MAX_SECT-1 -> [0..SECT-1 -> Nat]]]

Front == n - Len(todo)

ToCome == /\ n \in Nat /\ todo \in Seq(Nat) /\ Front \in Nat
          /\ \A i \in 1..Len(todo) : todo[i] = Front + i

Page == \A i \in 0..log.len-1 : /\ log.buf[i] \in 1..Front
                                /\ \A j \in 0..i-1 : log.buf[j] < log.buf[i]

OnDisk == \A i \in Stored : /\ log.disk[i][0] \in 1..Front
                            /\ \A j \in 0..i-1 : log.disk[j][0] < log.disk[i][0]
                            /\ \A j \in 0..log.len-1 : log.disk[i][0] < log.buf[j]

Written == \A m \in 0..Sectors(log.len)-1, k \in 0..SECT-1 :
             log.disk[log.sect + m][k] = log.buf[m*SECT + k]

Flushing == /\ log.len > 0 /\ log.sect + Sectors(log.len) <= MAX_SECT
            /\ want[issued] = <<log.sect, Sectors(log.len)>>
            /\ issued \in DOMAIN done /\ done[issued] = 0 => Written

LogInv == timeouts = 0 => /\ log \in Logs /\ ToCome /\ Page /\ OnDisk
                          /\ log.sect <= MAX_SECT
                          /\ calls # <<>> => Flushing

(* How the sectors of a flush cover the page.                              *)
LEMMA SectorsCover ==
  ASSUME NEW len \in 0..BUF_SZ
  PROVE  /\ Sectors(len) \in 0..BUF_SZ \div SECT
         /\ \A b \in 0..len-1 : /\ b \div SECT \in 0..Sectors(len)-1 /\ b % SECT \in 0..SECT-1
                                /\ ((b \div SECT) * SECT) + (b % SECT) = b
         /\ \A m \in 0..Sectors(len)-1 : /\ m * SECT \in 0..len-1
                                         /\ \A k \in 0..SECT-1 : m * SECT + k \in 0..BUF_SZ-1
<1> DEFINE s == SECT
           q == BUF_SZ \div s
           u == Sectors(len)
<1>1. s \in Nat \ {0} /\ BUF_SZ \in Nat /\ BUF_SZ % s = 0
  BY LogDiskAssumption
<1>2. q \in Nat /\ BUF_SZ = q * s
  <2> HIDE DEF s
  <2>1. BUF_SZ = ((BUF_SZ \div s) * s) + (BUF_SZ % s) /\ BUF_SZ \div s \in Nat
    BY <1>1
  <2> QED BY <1>1, <2>1
<1>3. u \in Nat /\ u * s >= len /\ (u * s) - s < len
  <2> DEFINE t == len + s - 1
  <2>1. t \in Nat /\ u = t \div s /\ t = len + s - 1
    BY <1>1 DEF Sectors
  <2> HIDE DEF t, s, u
  <2>2. t = ((t \div s) * s) + (t % s) /\ t \div s \in Nat /\ t % s \in 0..s-1
    BY <1>1, <2>1
  <2>3. (t \div s) * s \in Nat
    BY <1>1, <2>2
  <2> DEFINE p == (t \div s) * s
             r == t % s
  <2>4. t = p + r /\ r \in 0..s-1 /\ p \in Nat
    BY <2>2, <2>3
  <2> HIDE DEF p, r
  <2>5. p >= len /\ p - s < len
    BY <1>1, <2>1, <2>4
  <2> QED BY <2>1, <2>2, <2>5 DEF p
<1> HIDE DEF s, q, u
<1>4. u <= q
  <2> SUFFICES ASSUME u >= q + 1 PROVE FALSE
    BY <1>2, <1>3
  <2>1. u * s >= (q + 1) * s
    BY <1>1, <1>2, <1>3
  <2>2. (q + 1) * s = (q * s) + s
    BY <1>1, <1>2
  <2>3. q * s \in Nat /\ u * s \in Nat
    BY <1>1, <1>2, <1>3
  <2> QED BY <1>1, <1>2, <1>3, <2>1, <2>2, <2>3
<1>5. ASSUME NEW b \in 0..len-1
      PROVE  b \div s \in 0..u-1 /\ b % s \in 0..s-1 /\ ((b \div s) * s) + (b % s) = b
  <2>1. b = ((b \div s) * s) + (b % s) /\ b \div s \in Nat /\ b % s \in 0..s-1
    BY <1>1
  <2>2. b \div s < u
    <3> DEFINE d == b \div s
    <3>1. d \in Nat /\ d * s \in Nat /\ d * s <= b
      BY <1>1, <2>1
    <3> HIDE DEF d
    <3> SUFFICES ASSUME d >= u PROVE FALSE
      BY <1>3, <3>1 DEF d
    <3>2. d * s >= u * s
      BY <1>1, <1>3, <3>1
    <3> QED BY <1>1, <1>3, <3>1, <3>2
  <2> QED BY <1>3, <2>1, <2>2
<1>6. ASSUME NEW m \in 0..u-1
      PROVE  m * s \in 0..len-1 /\ \A k \in 0..s-1 : m * s + k \in 0..BUF_SZ-1
  <2>1. m \in Nat /\ m + 1 <= u /\ m + 1 <= q
    BY <1>2, <1>3, <1>4
  <2>2. (m + 1) * s <= u * s /\ (m + 1) * s <= q * s
    BY <1>1, <1>2, <1>3, <2>1
  <2>3. (m + 1) * s = (m * s) + s /\ m * s \in Nat /\ u * s \in Nat
    BY <1>1, <1>3, <2>1
  <2> QED BY <1>1, <1>2, <1>3, <2>2, <2>3
<1> QED BY <1>2, <1>3, <1>4, <1>5, <1>6 DEF s, q, u

(* Nothing is logged at first.                                             *)
LEMMA LogInvInit == LogInit => LogInv
<1> SUFFICES ASSUME LogInit PROVE LogInv OBVIOUS
<1>1. BUF_SZ \in Nat /\ MAX_SECT \in Nat
  BY LogDiskAssumption
<1>2. log \in Logs /\ log.len = 0 /\ log.sect = 0
  BY <1>1 DEF LogInit, Logs
<1>3. n = 0 /\ todo = <<>> /\ calls = <<>>
  BY DEF LogInit, Init
<1>4. ToCome
  BY <1>3 DEF ToCome, Front
<1> QED BY <1>1, <1>2, <1>3, <1>4 DEF LogInv, Page, OnDisk, Stored

(* A message is taken over.                                                *)
LEMMA OutKeepsLog == ASSUME NEW k \in Lens, LogInv, out_str(k) PROVE LogInv'
<1> SUFFICES ASSUME timeouts = 0 PROVE LogInv'
  BY DEF out_str, vars, LogInv
<1>1. k \in Nat \ {0} /\ calls' = <<>> /\ todo = <<>> /\ n' = n + k /\ log' = log
  BY LogDiskAssumption DEF out_str, Idle, vars
<1>2. n \in Nat /\ Front = n
  BY <1>1 DEF LogInv, ToCome, Front
<1>3. ToCome' /\ Front' \in Nat /\ Front' >= Front
  <2>1. CASE log.ok
    <3>1. todo' = [i \in 1..k |-> n + i]
      BY <2>1 DEF out_str
    <3>2. todo' \in Seq(Nat) /\ Len(todo') = k /\ \A i \in 1..k : todo'[i] = n + i
      BY <1>1, <1>2, <3>1
    <3> QED BY <1>1, <1>2, <3>2 DEF ToCome, Front
  <2>2. CASE ~log.ok
    BY <1>1, <1>2, <2>2 DEF out_str, ToCome, Front
  <2> QED BY <2>1, <2>2
<1>4. Page' /\ OnDisk'
  BY <1>1, <1>2, <1>3 DEF LogInv, Page, OnDisk, Stored
<1> QED BY <1>1, <1>3, <1>4 DEF LogInv

(* Bytes move from the message into the page.                              *)
LEMMA SinkMoves ==
  ASSUME LogInv, timeouts = 0, logdisk_sink
  PROVE  \E k \in 1..Len(todo) :
           /\ log' \in Logs /\ log'.len = log.len + k /\ Front' = Front + k
           /\ UNCHANGED <<log.ok, log.sect, log.first, log.disk, vars, n>>
           /\ \A i \in 0..log.len-1 : log'.buf[i] = log.buf[i]
           /\ \A i \in 1..k : log'.buf[log.len + i - 1] = todo[i]
           /\ todo' \in Seq(Nat) /\ Len(todo') = Len(todo) - k
           /\ \A i \in 1..Len(todo)-k : todo'[i] = todo[k + i]
<1> DEFINE k == IF Len(todo) <= BUF_SZ - log.len THEN Len(todo) ELSE BUF_SZ - log.len
<1>1. log \in Logs /\ todo \in Seq(Nat) /\ Len(todo) \in Nat /\ todo # <<>> /\ n \in Nat
  BY DEF LogInv, ToCome, logdisk_sink
<1>2. log.len \in 0..BUF_SZ /\ log.len < BUF_SZ /\ BUF_SZ \in Nat
  BY <1>1, LogDiskAssumption DEF logdisk_sink, Logs
<1>3. k \in 1..Len(todo) /\ log.len + k <= BUF_SZ
  BY <1>1, <1>2
<1>4. /\ log' = [log EXCEPT !.len = log.len + k,
                   !.buf = [i \in 0..BUF_SZ-1 |-> IF i \in log.len..log.len+k-1
                                                  THEN todo[i - log.len + 1] ELSE log.buf[i]]]
      /\ todo' = SubSeq(todo, k + 1, Len(todo)) /\ UNCHANGED <<vars, n>>
  BY DEF logdisk_sink
<1> HIDE DEF k
<1> DEFINE b == [i \in 0..BUF_SZ-1 |-> IF i \in log.len..log.len+k-1
                                       THEN todo[i - log.len + 1] ELSE log.buf[i]]
<1>5. b \in [0..BUF_SZ-1 -> Nat]
  <2> SUFFICES ASSUME NEW i \in 0..BUF_SZ-1
               PROVE  (IF i \in log.len..log.len+k-1 THEN todo[i - log.len + 1] ELSE log.buf[i]) \in Nat
    OBVIOUS
  <2>1. i \in log.len..log.len+k-1 => i - log.len + 1 \in 1..Len(todo)
    BY <1>2, <1>3
  <2>2. log.buf[i] \in Nat
    BY <1>1 DEF Logs
  <2> QED BY <1>1, <2>1, <2>2
<1>6. /\ \A i \in 0..log.len-1 : b[i] = log.buf[i]
      /\ \A i \in 1..k : b[log.len + i - 1] = todo[i]
  <2>1. ASSUME NEW i \in 0..log.len-1 PROVE b[i] = log.buf[i]
    <3>1. i \in 0..BUF_SZ-1 /\ i \notin log.len..log.len+k-1
      BY <1>2, <1>3
    <3> QED BY <3>1
  <2>2. ASSUME NEW i \in 1..k PROVE b[log.len + i - 1] = todo[i]
    <3> DEFINE j == log.len + i - 1
    <3>1. j \in 0..BUF_SZ-1 /\ j \in log.len..log.len+k-1 /\ j - log.len + 1 = i
      BY <1>2, <1>3
    <3> HIDE DEF j
    <3>2. b[j] = todo[i]
      BY <3>1
    <3> QED BY <3>2 DEF j
  <2> QED BY <2>1, <2>2
<1> HIDE DEF b
<1>7. log' = [log EXCEPT !.len = log.len + k, !.buf = b]
  BY <1>4 DEF b
<1>8. /\ log' \in Logs /\ log'.len = log.len + k /\ log'.buf = b
      /\ UNCHANGED <<log.ok, log.sect, log.first, log.disk>>
  <2>1. log.len + k \in 0..BUF_SZ
    BY <1>1, <1>2, <1>3
  <2>2. log' \in Logs
    BY <1>1, <1>5, <1>7, <2>1 DEF Logs
  <2>3. log'.len = log.len + k /\ log'.buf = b
    BY <1>1, <1>7 DEF Logs
  <2>4. UNCHANGED <<log.ok, log.sect, log.first, log.disk>>
    BY <1>1, <1>7 DEF Logs
  <2> QED BY <2>2, <2>3, <2>4
<1>9. todo' \in Seq(Nat) /\ Len(todo') = Len(todo) - k
      /\ \A i \in 1..Len(todo)-k : todo'[i] = todo[k + i]
  <2>1. k \in Nat /\ k + 1 \in 1..Len(todo)+1 /\ Len(todo) \in Nat /\ Len(todo) >= k
    BY <1>1, <1>3
  <2> DEFINE r == SubSeq(todo, k + 1, Len(todo))
  <2>2. r \in Seq(Nat) /\ Len(r) = Len(todo) - k
    BY <1>1, <2>1
  <2>3. ASSUME NEW i \in 1..Len(todo)-k PROVE r[i] = todo[k + i]
    <3>1. r[i] = todo[(k + 1) + i - 1]
      BY <1>1, <2>1
    <3>2. (k + 1) + i - 1 = k + i
      BY <2>1
    <3> QED BY <3>1, <3>2
  <2> HIDE DEF r
  <2>4. todo' = r
    BY <1>4 DEF r
  <2> QED BY <2>2, <2>3, <2>4
<1>10. Front' = Front + k
  BY <1>1, <1>3, <1>4, <1>9 DEF Front
<1> QED BY <1>3, <1>4, <1>6, <1>8, <1>9, <1>10

LEMMA SinkKeepsLog == LogInv /\ logdisk_sink => LogInv'
<1> SUFFICES ASSUME LogInv, logdisk_sink, timeouts = 0 PROVE LogInv'
  BY DEF logdisk_sink, vars, LogInv
<1>1. PICK k \in 1..Len(todo) :
           /\ log' \in Logs /\ log'.len = log.len + k /\ Front' = Front + k
           /\ UNCHANGED <<log.ok, log.sect, log.first, log.disk, vars, n>>
           /\ \A i \in 0..log.len-1 : log'.buf[i] = log.buf[i]
           /\ \A i \in 1..k : log'.buf[log.len + i - 1] = todo[i]
           /\ todo' \in Seq(Nat) /\ Len(todo') = Len(todo) - k
           /\ \A i \in 1..Len(todo)-k : todo'[i] = todo[k + i]
  BY SinkMoves
<1>2. /\ n \in Nat /\ Len(todo) \in Nat /\ Front \in Nat /\ log.len \in Nat /\ log.sect \in Nat
      /\ \A i \in 1..Len(todo) : todo[i] = Front + i
  BY DEF LogInv, ToCome, Logs
<1>9. k \in Nat /\ k >= 1 /\ k <= Len(todo) /\ log'.len = log.len + k /\ Front' = Front + k
  BY <1>1, <1>2
<1>3. ToCome'
  BY <1>1, <1>2 DEF ToCome
<1>4. \A i \in log.len..log'.len-1 : log'.buf[i] = Front + (i - log.len + 1)
  <2> SUFFICES ASSUME NEW i \in log.len..log'.len-1
               PROVE  log'.buf[i] = Front + (i - log.len + 1)
    OBVIOUS
  <2> DEFINE x == i - log.len + 1
  <2>1. x \in 1..k /\ x \in 1..Len(todo) /\ log.len + x - 1 = i
    BY <1>2, <1>9
  <2> HIDE DEF x
  <2>2. log'.buf[log.len + x - 1] = todo[x] /\ todo[x] = Front + x
    BY <1>1, <1>2, <2>1
  <2> QED BY <2>1, <2>2 DEF x
<1>5. \A i \in 0..log.len-1 : log'.buf[i] = log.buf[i] /\ log.buf[i] \in 1..Front
  BY <1>1 DEF LogInv, Page
<1>6. Page'
  <2> SUFFICES ASSUME NEW i \in 0..log'.len-1
               PROVE  log'.buf[i] \in 1..Front' /\ \A j \in 0..i-1 : log'.buf[j] < log'.buf[i]
    BY DEF Page
  <2>1. CASE i < log.len
    <3>1. i \in 0..log.len-1 /\ \A j \in 0..i-1 : j \in 0..log.len-1
      BY <1>2, <1>9, <2>1
    <3>2. \A j \in 0..i-1 : log.buf[j] < log.buf[i]
      BY <3>1 DEF LogInv, Page
    <3> QED BY <1>2, <1>5, <1>9, <3>1, <3>2
  <2>2. CASE i >= log.len
    <3>1. log'.buf[i] = Front + (i - log.len + 1)
      BY <1>2, <1>4, <1>9, <2>2
    <3>2. \A j \in 0..i-1 : log'.buf[j] < log'.buf[i]
      <4> SUFFICES ASSUME NEW j \in 0..i-1 PROVE log'.buf[j] < log'.buf[i]
        OBVIOUS
      <4>1. CASE j < log.len
        <5>1. j \in 0..log.len-1 /\ i - log.len >= 0
          BY <1>2, <1>9, <2>2, <4>1
        <5>2. log'.buf[j] \in 1..Front
          BY <1>5, <5>1
        <5> DEFINE x == log'.buf[j]
                   y == i - log.len
        <5>3. x \in 1..Front /\ log'.buf[i] = Front + (y + 1) /\ y >= 0 /\ y \in Int
          BY <1>2, <3>1, <5>1, <5>2
        <5>4. Front \in Nat
          BY <1>2
        <5> HIDE DEF x, y
        <5>5. x < Front + (y + 1)
          BY ONLY <5>3, <5>4
        <5> QED BY <5>3, <5>5 DEF x
      <4>2. CASE j >= log.len
        <5>1. log'.buf[j] = Front + (j - log.len + 1)
          BY <1>2, <1>4, <1>9, <4>2
        <5> QED BY <1>2, <3>1, <5>1
      <4> QED BY <1>2, <4>1, <4>2
    <3> QED BY <1>2, <1>9, <2>2, <3>1, <3>2
  <2> QED BY <1>2, <1>9, <2>1, <2>2
<1>7. OnDisk'
  <2> SUFFICES ASSUME NEW i \in 0..log.sect-1
               PROVE  /\ log.disk[i][0] \in 1..Front'
                      /\ \A j \in 0..i-1 : log.disk[j][0] < log.disk[i][0]
                      /\ \A j \in 0..log'.len-1 : log.disk[i][0] < log'.buf[j]
    BY <1>1 DEF OnDisk, Stored
  <2>1. /\ log.disk[i][0] \in 1..Front
        /\ \A j \in 0..i-1 : log.disk[j][0] < log.disk[i][0]
        /\ \A j \in 0..log.len-1 : log.disk[i][0] < log.buf[j]
    BY DEF LogInv, OnDisk, Stored
  <2>2. log.disk[i][0] \in 1..Front'
    BY <1>2, <1>9, <2>1
  <2>3. ASSUME NEW j \in 0..log'.len-1 PROVE log.disk[i][0] < log'.buf[j]
    <3>1. CASE j < log.len
      <4>1. j \in 0..log.len-1
        BY <1>2, <1>9, <3>1
      <4> QED BY <1>5, <2>1, <4>1
    <3>2. CASE j >= log.len
      <4>1. log'.buf[j] = Front + (j - log.len + 1)
        BY <1>2, <1>4, <1>9, <3>2
      <4> DEFINE x == log.disk[i][0]
                 y == j - log.len
      <4>2. x \in 1..Front /\ log'.buf[j] = Front + (y + 1) /\ Front \in Nat
        BY <1>2, <2>1, <4>1
      <4>3. y >= 0 /\ y \in Int
        BY <1>2, <1>9, <3>2
      <4> HIDE DEF x, y
      <4>4. x < Front + (y + 1)
        BY ONLY <4>2, <4>3
      <4> QED BY <4>2, <4>4 DEF x
    <3> QED BY <1>2, <1>9, <3>1, <3>2
  <2> QED BY <2>1, <2>2, <2>3
<1>8. calls' = <<>> /\ log'.sect <= MAX_SECT
  BY <1>1 DEF logdisk_sink, vars, LogInv
<1> QED BY <1>1, <1>3, <1>6, <1>7, <1>8 DEF LogInv

(* A flush starts: the page does not change until it returns.              *)
LEMMA FlushCallKeepsLog == SqInv /\ LogInv /\ FlushCall => LogInv'
<1> SUFFICES ASSUME SqInv, LogInv, FlushCall, timeouts = 0 PROVE LogInv'
  BY DEF FlushCall, Call, Submit, LogInv
<1>1. /\ issued' = issued + 1 /\ calls = <<>> /\ log' = log /\ todo' = todo /\ n' = n
      /\ done' = done /\ log.len > 0 /\ Fits(log) /\ issued \in Nat
      /\ want' = [c \in 1..issued+1 |-> IF c = issued + 1 THEN <<Place(log), Sectors(log.len)>>
                                        ELSE want[c]]
  BY NvmeAssumption DEF FlushCall, Call, Submit, device, Flush, SqInv
<1>2. want'[issued'] = <<log.sect, Sectors(log.len)>>
  BY <1>1 DEF Place
<1>3. issued' \notin DOMAIN done
  <2>1. DOMAIN done \subseteq 1..Fetched /\ Fetched <= issued /\ Fetched \in Nat
    BY <1>1, NvmeAssumption DEF SqInv, Fetched, Rung, Calling, Ahead, Off, Index
  <2> QED BY <1>1, <2>1
<1>4. Flushing'
  BY <1>1, <1>2, <1>3 DEF Flushing, Fits, Place
<1> QED BY <1>1, <1>4 DEF LogInv, ToCome, Front, Page, OnDisk, Stored

(* The flush returns.                                                      *)
LEMMA FlushReturnsKeepsLog ==
  SqInv /\ Ring_ /\ Single /\ LogInv /\ FlushReturns => LogInv'
<1> SUFFICES ASSUME SqInv, Ring_, Single, LogInv, FlushReturns, timeouts' = 0 PROVE LogInv'
  BY DEF LogInv
<1>1. /\ timeouts = 0 /\ Take
  BY DEF FlushReturns, TimeOut, Take, device, SqInv
<1>2. Single'
  BY <1>1, SingleStep DEF Next
<1>3. calls # <<>> /\ calls' = <<>> /\ ret'.cmd = issued /\ ret'.rc = done[issued] /\ issued \in DOMAIN done
  <2>1. Under("poll") /\ issued # 0 /\ done' = done
    BY <1>1, RingTells, NvmeAssumption
       DEF Single, Stage, NoneLeft, Under, Take, Top, PhaseTells, device
  <2> QED BY <1>1, <1>2, <2>1 DEF Single, Under, Take, Top, Pop
<1>4. /\ log \in Logs /\ Page /\ OnDisk /\ Flushing /\ ToCome
  BY <1>1, <1>3 DEF LogInv
<1>5. /\ log' = [log EXCEPT !.len = 0, !.sect = SectAfter(log, ret'.rc)]
      /\ n' = n /\ todo' = todo
  BY DEF FlushReturns
<1> DEFINE u == Sectors(log.len)
<1>6. log.len \in 0..BUF_SZ /\ log.sect \in Nat /\ log.sect + u <= MAX_SECT /\ u \in Nat
  BY <1>4, SectorsCover, LogDiskAssumption DEF Logs, Flushing
<1>7. /\ log' \in Logs /\ log'.len = 0 /\ log'.disk = log.disk
      /\ log'.sect = IF done[issued] = 0 THEN log.sect + u ELSE log.sect
  <2>1. SectAfter(log, ret'.rc) = IF done[issued] = 0 THEN log.sect + u ELSE log.sect
    BY <1>3 DEF SectAfter, Place
  <2>2. SectAfter(log, ret'.rc) \in Nat /\ 0 \in 0..BUF_SZ
    BY <1>6, <2>1, LogDiskAssumption
  <2> QED BY <1>4, <1>5, <2>1, <2>2 DEF Logs
<1>8. log'.sect <= MAX_SECT /\ Page' /\ ToCome' /\ Front' = Front
  <2>1. log.sect <= MAX_SECT
    BY <1>1 DEF LogInv
  <2>2. ToCome' /\ Front' = Front
    BY <1>4, <1>5 DEF ToCome, Front
  <2> QED BY <1>6, <1>7, <2>1, <2>2 DEF Page
<1>9. OnDisk'
  <2>1. CASE done[issued] # 0
    BY <1>4, <1>7, <1>8, <2>1 DEF OnDisk, Stored
  <2>2. CASE done[issued] = 0
    <3>1. /\ Written
          /\ \A m \in 0..u-1 : m * SECT \in 0..log.len-1
      BY <1>3, <1>4, <1>6, <2>2, SectorsCover DEF Flushing
    <3>2. SECT \in Nat \ {0}
      BY LogDiskAssumption
    <3>3. ASSUME NEW m \in 0..u-1
          PROVE  log.disk[log.sect + m][0] = log.buf[m * SECT] /\ m * SECT \in 0..log.len-1
      BY <3>1, <3>2 DEF Written
    <3>4. ASSUME NEW m \in 0..u-1, NEW l \in 0..m-1
          PROVE  log.disk[log.sect + l][0] < log.disk[log.sect + m][0]
      <4>1. l \in 0..u-1 /\ l * SECT \in 0..(m * SECT)-1
        BY <1>6, <3>2
      <4> QED BY <1>4, <3>3, <4>1 DEF Page
    <3>7. log'.len = 0 /\ log'.sect = log.sect + u /\ log'.disk = log.disk /\ Front' = Front
      BY <1>7, <1>8, <2>2
    <3>8. Stored' = 0..log.sect+u-1
      BY <1>6, <3>7 DEF Stored
    <3>9. \A j \in 0..log'.len-1 : FALSE
      BY <3>7
    <3> SUFFICES ASSUME NEW i \in 0..log.sect+u-1
                 PROVE  /\ log.disk[i][0] \in 1..Front
                        /\ \A j \in 0..i-1 : log.disk[j][0] < log.disk[i][0]
      BY <3>7, <3>8, <3>9 DEF OnDisk
    <3>5. CASE i < log.sect
      BY <1>4, <1>6, <3>5 DEF OnDisk, Stored
    <3>6. CASE i >= log.sect
      <4>1. PICK m \in 0..u-1 : i = log.sect + m
        <5>1. i - log.sect \in 0..u-1 /\ i = log.sect + (i - log.sect)
          BY <1>6, <3>6
        <5> QED BY <5>1
      <4>2. log.disk[i][0] = log.buf[m * SECT] /\ m * SECT \in 0..log.len-1
        BY <3>3, <4>1
      <4>3. log.disk[i][0] \in 1..Front
        BY <1>4, <4>2 DEF Page
      <4>4. ASSUME NEW j \in 0..i-1 PROVE log.disk[j][0] < log.disk[i][0]
        <5>1. CASE j < log.sect
          <6>1. j \in Stored
            BY <1>6, <5>1 DEF Stored
          <6> QED BY <1>4, <4>2, <6>1 DEF OnDisk
        <5>2. CASE j >= log.sect
          <6>1. j - log.sect \in 0..m-1 /\ j = log.sect + (j - log.sect)
            BY <1>6, <4>1, <5>2
          <6> QED BY <3>4, <4>1, <6>1
        <5> QED BY <1>6, <5>1, <5>2
      <4> QED BY <4>3, <4>4
    <3> QED BY <1>6, <3>5, <3>6
  <2> QED BY <2>1, <2>2
<1> QED BY <1>3, <1>7, <1>8, <1>9 DEF LogInv

(* What a write copies: the page, behind what counts as written.           *)
LEMMA CopyOfPage ==
  ASSUME log \in Logs, Flushing
  PROVE  /\ Copied(issued) \in [0..MAX_SECT-1 -> [0..SECT-1 -> Nat]]
         /\ \A i \in Stored : Copied(issued)[i] = log.disk[i]
         /\ \A m \in 0..Sectors(log.len)-1, k \in 0..SECT-1 :
              Copied(issued)[log.sect + m][k] = log.buf[m*SECT + k]
<1> DEFINE u == Sectors(log.len)
<1>1. /\ log.len \in 0..BUF_SZ /\ log.sect \in Nat /\ log.sect + u <= MAX_SECT /\ u \in Nat
      /\ MAX_SECT \in Nat /\ SECT \in Nat \ {0} /\ BUF_SZ \in Nat
  BY SectorsCover, LogDiskAssumption DEF Logs, Flushing
<1>2. \A m \in 0..u-1 : \A k \in 0..SECT-1 : m*SECT + k \in 0..BUF_SZ-1
  BY <1>1, SectorsCover
<1>3. Copied(issued) =
        [i \in 0..MAX_SECT-1 |->
          IF i \in log.sect..log.sect+u-1
            THEN [k \in 0..SECT-1 |-> IF (i - log.sect) * SECT + k < BUF_SZ
                                      THEN log.buf[(i - log.sect) * SECT + k] ELSE 0]
            ELSE log.disk[i]]
  BY DEF Copied, Flushing
<1> HIDE DEF u
<1> DEFINE sector(i) == [k \in 0..SECT-1 |-> IF (i - log.sect) * SECT + k < BUF_SZ
                                      THEN log.buf[(i - log.sect) * SECT + k] ELSE 0]
<1>4. ASSUME NEW i \in log.sect..log.sect+u-1
      PROVE  /\ i - log.sect \in 0..u-1 /\ sector(i) \in [0..SECT-1 -> Nat]
             /\ \A k \in 0..SECT-1 : sector(i)[k] = log.buf[(i - log.sect) * SECT + k]
  <2>1. i - log.sect \in 0..u-1
    BY <1>1
  <2>2. \A k \in 0..SECT-1 : (i - log.sect)*SECT + k \in 0..BUF_SZ-1
    BY <1>2, <2>1
  <2>3. \A x \in 0..BUF_SZ-1 : x < BUF_SZ /\ log.buf[x] \in Nat
    BY <1>1 DEF Logs
  <2> QED BY <2>1, <2>2, <2>3
<1> HIDE DEF sector
<1>5. Copied(issued) = [i \in 0..MAX_SECT-1 |-> IF i \in log.sect..log.sect+u-1
                                                THEN sector(i) ELSE log.disk[i]]
  BY <1>3 DEF sector
<1>6. Copied(issued) \in [0..MAX_SECT-1 -> [0..SECT-1 -> Nat]]
  <2> SUFFICES ASSUME NEW i \in 0..MAX_SECT-1
               PROVE  (IF i \in log.sect..log.sect+u-1 THEN sector(i) ELSE log.disk[i])
                        \in [0..SECT-1 -> Nat]
    BY <1>5
  <2>1. log.disk[i] \in [0..SECT-1 -> Nat]
    BY DEF Logs
  <2> QED BY <1>4, <2>1
<1>7. ASSUME NEW i \in Stored PROVE Copied(issued)[i] = log.disk[i]
  <2>1. i \in 0..MAX_SECT-1 /\ i \notin log.sect..log.sect+u-1
    BY <1>1 DEF Stored
  <2> QED BY <1>5, <2>1
<1>8. ASSUME NEW m \in 0..u-1, NEW k \in 0..SECT-1
      PROVE  Copied(issued)[log.sect + m][k] = log.buf[m*SECT + k]
  <2>1. log.sect + m \in 0..MAX_SECT-1 /\ log.sect + m \in log.sect..log.sect+u-1
        /\ (log.sect + m) - log.sect = m
    BY <1>1
  <2>2. Copied(issued)[log.sect + m] = sector(log.sect + m)
    BY <1>5, <2>1
  <2> QED BY <1>4, <2>1, <2>2
<1> QED BY <1>6, <1>7, <1>8 DEF u

(* The controller completes the flush: a write that succeeded has written  *)
(* the page, one that failed may have.                                     *)
LEMMA DoneWrites ==
  ASSUME NEW c \in Cmd, SqInv, Single, LogInv, timeouts = 0, Done(c)
  PROVE  /\ c = issued /\ calls # <<>> /\ calls' = calls /\ issued' = issued /\ Flushing
         /\ \A d \in DOMAIN done : d \in DOMAIN done' /\ done'[d] = done[d]
         /\ UNCHANGED <<n, todo, want, log.ok, log.len, log.sect, log.first, log.buf>>
         /\ log' \in Logs /\ \A i \in Stored : log'.disk[i] = log.disk[i]
         /\ c \in DOMAIN done' /\ done'[c] = 0 => Written'
<1>1. PICK sc \in 0..1 : Complete(c, sc) /\ log' \in {log, [log EXCEPT !.disk = Copied(c)]}
                         /\ (sc = 0 => log' = [log EXCEPT !.disk = Copied(c)])
  BY DEF Done
<1>2. /\ c \in running /\ done' = [d \in DOMAIN done \cup {c} |-> IF d = c THEN sc ELSE done[d]]
      /\ calls' = calls /\ issued' = issued
  BY <1>1 DEF Complete, driver
<1>3. c = issued /\ calls # <<>>
  BY <1>2 DEF Single, Stage, NoneLeft, Under
<1>4. c \notin DOMAIN done
  BY <1>2 DEF SqInv
<1>5. log \in Logs /\ Flushing
  BY <1>3 DEF LogInv
<1>6. \A d \in DOMAIN done : d \in DOMAIN done' /\ done'[d] = done[d]
  BY <1>2, <1>4
<1>7. done'[c] = sc
  BY <1>2
<1>8. CASE log' = [log EXCEPT !.disk = Copied(c)]
  <2>1. /\ log' \in Logs /\ log'.disk = Copied(c)
        /\ UNCHANGED <<log.ok, log.len, log.sect, log.first, log.buf>>
    BY <1>3, <1>5, <1>8, CopyOfPage DEF Logs
  <2>2. Written' /\ \A i \in Stored : log'.disk[i] = log.disk[i]
    BY <1>3, <1>5, <2>1, CopyOfPage DEF Written, Sectors
  <2> QED BY <1>2, <1>3, <1>5, <1>6, <2>1, <2>2 DEF Done
<1>9. CASE log' = log /\ sc # 0
  BY <1>2, <1>3, <1>5, <1>6, <1>7, <1>9 DEF Done
<1> QED BY <1>1, <1>8, <1>9

LEMMA DoneKeepsLog ==
  ASSUME NEW c \in Cmd, SqInv, Single, LogInv, Done(c) PROVE LogInv'
<1> SUFFICES ASSUME timeouts' = 0 PROVE LogInv'
  BY DEF LogInv
<1>1. timeouts = 0
  BY DEF Done, Complete
<1>2. /\ c = issued /\ calls # <<>> /\ calls' = calls /\ issued' = issued /\ Flushing
      /\ UNCHANGED <<n, todo, want, log.len, log.sect, log.buf>>
      /\ log' \in Logs /\ \A i \in Stored : log'.disk[i] = log.disk[i]
      /\ c \in DOMAIN done' /\ done'[c] = 0 => Written'
  BY <1>1, DoneWrites
<1>3. Front' = Front /\ ToCome' /\ Page' /\ log'.sect <= MAX_SECT
  BY <1>1, <1>2 DEF LogInv, ToCome, Front, Page
<1>4. OnDisk'
  <2>1. Stored' = Stored /\ \A i \in Stored : \A j \in 0..i-1 : j \in Stored
    BY <1>1, <1>2 DEF Stored, LogInv, Logs
  <2> QED BY <1>1, <1>2, <1>3, <2>1 DEF LogInv, OnDisk
<1>5. Flushing'
  BY <1>2 DEF Flushing, Sectors
<1> QED BY <1>2, <1>3, <1>4, <1>5 DEF LogInv

(* Every step keeps the log as it is described.                            *)
LEMMA StepKeepsLog ==
  Ring_ /\ SqInv /\ Single /\ LogInv /\ [LogNext]_allvars => LogInv'
<1> SUFFICES ASSUME Ring_, SqInv, Single, LogInv, [LogNext]_allvars PROVE LogInv'
  OBVIOUS
<1>1. 0 \in 0..BUF_SZ /\ 0 \in Nat /\ MAX_SECT \in Nat
  BY LogDiskAssumption
<1>2. CASE logdisk_init
  <2> SUFFICES ASSUME timeouts = 0 PROVE LogInv'
    BY <1>2 DEF logdisk_init, vars, LogInv
  <2>1. log \in Logs /\ n \in Nat /\ calls' = <<>> /\ UNCHANGED <<vars, n, todo>>
        /\ log' = [log EXCEPT !.ok = TRUE, !.len = 0, !.sect = 0, !.first = n]
    BY <1>2 DEF logdisk_init, LogInv, Idle, vars, ToCome
  <2>2. log' \in Logs /\ log'.len = 0 /\ log'.sect = 0
    BY <1>1, <2>1 DEF Logs
  <2> QED BY <1>1, <2>1, <2>2 DEF LogInv, ToCome, Front, Page, OnDisk, Stored
<1>3. CASE logdisk_sink
  BY <1>3, SinkKeepsLog
<1>4. CASE FlushFull
  <2> SUFFICES ASSUME timeouts = 0 PROVE LogInv'
    BY <1>4 DEF FlushFull, vars, LogInv
  <2>1. log \in Logs /\ calls' = <<>> /\ UNCHANGED <<vars, n, todo>>
        /\ log' = [log EXCEPT !.len = 0]
    BY <1>4 DEF FlushFull, Flush, LogInv, vars
  <2>2. log' \in Logs /\ log'.len = 0 /\ log'.sect = log.sect /\ log'.disk = log.disk
    BY <1>1, <2>1 DEF Logs
  <2> QED BY <1>1, <2>1, <2>2 DEF LogInv, ToCome, Front, Page, OnDisk, Stored
<1>5. CASE FlushCall
  BY <1>5, FlushCallKeepsLog
<1>6. CASE FlushReturns
  BY <1>6, FlushReturnsKeepsLog
<1>7. CASE \E k \in Lens : out_str(k)
  BY <1>7, OutKeepsLog
<1>8. CASE (Ring \/ Fetch) /\ UNCHANGED logvars
  <2>1. UNCHANGED <<log, n, todo, want, issued, done, timeouts>>
        /\ (calls' # <<>> => calls # <<>>)
    BY <1>8 DEF logvars, Ring, Fetch, driver, device
  <2> QED BY <2>1 DEF LogInv, ToCome, Front, Page, OnDisk, Stored, Flushing, Written, Sectors
<1>9. CASE \E c \in Cmd : Done(c)
  BY <1>9, DoneKeepsLog
<1>10. CASE UNCHANGED allvars
  BY <1>10 DEF allvars, vars, logvars, LogInv, ToCome, Front, Page, OnDisk, Stored, Flushing,
               Written, Sectors
<1> QED
  BY <1>2, <1>3, <1>4, <1>5, <1>6, <1>7, <1>8, <1>9, <1>10 DEF LogNext

(* The invariant of the log on disk, with that of the queues below it.     *)
LEMMA LogInvariant == LogSpec => [](Ring_ /\ SqInv /\ Single /\ LogInv)
<1>1. Spec => [](Ring_ /\ SqInv /\ Single)
  BY RingInit, StepKeepsRing, SqInit, StepKeepsSq, SingleInit, SingleStep, PTL DEF Spec
<1> QED BY <1>1, LogUsesQueue, LogInvInit, StepKeepsLog, PTL DEF LogSpec

(* The region reads as the log in order, whatever fails and however full   *)
(* the pages are (logdisk.h:22-54).                                        *)
THEOREM LogInOrder == LogSpec => []StoredInOrder
<1>1. LogInv => StoredInOrder
  BY DEF LogInv, OnDisk, StoredInOrder
<1> QED BY <1>1, LogInvariant, PTL

(* The first log stays on the disk: no step changes a sector that counts   *)
(* as written (logdisk.h:4-5).                                             *)
THEOREM FirstLogIsKept == LogSpec => FirstLogStays
<1>1. Ring_ /\ SqInv /\ Single /\ LogInv /\ [LogNext]_allvars
        => [timeouts = 0 => \A i \in Stored : log'.disk[i] = log.disk[i]]_allvars
  <2> SUFFICES ASSUME SqInv, Single, LogInv, [LogNext]_allvars, timeouts = 0
               PROVE  \A i \in Stored : log'.disk[i] = log.disk[i]
    OBVIOUS
  <2>1. log \in Logs
    BY DEF LogInv
  <2>2. CASE logdisk_init \/ logdisk_sink \/ FlushFull \/ FlushReturns
    <3>1. log'.disk = log.disk
      BY <2>1, <2>2 DEF Logs, logdisk_init, logdisk_sink, FlushFull, FlushReturns
    <3> QED BY <3>1
  <2>3. CASE FlushCall \/ (\E k \in Lens : out_str(k))
             \/ ((Ring \/ Fetch) /\ UNCHANGED logvars) \/ UNCHANGED allvars
    BY <2>3 DEF FlushCall, out_str, logvars, allvars
  <2>4. CASE \E c \in Cmd : Done(c)
    BY <2>4, DoneWrites
  <2> QED BY <2>2, <2>3, <2>4 DEF LogNext
<1> QED BY <1>1, LogInvariant, PTL DEF LogSpec, FirstLogStays

(* Where a byte is kept; and while nothing has failed and there is room,   *)
(* every byte is.                                                          *)
InPage(b)   == \E i \in 0..log.len-1 : log.buf[i] = b
InRegion(b) == \E i \in Stored, k \in 0..SECT-1 : log.disk[i][k] = b
InMessage(b) == \E i \in 1..Len(todo) : todo[i] = b

AllWell == /\ log.ok /\ timeouts = 0 /\ \A c \in DOMAIN done : done[c] = 0
           /\ log.sect + BUF_SZ \div SECT <= MAX_SECT

AllKept == AllWell => \A b \in log.first+1..n : InPage(b) \/ InRegion(b) \/ InMessage(b)

(* What is kept stays kept when page and region only grow.                 *)
LEMMA KeptWhereItWas ==
  ASSUME log \in Logs, log' \in Logs, AllKept, AllWell, UNCHANGED <<n, log.first>>,
         log'.len >= log.len, log'.sect = log.sect,
         \A i \in 0..log.len-1 : log'.buf[i] = log.buf[i],
         \A i \in Stored : log'.disk[i] = log.disk[i],
         \A b : InMessage(b) => InPage(b)' \/ InMessage(b)'
  PROVE  AllKept'
<1>1. log.len \in Nat /\ log'.len \in Nat
  BY LogDiskAssumption DEF Logs
<1>2. ASSUME NEW b, InPage(b) PROVE InPage(b)'
  <2>1. PICK i \in 0..log.len-1 : log.buf[i] = b
    BY <1>2 DEF InPage
  <2>2. i \in 0..log'.len-1 /\ log'.buf[i] = b
    BY <1>1, <2>1
  <2> QED BY <2>2 DEF InPage
<1>3. ASSUME NEW b, InRegion(b) PROVE InRegion(b)'
  BY <1>3 DEF InRegion, Stored
<1> QED BY <1>2, <1>3 DEF AllKept

(* The flush has written what was in the page.                             *)
LEMMA PageIsWritten ==
  ASSUME log \in Logs, Written,
         log' \in Logs, log'.sect = log.sect + Sectors(log.len), log'.disk = log.disk,
         NEW b, InPage(b)
  PROVE  InRegion(b)'
<1>1. PICK i \in 0..log.len-1 : log.buf[i] = b
  BY DEF InPage
<1>2. log.len \in 0..BUF_SZ /\ log.sect \in Nat /\ Sectors(log.len) \in Nat
  BY SectorsCover, LogDiskAssumption DEF Logs
<1> DEFINE m == i \div SECT
           k == i % SECT
<1>3. m \in 0..Sectors(log.len)-1 /\ k \in 0..SECT-1 /\ (m * SECT) + k = i
  BY <1>2, SectorsCover
<1> HIDE DEF m, k
<1>4. log.disk[log.sect + m][k] = b
  BY <1>1, <1>3 DEF Written
<1>5. log.sect + m \in 0..log'.sect-1
  BY <1>2, <1>3
<1> QED BY <1>3, <1>4, <1>5 DEF InRegion, Stored

(* What was well before a step is found well after it.                     *)
LEMMA StepKeepsAll ==
  Ring_ /\ SqInv /\ Single /\ LogInv /\ AllKept /\ [LogNext]_allvars => AllKept'
<1> SUFFICES ASSUME Ring_, SqInv, Single, LogInv, AllKept, [LogNext]_allvars, AllWell'
             PROVE  AllKept'
  BY DEF AllKept
<1>1. LogInv'
  BY StepKeepsLog
<1>2. timeouts = 0
  <2>1. timeouts' = 0 /\ timeouts \in Nat
    BY NvmeAssumption DEF AllWell, SqInv
  <2>2. CASE TimeOut
    BY <2>1, <2>2 DEF TimeOut
  <2> QED BY <2>1, <2>2, LogStepIsQueueStep
          DEF Next, Controller, Complete, Fetch, Ring, Take, Call, Submit, vars
<1>3. log \in Logs /\ log' \in Logs /\ n \in Nat /\ BUF_SZ \div SECT \in Nat
  <2>1. log \in Logs /\ n \in Nat /\ log' \in Logs
    BY <1>1, <1>2 DEF LogInv, ToCome, AllWell
  <2>2. BUF_SZ \in Nat /\ SECT \in Nat \ {0}
    BY LogDiskAssumption
  <2> QED BY <2>1, <2>2
<1>4. CASE logdisk_init
  <2>1. log'.first = n /\ n' = n
    BY <1>3, <1>4 DEF logdisk_init, Logs
  <2> QED BY <1>3, <2>1 DEF AllKept
<1>5. CASE logdisk_sink
  <2>1. PICK k \in 1..Len(todo) :
           /\ log' \in Logs /\ log'.len = log.len + k
           /\ UNCHANGED <<log.ok, log.sect, log.first, log.disk, vars, n>>
           /\ \A i \in 0..log.len-1 : log'.buf[i] = log.buf[i]
           /\ \A i \in 1..k : log'.buf[log.len + i - 1] = todo[i]
           /\ todo' \in Seq(Nat) /\ Len(todo') = Len(todo) - k
           /\ \A i \in 1..Len(todo)-k : todo'[i] = todo[k + i]
    BY <1>2, <1>5, SinkMoves
  <2>2. log.len \in Nat /\ Len(todo) \in Nat /\ k \in Nat /\ k <= Len(todo) /\ k >= 1
    BY <1>2, <1>3 DEF Logs, LogInv, ToCome
  <2>3. AllWell
    BY <1>2, <2>1 DEF AllWell, vars
  <2>4. ASSUME NEW b, InMessage(b) PROVE InPage(b)' \/ InMessage(b)'
    <3>1. PICK i \in 1..Len(todo) : todo[i] = b
      BY <2>4 DEF InMessage
    <3>2. CASE i <= k
      <4>1. log'.buf[log.len + i - 1] = b /\ log.len + i - 1 \in 0..log'.len-1
        BY <2>1, <2>2, <3>1, <3>2
      <4> QED BY <4>1 DEF InPage
    <3>3. CASE i > k
      <4>1. i - k \in 1..Len(todo)-k /\ k + (i - k) = i
        BY <2>2, <3>3
      <4>2. todo'[i - k] = b /\ i - k \in 1..Len(todo')
        BY <2>1, <3>1, <4>1
      <4> QED BY <4>2 DEF InMessage
    <3> QED BY <2>2, <3>2, <3>3
  <2>5. log'.len >= log.len
    BY <2>1, <2>2
  <2> QED BY <1>3, <2>1, <2>3, <2>4, <2>5, KeptWhereItWas
<1>6. CASE FlushFull
  <2>1. log.sect + BUF_SZ \div SECT <= MAX_SECT /\ ~(log.sect + Sectors(log.len) <= MAX_SECT)
    BY <1>3, <1>6 DEF FlushFull, Fits, Place, AllWell, Logs
  <2>2. Sectors(log.len) \in 0..BUF_SZ \div SECT /\ log.sect \in Nat /\ MAX_SECT \in Nat
    BY <1>3, SectorsCover, LogDiskAssumption DEF Logs
  <2> QED BY <1>3, <2>1, <2>2
<1>7. CASE FlushReturns
  <2>1. /\ Take /\ calls # <<>> /\ UNCHANGED <<n, todo, done, timeouts>>
        /\ log' = [log EXCEPT !.len = 0, !.sect = SectAfter(log, ret'.rc)]
    BY <1>2, <1>7 DEF FlushReturns, Take, TimeOut, AllWell, device
  <2>2. Under("poll") /\ issued \in DOMAIN done /\ cq[head].sc = done[issued]
    <3>1. posted > consumed /\ posted \in Nat /\ consumed \in Nat
      BY <2>1, RingTells DEF Take, PhaseTells, Ring_
    <3>2. Stage /\ calls[Len(calls)].at = "poll"
      BY <1>2, <2>1 DEF Single, Take, Top
    <3> QED BY <2>1, <3>1, <3>2 DEF Stage, NoneLeft, Under
  <2>3. done[issued] = 0 /\ ret'.rc = 0
    BY <2>1, <2>2 DEF Take, AllWell
  <2>4. /\ log'.len = 0 /\ log'.sect = log.sect + Sectors(log.len)
        /\ UNCHANGED <<log.ok, log.first, log.disk>>
    BY <1>3, <2>1, <2>3 DEF Logs, SectAfter, Place
  <2>5. Written /\ Sectors(log.len) \in Nat /\ log.sect \in Nat
    BY <1>2, <1>3, <2>1, <2>2, <2>3, SectorsCover, LogDiskAssumption DEF LogInv, Flushing, Logs
  <2>6. AllWell
    <3>1. log'.sect >= log.sect /\ log'.sect \in Nat /\ MAX_SECT \in Nat
      BY <2>4, <2>5, LogDiskAssumption
    <3> QED BY <1>2, <1>3, <2>1, <2>4, <2>5, <3>1 DEF AllWell
  <2>7. \A b : InPage(b) => InRegion(b)'
    BY <1>3, <2>4, <2>5, PageIsWritten
  <2>8. ASSUME NEW b, InRegion(b) PROVE InRegion(b)'
    <3>1. PICK i \in Stored, k \in 0..SECT-1 : log.disk[i][k] = b
      BY <2>8 DEF InRegion
    <3>2. i \in Stored'
      BY <2>4, <2>5 DEF Stored
    <3> QED BY <2>4, <3>1, <3>2 DEF InRegion
  <2> QED BY <2>1, <2>4, <2>6, <2>7, <2>8 DEF AllKept, InMessage
<1>8. ASSUME NEW k \in Lens, out_str(k) PROVE AllKept'
  <2>1. /\ k \in Nat /\ todo = <<>> /\ n' = n + k /\ UNCHANGED <<vars, log>>
        /\ log.ok /\ todo' = [i \in 1..k |-> n + i]
    BY <1>8, LogDiskAssumption DEF out_str, Idle, AllWell
  <2>2. AllWell /\ \A b : ~InMessage(b)
    BY <2>1 DEF AllWell, vars, InMessage
  <2>3. Len(todo') = k /\ \A i \in 1..k : todo'[i] = n + i
    BY <2>1
  <2>4. ASSUME NEW b \in n+1..n+k PROVE InMessage(b)'
    <3>1. b - n \in 1..k /\ n + (b - n) = b
      BY <1>3, <2>1
    <3> QED BY <2>3, <3>1 DEF InMessage
  <2>5. ASSUME NEW b \in log.first+1..n PROVE InPage(b)' \/ InRegion(b)'
    BY <2>1, <2>2 DEF AllKept, InPage, InRegion, Stored
  <2>6. \A b \in log.first+1..n+k : b \in log.first+1..n \/ b \in n+1..n+k
    BY <1>3, <2>1
  <2> QED BY <2>1, <2>4, <2>5, <2>6 DEF AllKept
<1>9. CASE FlushCall \/ ((Ring \/ Fetch) /\ UNCHANGED logvars) \/ UNCHANGED allvars
  <2>1. UNCHANGED <<log, n, todo, done, timeouts>>
    BY <1>9 DEF FlushCall, Call, Submit, Ring, Fetch, device, logvars, allvars, vars
  <2> QED BY <2>1 DEF AllKept, AllWell, InPage, InRegion, InMessage, Stored
<1>10. ASSUME NEW c \in Cmd, Done(c) PROVE AllKept'
  <2>1. /\ \A d \in DOMAIN done : d \in DOMAIN done' /\ done'[d] = done[d]
        /\ UNCHANGED <<n, todo, log.ok, log.len, log.sect, log.first, log.buf>>
        /\ \A i \in Stored : log'.disk[i] = log.disk[i]
    BY <1>2, <1>10, DoneWrites
  <2>2. AllWell
    BY <1>2, <2>1 DEF AllWell
  <2>3. log'.len >= log.len
    BY <1>3, <2>1, LogDiskAssumption DEF Logs
  <2>4. \A b : InMessage(b) => InMessage(b)'
    BY <2>1 DEF InMessage
  <2> QED BY <1>3, <2>1, <2>2, <2>3, <2>4, KeptWhereItWas
<1> QED
  BY <1>4, <1>5, <1>6, <1>7, <1>8, <1>9, <1>10 DEF LogNext

(* While there is room and no write has failed, all that was logged since  *)
(* the sink was installed is in the page, on the disk, or on its way to    *)
(* the page (kernel.cpp:919).                                              *)
THEOREM LogIsKept == LogSpec => []NothingLost
<1>1. LogInit => AllKept
  BY DEF LogInit, AllKept, AllWell
<1>2. LogInv /\ AllKept => NothingLost
  <2> SUFFICES ASSUME LogInv, AllKept, AllWell,
                      NEW b \in log.first+1..n
               PROVE  b \in {log.buf[i] : i \in 0..log.len-1}
                            \cup {log.disk[i][k] : i \in Stored, k \in 0..SECT-1}
                            \cup {todo[i] : i \in DOMAIN todo}
    BY DEF NothingLost, AllWell
  <2>1. DOMAIN todo = 1..Len(todo)
    BY DEF LogInv, ToCome, AllWell
  <2>2. InPage(b) \/ InRegion(b) \/ InMessage(b)
    BY DEF AllKept
  <2> QED BY <2>1, <2>2 DEF InPage, InRegion, InMessage
<1> QED BY <1>1, <1>2, LogInvariant, StepKeepsAll, PTL DEF LogSpec

=============================================================================
