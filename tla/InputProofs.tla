----------------------------- MODULE InputProofs -----------------------------
(***************************************************************************)
(* For every FIFO, every supply of keys, packets and ticks and every       *)
(* number of exceptions: the dead screen is painted at most once and with  *)
(* interrupts disabled, whatever an interrupt came upon goes on with its   *)
(* registers, a system call returns, the mouse's decoder stays in step and *)
(* the keys keep their order.                                              *)
(***************************************************************************)
EXTENDS Input, SequenceTheorems, TLAPS

(* Where the dead screen has been begun.                                   *)
InDs == {"guard", "paint", "painted", "dead"}

(* The inductive invariant: interrupts are disabled and no handler runs    *)
(* from the test of the guard on, and it is the guard that makes painted 1.*)
DeadInv ==
  /\ at \in InDs => pc = "running" /\ ~iflag
  /\ ds.painted \in {0, 1} /\ ds.entered \in BOOLEAN
  /\ ~ds.entered => ds.painted = 0
  /\ at = "paint" => ds.entered /\ ds.painted = 0
  /\ ds = [entered |-> ds.entered, painted |-> ds.painted, faults |-> ds.faults]

(* A step that stays outside the dead screen.                              *)
LEMMA OutsideDs == ASSUME DeadInv, at' \notin InDs, ds' = ds PROVE DeadInv'
BY DEF DeadInv, InDs

(* Starting, the main loop and the user program.                           *)
LEMMA ProgramOutside == DeadInv /\ (Start \/ Loop \/ User) => at' \notin InDs /\ ds' = ds
<1> SUFFICES ASSUME DeadInv, Start \/ Loop \/ User PROVE at' \notin InDs /\ ds' = ds
  OBVIOUS
<1>1. CASE Start
  BY <1>1 DEF Start, pic_init, EnableKeyboard, Poll, EnableMouse, Drain, FirstSti, FirstCli,
              Program, Only_at, InDs
<1>2. CASE Loop
  <2>1. CASE HandleKey
    BY <2>1 DEF HandleKey, Again, InDs
  <2> QED BY <1>2, <2>1 DEF Loop, Top, FgEmpty, FgRead, FgCount, KeySti, Sleep, Leave,
                          jump_user, Program, Only_at, InDs
<1>3. CASE User
  BY <1>3 DEF User, Syscall, Entry, Dispatch, Answer, Answered, Program, Only_at, InDs
<1> QED BY <1>1, <1>2, <1>3

(* Interrupts come only while they are enabled, so not in the dead screen. *)
LEMMA ServiceOutside == DeadInv /\ Service => at \notin InDs /\ at' \notin InDs /\ ds' = ds
<1> SUFFICES ASSUME DeadInv, Service PROVE at \notin InDs /\ at' \notin InDs /\ ds' = ds
  OBVIOUS
<1>1. at \notin InDs
  <2>1. CASE Accept BY <2>1 DEF Accept, Interrupt, DeadInv
  <2>2. CASE Eoi BY <2>2 DEF Eoi, DeadInv
  <2>3. CASE isr20 \/ NoInput \/ isr21 \/ isr2c
    BY <2>3 DEF isr20, NoInput, isr21, isr2c, Done, DeadInv
  <2>4. CASE iretq \/ sysretq BY <2>4 DEF iretq, sysretq, Return, DeadInv
  <2> QED BY <2>1, <2>2, <2>3, <2>4 DEF Service
<1>2. at' \in {at, "top"} /\ ds' = ds
  BY DEF Service, Accept, Eoi, isr20, NoInput, isr21, isr2c, Only_at
<1> QED BY <1>1, <1>2 DEF InDs

(* The way into the dead screen.                                           *)
LEMMA DeadKeeps == DeadInv /\ Dead => DeadInv'
<1> SUFFICES ASSUME DeadInv, Dead PROVE DeadInv' OBVIOUS
<1>1. CASE exc_handler
  BY <1>1, OutsideDs DEF exc_handler, Program, Only_at, InDs
<1>2. CASE DsLog
  BY <1>2 DEF DsLog, Program, SetIF, Only_at, DeadInv
<1>3. CASE DsGuard
  <2>1. /\ pc = "running" /\ at = "guard" /\ pc' = pc /\ iflag' = iflag
        /\ at' = (IF ds.entered THEN "dead" ELSE "paint")
        /\ ds' = [ds EXCEPT !.entered = TRUE]
    BY <1>3 DEF DsGuard, Guard, cpuvars
  <2>2. /\ ds'.entered = TRUE /\ ds'.painted = ds.painted
        /\ ds' = [entered |-> ds'.entered, painted |-> ds'.painted, faults |-> ds'.faults]
    BY <2>1 DEF DeadInv
  <2> QED BY <2>1, <2>2 DEF DeadInv, InDs
<1>4. CASE DsPaint
  <2>1. /\ pc = "running" /\ at = "paint" /\ at' = "painted" /\ pc' = pc /\ iflag' = iflag
        /\ ds' = [ds EXCEPT !.painted = @ + 1]
    BY <1>4 DEF DsPaint, Program, cpuvars
  <2>2. /\ ds'.entered = ds.entered /\ ds'.painted = 1 /\ ds.entered
        /\ ds' = [entered |-> ds'.entered, painted |-> ds'.painted, faults |-> ds'.faults]
    BY <2>1 DEF DeadInv
  <2> QED BY <2>1, <2>2 DEF DeadInv, InDs
<1>5. CASE DsHalt
  BY <1>5 DEF DsHalt, Program, Only_at, cpuvars, DeadInv, InDs
<1> QED BY <1>1, <1>2, <1>3, <1>4, <1>5 DEF Dead

(* The dead screen is painted once, with interrupts disabled, however many *)
(* exceptions its own making brings (dead_screen.h:9-17).                  *)
THEOREM DeadScreenOnce == Spec => []DeadOnce
<1>1. Init => DeadInv
  BY DEF Init, CpuInit, Alive, DeadInv, InDs
<1>2. DeadInv /\ [Next]_vars => DeadInv'
  <2> SUFFICES ASSUME DeadInv, [Next]_vars PROVE DeadInv' OBVIOUS
  <2>1. CASE Device
    BY <2>1 DEF Device, DeadInv, cpuvars, kernvars
  <2>2. CASE Start \/ Loop \/ User
    <3>1. at' \notin InDs /\ ds' = ds BY <2>2, ProgramOutside
    <3> QED BY <3>1, OutsideDs
  <2>3. CASE Service
    <3>1. at' \notin InDs /\ ds' = ds BY <2>3, ServiceOutside
    <3> QED BY <3>1, OutsideDs
  <2>4. CASE Dead BY <2>4, DeadKeeps
  <2>5. CASE Fault
    <3>1. at' = "exc" /\ ds' = [ds EXCEPT !.faults = @ + 1] BY <2>5 DEF Fault
    <3>2. /\ ds'.entered = ds.entered /\ ds'.painted = ds.painted
          /\ ds' = [entered |-> ds'.entered, painted |-> ds'.painted, faults |-> ds'.faults]
      BY <3>1 DEF DeadInv
    <3> QED BY <3>1, <3>2 DEF DeadInv, InDs
  <2>6. CASE UNCHANGED vars
    BY <2>6 DEF vars, cpuvars, kernvars, DeadInv
  <2> QED BY <2>1, <2>2, <2>3, <2>4, <2>5, <2>6 DEF Next, Cpu
<1>3. DeadInv => DeadOnce BY DEF DeadInv, DeadOnce, InDs
<1> QED BY <1>1, <1>2, <1>3, PTL DEF Spec

-----------------------------------------------------------------------------
(* Two sequences put together, by index.                                   *)
LEMMA Joined ==
  ASSUME NEW S, NEW s \in Seq(S), NEW t \in Seq(S)
  PROVE  /\ s \o t \in Seq(S) /\ Len(s \o t) = Len(s) + Len(t)
         /\ Len(s) \in Nat /\ Len(t) \in Nat /\ DOMAIN (s \o t) = 1..Len(s) + Len(t)
         /\ \A i \in 1..Len(s) : (s \o t)[i] = s[i]
         /\ \A i \in 1..Len(t) : (s \o t)[Len(s) + i] = t[i]
<1> DEFINE n == Len(s)
           m == Len(t)
           u == s \o t
<1>1. n \in Nat /\ m \in Nat /\ u \in Seq(S) /\ Len(u) = n + m
  BY ConcatProperties, LenProperties
<1>2. \A i \in 1..n + m : u[i] = IF i <= n THEN s[i] ELSE t[i - n]
  BY ConcatProperties
<1> HIDE DEF n, m, u
<1>3. DOMAIN u = 1..n + m
  BY <1>1, LenProperties
<1>4. \A i \in 1..n : u[i] = s[i]
  BY <1>1, <1>2
<1>5. \A i \in 1..m : u[n + i] = t[i]
  <2> TAKE i \in 1..m
  <2>1. n + i \in 1..n + m /\ ~(n + i <= n) /\ (n + i) - n = i
    BY <1>1
  <2> QED
    BY <1>2, <2>1
<1> QED
  BY <1>1, <1>3, <1>4, <1>5 DEF n, m, u

(* What a register may hold.                                               *)
Values == Registers \cup {"junk", "cs", "rsp", "ss", "entry", "flags"}

(* A list of different registers.                                          *)
Distinct(ns) == ns \in Seq(Registers) /\ \A i, j \in 1..Len(ns) : ns[i] = ns[j] => i = j

LEMMA SavedNames == Distinct(Saved) /\ Len(Saved) = 15 /\ ToSet(Saved) = Registers \ {"rip", "rflags"}
<1>1. Saved \in Seq(Registers)
  <2>1. ToSet(Saved) \subseteq Registers
    BY DEF Registers
  <2>2. \A i \in 1..15 : Saved[i] \in ToSet(Saved)
    BY DEF ToSet, Saved
  <2> QED
    BY <2>1, <2>2 DEF Saved
<1>2. \A i, j \in 1..Len(Saved) : Saved[i] = Saved[j] => i = j
  BY DEF Saved
<1>3. Len(Saved) = 15
  BY DEF Saved
<1>4. "rip" \notin ToSet(Saved) /\ "rflags" \notin ToSet(Saved)
  BY DEF Saved, ToSet
<1> QED
  BY <1>1, <1>2, <1>3, <1>4 DEF Distinct, Registers

LEMMA SysNames ==
  /\ Distinct(SysSaved) /\ Len(SysSaved) = 8 /\ SysArgs \in Seq(Registers) /\ Len(SysArgs) = 6
  /\ ToSet(SysSaved) = {"rbx", "rbp", "r12", "r13", "r14", "r15", "r11", "rcx"}
  /\ ToSet(SysSaved \o SysArgs) \subseteq Registers \ {"rax", "rip", "rflags"}
<1>1. \A i \in 1..8 : SysSaved[i] \in ToSet(Saved)
  BY DEF SysSaved, Saved, ToSet
<1>2. \A i \in 1..6 : SysArgs[i] \in ToSet(Saved)
  BY DEF SysArgs, Saved, ToSet
<1>3. SysSaved \in Seq(Registers) /\ SysArgs \in Seq(Registers) /\ Len(SysSaved) = 8 /\ Len(SysArgs) = 6
  BY <1>1, <1>2 DEF SysSaved, SysArgs, Registers
<1>4. \A i, j \in 1..Len(SysSaved) : SysSaved[i] = SysSaved[j] => i = j
  BY DEF SysSaved
<1>5. ToSet(SysSaved) = {"rbx", "rbp", "r12", "r13", "r14", "r15", "r11", "rcx"}
  BY DEF SysSaved, ToSet
<1>6. \A i \in 1..14 : (SysSaved \o SysArgs)[i] \in ToSet(Saved) \ {"rax", "rip", "rflags"}
  BY <1>1, <1>2 DEF SysSaved, SysArgs, ToSet
<1>7. DOMAIN (SysSaved \o SysArgs) = 1..14
  <2> DEFINE s == SysSaved
             t == SysArgs
  <2>1. s \in Seq(Registers) /\ t \in Seq(Registers)
    BY <1>3
  <2>2. Len(s) + Len(t) = 14
    BY <1>3
  <2>3. s \o t = SysSaved \o SysArgs
    OBVIOUS
  <2> HIDE DEF s, t
  <2>4. DOMAIN (s \o t) = 1..Len(s) + Len(t)
    BY ONLY <2>1, Joined
  <2> QED
    BY ONLY <2>2, <2>3, <2>4
<1>8. ToSet(SysSaved \o SysArgs) \subseteq Registers \ {"rax", "rip", "rflags"}
  BY <1>6, <1>7 DEF ToSet, Registers
<1> QED
  BY <1>3, <1>4, <1>5, <1>8 DEF Distinct

-----------------------------------------------------------------------------
(* What is pushed, the last register first.                                *)
LEMMA PushedIs ==
  ASSUME NEW rs \in [Registers -> Values], NEW ns \in Seq(Registers)
  PROVE  /\ Pushed(rs, ns) \in Seq(Values) /\ Len(Pushed(rs, ns)) = Len(ns)
         /\ \A i \in 1..Len(ns) : Pushed(rs, ns)[i] = rs[ns[Len(ns) + 1 - i]]
<1> DEFINE n == Len(ns)
           f == [i \in 1..n |-> rs[ns[i]]]
           g == [i \in 1..n |-> f[(n - i) + 1]]
<1>1. n \in Nat /\ DOMAIN ns = 1..n /\ \A i \in 1..n : ns[i] \in Registers
  OBVIOUS
<1>2. f \in [1..n -> Values] /\ f \in Seq(Values) /\ Len(f) = n
  BY <1>1
<1>3. Pushed(rs, ns) = g
  BY <1>1, <1>2 DEF Pushed, Reverse
<1>4. \A i \in 1..n : (n - i) + 1 \in 1..n /\ (n - i) + 1 = n + 1 - i
  BY <1>1
<1>5. \A i \in 1..n : g[i] = rs[ns[n + 1 - i]] /\ g[i] \in Values
  BY <1>2, <1>4
<1>6. g \in Seq(Values) /\ Len(g) = n
  BY <1>1, <1>5
<1> QED
  BY <1>3, <1>5, <1>6

(* Dropping what lies on top.                                              *)
LEMMA DropIs ==
  ASSUME NEW S, NEW s \in Seq(S), NEW t \in Seq(S), NEW n \in Nat, Len(s) = n
  PROVE  Drop(s \o t, n) = t
<1> DEFINE u == s \o t
           m == Len(t)
<1>1. u \in Seq(S) /\ Len(u) = n + m /\ m \in Nat /\ \A i \in 1..m : u[n + i] = t[i]
  OBVIOUS
<1>2. Drop(u, n) = SubSeq(u, n + 1, n + m)
  BY <1>1 DEF Drop
<1> HIDE DEF u
<1>3. \A i \in n+1..n+m : u[i] \in S
  BY <1>1
<1>4. /\ Drop(u, n) \in Seq(S) /\ Len(Drop(u, n)) = m
      /\ \A i \in 1..m : Drop(u, n)[i] = t[i]
  BY <1>1, <1>2, <1>3, SubSeqProperties
<1> QED
  BY <1>1, <1>4, SeqEqual DEF u

(* Pops in the reverse order give each register back what it held.         *)
LEMMA PoppedIs ==
  ASSUME NEW rs \in [Registers -> Values], NEW q \in [Registers -> Values],
         NEW ns, Distinct(ns), NEW t \in Seq(Values)
  PROVE  /\ Popped(q, Pushed(rs, ns) \o t, ns) \in [Registers -> Values]
         /\ \A r \in Registers \cap ToSet(ns) : Popped(q, Pushed(rs, ns) \o t, ns)[r] = rs[r]
         /\ \A r \in Registers \ ToSet(ns) : Popped(q, Pushed(rs, ns) \o t, ns)[r] = q[r]
<1> DEFINE n == Len(ns)
           st == Pushed(rs, ns) \o t
<1>1. ns \in Seq(Registers) /\ n \in Nat /\ DOMAIN ns = 1..n
  BY DEF Distinct
<1>2. \A i \in 1..n : st[i] = rs[ns[n + 1 - i]]
  <2> DEFINE p == Pushed(rs, ns)
  <2>1. p \in Seq(Values) /\ Len(p) = n /\ \A i \in 1..n : p[i] = rs[ns[n + 1 - i]]
    BY <1>1, PushedIs
  <2> HIDE DEF p
  <2>2. \A i \in 1..n : (p \o t)[i] = p[i]
    BY <2>1, Joined
  <2> QED
    BY <2>1, <2>2 DEF p
<1> HIDE DEF st
<1>3. ASSUME NEW r \in ToSet(ns) PROVE st[n + 1 - (CHOOSE i \in DOMAIN ns : ns[i] = r)] = rs[r]
  <2> DEFINE c == CHOOSE i \in DOMAIN ns : ns[i] = r
  <2>1. \E i \in DOMAIN ns : ns[i] = r
    BY DEF ToSet
  <2>2. c \in 1..n /\ ns[c] = r
    BY <1>1, <2>1
  <2> HIDE DEF c
  <2>3. n + 1 - c \in 1..n /\ n + 1 - (n + 1 - c) = c
    BY <1>1, <2>2
  <2>4. st[n + 1 - c] = rs[ns[c]]
    BY <1>2, <2>3
  <2> QED
    BY <2>2, <2>4 DEF c
<1> DEFINE f == [r \in Registers |-> IF r \in ToSet(ns) THEN rs[r] ELSE q[r]]
<1>4. ASSUME NEW r \in Registers
      PROVE  (IF r \in ToSet(ns) THEN st[n + 1 - (CHOOSE i \in DOMAIN ns : ns[i] = r)] ELSE q[r]) = f[r]
  BY <1>3
<1>5. Popped(q, st, ns) = f
  BY <1>4, Zenon DEF Popped
<1> HIDE DEF f
<1>6. Popped(q, st, ns) \in [Registers -> Values]
  BY <1>5 DEF f
<1>7. /\ \A r \in Registers \cap ToSet(ns) : Popped(q, st, ns)[r] = rs[r]
      /\ \A r \in Registers \ ToSet(ns) : Popped(q, st, ns)[r] = q[r]
  BY <1>5 DEF f
<1> QED
  BY <1>6, <1>7 DEF st

-----------------------------------------------------------------------------
(* What lies on the stack while a stub runs, and before it came.           *)
Frame(rs)    == <<rs["rip"], "cs", rs["rflags"], "rsp", "ss">>
StubFrame(rs) == Pushed(rs, Saved) \o Frame(rs)

InCall    == {"entry", "dispatch", "answer", "sysret"}
EntryRegs == [Own EXCEPT !["rcx"] = "rip", !["r11"] = "rflags", !["rip"] = "entry", !["rflags"] = "flags"]
CallFrame == Pushed(EntryRegs, SysSaved \o SysArgs)
Base      == IF at \in {"dispatch", "answer"} THEN CallFrame ELSE <<>>

(* What the system call counts on at place a.                              *)
Holds(a, rs) ==
  /\ a = "entry" => \A r \in Registers \ {"rax", "rip", "rflags"} : rs[r] = EntryRegs[r]
  /\ a = "sysret" => \A r \in ToSet(SysSaved) : rs[r] = EntryRegs[r]
  /\ a = "spin" => \A r \in Registers \ CallerSaved : rs[r] = r

(* The inductive invariant of the processor: the stack is what the place   *)
(* in the program says, and what a stub pushed lies on top of it.          *)
CpuInv ==
  /\ regs \in [Registers -> Values] /\ was \in [Registers -> Values]
  /\ pc \in {"running", "handler", "return"}
  /\ pc = "running" => stack = Base /\ Holds(at, regs)
  /\ pc # "running" => stack = StubFrame(was) \o Base /\ Holds(at, was)
  /\ at \in InCall => ring = 0

LEMMA CallFrameIs ==
  /\ EntryRegs \in [Registers -> Values] /\ Own \in [Registers -> Values]
  /\ CallFrame \in Seq(Values) /\ Base \in Seq(Values)
<1>1. EntryRegs \in [Registers -> Values] /\ Own \in [Registers -> Values]
  BY DEF EntryRegs, Own, Values, Registers
<1>2. SysSaved \o SysArgs \in Seq(Registers)
  BY SysNames DEF Distinct
<1>3. CallFrame \in Seq(Values)
  BY <1>1, <1>2, PushedIs DEF CallFrame
<1>4. Base \in Seq(Values)
  BY <1>3, EmptySeq DEF Base
<1> QED
  BY <1>1, <1>3, <1>4

LEMMA StubFrameIs ==
  ASSUME NEW rs \in [Registers -> Values], NEW b \in Seq(Values)
  PROVE  /\ StubFrame(rs) \o b = Pushed(rs, Saved) \o (Frame(rs) \o b)
         /\ Frame(rs) \in Seq(Values) /\ Frame(rs) \o b \in Seq(Values)
         /\ Drop(StubFrame(rs) \o b, Len(Saved)) = Frame(rs) \o b
         /\ Drop(Frame(rs) \o b, FRAME) = b
         /\ (Frame(rs) \o b)[1] = rs["rip"] /\ (Frame(rs) \o b)[2] = "cs"
         /\ (Frame(rs) \o b)[3] = rs["rflags"]
<1>1. Frame(rs) \in Seq(Values) /\ Len(Frame(rs)) = 5
  <2>1. {"rip", "rflags"} \subseteq Registers /\ {"cs", "rsp", "ss"} \subseteq Values
    BY DEF Registers, Values
  <2> QED
    BY <2>1 DEF Frame
<1>2. Pushed(rs, Saved) \in Seq(Values) /\ Len(Pushed(rs, Saved)) = Len(Saved) /\ Len(Saved) \in Nat
  BY PushedIs, SavedNames DEF Distinct
<1>3. StubFrame(rs) \o b = Pushed(rs, Saved) \o (Frame(rs) \o b)
  BY <1>1, <1>2, ConcatAssociative DEF StubFrame
<1>4. Frame(rs) \o b \in Seq(Values)
  BY <1>1
<1>5. Drop(StubFrame(rs) \o b, Len(Saved)) = Frame(rs) \o b
  <2> DEFINE p == Pushed(rs, Saved)
             f == Frame(rs) \o b
             n == Len(Saved)
  <2>1. p \in Seq(Values) /\ f \in Seq(Values) /\ n \in Nat /\ Len(p) = n
    BY <1>2, <1>4
  <2>2. StubFrame(rs) \o b = p \o f
    BY <1>3
  <2> HIDE DEF p, f, n
  <2>3. Drop(p \o f, n) = f
    BY <2>1, DropIs
  <2> QED
    BY <2>2, <2>3 DEF f, n
<1>6. Drop(Frame(rs) \o b, FRAME) = b
  BY <1>1, DropIs DEF FRAME
<1>7. \A i \in 1..3 : (Frame(rs) \o b)[i] = Frame(rs)[i]
  <2> DEFINE f == Frame(rs)
  <2>1. f \in Seq(Values) /\ Len(f) = 5 /\ Len(b) \in Nat
    BY <1>1
  <2> HIDE DEF f
  <2>2. \A i \in 1..Len(f) : (f \o b)[i] = f[i]
    <3>1. f \in Seq(Values) /\ b \in Seq(Values)
      BY <2>1
    <3> QED
      BY ONLY <3>1, Joined
  <2>3. \A i \in 1..3 : i \in 1..Len(f)
    BY <2>1
  <2>4. \A i \in 1..3 : (f \o b)[i] = f[i]
    BY <2>2, <2>3
  <2> QED
    BY <2>4 DEF f
<1>8. Frame(rs)[1] = rs["rip"] /\ Frame(rs)[2] = "cs" /\ Frame(rs)[3] = rs["rflags"]
  BY DEF Frame
<1>9. (Frame(rs) \o b)[1] = rs["rip"] /\ (Frame(rs) \o b)[2] = "cs" /\ (Frame(rs) \o b)[3] = rs["rflags"]
  <2>1. 1 \in 1..3 /\ 2 \in 1..3 /\ 3 \in 1..3
    OBVIOUS
  <2> QED
    BY <1>7, <1>8, <2>1, Zenon
<1> QED
  BY <1>1, <1>3, <1>4, <1>5, <1>6, <1>9

(* The stub gives back every register but those Lost names.                *)
LEMMA ReturnIs ==
  ASSUME CpuInv, NEW r0, NEW rest \in BOOLEAN, Return(r0, rest), rest \/ r0 = 3
  PROVE  /\ stack' = Base /\ regs' \in [Registers -> Values]
         /\ \A r \in Registers \ Lost : regs'[r] = was[r]
<1> DEFINE st == Frame(was) \o Base
           p == Popped(regs, stack, Saved)
           rs == [p EXCEPT !["rax"] = st[2], !["rip"] = st[1], !["rflags"] = st[3]]
<1>1. /\ pc = "return" /\ ring = r0 /\ was \in [Registers -> Values] /\ regs \in [Registers -> Values]
      /\ stack = StubFrame(was) \o Base /\ Base \in Seq(Values)
  BY CallFrameIs DEF Return, CpuInv
<1>2. /\ stack = Pushed(was, Saved) \o st /\ st \in Seq(Values)
      /\ Drop(stack, Len(Saved)) = st /\ Drop(st, FRAME) = Base
      /\ st[1] = was["rip"] /\ st[2] = "cs" /\ st[3] = was["rflags"]
  BY <1>1, StubFrameIs
<1>3. /\ p \in [Registers -> Values]
      /\ \A r \in Registers \cap ToSet(Saved) : p[r] = was[r]
  <2>1. st \in Seq(Values) /\ Distinct(Saved)
    BY <1>2, SavedNames
  <2> HIDE DEF st
  <2> DEFINE pp == Popped(regs, Pushed(was, Saved) \o st, Saved)
  <2>2. pp \in [Registers -> Values] /\ \A r \in Registers \cap ToSet(Saved) : pp[r] = was[r]
    BY <1>1, <2>1, PoppedIs
  <2> QED
    BY <1>2, <2>2
<1>4. /\ stack' = Drop(st, FRAME)
      /\ regs' = IF rest THEN rs ELSE [rs EXCEPT !["rcx"] = st[1], !["r11"] = st[3]]
  BY <1>2 DEF Return
<1> HIDE DEF p, st
<1>5. {"rax", "rip", "rflags", "rcx", "r11"} \subseteq Registers /\ "cs" \in Values
  BY DEF Registers, Values, ToSet, Saved
<1>6. p \in [Registers -> Values]
  BY <1>3
<1>7. rs \in [Registers -> Values] /\ \A r \in Registers \ {"rax"} : rs[r] = was[r]
  <2>1. st[1] \in Values /\ st[2] \in Values /\ st[3] \in Values
    BY <1>1, <1>2, <1>5
  <2>2. rs \in [Registers -> Values]
    BY <1>5, <1>6, <2>1
  <2>3. \A r \in Registers \ {"rax", "rip", "rflags"} : rs[r] = p[r] /\ p[r] = was[r]
    BY <1>3, <1>6, SavedNames
  <2>4. rs["rip"] = st[1] /\ rs["rflags"] = st[3]
    BY <1>5, <1>6
  <2> QED
    BY <1>2, <2>2, <2>3, <2>4
<1> HIDE DEF rs
<1>8. regs' \in [Registers -> Values]
  BY <1>1, <1>2, <1>4, <1>5, <1>7
<1>9. CASE rest
  BY <1>2, <1>4, <1>7, <1>8, <1>9 DEF Lost
<1>10. CASE ~rest
  <2>1. Lost = {"rax", "rcx", "r11"}
    BY <1>1, <1>10 DEF Lost
  <2> QED
    BY <1>2, <1>4, <1>7, <1>8, <1>10, <2>1
<1> QED
  BY <1>9, <1>10

LEMMA RegistersAre ==
  Registers = {"rax", "rcx", "rdx", "rbx", "rbp", "rsi", "rdi", "r8", "r9", "r10", "r11",
               "r12", "r13", "r14", "r15", "rip", "rflags"}
<1>1. ToSet(Saved) = {"rax", "rcx", "rdx", "rbx", "rbp", "rsi", "rdi", "r8", "r9", "r10", "r11",
                      "r12", "r13", "r14", "r15"}
  <2>1. DOMAIN Saved = 1..15
    BY DEF Saved
  <2>2. ToSet(Saved) = {Saved[i] : i \in 1..15}
    BY <2>1 DEF ToSet
  <2>3. 1..15 = {1, 2, 3, 4, 5, 6, 7, 8, 9, 10, 11, 12, 13, 14, 15}
    OBVIOUS
  <2> QED
    BY <2>2, <2>3 DEF Saved
<1> QED
  BY <1>1 DEF Registers

(* Behind the arguments lies what the entry saved.                         *)
LEMMA ArgsDropped == Drop(CallFrame, ArgSlots) = Pushed(EntryRegs, SysSaved)
<1> DEFINE ns == SysSaved \o SysArgs
           f  == CallFrame
           g  == Pushed(EntryRegs, SysSaved)
<1>1. /\ SysSaved \in Seq(Registers) /\ SysArgs \in Seq(Registers)
      /\ Len(SysSaved) = 8 /\ Len(SysArgs) = 6
  BY SysNames DEF Distinct
<1>2. ns \in Seq(Registers) /\ Len(ns) = 14 /\ \A i \in 1..8 : ns[i] = SysSaved[i]
  <2>1. /\ ns \in Seq(Registers) /\ Len(ns) = Len(SysSaved) + Len(SysArgs)
        /\ \A i \in 1..Len(SysSaved) : ns[i] = SysSaved[i]
    <3> DEFINE s == SysSaved
               t == SysArgs
    <3>1. s \in Seq(Registers) /\ t \in Seq(Registers) /\ ns = s \o t
      BY <1>1
    <3> HIDE DEF s, t, ns
    <3>2. /\ ns \in Seq(Registers) /\ Len(ns) = Len(s) + Len(t)
          /\ \A i \in 1..Len(s) : ns[i] = s[i]
      BY ONLY <3>1, Joined
    <3> QED
      BY <3>2 DEF s, t
  <2> HIDE DEF ns
  <2> QED
    BY <1>1, <2>1
<1>3. f \in Seq(Values) /\ Len(f) = Len(ns) /\ \A i \in 1..Len(ns) : f[i] = EntryRegs[ns[Len(ns) + 1 - i]]
  BY <1>2, PushedIs, CallFrameIs DEF CallFrame
<1>4. g \in Seq(Values) /\ Len(g) = Len(SysSaved)
      /\ \A i \in 1..Len(SysSaved) : g[i] = EntryRegs[SysSaved[Len(SysSaved) + 1 - i]]
  BY <1>1, PushedIs, CallFrameIs
<1> HIDE DEF ns, f, g
<1>5. \A i \in 1..8 : f[6 + i] = g[i]
  <2> TAKE i \in 1..8
  <2>1. 6 + i \in 1..14 /\ 14 + 1 - (6 + i) = 9 - i /\ 9 - i \in 1..8 /\ 8 + 1 - i = 9 - i
    OBVIOUS
  <2>2. f[6 + i] = EntryRegs[ns[9 - i]]
    BY <1>2, <1>3, <2>1
  <2>3. g[i] = EntryRegs[SysSaved[9 - i]]
    BY <1>1, <1>4, <2>1
  <2> QED
    BY <1>2, <2>1, <2>2, <2>3
<1>6. f \in Seq(Values) /\ Len(f) = 14 /\ \A i \in 1..14 : f[i] \in Values
  <2>1. f \in Seq(Values) /\ Len(f) = 14
    BY <1>2, <1>3
  <2>2. \A i \in 1..Len(f) : f[i] \in Values
    BY <2>1, ElementOfSeq
  <2> QED
    BY <2>1, <2>2
<1>7. Drop(f, 6) = SubSeq(f, 7, 14)
  BY <1>6 DEF Drop
<1>8. /\ Drop(f, 6) \in Seq(Values) /\ Len(Drop(f, 6)) = 8
      /\ \A i \in 1..8 : Drop(f, 6)[i] = f[6 + i]
  <2>1. \A i \in 7..14 : f[i] \in Values
    BY <1>6
  <2>2. /\ SubSeq(f, 7, 14) \in Seq(Values)
        /\ Len(SubSeq(f, 7, 14)) = IF 7 <= 14 THEN 14 - 7 + 1 ELSE 0
        /\ \A i \in 1..(14 - 7 + 1) : SubSeq(f, 7, 14)[i] = f[7 + i - 1]
    BY <2>1, SubSeqProperties
  <2>3. \A i \in 1..8 : 7 + i - 1 = 6 + i
    OBVIOUS
  <2>4. 14 - 7 + 1 = 8 /\ (IF 7 <= 14 THEN 14 - 7 + 1 ELSE 0) = 8
    OBVIOUS
  <2> QED
    BY <1>7, <2>2, <2>3, <2>4
<1>9. Drop(f, 6) = g
  <2> DEFINE u == Drop(f, 6)
  <2>1. u \in Seq(Values) /\ g \in Seq(Values) /\ Len(u) = 8 /\ Len(g) = 8
    BY <1>1, <1>4, <1>8
  <2>2. \A i \in 1..8 : u[i] = g[i]
    BY <1>5, <1>8
  <2> HIDE DEF u
  <2>3. u = g
    BY <2>1, <2>2, SeqEqual
  <2> QED
    BY <2>3 DEF u
<1> QED
  BY <1>9 DEF f, g, ArgSlots

(* Outside the system call nothing is expected of the registers.           *)
InUser == InCall \cup {"spin"}

LEMMA PlainCpu ==
  ASSUME regs' \in [Registers -> Values], was' \in [Registers -> Values],
         pc' = "running", stack' = <<>>, at' \notin InUser
  PROVE  CpuInv'
BY DEF CpuInv, Base, Holds, InUser, InCall

LEMMA SameCpu ==
  ASSUME CpuInv, UNCHANGED cpuvars, at' = at \/ {at, at'} \cap InUser = {}
  PROVE  CpuInv'
<1>1. /\ regs' = regs /\ was' = was /\ pc' = pc /\ stack' = stack /\ ring' = ring
  BY DEF cpuvars
<1>2. Base' = Base
  BY DEF Base, CallFrame, InUser, InCall
<1>3. (Holds(at, regs) => Holds(at', regs')) /\ (Holds(at, was) => Holds(at', was'))
  BY <1>1 DEF Holds, InUser, InCall
<1>4. at' \in InCall => at \in InCall
  BY DEF InUser
<1>5. StubFrame(was') = StubFrame(was) /\ StubFrame(was)' = StubFrame(was')
  BY <1>1 DEF StubFrame, Frame, Pushed
<1> QED
  BY <1>1, <1>2, <1>3, <1>4, <1>5 DEF CpuInv

(* Starting, the main loop and the way into user mode.                     *)
LEMMA LoopCpu == CpuInv /\ (Start \/ Loop \/ Dead) => CpuInv'
<1> SUFFICES ASSUME CpuInv, Start \/ Loop \/ Dead PROVE CpuInv'
  OBVIOUS
<1>1. /\ pc = "running" /\ at \notin InUser /\ at' \notin InUser
      /\ \/ UNCHANGED cpuvars
         \/ regs' = Own /\ UNCHANGED <<pc, ring, stack, was>>
         \/ jump_user
  <2>1. CASE Start
    BY <2>1 DEF Start, pic_init, EnableKeyboard, Poll, EnableMouse, Drain, FirstSti, FirstCli,
                Program, SetIF, InUser, InCall
  <2>2. CASE HandleKey
    BY <2>2 DEF HandleKey, Again, InUser, InCall
  <2>3. CASE jump_user
    BY <2>3 DEF jump_user, Program, InUser, InCall
  <2>4. CASE Loop /\ ~HandleKey /\ ~jump_user
    BY <2>4 DEF Loop, Top, FgEmpty, FgRead, FgCount, KeySti, Sleep, Leave, Program, SetIF, InUser, InCall
  <2>5. CASE Dead
    BY <2>5 DEF Dead, exc_handler, DsLog, DsGuard, DsPaint, DsHalt, Guard, Program, SetIF, InUser, InCall
  <2> QED
    BY <2>1, <2>2, <2>3, <2>4, <2>5
<1>2. stack = <<>> /\ regs \in [Registers -> Values] /\ was \in [Registers -> Values]
  BY <1>1 DEF CpuInv, Base, InUser, InCall
<1>3. CASE UNCHANGED cpuvars
  BY <1>1, <1>3, SameCpu
<1>4. CASE regs' = Own /\ UNCHANGED <<pc, ring, stack, was>>
  BY <1>1, <1>2, <1>4, CallFrameIs, PlainCpu
<1>5. CASE jump_user
  <2>1. /\ pc' = pc /\ stack' = stack /\ was' = was
        /\ regs' = [regs EXCEPT !["rip"] = "rip", !["rflags"] = "rflags"]
    BY <1>5 DEF jump_user, Sysret
  <2>2. {"rip", "rflags"} \subseteq Values
    BY DEF Values, Registers
  <2>3. regs' \in [Registers -> Values]
    BY <1>2, <2>1, <2>2
  <2> QED
    BY <1>1, <1>2, <2>1, <2>3, PlainCpu
<1> QED
  BY <1>1, <1>3, <1>4, <1>5

(* The user program and its system call: what the entry pushes is what it  *)
(* pops, behind the arguments that it drops.                               *)
LEMMA UserCpu == CpuInv /\ User => CpuInv'
<1> SUFFICES ASSUME CpuInv, User PROVE CpuInv'
  OBVIOUS
<1>1. /\ pc = "running" /\ pc' = "running" /\ stack = Base /\ Holds(at, regs)
      /\ regs \in [Registers -> Values] /\ was' = was /\ was \in [Registers -> Values]
  BY DEF User, Syscall, Entry, Dispatch, Answer, Answered, Program, SysEnter, SysPush,
         SysDispatch, SysPop, Sysret, CpuInv
<1>2. CASE Syscall
  <2>1. /\ at' = "entry" /\ ring' = 0 /\ stack' = <<>> /\ regs' = EntryRegs
    BY <1>1, <1>2 DEF Syscall, Program, SysEnter, EntryRegs, Base
  <2>2. Base' = <<>> /\ Holds(at', regs')
    BY <2>1 DEF Base, Holds, EntryRegs, Own
  <2> QED
    BY <1>1, <2>1, <2>2, CallFrameIs DEF CpuInv
<1>3. CASE Entry
  <2> DEFINE ns == SysSaved \o SysArgs
  <2>1. /\ at = "entry" /\ at' = "dispatch" /\ ring' = ring /\ ring = 0 /\ regs' = regs
        /\ stack' = Pushed(regs, ns) \o stack /\ stack = <<>>
    BY <1>1, <1>3 DEF Entry, Program, SysPush, CpuInv, Base, InCall
  <2>2. ns \in Seq(Registers)
    BY SysNames, Joined DEF Distinct
  <2>3. \A i \in 1..Len(ns) : ns[i] \in ToSet(ns)
    BY <2>2 DEF ToSet
  <2>4. \A r \in ToSet(ns) : regs[r] = EntryRegs[r]
    BY <1>1, <2>1, SysNames DEF Holds
  <2>5. Pushed(regs, ns) = CallFrame
    <3> DEFINE n == Len(ns)
    <3>1. /\ regs \in [Registers -> Values] /\ EntryRegs \in [Registers -> Values]
          /\ n \in Nat /\ CallFrame = Pushed(EntryRegs, ns)
      BY <1>1, <2>2, CallFrameIs DEF CallFrame
    <3> HIDE DEF ns
    <3>2. /\ Pushed(regs, ns) \in Seq(Values) /\ Len(Pushed(regs, ns)) = n
          /\ \A i \in 1..n : Pushed(regs, ns)[i] = regs[ns[n + 1 - i]]
      BY <2>2, <3>1, PushedIs
    <3>3. /\ CallFrame \in Seq(Values) /\ Len(CallFrame) = n
          /\ \A i \in 1..n : CallFrame[i] = EntryRegs[ns[n + 1 - i]]
      BY <2>2, <3>1, PushedIs
    <3>4. \A i \in 1..n : n + 1 - i \in 1..n
      BY <3>1
    <3>5. \A i \in 1..n : Pushed(regs, ns)[i] = CallFrame[i]
      <4> TAKE i \in 1..n
      <4>1. ns[n + 1 - i] \in ToSet(ns)
        BY ONLY <2>3, <3>4, i \in 1..n DEF n
      <4>2. regs[ns[n + 1 - i]] = EntryRegs[ns[n + 1 - i]]
        BY ONLY <2>4, <4>1, Zenon
      <4>3. /\ Pushed(regs, ns)[i] = regs[ns[n + 1 - i]]
            /\ CallFrame[i] = EntryRegs[ns[n + 1 - i]]
        BY ONLY <3>2, <3>3, i \in 1..n, Zenon
      <4> QED
        BY ONLY <4>2, <4>3, Zenon
    <3> HIDE DEF n
    <3> QED
      BY <3>2, <3>3, <3>5, SeqEqual
  <2>6. stack' = CallFrame
    BY <2>1, <2>5, CallFrameIs, ConcatEmptySeq
  <2>7. Base' = CallFrame /\ Holds(at', regs')
    BY <2>1 DEF Base, Holds
  <2> QED
    BY <1>1, <2>1, <2>6, <2>7 DEF CpuInv
<1>4. CASE Dispatch
  <2>1. /\ at = "dispatch" /\ at' = "answer" /\ ring' = ring /\ ring = 0 /\ stack' = stack
        /\ regs' = Called(regs) /\ stack = CallFrame
    BY <1>1, <1>4 DEF Dispatch, Program, SysDispatch, CpuInv, Base, InCall
  <2>2. Called(regs) \in [Registers -> Values]
    BY <1>1 DEF Called, Values
  <2>3. Base' = CallFrame /\ Holds(at', regs')
    BY <2>1 DEF Base, Holds
  <2> QED
    BY <1>1, <2>1, <2>2, <2>3 DEF CpuInv
<1>5. CASE Answer
  <2> DEFINE st == Drop(stack, ArgSlots)
  <2>1. /\ at = "answer" /\ at' = "sysret" /\ ring' = ring /\ ring = 0 /\ stack = CallFrame
        /\ regs' = Popped(regs, st, SysSaved) /\ stack' = Drop(st, Len(SysSaved))
    BY <1>1, <1>5 DEF Answer, Program, SysPop, CpuInv, Base, InCall
  <2>2. st = Pushed(EntryRegs, SysSaved)
    BY ArgsDropped, <2>1
  <2> HIDE DEF st
  <2>3. /\ st \in Seq(Values) /\ Len(st) = Len(SysSaved) /\ SysSaved \in Seq(Registers)
        /\ Len(SysSaved) \in Nat
    BY <2>2, PushedIs, CallFrameIs, SysNames DEF Distinct
  <2>4. st \o <<>> = st /\ <<>> \in Seq(Values)
    BY <2>3, ConcatEmptySeq, EmptySeq
  <2>5. stack' = <<>>
    <3> DEFINE n == Len(SysSaved)
    <3>1. Drop(st \o <<>>, n) = <<>>
      BY <2>3, <2>4, DropIs
    <3> QED
      BY <2>1, <2>4, <3>1
  <2>6. /\ EntryRegs \in [Registers -> Values] /\ regs \in [Registers -> Values]
        /\ Distinct(SysSaved)
    BY <1>1, CallFrameIs, SysNames
  <2> DEFINE t  == <<>>
             rs == EntryRegs
             ns == SysSaved
             p  == Popped(regs, Pushed(rs, ns) \o t, ns)
  <2>7. /\ p \in [Registers -> Values]
        /\ \A r \in Registers \cap ToSet(ns) : p[r] = rs[r]
    <3>1. /\ t \in Seq(Values) /\ rs \in [Registers -> Values] /\ regs \in [Registers -> Values]
          /\ Distinct(ns)
      BY <2>4, <2>6
    <3> HIDE DEF t, rs, ns
    <3>2. p \in [Registers -> Values]
      BY <3>1, PoppedIs
    <3>3. \A r \in Registers \cap ToSet(ns) : p[r] = rs[r]
      BY <3>1, PoppedIs
    <3> QED
      BY <3>2, <3>3
  <2>8. regs' = p /\ ToSet(SysSaved) \subseteq Registers
    BY <2>1, <2>2, <2>4, SysNames, RegistersAre
  <2> HIDE DEF p
  <2>9. Base' = <<>> /\ Holds(at', regs')
    BY <2>1, <2>7, <2>8 DEF Base, Holds
  <2> QED
    BY <1>1, <2>1, <2>5, <2>7, <2>8, <2>9 DEF CpuInv
<1>6. CASE Answered
  <2>1. /\ at = "sysret" /\ at' = "spin" /\ stack' = <<>>
        /\ regs' = [regs EXCEPT !["rip"] = regs["rcx"], !["rflags"] = regs["r11"]]
        /\ \A r \in ToSet(SysSaved) : regs[r] = EntryRegs[r]
    BY <1>1, <1>6 DEF Answered, Program, Sysret, Base, Holds
  <2>2. {"rip", "rflags", "rcx", "r11"} \subseteq Registers /\ Registers \subseteq Values
    BY DEF Registers, Values, ToSet, Saved
  <2>3. regs["rcx"] = "rip" /\ regs["r11"] = "rflags"
    BY <2>1, <2>2, SysNames DEF EntryRegs, Own
  <2>4. \A r \in {"rbx", "rbp", "r12", "r13", "r14", "r15"} : r \in Registers /\ regs[r] = r
    <3>1. \A r \in {"rbx", "rbp", "r12", "r13", "r14", "r15"} : r \in Registers
      BY SysNames DEF Registers, ToSet, Saved
    <3>2. \A r \in {"rbx", "rbp", "r12", "r13", "r14", "r15"} : EntryRegs[r] = r
      BY <3>1 DEF EntryRegs, Own
    <3> QED
      BY <2>1, <3>1, <3>2, SysNames
  <2>5. Registers \ CallerSaved = {"rip", "rflags", "rbx", "rbp", "r12", "r13", "r14", "r15"}
    BY RegistersAre DEF CallerSaved
  <2>6. regs' \in [Registers -> Values]
    BY <1>1, <2>1, <2>2
  <2>7. \A r \in Registers \ CallerSaved : regs'[r] = r
    <3>1. regs'["rip"] = "rip" /\ regs'["rflags"] = "rflags"
      BY <1>1, <2>1, <2>2, <2>3
    <3>2. \A r \in {"rbx", "rbp", "r12", "r13", "r14", "r15"} : regs'[r] = regs[r]
      BY <1>1, <2>1, <2>4
    <3> QED
      BY <2>4, <2>5, <3>1, <3>2
  <2>8. Base' = <<>> /\ Holds(at', regs')
    BY <2>1, <2>7 DEF Base, Holds
  <2> QED
    BY <1>1, <2>1, <2>6, <2>8 DEF CpuInv, InCall
<1> QED
  BY <1>2, <1>3, <1>4, <1>5, <1>6 DEF User

(* Interrupts: the stub pushes on top, the handler pops nothing.           *)
LEMMA ServiceCpu == CpuInv /\ Service => CpuInv'
<1> SUFFICES ASSUME CpuInv, Service PROVE CpuInv'
  OBVIOUS
<1>1. CASE Accept
  <2>1. /\ pc = "running" /\ pc' = "handler" /\ ring' = ring /\ was' = regs /\ regs' = regs
        /\ stack' = StubFrame(regs) \o stack /\ stack = Base /\ Holds(at, regs)
        /\ at' = IF at = "hlt" THEN "top" ELSE at
    BY <1>1 DEF Accept, Interrupt, CpuInv, StubFrame, Frame
  <2>2. Base' = Base /\ Holds(at', was') /\ (at' \in InCall => at \in InCall)
    BY <2>1 DEF Base, CallFrame, Holds, InCall
  <2>3. StubFrame(was)' = StubFrame(regs)
    BY <2>1 DEF StubFrame, Frame, Pushed
  <2> QED
    BY <2>1, <2>2, <2>3 DEF CpuInv
<1>2. CASE Eoi
  BY <1>2, SameCpu DEF Eoi
<1>3. CASE isr20 \/ NoInput \/ isr21 \/ isr2c
  <2>1. /\ pc = "handler" /\ pc' = "return" /\ regs' = Called(regs)
        /\ ring' = ring /\ stack' = stack /\ was' = was /\ at' = at
    BY <1>3 DEF isr20, NoInput, isr21, isr2c, Done, Handler
  <2>2. Called(regs) \in [Registers -> Values]
    BY DEF Called, Values, CpuInv
  <2>3. Base' = Base /\ (Holds(at, was) => Holds(at', was'))
    BY <2>1 DEF Base, CallFrame, Holds
  <2>4. StubFrame(was)' = StubFrame(was)
    BY <2>1 DEF StubFrame, Frame, Pushed
  <2> QED
    BY <2>1, <2>2, <2>3, <2>4 DEF CpuInv
<1>4. CASE (iretq \/ sysretq) /\ at' = at
  <2>1. PICK r0 \in {0, 3}, rest \in BOOLEAN : Return(r0, rest) /\ (rest \/ r0 = 3)
    BY <1>4 DEF iretq, sysretq
  <2>2. /\ stack' = Base /\ regs' \in [Registers -> Values]
        /\ \A r \in Registers \ Lost : regs'[r] = was[r]
    BY <2>1, ReturnIs
  <2>3. pc = "return" /\ pc' = "running" /\ was' = Own /\ ring' = ring
    BY <2>1 DEF Return
  <2>4. Holds(at, was)
    BY <2>3 DEF CpuInv
  <2>5. Base' = Base
    BY <1>4 DEF Base, CallFrame
  <2>6. Holds(at', regs')
    <3>1. at = "entry" => \A r \in Registers \ {"rax", "rip", "rflags"} : regs'[r] = EntryRegs[r]
      BY <2>2, <2>4 DEF Holds, Lost, CpuInv, InCall
    <3>2. at = "sysret" => \A r \in ToSet(SysSaved) : regs'[r] = EntryRegs[r]
      <4>1. ToSet(SysSaved) \subseteq Registers \ {"rax"}
        BY SysNames, RegistersAre
      <4> QED
        BY <2>2, <2>4, <4>1 DEF Holds, Lost, CpuInv, InCall
    <3>3. at = "spin" => \A r \in Registers \ CallerSaved : regs'[r] = r
      BY <2>2, <2>4 DEF Holds, Lost, CallerSaved
    <3> QED
      BY <1>4, <3>1, <3>2, <3>3 DEF Holds, EntryRegs, Own
  <2> QED
    BY <1>4, <2>2, <2>3, <2>5, <2>6, CallFrameIs DEF CpuInv
<1> QED
  BY <1>1, <1>2, <1>3, <1>4 DEF Service

LEMMA CpuStep == CpuInv /\ [Next]_vars => CpuInv'
<1> SUFFICES ASSUME CpuInv, [Next]_vars PROVE CpuInv'
  OBVIOUS
<1>1. CASE Device \/ UNCHANGED vars
  BY <1>1, SameCpu DEF Device, vars, kernvars
<1>2. CASE Fault
  BY <1>2, PlainCpu, CallFrameIs DEF Fault, InUser, InCall
<1> QED
  BY <1>1, <1>2, LoopCpu, UserCpu, ServiceCpu DEF Next, Cpu

LEMMA CpuAlways == Spec => []CpuInv
<1>1. Init => CpuInv
  <2>1. Init => regs = Own /\ was = Own /\ pc = "running" /\ stack = <<>> /\ at = "pic"
    BY DEF Init, CpuInit
  <2> QED
    BY <2>1, CallFrameIs DEF CpuInv, Base, Holds, InCall
<1> QED
  BY <1>1, CpuStep, PTL DEF Spec

(* Whatever is interrupted goes on with all its registers but those Lost   *)
(* names, at the place and with the flags it had (isr.S:37-61).            *)
THEOREM InterruptedGoesOn == Spec => GoesOn
<1>1. CpuInv /\ [Next]_vars => [pc = "return" => \A r \in Registers \ Lost : regs'[r] = was[r]]_cpuvars
  <2> SUFFICES ASSUME CpuInv, [Next]_vars, pc = "return", ~UNCHANGED cpuvars
               PROVE  \A r \in Registers \ Lost : regs'[r] = was[r]
    OBVIOUS
  <2>1. iretq \/ sysretq
    <3>1. ~Device /\ ~Fault /\ ~UNCHANGED vars
      BY DEF Device, Fault, vars
    <3>2. ~Start /\ ~Loop /\ ~User /\ ~Dead
      BY DEF Start, pic_init, EnableKeyboard, Poll, EnableMouse, Drain, FirstSti, FirstCli,
             Loop, Top, FgEmpty, FgRead, FgCount, KeySti, HandleKey, Sleep, Leave, jump_user,
             User, Syscall, Entry, Dispatch, Answer, Answered,
             Dead, exc_handler, DsLog, DsGuard, DsPaint, DsHalt, Program
    <3>3. ~Accept /\ ~Eoi /\ ~isr20 /\ ~NoInput /\ ~isr21 /\ ~isr2c
      BY DEF Accept, Interrupt, Eoi, isr20, NoInput, isr21, isr2c, Done
    <3> QED
      BY <3>1, <3>2, <3>3 DEF Next, Cpu, Service
  <2>2. PICK r0 \in {0, 3}, rest \in BOOLEAN : Return(r0, rest) /\ (rest \/ r0 = 3)
    BY <2>1 DEF iretq, sysretq
  <2> QED
    BY <2>2, ReturnIs
<1> QED
  BY <1>1, CpuAlways, PTL DEF Spec, GoesOn

(* The user program goes on behind its system call with its flags and the  *)
(* registers a call must keep, whatever interrupts came meanwhile on the   *)
(* same stack (isr.S:8-35).                                                *)
THEOREM CallReturns == Spec => []SyscallReturns
<1>1. CpuInv => SyscallReturns
  BY DEF CpuInv, Holds, Base, SyscallReturns
<1> QED
  BY <1>1, CpuAlways, PTL

-----------------------------------------------------------------------------
(* The bytes of the two devices.                                           *)
KbdByte == [src : {"kbd"}, n : Nat, v : {"char", "enter", "panic", "none", "FA"}]
AuxByte == [src : {"aux"}, n : 0..3, v : {"any", "FA"}]

(* Where nothing interrupts: while the kernel starts, and in fg.           *)
Early == {"pic", "kbd", "poll", "aux", "drain"}
NoIrq == Early \cup {"fg", "count", "key?"}

ByteInv ==
  /\ queue \in [kbd : Seq(KbdByte), aux : Seq(AuxByte)]
  /\ obf = <<>> \/ \E b \in KbdByte \cup AuxByte : obf = <<b>>
  /\ sent \in [kbd : 0..Len(Keys), aux : Nat, pit : Nat]
  /\ at \in NoIrq => pc = "running" /\ ~iflag

(* What of it all the program's own steps touch.                           *)
LEMMA OwnSteps ==
  ASSUME Loop \/ User \/ Dead \/ Fault
  PROVE  UNCHANGED <<queue, sent, obf, phase, step>> /\ at' \notin Early
<1>1. CASE HandleKey
  BY <1>1 DEF HandleKey, Again, Early, devvars
<1>2. CASE DsGuard
  BY <1>2 DEF DsGuard, Early, devvars
<1>3. CASE Loop /\ ~HandleKey
  BY <1>3 DEF Loop, Top, FgEmpty, FgRead, FgCount, KeySti, Sleep, Leave, jump_user, Program,
              Only_at, Early, devvars
<1>4. CASE User \/ Fault \/ (Dead /\ ~DsGuard)
  BY <1>4 DEF User, Syscall, Entry, Dispatch, Answer, Answered, Fault,
              Dead, exc_handler, DsLog, DsPaint, DsHalt, Program, Only_at, Early, devvars
<1> QED
  BY <1>1, <1>2, <1>3, <1>4

LEMMA QuietKept ==
  ASSUME at \in NoIrq => pc = "running" /\ ~iflag, [Next]_vars
  PROVE  at' \in NoIrq => pc' = "running" /\ ~iflag'
<1>1. CASE Device \/ UNCHANGED vars
  BY <1>1 DEF Device, kernvars, cpuvars, vars
<1>2. CASE Start
  BY <1>2 DEF Start, pic_init, EnableKeyboard, Poll, EnableMouse, Drain, FirstSti, FirstCli,
              Program, SetIF, cpuvars, NoIrq, Early
<1>3. CASE HandleKey
  BY <1>3 DEF HandleKey, Again, NoIrq, Early
<1>4. CASE Loop /\ ~HandleKey
  BY <1>4 DEF Loop, Top, FgEmpty, FgRead, FgCount, KeySti, Sleep, Leave, jump_user, Program,
              SetIF, LoopIF, cpuvars, NoIrq, Early
<1>5. CASE User \/ Dead \/ Fault
  <2>1. CASE DsGuard
    BY <2>1 DEF DsGuard, NoIrq, Early
  <2> QED
    BY <1>5, <2>1 DEF User, Syscall, Entry, Dispatch, Answer, Answered, Fault, Dead, exc_handler,
                DsLog, DsPaint, DsHalt, Program, NoIrq, Early
<1>6. CASE Service
  <2>1. at \notin NoIrq /\ at' \in {at, "top"}
    <3>1. CASE Accept
      BY <3>1 DEF Accept, Interrupt
    <3>2. CASE Eoi \/ isr20 \/ NoInput \/ isr21 \/ isr2c
      BY <3>2 DEF Eoi, isr20, NoInput, isr21, isr2c, Done
    <3>3. CASE (iretq \/ sysretq) /\ UNCHANGED at
      BY <3>3 DEF iretq, sysretq, Return
    <3> QED
      BY <1>6, <3>1, <3>2, <3>3 DEF Service
  <2> QED
    BY <2>1 DEF NoIrq, Early
<1> QED
  BY <1>1, <1>2, <1>3, <1>4, <1>5, <1>6 DEF Next, Cpu

(* What a step does to the devices' bytes and the output buffer.           *)
BytesSame == UNCHANGED <<queue, obf>>
KbdGrows  == \E b \in KbdByte : queue' = [queue EXCEPT !.kbd = Append(@, b)] /\ obf' = obf
AuxGrows  == \E p \in {Packet, <<Ack("aux")>>} :
               queue' = [queue EXCEPT !.aux = @ \o p] /\ obf' = obf
Sent(s)   == /\ obf = <<>> /\ queue[s] # <<>> /\ obf' = <<Head(queue[s])>>
             /\ queue' = [queue EXCEPT ![s] = Tail(@)]
Taken     == obf' = <<>> /\ queue' = queue

LEMMA PacketSeqs == \A p \in {Packet, <<Ack("aux")>>} : p \in Seq(AuxByte)
<1>1. Aux(1) \in AuxByte /\ Aux(2) \in AuxByte /\ Aux(3) \in AuxByte
  BY DEF Aux, AuxByte
<1>2. Packet \in Seq(AuxByte)
  BY <1>1 DEF Packet
<1>3. <<Ack("aux")>> \in Seq(AuxByte)
  BY DEF Ack, AuxByte
<1> QED
  BY <1>2, <1>3

LEMMA BytesKept ==
  ASSUME ByteInv, BytesSame \/ KbdGrows \/ AuxGrows \/ Taken \/ \E s \in {"kbd", "aux"} : Sent(s)
  PROVE  /\ queue' \in [kbd : Seq(KbdByte), aux : Seq(AuxByte)]
         /\ obf' = <<>> \/ \E b \in KbdByte \cup AuxByte : obf' = <<b>>
<1>1. CASE BytesSame \/ Taken
  BY <1>1 DEF BytesSame, Taken, ByteInv
<1>2. CASE KbdGrows
  <2>1. PICK b \in KbdByte : queue' = [queue EXCEPT !.kbd = Append(@, b)] /\ obf' = obf
    BY <1>2 DEF KbdGrows
  <2>2. queue.kbd \in Seq(KbdByte)
    BY DEF ByteInv
  <2>3. Append(queue.kbd, b) \in Seq(KbdByte)
    BY <2>2, AppendProperties
  <2> QED
    BY <2>1, <2>3 DEF ByteInv
<1>3. CASE AuxGrows
  <2>1. PICK p \in {Packet, <<Ack("aux")>>} :
          queue' = [queue EXCEPT !.aux = @ \o p] /\ obf' = obf
    BY <1>3 DEF AuxGrows
  <2>2. p \in Seq(AuxByte) /\ queue.aux \in Seq(AuxByte)
    BY PacketSeqs DEF ByteInv
  <2>3. queue.aux \o p \in Seq(AuxByte)
    BY <2>2, Joined
  <2> QED
    BY <2>1, <2>3 DEF ByteInv
<1>4. CASE Sent("kbd")
  <2>1. Head(queue.kbd) \in KbdByte /\ Tail(queue.kbd) \in Seq(KbdByte)
    BY <1>4, HeadTailProperties DEF Sent, ByteInv
  <2> QED
    BY <1>4, <2>1 DEF Sent, ByteInv
<1>5. CASE Sent("aux")
  <2>1. Head(queue.aux) \in AuxByte /\ Tail(queue.aux) \in Seq(AuxByte)
    BY <1>5, HeadTailProperties DEF Sent, ByteInv
  <2> QED
    BY <1>5, <2>1 DEF Sent, ByteInv
<1> QED
  BY <1>1, <1>2, <1>3, <1>4, <1>5

(* Each step does one of these.                                            *)
LEMMA ByteStep == ByteInv /\ [Next]_vars => ByteInv'
<1> SUFFICES ASSUME ByteInv, [Next]_vars PROVE ByteInv'
  OBVIOUS
<1>1. at' \in NoIrq => pc' = "running" /\ ~iflag'
  BY QuietKept DEF ByteInv
<1>2. /\ BytesSame \/ KbdGrows \/ AuxGrows \/ Taken \/ \E s \in {"kbd", "aux"} : Sent(s)
      /\ sent' \in [kbd : 0..Len(Keys), aux : Nat, pit : Nat]
  <2>1. sent \in [kbd : 0..Len(Keys), aux : Nat, pit : Nat]
    BY DEF ByteInv
  <2>2. CASE PressKey
    <3>1. /\ sent' = [sent EXCEPT !.kbd = @ + 1] /\ obf' = obf
          /\ sent.kbd \in 0..Len(Keys) /\ Len(Keys) \in Nat /\ sent.kbd < Len(Keys)
      BY <2>1, <2>2, InputAssumption DEF PressKey
    <3>2. PICK k \in Keys[sent.kbd + 1] : queue' = [queue EXCEPT !.kbd = Append(@, Key(sent.kbd + 1, k))]
      BY <2>2 DEF PressKey
    <3>3. sent.kbd + 1 \in 1..Len(Keys)
      BY <3>1
    <3>4. k \in {"char", "enter", "panic"}
      BY <3>2, <3>3, InputAssumption
    <3>5. Key(sent.kbd + 1, k) \in KbdByte
      BY <3>1, <3>4 DEF Key, KbdByte
    <3>6. KbdGrows
      BY <3>1, <3>2, <3>5 DEF KbdGrows
    <3>7. sent' \in [kbd : 0..Len(Keys), aux : Nat, pit : Nat]
      BY <2>1, <3>1, <3>3
    <3> QED
      BY <3>6, <3>7
  <2>3. CASE MoveMouse
    <3>1. sent' = [sent EXCEPT !.aux = @ + 1] /\ obf' = obf
      BY <2>3 DEF MoveMouse
    <3>2. queue' = [queue EXCEPT !.aux = @ \o Packet]
      BY <2>3 DEF MoveMouse
    <3>3. AuxGrows
      BY <3>1, <3>2 DEF AuxGrows
    <3> QED
      BY <2>1, <3>1, <3>3
  <2>4. CASE Tick
    BY <2>1, <2>4 DEF Tick, BytesSame
  <2>5. CASE SendByte
    BY <2>1, <2>5 DEF SendByte, Sent
  <2>6. CASE EnableKeyboard
    <3>1. Ack("kbd") \in KbdByte
      BY DEF Ack, KbdByte
    <3> QED
      BY <2>1, <2>6, <3>1 DEF EnableKeyboard, KbdGrows
  <2>7. CASE EnableMouse
    <3>1. queue.aux \in Seq(AuxByte) /\ Ack("aux") \in AuxByte
      BY DEF ByteInv, Ack, AuxByte
    <3>2. Append(queue.aux, Ack("aux")) = queue.aux \o <<Ack("aux")>>
      BY <3>1, AppendIsConcat
    <3> QED
      BY <2>1, <2>7, <3>2 DEF EnableMouse, AuxGrows
  <2>8. CASE Poll \/ Drain
    BY <2>1, <2>8 DEF Poll, Drain, Taken, BytesSame
  <2>9. CASE pic_init \/ FirstSti \/ FirstCli
    BY <2>1, <2>9 DEF pic_init, FirstSti, FirstCli, Only_at, devvars, BytesSame
  <2>10. CASE Loop \/ User \/ Dead \/ Fault
    BY <2>1, <2>10, OwnSteps DEF BytesSame
  <2>11. CASE Service
    BY <2>1, <2>11 DEF Service, Accept, Eoi, isr20, NoInput, isr21, isr2c, Only_at, devvars, Taken, BytesSame
  <2>12. CASE UNCHANGED vars
    BY <2>1, <2>12 DEF vars, devvars, BytesSame
  <2> QED
    BY <2>2, <2>3, <2>4, <2>5, <2>6, <2>7, <2>8, <2>9, <2>10, <2>11, <2>12
       DEF Next, Device, Cpu, Start
<1>3. /\ queue' \in [kbd : Seq(KbdByte), aux : Seq(AuxByte)]
      /\ obf' = <<>> \/ \E b \in KbdByte \cup AuxByte : obf' = <<b>>
  BY <1>2, BytesKept
<1> QED
  BY <1>1, <1>2, <1>3 DEF ByteInv

-----------------------------------------------------------------------------
(* A packet follows a packet or the acknowledgement, whole.                *)
Succ(n) == IF n = 3 THEN 1 ELSE n + 1

Chain(s) ==
  /\ s \in Seq(AuxByte)
  /\ \A i \in 1..Len(s) : i < Len(s) => s[i + 1].n = Succ(s[i].n)
  /\ \A i \in 1..Len(s) : i = Len(s) => s[i].n \in {0, 3}

(* The phase md must be in for what comes.                                 *)
Expected(s) == IF s = <<>> THEN 1 ELSE s[1].n

LEMMA ChainTail ==
  ASSUME NEW s, Chain(s), s # <<>>
  PROVE  Chain(Tail(s)) /\ s[1].n \in 0..3 /\ Expected(Tail(s)) = Succ(s[1].n)
<1> DEFINE t == Tail(s)
<1>1. /\ s \in Seq(AuxByte) /\ t \in Seq(AuxByte) /\ Len(s) \in Nat \ {0} /\ Len(t) = Len(s) - 1
      /\ \A i \in 1..Len(t) : t[i] = s[i + 1]
  BY HeadTailProperties DEF Chain
<1> HIDE DEF t
<1>2. t = <<>> <=> Len(t) = 0
  BY <1>1
<1>3. Chain(t)
  <2>1. \A i \in 1..Len(t) : i + 1 \in 1..Len(s) /\ (i = Len(t) <=> i + 1 = Len(s))
                             /\ (i < Len(t) <=> i + 1 < Len(s))
    BY <1>1
  <2>2. \A i \in 1..Len(t) : i < Len(t) => i + 1 \in 1..Len(t)
    BY <1>1
  <2>3. /\ \A i \in 1..Len(s) : i < Len(s) => s[i + 1].n = Succ(s[i].n)
        /\ \A i \in 1..Len(s) : i = Len(s) => s[i].n \in {0, 3}
    BY DEF Chain
  <2>4. ASSUME NEW i \in 1..Len(t), i < Len(t) PROVE t[i + 1].n = Succ(t[i].n)
    <3>1. i + 1 \in 1..Len(t) /\ t[i] = s[i + 1] /\ t[i + 1] = s[(i + 1) + 1]
      BY <1>1, <2>2, <2>4
    <3>2. i + 1 \in 1..Len(s) /\ i + 1 < Len(s)
      BY <2>1, <2>4
    <3> QED
      BY <2>3, <3>1, <3>2
  <2>5. ASSUME NEW i \in 1..Len(t), i = Len(t) PROVE t[i].n \in {0, 3}
    <3>1. t[i] = s[i + 1] /\ i + 1 \in 1..Len(s) /\ i + 1 = Len(s)
      BY <1>1, <2>1, <2>5
    <3> QED
      BY <2>3, <3>1
  <2> QED
    BY <1>1, <2>4, <2>5 DEF Chain
<1>4. 1 \in 1..Len(s) /\ s[1] \in AuxByte
  BY <1>1
<1>5. Expected(t) = Succ(s[1].n)
  <2>1. CASE Len(t) = 0
    <3>1. Len(s) = 1 /\ t = <<>>
      BY <1>1, <1>2, <2>1
    <3>2. s[1].n \in {0, 3}
      BY <1>4, <3>1 DEF Chain
    <3> QED
      BY <3>1, <3>2 DEF Expected, Succ
  <2>2. CASE Len(t) # 0
    <3>1. t # <<>> /\ 1 < Len(s) /\ 1 \in 1..Len(t) /\ t[1] = s[1 + 1]
      BY <1>1, <1>2, <2>2
    <3>2. s[1 + 1].n = Succ(s[1].n)
      BY <1>4, <3>1 DEF Chain
    <3> QED
      BY <3>1, <3>2 DEF Expected
  <2> QED
    BY <2>1, <2>2
<1>6. s[1].n \in 0..3
  BY <1>4 DEF AuxByte
<1> QED
  BY <1>3, <1>5, <1>6 DEF t

(* A packet, or the acknowledgement when nothing else was sent, goes on.   *)
LEMMA ChainGrows ==
  ASSUME NEW s, Chain(s), NEW p \in {Packet, <<Ack("aux")>>}, p = Packet \/ s = <<>>
  PROVE  Chain(s \o p) /\ (p = Packet => Expected(s \o p) = Expected(s))
<1>1. s \in Seq(AuxByte) /\ p \in Seq(AuxByte) /\ Len(s) \in Nat
  <2>1. s \in Seq(AuxByte)
    BY DEF Chain
  <2>2. p \in Seq(AuxByte)
    BY PacketSeqs, Zenon
  <2> QED
    BY <2>1, <2>2
<1>2. CASE p # Packet
  <2>1. s \o p = <<Ack("aux")>>
    BY <1>1, <1>2, ConcatEmptySeq
  <2> DEFINE q == <<Ack("aux")>>
  <2>2. q \in Seq(AuxByte) /\ Len(q) = 1 /\ q[1].n = 0
    BY PacketSeqs DEF Ack
  <2> HIDE DEF q
  <2>3. Chain(q)
    BY <2>2 DEF Chain
  <2> QED
    BY <1>2, <2>1, <2>3 DEF q
<1>3. CASE p = Packet
  <2> DEFINE u == s \o p
             m == Len(s)
  <2>2. Len(p) = 3 /\ p[1].n = 1 /\ p[2].n = 2 /\ p[3].n = 3
    BY <1>3 DEF Packet, Aux
  <2>3. /\ u \in Seq(AuxByte) /\ Len(u) = m + 3 /\ m \in Nat
        /\ \A i \in 1..m : u[i] = s[i]
        /\ \A i \in 1..3 : u[m + i] = p[i]
    <3>1. s \in Seq(AuxByte) /\ p \in Seq(AuxByte)
      BY <1>1
    <3>2. /\ u \in Seq(AuxByte) /\ Len(u) = m + Len(p) /\ m \in Nat
          /\ \A i \in 1..m : u[i] = s[i]
          /\ \A i \in 1..Len(p) : u[m + i] = p[i]
      BY ONLY <3>1, Joined DEF u, m
    <3>3. Len(p) = 3
      BY <2>2
    <3> HIDE DEF u, m
    <3> QED
      BY ONLY <3>2, <3>3
  <2>4. m = 0 <=> s = <<>>
    BY <1>1
  <2>5. \A i \in 1..m : /\ i < m => s[i + 1].n = Succ(s[i].n)
                        /\ i = m => s[i].n \in {0, 3}
    BY DEF Chain
  <2> HIDE DEF u, m
  <2>6. u[m + 1] = p[1] /\ u[m + 2] = p[2] /\ u[m + 3] = p[3]
    BY <2>3
  <2>7. \A i \in 1..m+3 : i < m + 3 => u[i + 1].n = Succ(u[i].n)
    <3> SUFFICES ASSUME NEW i \in 1..m+3, i < m + 3 PROVE u[i + 1].n = Succ(u[i].n)
      OBVIOUS
    <3>1. CASE i < m
      <4>1. i \in 1..m /\ i + 1 \in 1..m
        BY <2>3, <3>1
      <4> QED
        BY <2>3, <2>5, <3>1, <4>1
    <3>2. CASE i = m
      <4>1. u[i].n \in {0, 3} /\ u[i + 1].n = 1
        BY <2>2, <2>3, <2>5, <2>6, <3>2
      <4> QED
        BY <4>1 DEF Succ
    <3>3. CASE i = m + 1
      BY <2>2, <2>3, <2>6, <3>3 DEF Succ
    <3>4. CASE i = m + 2
      BY <2>2, <2>3, <2>6, <3>4 DEF Succ
    <3> QED
      BY <2>3, <3>1, <3>2, <3>3, <3>4
  <2>8. \A i \in 1..m+3 : i = m + 3 => u[i].n \in {0, 3}
    <3> TAKE i \in 1..m+3
    <3>1. CASE i \in 1..m
      BY <2>3, <2>5, <3>1
    <3>2. CASE i \in {m + 1, m + 2, m + 3}
      BY <2>2, <2>3, <2>6, <3>2
    <3> QED
      BY <2>3, <3>1, <3>2
  <2>9. Chain(u)
    BY <2>3, <2>7, <2>8 DEF Chain
  <2>10. Expected(u) = Expected(s)
    <3>1. u # <<>>
      BY <2>3
    <3>2. CASE m = 0
      <4>1. u[1].n = 1 /\ s = <<>>
        BY <2>2, <2>4, <2>6, <3>2
      <4> QED
        BY <3>1, <4>1 DEF Expected
    <3>3. CASE m # 0
      <4>1. 1 \in 1..m /\ s # <<>>
        BY <2>3, <2>4, <3>3
      <4> QED
        BY <2>3, <3>1, <4>1 DEF Expected
    <3> QED
      BY <3>2, <3>3
  <2> QED
    BY <1>3, <2>9, <2>10 DEF u
<1> QED
  BY <1>2, <1>3

(* One byte in front.                                                      *)
LEMMA InFront ==
  ASSUME NEW S, NEW b \in S, NEW q \in Seq(S)
  PROVE  /\ <<b>> \o q \in Seq(S) /\ Len(<<b>> \o q) = 1 + Len(q) /\ <<b>> \o q # <<>>
         /\ (<<b>> \o q)[1] = b /\ \A i \in 1..Len(q) : (<<b>> \o q)[1 + i] = q[i]
         /\ Tail(<<b>> \o q) = q
<1> DEFINE o == <<b>>
           u == o \o q
<1>1. o \in Seq(S) /\ Len(o) = 1 /\ o[1] = b
  OBVIOUS
<1> HIDE DEF o
<1>2. /\ u \in Seq(S) /\ Len(u) = Len(o) + Len(q) /\ Len(q) \in Nat
      /\ \A i \in 1..Len(o) : u[i] = o[i]
  BY <1>1, Joined
<1>3. \A i \in 1..Len(q) : u[Len(o) + i] = q[i]
  <2>1. o \in Seq(S)
    BY <1>1
  <2> QED
    BY <2>1, Joined
<1>4. u[1] = b /\ u # <<>> /\ Len(u) = 1 + Len(q) /\ \A i \in 1..Len(q) : u[1 + i] = q[i]
  BY <1>1, <1>2, <1>3
<1> HIDE DEF u
<1>5. /\ Tail(u) \in Seq(S) /\ Len(Tail(u)) = Len(q)
      /\ \A i \in 1..Len(Tail(u)) : Tail(u)[i] = u[i + 1]
  BY <1>2, <1>4, HeadTailProperties
<1>6. \A i \in 1..Len(q) : Tail(u)[i] = q[i]
  BY <1>2, <1>4, <1>5
<1>7. Tail(u) = q
  BY <1>2, <1>5, <1>6, SeqEqual
<1> QED
  BY <1>2, <1>4, <1>7 DEF u, o

LEMMA HeadBefore ==
  ASSUME NEW S, NEW q \in Seq(S), q # <<>>
  PROVE  <<Head(q)>> \o Tail(q) = q
<1> DEFINE t == Tail(q)
           h1 == Head(q)
           u == <<h1>> \o t
<1>1. /\ h1 \in S /\ t \in Seq(S) /\ Len(t) = Len(q) - 1 /\ h1 = q[1]
      /\ Len(q) \in Nat \ {0}
      /\ \A i \in 1..Len(t) : t[i] = q[i + 1]
  BY HeadTailProperties
<1> HIDE DEF t, h1
<1>2. /\ u \in Seq(S) /\ Len(u) = 1 + Len(t) /\ u[1] = h1
      /\ \A i \in 1..Len(t) : u[1 + i] = t[i]
  BY <1>1, InFront
<1> HIDE DEF u
<1>3. \A i \in 1..Len(q) : u[i] = q[i]
  <2> TAKE i \in 1..Len(q)
  <2>1. CASE i = 1
    BY <1>1, <1>2, <2>1
  <2>2. CASE i # 1
    <3>1. i - 1 \in 1..Len(t) /\ 1 + (i - 1) = i /\ (i - 1) + 1 = i
      BY <1>1, <2>2
    <3>2. u[1 + (i - 1)] = t[i - 1] /\ t[i - 1] = q[(i - 1) + 1]
      BY <1>1, <1>2, <3>1
    <3> QED
      BY <3>1, <3>2
  <2> QED
    BY <2>1, <2>2
<1>4. u = q
  BY <1>1, <1>2, <1>3, SeqEqual
<1> QED
  BY <1>4 DEF u, t, h1

(* What is on its way after each kind of step.                             *)
LEMMA OnItsWay ==
  ASSUME ByteInv
  PROVE  /\ FromMouse \in Seq(AuxByte)
         /\ \A b \in AuxByte : obf = <<b>> =>
              FromMouse # <<>> /\ FromMouse[1] = b /\ Tail(FromMouse) = queue.aux
         /\ (obf = <<>> \/ \E b \in KbdByte : obf = <<b>>) => FromMouse = queue.aux
<1>1. queue.aux \in Seq(AuxByte)
  BY DEF ByteInv
<1>2. ASSUME obf = <<>> \/ \E b \in KbdByte : obf = <<b>> PROVE FromMouse = queue.aux
  <2>1. ~(obf # <<>> /\ obf[1].src = "aux")
    BY <1>2 DEF KbdByte
  <2> QED
    BY <1>1, <2>1, ConcatEmptySeq DEF FromMouse
<1>3. ASSUME NEW b \in AuxByte, obf = <<b>>
      PROVE  /\ FromMouse \in Seq(AuxByte)
             /\ FromMouse # <<>> /\ FromMouse[1] = b /\ Tail(FromMouse) = queue.aux
  <2>1. obf # <<>> /\ obf[1].src = "aux"
    BY <1>3 DEF AuxByte
  <2>2. FromMouse = <<b>> \o queue.aux
    BY <1>3, <2>1 DEF FromMouse
  <2> QED
    BY <1>1, <2>2, InFront
<1> QED
  BY <1>1, <1>2, <1>3 DEF ByteInv

(* The inductive invariant of the mouse's bytes: they come as packets, in  *)
(* step with md as far as md knows where they begin, and before the mouse  *)
(* is enabled there are none.                                              *)
Steps == {"out", "in", "skip", "lost"}

MouseInv ==
  /\ ByteInv
  /\ phase \in 0..3 /\ step \in Steps
  /\ at \in Early => step = "out"
  /\ at \in Early \ {"drain"} => FromMouse = <<>>
  /\ Chain(FromMouse)
  /\ step = "out" => phase = 0
  /\ step = "in" => phase # 0 /\ phase = Expected(FromMouse)
  /\ step = "skip" => phase = 1 /\ Expected(FromMouse) \in {2, 3}

(* Nothing is taken from what is on its way, at most a packet added.       *)
LEMMA MouseWaits ==
  ASSUME MouseInv, ByteInv', phase' = phase, step' = step, at' \in Early => at \in Early,
         \/ FromMouse' = FromMouse /\ (at' \in Early \ {"drain"} => at \in Early \ {"drain"})
         \/ \E p \in {Packet, <<Ack("aux")>>} :
              /\ FromMouse' = FromMouse \o p /\ at' \notin Early \ {"drain"}
              /\ p = Packet \/ at = "aux"
  PROVE  MouseInv'
<1>1. CASE FromMouse' = FromMouse /\ (at' \in Early \ {"drain"} => at \in Early \ {"drain"})
  BY <1>1 DEF MouseInv, Early
<1>2. ASSUME NEW p \in {Packet, <<Ack("aux")>>}, FromMouse' = FromMouse \o p,
             at' \notin Early \ {"drain"}, p = Packet \/ at = "aux"
      PROVE  MouseInv'
  <2>1. at = "aux" => FromMouse = <<>> /\ step = "out"
    BY DEF MouseInv, Early
  <2>2. Chain(FromMouse \o p) /\ (p = Packet => Expected(FromMouse \o p) = Expected(FromMouse))
    BY <1>2, <2>1, ChainGrows DEF MouseInv
  <2> QED
    BY <1>2, <2>1, <2>2 DEF MouseInv, Early
<1> QED
  BY <1>1, <1>2

LEMMA MouseStep == MouseInv /\ [Next]_vars => MouseInv'
<1> SUFFICES ASSUME MouseInv, [Next]_vars PROVE MouseInv'
  OBVIOUS
<1>1. ByteInv /\ ByteInv'
  BY ByteStep DEF MouseInv
<1>2. ASSUME UNCHANGED obf, queue'.aux = queue.aux PROVE FromMouse' = FromMouse
  BY <1>2 DEF FromMouse
<1>3. ASSUME UNCHANGED <<obf, phase, step>>, queue'.aux = queue.aux,
             at' \in Early => at \in Early, at' \in Early \ {"drain"} => at \in Early \ {"drain"}
      PROVE  MouseInv'
  BY <1>1, <1>2, <1>3, MouseWaits
<1>4. CASE Device
  <2>1. UNCHANGED <<at, phase, step>>
    BY <1>4 DEF Device, kernvars
  <2>2. CASE PressKey \/ Tick
    BY <1>1, <1>3, <2>1, <2>2 DEF PressKey, Tick, ByteInv
  <2>3. CASE MoveMouse
    <3> DEFINE p == Packet
    <3>1. queue' = [queue EXCEPT !.aux = @ \o p]
      BY <2>3 DEF MoveMouse
    <3>2. at \notin Early \ {"drain"} /\ obf' = obf
      BY <2>3 DEF MoveMouse, Early
    <3>3. FromMouse' = FromMouse \o p
      <4> DEFINE o == IF obf # <<>> /\ obf[1].src = "aux" THEN obf ELSE <<>>
      <4>1. o \in Seq(AuxByte)
        <5>1. CASE obf = <<>> \/ \E b \in KbdByte : obf = <<b>>
          <6>1. o = <<>>
            BY <5>1 DEF KbdByte
          <6>2. <<>> \in Seq(AuxByte)
            BY EmptySeq
          <6> QED
            BY <6>1, <6>2, Zenon
        <5>2. CASE \E b \in AuxByte : obf = <<b>>
          <6>1. PICK b \in AuxByte : obf = <<b>>
            BY <5>2
          <6>2. o = <<b>>
            BY <6>1 DEF AuxByte
          <6>3. <<b>> \in Seq(AuxByte)
            OBVIOUS
          <6> QED
            BY <6>2, <6>3, Zenon
        <5> QED
          BY <1>1, <5>1, <5>2 DEF ByteInv
      <4>2. queue.aux \in Seq(AuxByte) /\ p \in Seq(AuxByte) /\ queue'.aux = queue.aux \o p
        BY <1>1, <3>1, PacketSeqs DEF ByteInv
      <4>3. FromMouse = o \o queue.aux /\ FromMouse' = o \o queue'.aux
        BY <3>2 DEF FromMouse
      <4>4. FromMouse' = o \o (queue.aux \o p)
        BY <4>2, <4>3
      <4> HIDE DEF o
      <4> DEFINE q == queue.aux
      <4>5. (o \o q) \o p = o \o (q \o p)
        <5>1. q \in Seq(AuxByte)
          BY <4>2
        <5> HIDE DEF q
        <5> QED
          BY <4>1, <4>2, <5>1, ConcatAssociative
      <4> QED
        BY <4>3, <4>4, <4>5
    <3> QED
      BY <1>1, <2>1, <3>2, <3>3, MouseWaits
  <2>4. CASE SendByte
    <3>1. obf = <<>> /\ FromMouse = queue.aux
      BY <1>1, <2>4, OnItsWay DEF SendByte
    <3>2. PICK s \in {"kbd", "aux"} : Sent(s)
      BY <2>4 DEF SendByte, Sent
    <3>3. FromMouse' = FromMouse
      <4>1. CASE s = "kbd"
        <5>1. Head(queue.kbd) \in KbdByte
          BY <1>1, <3>2, <4>1, HeadTailProperties DEF ByteInv, Sent
        <5>2. obf' = <<Head(queue.kbd)>> /\ queue'.aux = queue.aux
          BY <1>1, <3>2, <4>1 DEF Sent, ByteInv
        <5>3. FromMouse' = <<>> \o queue.aux
          BY <5>1, <5>2 DEF FromMouse, KbdByte
        <5>4. queue.aux \in Seq(AuxByte)
          BY <1>1 DEF ByteInv
        <5> QED
          BY <3>1, <5>3, <5>4, ConcatEmptySeq
      <4>2. CASE s = "aux"
        <5> DEFINE q == queue.aux
        <5>1. q \in Seq(AuxByte) /\ q # <<>>
          BY <1>1, <3>2, <4>2 DEF ByteInv, Sent
        <5>2. Head(q) \in AuxByte /\ Tail(q) \in Seq(AuxByte)
          BY <5>1, HeadTailProperties
        <5>3. obf' = <<Head(q)>> /\ queue'.aux = Tail(q)
          BY <1>1, <3>2, <4>2 DEF Sent, ByteInv
        <5>4. FromMouse' = <<Head(q)>> \o Tail(q)
          BY <5>2, <5>3 DEF FromMouse, AuxByte
        <5>5. <<Head(q)>> \o Tail(q) = q
          <6> HIDE DEF q
          <6> QED
            BY <5>1, <5>2, HeadBefore
        <5> QED
          BY <3>1, <5>4, <5>5
      <4> QED
        BY <4>1, <4>2
    <3> QED
      BY <1>1, <2>1, <3>3, MouseWaits
  <2> QED
    BY <1>4, <2>2, <2>3, <2>4 DEF Device
<1>5. CASE Start
  <2>1. CASE pic_init \/ EnableKeyboard \/ FirstSti \/ FirstCli
    BY <1>1, <1>3, <2>1 DEF pic_init, EnableKeyboard, FirstSti, FirstCli, Program, Only_at, devvars,
                      Early, ByteInv
  <2>2. CASE Poll
    <3>1. FromMouse = <<>> /\ at \in Early \ {"drain"} /\ at' \in Early
      BY <2>2 DEF Poll, MouseInv, Early
    <3>2. UNCHANGED <<queue, phase, step>> /\ (obf' = obf \/ obf' = <<>>)
      BY <2>2 DEF Poll
    <3>3. FromMouse' = <<>>
      <4>1. CASE obf' = obf
        BY <1>2, <3>1, <3>2, <4>1
      <4>2. CASE obf' = <<>>
        <5>1. obf = <<>> \/ \E b \in KbdByte : obf = <<b>>
          BY <1>1, <3>1, OnItsWay DEF ByteInv
        <5>2. FromMouse = queue.aux /\ queue'.aux = queue.aux
          BY <1>1, <3>2, <5>1, OnItsWay
        <5>3. FromMouse' = <<>> \o queue'.aux
          BY <4>2 DEF FromMouse
        <5>4. queue.aux \in Seq(AuxByte)
          BY <1>1 DEF ByteInv
        <5> QED
          BY <3>1, <5>2, <5>3, <5>4, ConcatEmptySeq
      <4> QED
        BY <3>2, <4>1, <4>2
    <3>4. FromMouse' = FromMouse
      BY <3>1, <3>3
    <3> QED
      BY <1>1, <3>1, <3>2, <3>4, MouseWaits
  <2>3. CASE EnableMouse
    <3>1. at = "aux" /\ at' = "drain" /\ UNCHANGED <<obf, phase, step>>
          /\ queue' = [queue EXCEPT !.aux = Append(@, Ack("aux"))]
      BY <2>3 DEF EnableMouse, Program
    <3>2. at \in Early \ {"drain"} /\ at' \notin Early \ {"drain"} /\ at \in Early
      BY <3>1 DEF Early
    <3>3. FromMouse = <<>> /\ (obf = <<>> \/ \E b \in KbdByte : obf = <<b>>)
      BY <1>1, <3>2, OnItsWay DEF MouseInv, ByteInv
    <3>4. queue.aux = <<>>
      BY <1>1, <3>3, OnItsWay
    <3>5. queue'.aux = <<Ack("aux")>>
      BY <1>1, <3>1, <3>4 DEF ByteInv
    <3>6. FromMouse' = queue'.aux
      <4>1. ~(obf' # <<>> /\ obf'[1].src = "aux")
        BY <3>1, <3>3 DEF KbdByte
      <4>2. FromMouse' = <<>> \o queue'.aux /\ queue'.aux \in Seq(AuxByte)
        BY <1>1, <4>1 DEF FromMouse, ByteInv
      <4> QED
        BY <4>2, ConcatEmptySeq
    <3>7. FromMouse' = FromMouse \o <<Ack("aux")>>
      BY <3>3, <3>5, <3>6, PacketSeqs, ConcatEmptySeq
    <3> QED
      BY <1>1, <3>1, <3>2, <3>7, MouseWaits
  <2>4. CASE Drain
    <3>1. /\ at = "drain" /\ at' = "sti" /\ UNCHANGED <<queue, phase, step>> /\ obf' = <<>>
      BY <2>4 DEF Drain, Program
    <3>2. step = "out" /\ at' \notin Early
      BY <3>1 DEF MouseInv, Early
    <3>3. Chain(queue.aux)
      <4>1. CASE obf = <<>> \/ \E b \in KbdByte : obf = <<b>>
        BY <1>1, <4>1, OnItsWay DEF MouseInv
      <4>2. CASE \E b \in AuxByte : obf = <<b>>
        BY <1>1, <4>2, OnItsWay, ChainTail DEF MouseInv
      <4> QED
        BY <1>1, <4>1, <4>2 DEF ByteInv
    <3>4. FromMouse' = queue.aux
      BY <1>1, <3>1, ConcatEmptySeq DEF FromMouse, ByteInv
    <3> QED
      BY <1>1, <3>1, <3>2, <3>3, <3>4 DEF MouseInv
  <2> QED
    BY <1>5, <2>1, <2>2, <2>3, <2>4 DEF Start
<1>6. CASE Loop \/ User \/ Dead \/ Fault
  BY <1>3, <1>6, OwnSteps
<1>7. CASE Service
  <2>1. CASE ~isr21 /\ ~isr2c
    <3>1. UNCHANGED <<obf, queue, phase, step>> /\ at' \in {at, "top"}
      BY <1>7, <2>1 DEF Service, Accept, Eoi, isr20, NoInput, Only_at, devvars
    <3> QED
      BY <1>3, <3>1 DEF Early
  <2>2. CASE isr21
    <3>1. obf' = <<>> /\ UNCHANGED <<queue, phase, step, at>>
      BY <2>2 DEF isr21
    <3>2. \E b \in KbdByte : obf = <<b>>
      <4>1. \E i \in DOMAIN obf : obf[i].src = "kbd"
        BY <2>2 DEF isr21, Delivered
      <4> QED
        BY <1>1, <4>1 DEF ByteInv, AuxByte
    <3>3. FromMouse' = FromMouse
      <4>1. FromMouse = queue.aux
        BY <1>1, <3>2, OnItsWay
      <4> QED
        BY <1>1, <3>1, <4>1, ConcatEmptySeq DEF FromMouse, ByteInv
    <3> QED
      BY <1>1, <3>1, <3>3, MouseWaits
  <2>3. CASE isr2c
    <3>1. /\ obf' = <<>> /\ UNCHANGED <<queue, at>> /\ pc = "handler"
      BY <2>3 DEF isr2c, Done
    <3>2. PICK b \in AuxByte : obf = <<b>>
      <4>1. \E i \in DOMAIN obf : obf[i].src = "aux"
        BY <2>3 DEF isr2c, Delivered
      <4> QED
        BY <1>1, <4>1 DEF ByteInv, KbdByte
    <3>3. FromMouse # <<>> /\ FromMouse[1] = b /\ Tail(FromMouse) = queue.aux
      BY <1>1, <3>2, OnItsWay
    <3>4. FromMouse' = queue.aux
      BY <1>1, <3>1, ConcatEmptySeq DEF FromMouse, ByteInv
    <3>5. Chain(queue.aux) /\ Expected(queue.aux) = Succ(b.n) /\ b.n \in 0..3
      BY <3>3, ChainTail DEF MouseInv
    <3>6. at' \notin Early
      BY <1>1, <3>1 DEF ByteInv, NoIrq
    <3>7. PICK c : c \in Looks(b) /\ phase' = md(phase, c) /\ step' = InStep(step, c)
      BY <2>3, <3>2 DEF isr2c
    <3>8. c.n = b.n
      BY <3>2, <3>7 DEF Looks, AuxByte
    <3>9. step' \in Steps /\ phase' \in 0..3
      BY <3>7 DEF InStep, md, Steps, MouseInv
    <3>10. step' = "out" => phase' = 0
      BY <3>7 DEF InStep, md, Steps, MouseInv
    <3>11. ASSUME step' = "in" PROVE phase' = Succ(b.n) /\ phase' # 0
      <4>1. CASE step = "in"
        <5>1. phase = b.n /\ phase # 0 /\ (c.n = 1 => c.v = "first")
          BY <3>3, <3>7, <3>8, <3>11, <4>1 DEF MouseInv, Expected, InStep
        <5> QED
          BY <3>5, <3>7, <3>8, <5>1 DEF md, Succ
      <4>2. CASE step = "out"
        <5>1. phase = 0 /\ c.v = "FA" /\ c.n \in {0, 3}
          BY <3>7, <3>11, <4>2 DEF MouseInv, InStep
        <5> QED
          BY <3>7, <3>8, <5>1 DEF md, Succ
      <4>3. CASE step = "skip"
        <5>1. phase = 1 /\ c.v # "first" /\ c.n = 3
          BY <3>7, <3>11, <4>3 DEF MouseInv, InStep
        <5> QED
          BY <3>7, <3>8, <5>1 DEF md, Succ
      <4> QED
        BY <3>7, <3>11, <4>1, <4>2, <4>3 DEF InStep, Steps, MouseInv
    <3>12. ASSUME step' = "skip" PROVE phase' = 1 /\ Succ(b.n) \in {2, 3}
      <4>1. CASE step = "in"
        <5>1. phase = c.n /\ c.n = 1 /\ c.v # "first"
          BY <3>3, <3>7, <3>8, <3>12, <4>1 DEF MouseInv, Expected, InStep
        <5> QED
          BY <3>7, <3>8, <5>1 DEF md, Succ
      <4>2. CASE step = "out"
        <5>1. phase = 0 /\ c.v = "FA" /\ c.n \notin {0, 3}
          BY <3>7, <3>12, <4>2 DEF MouseInv, InStep
        <5> QED
          BY <3>5, <3>7, <3>8, <5>1 DEF md, Succ
      <4>3. CASE step = "skip"
        <5>1. phase = 1 /\ c.v # "first" /\ c.n # 3 /\ b.n \in {2, 3}
          BY <3>3, <3>7, <3>12, <4>3 DEF MouseInv, InStep, Expected
        <5> QED
          BY <3>7, <3>8, <5>1 DEF md, Succ
      <4> QED
        BY <3>7, <3>12, <4>1, <4>2, <4>3 DEF InStep, Steps, MouseInv
    <3> QED
      BY <1>1, <3>4, <3>5, <3>6, <3>9, <3>10, <3>11, <3>12 DEF MouseInv
  <2> QED
    BY <1>7, <2>1, <2>2, <2>3
<1>8. CASE UNCHANGED vars
  BY <1>3, <1>8 DEF vars, devvars, kernvars
<1> QED
  BY <1>4, <1>5, <1>6, <1>7, <1>8 DEF Next, Cpu

LEMMA ByteInit == Init => ByteInv /\ FromMouse = <<>>
<1> SUFFICES ASSUME Init PROVE ByteInv /\ FromMouse = <<>>
  OBVIOUS
<1>1. /\ queue = [kbd |-> <<>>, aux |-> <<>>] /\ obf = <<>> /\ sent = [kbd |-> 0, aux |-> 0, pit |-> 0]
      /\ pc = "running" /\ ~iflag
  BY DEF Init, CpuInit
<1>2. <<>> \in Seq(KbdByte) /\ <<>> \in Seq(AuxByte)
  BY EmptySeq
<1>3. ByteInv
  BY <1>1, <1>2, InputAssumption DEF ByteInv
<1>4. FromMouse = <<>>
  BY <1>1, <1>3, OnItsWay
<1> QED
  BY <1>3, <1>4

(* md is in the phase of the byte that comes next, or skips the rest of a  *)
(* packet it could not begin and goes on with the next one, whatever comes *)
(* between the mouse's bytes and whatever they look like, until a byte of  *)
(* such a rest is taken for a first one (isr.h:15-16, 22, 42;              *)
(* ps2.h:46-55).                                                           *)
THEOREM MouseStaysInStep == Spec => []StaysInStep
<1>1. Init => MouseInv
  <2> SUFFICES ASSUME Init PROVE MouseInv
    OBVIOUS
  <2>1. phase = 0 /\ step = "out"
    BY DEF Init
  <2>2. Chain(<<>>)
    BY EmptySeq DEF Chain
  <2>3. ByteInv /\ FromMouse = <<>> /\ Chain(FromMouse)
    BY <2>2, ByteInit
  <2> QED
    BY <2>1, <2>3 DEF MouseInv, Steps
<1>2. MouseInv => StaysInStep
  BY DEF MouseInv, StaysInStep, Expected, NextByte
<1> QED
  BY <1>1, <1>2, MouseStep, PTL DEF Spec

-----------------------------------------------------------------------------
(* Keys in a sequence of bytes.                                            *)
Byte == KbdByte \cup AuxByte

LEMMA Widened == \A s : s \in Seq(KbdByte) \/ s \in Seq(AuxByte) => s \in Seq(Byte)
BY DEF Byte

LEMMA KeysAre ==
  ASSUME NEW s \in Seq(Byte)
  PROVE  /\ \A n : n \in KeysOf(s) <=> \E i \in 1..Len(s) : IsKey(s[i]) /\ s[i].n = n
         /\ Rising(s) <=> \A i, j \in 1..Len(s) : i < j /\ IsKey(s[i]) /\ IsKey(s[j]) => s[i].n < s[j].n
         /\ KeysOf(s) \subseteq Nat \ {0}
<1>1. DOMAIN s = 1..Len(s) /\ \A i \in 1..Len(s) : s[i] \in Byte
  OBVIOUS
<1>2. \A n : n \in KeysOf(s) <=> \E i \in 1..Len(s) : IsKey(s[i]) /\ s[i].n = n
  BY <1>1 DEF KeysOf
<1>3. Rising(s) <=> \A i, j \in 1..Len(s) : i < j /\ IsKey(s[i]) /\ IsKey(s[j]) => s[i].n < s[j].n
  BY <1>1 DEF Rising
<1>4. \A b \in Byte : IsKey(b) => b.n \in Nat \ {0}
  BY DEF Byte, KbdByte, AuxByte, IsKey
<1> QED
  BY <1>1, <1>2, <1>3, <1>4

LEMMA KeysJoined ==
  ASSUME NEW s \in Seq(Byte), NEW t \in Seq(Byte)
  PROVE  /\ s \o t \in Seq(Byte) /\ KeysOf(s \o t) = KeysOf(s) \cup KeysOf(t)
         /\ Rising(s \o t) <=> /\ Rising(s) /\ Rising(t)
                               /\ \A k \in KeysOf(s) : \A n \in KeysOf(t) : k < n
<1> DEFINE u == s \o t
           l == Len(s)
           m == Len(t)
<1>1. /\ u \in Seq(Byte) /\ Len(u) = l + m /\ l \in Nat /\ m \in Nat
      /\ \A i \in 1..l : u[i] = s[i]
      /\ \A i \in 1..m : u[l + i] = t[i]
  BY Joined
<1>2. /\ \A n : n \in KeysOf(s) <=> \E i \in 1..l : IsKey(s[i]) /\ s[i].n = n
      /\ Rising(s) <=> \A i, j \in 1..l : i < j /\ IsKey(s[i]) /\ IsKey(s[j]) => s[i].n < s[j].n
  BY KeysAre
<1>3. /\ \A n : n \in KeysOf(t) <=> \E i \in 1..m : IsKey(t[i]) /\ t[i].n = n
      /\ Rising(t) <=> \A i, j \in 1..m : i < j /\ IsKey(t[i]) /\ IsKey(t[j]) => t[i].n < t[j].n
  BY KeysAre
<1> HIDE DEF u, l, m
<1>4. /\ \A n : n \in KeysOf(u) <=> \E i \in 1..l+m : IsKey(u[i]) /\ u[i].n = n
      /\ Rising(u) <=> \A i, j \in 1..l+m : i < j /\ IsKey(u[i]) /\ IsKey(u[j]) => u[i].n < u[j].n
  <2>1. u \in Seq(Byte)
    BY <1>1
  <2>2. /\ \A n : n \in KeysOf(u) <=> \E i \in 1..Len(u) : IsKey(u[i]) /\ u[i].n = n
        /\ Rising(u) <=> \A i, j \in 1..Len(u) : i < j /\ IsKey(u[i]) /\ IsKey(u[j]) => u[i].n < u[j].n
    BY <2>1, KeysAre
  <2>3. 1..Len(u) = 1..l+m
    BY <1>1
  <2> QED
    BY <2>2, <2>3, Zenon
<1>5. \A i \in 1..l+m : i \in 1..l \/ (i - l \in 1..m /\ u[i] = t[i - l])
  <2> TAKE i \in 1..l+m
  <2>1. CASE i <= l
    BY <1>1, <2>1
  <2>2. CASE i > l
    <3>1. i - l \in 1..m /\ l + (i - l) = i
      BY <1>1, <2>2
    <3> QED
      BY <1>1, <3>1
  <2> QED
    BY <1>1, <2>1, <2>2
<1>6. \A i \in 1..l : i \in 1..l+m
  BY <1>1
<1>7. \A i \in 1..m : l + i \in 1..l+m
  BY <1>1
<1>8. \A n : n \in KeysOf(u) <=> n \in KeysOf(s) \/ n \in KeysOf(t)
  <2> TAKE n
  <2>1. n \in KeysOf(u) => n \in KeysOf(s) \/ n \in KeysOf(t)
    BY <1>1, <1>2, <1>3, <1>4, <1>5
  <2>2. n \in KeysOf(s) => n \in KeysOf(u)
    BY <1>1, <1>2, <1>4, <1>6
  <2>3. n \in KeysOf(t) => n \in KeysOf(u)
    BY <1>1, <1>3, <1>4, <1>7
  <2> QED
    BY <2>1, <2>2, <2>3
<1>9. ASSUME Rising(u)
      PROVE  Rising(s) /\ Rising(t) /\ \A k \in KeysOf(s) : \A n \in KeysOf(t) : k < n
  <2>1. Rising(s)
    BY <1>1, <1>2, <1>4, <1>6, <1>9
  <2>2. Rising(t)
    <3> SUFFICES ASSUME NEW i \in 1..m, NEW j \in 1..m, i < j, IsKey(t[i]), IsKey(t[j])
                 PROVE  t[i].n < t[j].n
      BY <1>3
    <3>1. l + i \in 1..l+m /\ l + j \in 1..l+m /\ l + i < l + j
      BY <1>1
    <3>2. u[l + i] = t[i] /\ u[l + j] = t[j]
      BY <1>1
    <3> QED
      BY <1>4, <1>9, <3>1, <3>2
  <2>3. ASSUME NEW k \in KeysOf(s), NEW n \in KeysOf(t) PROVE k < n
    <3>1. PICK i \in 1..l : IsKey(s[i]) /\ s[i].n = k
      BY <1>2
    <3>2. PICK j \in 1..m : IsKey(t[j]) /\ t[j].n = n
      BY <1>3
    <3>3. i \in 1..l+m /\ l + j \in 1..l+m /\ i < l + j
      BY <1>1
    <3>4. u[i] = s[i] /\ u[l + j] = t[j]
      BY <1>1
    <3> QED
      BY <1>4, <1>9, <3>1, <3>2, <3>3, <3>4
  <2> QED
    BY <2>1, <2>2, <2>3
<1>10. ASSUME Rising(s), Rising(t), \A k \in KeysOf(s) : \A n \in KeysOf(t) : k < n
       PROVE  Rising(u)
  <2> SUFFICES ASSUME NEW i \in 1..l+m, NEW j \in 1..l+m, i < j, IsKey(u[i]), IsKey(u[j])
               PROVE  u[i].n < u[j].n
    BY <1>4
  <2>1. CASE i \in 1..l /\ j \in 1..l
    BY <1>1, <1>2, <1>10, <2>1
  <2>2. CASE i \in 1..l /\ j \notin 1..l
    <3>1. j - l \in 1..m /\ u[j] = t[j - l] /\ u[i] = s[i]
      BY <1>1, <1>5, <2>2
    <3>2. u[i].n \in KeysOf(s) /\ u[j].n \in KeysOf(t)
      BY <1>2, <1>3, <2>2, <3>1
    <3> QED
      BY <1>10, <3>2
  <2>3. CASE i \notin 1..l
    <3>1. i - l \in 1..m /\ j - l \in 1..m /\ i - l < j - l
      BY <1>1, <2>3
    <3>2. u[i] = t[i - l] /\ u[j] = t[j - l]
      <4>1. j \notin 1..l
        BY <1>1, <2>3
      <4> QED
        BY <1>5, <2>3, <4>1
    <3> QED
      BY <1>3, <1>10, <3>1, <3>2
  <2> QED
    BY <2>1, <2>2, <2>3
<1> QED
  BY <1>1, <1>8, <1>9, <1>10 DEF u

LEMMA OneByte ==
  ASSUME NEW b \in Byte
  PROVE  /\ <<b>> \in Seq(Byte) /\ Rising(<<b>>)
         /\ IsKey(b) => KeysOf(<<b>>) = {b.n} /\ b.n \in Nat \ {0}
         /\ ~IsKey(b) => KeysOf(<<b>>) = {}
<1> DEFINE o == <<b>>
<1>1. o \in Seq(Byte) /\ Len(o) = 1 /\ o[1] = b
  OBVIOUS
<1> HIDE DEF o
<1>2. \A i \in 1..Len(o) : i = 1
  BY <1>1
<1>3. \A n : n \in KeysOf(o) <=> IsKey(b) /\ b.n = n
  BY <1>1, <1>2, KeysAre
<1>4. Rising(o)
  BY <1>1, <1>2, KeysAre
<1>5. IsKey(b) => b.n \in Nat \ {0}
  BY DEF Byte, KbdByte, AuxByte, IsKey
<1> QED
  BY <1>1, <1>3, <1>4, <1>5 DEF o

(* What KeysInOrder says of a path p when m keys were pressed, and no key  *)
(* that was dropped is still on it.                                        *)
InOrder(p, f, m) ==
  /\ Rising(p)
  /\ \A k \in f.handled : \A n \in KeysOf(p) : k < n
  /\ f.handled \cup f.dropped \cup KeysOf(p) = 1..m
  /\ f.handled \cap f.dropped = {} /\ f.dropped \cap KeysOf(p) = {}

Fates == [handled : SUBSET Nat, dropped : SUBSET Nat]

(* The path is two parts, with or without a byte between them.             *)
LEMMA Between ==
  ASSUME NEW s \in Seq(Byte), NEW t \in Seq(Byte), NEW b \in Byte
  PROVE  /\ s \o <<b>> \o t \in Seq(Byte)
         /\ KeysOf(s \o <<b>> \o t) = KeysOf(s) \cup KeysOf(<<b>>) \cup KeysOf(t)
         /\ Rising(s \o <<b>> \o t) <=>
              /\ Rising(s) /\ Rising(t)
              /\ \A k \in KeysOf(s) : \A n \in KeysOf(t) : k < n
              /\ \A k \in KeysOf(s) : \A n \in KeysOf(<<b>>) : k < n
              /\ \A k \in KeysOf(<<b>>) : \A n \in KeysOf(t) : k < n
<1> DEFINE o == <<b>>
           u == s \o o
<1>1. o \in Seq(Byte) /\ Rising(o)
  BY OneByte
<1> HIDE DEF o
<1>2. /\ u \in Seq(Byte) /\ KeysOf(u) = KeysOf(s) \cup KeysOf(o)
      /\ Rising(u) <=> Rising(s) /\ Rising(o) /\ \A k \in KeysOf(s) : \A n \in KeysOf(o) : k < n
  BY <1>1, KeysJoined
<1> HIDE DEF u
<1>3. /\ u \o t \in Seq(Byte) /\ KeysOf(u \o t) = KeysOf(u) \cup KeysOf(t)
      /\ Rising(u \o t) <=> Rising(u) /\ Rising(t) /\ \A k \in KeysOf(u) : \A n \in KeysOf(t) : k < n
  BY <1>2, KeysJoined
<1>4. KeysOf(u \o t) = KeysOf(s) \cup KeysOf(o) \cup KeysOf(t)
  BY <1>2, <1>3
<1>5. Rising(u \o t) <=>
        /\ Rising(s) /\ Rising(t)
        /\ \A k \in KeysOf(s) : \A n \in KeysOf(t) : k < n
        /\ \A k \in KeysOf(s) : \A n \in KeysOf(o) : k < n
        /\ \A k \in KeysOf(o) : \A n \in KeysOf(t) : k < n
  <2> HIDE DEF u
  <2>1. \A k : k \in KeysOf(u) <=> k \in KeysOf(s) \/ k \in KeysOf(o)
    BY <1>2
  <2> QED
    BY <1>1, <1>2, <1>3, <2>1, Zenon
<1> QED
  BY <1>3, <1>4, <1>5 DEF u, o

(* A byte that is no key comes or goes; a key is dropped.                  *)
LEMMA NoKeyBetween ==
  ASSUME NEW s \in Seq(Byte), NEW t \in Seq(Byte), NEW b \in Byte, NEW f, NEW m, ~IsKey(b)
  PROVE  InOrder(s \o <<b>> \o t, f, m) <=> InOrder(s \o t, f, m)
<1> DEFINE u == s \o <<b>> \o t
           v == s \o t
<1>1. KeysOf(<<b>>) = {}
  BY OneByte
<1>2. KeysOf(u) = KeysOf(s) \cup KeysOf(<<b>>) \cup KeysOf(t) /\ KeysOf(v) = KeysOf(s) \cup KeysOf(t)
  <2>1. KeysOf(v) = KeysOf(s) \cup KeysOf(t)
    BY KeysJoined
  <2>2. KeysOf(u) = KeysOf(s) \cup KeysOf(<<b>>) \cup KeysOf(t)
    BY Between
  <2> QED
    BY <2>1, <2>2
<1>3. Rising(u) <=> Rising(v)
  <2>1. Rising(v) <=> Rising(s) /\ Rising(t) /\ \A k \in KeysOf(s) : \A n \in KeysOf(t) : k < n
    BY KeysJoined
  <2>2. Rising(u) <=> /\ Rising(s) /\ Rising(t)
                      /\ \A k \in KeysOf(s) : \A n \in KeysOf(t) : k < n
                      /\ \A k \in KeysOf(s) : \A n \in KeysOf(<<b>>) : k < n
                      /\ \A k \in KeysOf(<<b>>) : \A n \in KeysOf(t) : k < n
    BY Between
  <2> HIDE DEF u, v
  <2> QED
    BY <1>1, <2>1, <2>2, Zenon
<1>4. KeysOf(u) = KeysOf(v)
  <2> HIDE DEF u, v
  <2> QED
    BY <1>1, <1>2
<1> HIDE DEF u, v
<1> QED
  BY <1>3, <1>4 DEF InOrder, u, v

LEMMA KeyDropped ==
  ASSUME NEW s \in Seq(Byte), NEW t \in Seq(Byte), NEW b \in Byte, NEW f \in Fates, NEW m,
         IsKey(b), InOrder(s \o <<b>> \o t, f, m)
  PROVE  InOrder(s \o t, [f EXCEPT !.dropped = @ \cup {b.n}], m)
<1> DEFINE u == s \o <<b>> \o t
           v == s \o t
           g == [f EXCEPT !.dropped = @ \cup {b.n}]
<1>1. KeysOf(<<b>>) = {b.n} /\ b.n \in Nat
  BY OneByte
<1>2. /\ KeysOf(u) = KeysOf(s) \cup {b.n} \cup KeysOf(t) /\ KeysOf(v) = KeysOf(s) \cup KeysOf(t)
      /\ Rising(u) => /\ Rising(v)
                      /\ \A k \in KeysOf(s) : k < b.n
                      /\ \A n \in KeysOf(t) : b.n < n
  <2>1. /\ KeysOf(v) = KeysOf(s) \cup KeysOf(t)
        /\ Rising(v) <=> Rising(s) /\ Rising(t) /\ \A k \in KeysOf(s) : \A n \in KeysOf(t) : k < n
    BY KeysJoined
  <2>2. /\ KeysOf(u) = KeysOf(s) \cup KeysOf(<<b>>) \cup KeysOf(t)
        /\ Rising(u) <=> /\ Rising(s) /\ Rising(t)
                         /\ \A k \in KeysOf(s) : \A n \in KeysOf(t) : k < n
                         /\ \A k \in KeysOf(s) : \A n \in KeysOf(<<b>>) : k < n
                         /\ \A k \in KeysOf(<<b>>) : \A n \in KeysOf(t) : k < n
    BY Between
  <2> HIDE DEF u, v
  <2>3. b.n \in KeysOf(<<b>>)
    BY <1>1
  <2>4. Rising(u) => /\ Rising(v)
                     /\ \A k \in KeysOf(s) : k < b.n
                     /\ \A n \in KeysOf(t) : b.n < n
    BY <2>1, <2>2, <2>3, Zenon
  <2> QED
    BY <1>1, <2>1, <2>2, <2>4
<1>3. g.handled = f.handled /\ g.dropped = f.dropped \cup {b.n}
  BY DEF Fates
<1>4. InOrder(u, f, m)
  OBVIOUS
<1> HIDE DEF u, v, g
<1>5. b.n \notin KeysOf(v) /\ b.n \notin f.handled
  BY <1>1, <1>2, <1>4 DEF InOrder
<1>6. Rising(v) /\ \A k \in f.handled : \A n \in KeysOf(v) : k < n
  BY <1>2, <1>4 DEF InOrder
<1>7. f.handled \cup g.dropped \cup KeysOf(v) = 1..m
  BY <1>2, <1>3, <1>4 DEF InOrder
<1>8. f.handled \cap g.dropped = {} /\ g.dropped \cap KeysOf(v) = {}
  BY <1>2, <1>3, <1>4, <1>5 DEF InOrder
<1> QED
  BY <1>3, <1>6, <1>7, <1>8 DEF InOrder, v, g

(* The first byte is handled.                                              *)
LEMMA KeyHandled ==
  ASSUME NEW b \in KbdByte, NEW t \in Seq(Byte), NEW f \in Fates, NEW m,
         InOrder(<<b>> \o t, f, m)
  PROVE  InOrder(t, [f EXCEPT !.handled = (@ \cup {b.n}) \ {0}], m)
<1> DEFINE o == <<b>>
           u == o \o t
           g == [f EXCEPT !.handled = (@ \cup {b.n}) \ {0}]
<1>1. b \in Byte /\ b.n \in Nat /\ (IsKey(b) <=> b.n # 0)
  BY DEF Byte, KbdByte, IsKey
<1>2. /\ o \in Seq(Byte)
      /\ IsKey(b) => KeysOf(o) = {b.n}
      /\ ~IsKey(b) => KeysOf(o) = {}
  BY <1>1, OneByte
<1>3. g.handled = (f.handled \cup {b.n}) \ {0} /\ g.dropped = f.dropped
  BY DEF Fates
<1>4. InOrder(u, f, m)
  OBVIOUS
<1> HIDE DEF o
<1>5. /\ KeysOf(u) = KeysOf(o) \cup KeysOf(t)
      /\ Rising(u) <=> Rising(o) /\ Rising(t) /\ \A k \in KeysOf(o) : \A n \in KeysOf(t) : k < n
  BY <1>2, KeysJoined
<1> HIDE DEF u, g
<1>6. 0 \notin f.handled
  BY <1>4 DEF InOrder
<1>7. g.handled = f.handled \cup KeysOf(o)
  BY <1>1, <1>2, <1>3, <1>6
<1> QED
  BY <1>3, <1>4, <1>5, <1>7 DEF InOrder, g

(* A key is pressed.                                                       *)
LEMMA KeyPressed ==
  ASSUME NEW p \in Seq(Byte), NEW b \in Byte, NEW f, NEW m \in Nat,
         IsKey(b), b.n = m + 1, InOrder(p, f, m)
  PROVE  InOrder(p \o <<b>>, f, m + 1)
<1> DEFINE o == <<b>>
           u == p \o o
<1>1. o \in Seq(Byte) /\ Rising(o) /\ KeysOf(o) = {m + 1}
  BY OneByte
<1> HIDE DEF o
<1>2. /\ KeysOf(u) = KeysOf(p) \cup KeysOf(o)
      /\ Rising(u) <=> Rising(p) /\ Rising(o) /\ \A k \in KeysOf(p) : \A n \in KeysOf(o) : k < n
  BY <1>1, KeysJoined
<1> HIDE DEF u
<1>3. \A k \in f.handled \cup f.dropped \cup KeysOf(p) : k \in 1..m
  BY DEF InOrder
<1>4. \A k \in 1..m : k < m + 1
  OBVIOUS
<1>5. Rising(u) /\ \A k \in f.handled : \A n \in KeysOf(u) : k < n
  BY <1>1, <1>2, <1>3, <1>4 DEF InOrder
<1>6. f.handled \cup f.dropped \cup KeysOf(u) = 1..m+1
  <2>1. 1..m+1 = 1..m \cup {m + 1}
    OBVIOUS
  <2> QED
    BY <1>1, <1>2, <2>1 DEF InOrder
<1>7. m + 1 \notin f.dropped
  BY <1>3, <1>4
<1>8. f.handled \cap f.dropped = {} /\ f.dropped \cap KeysOf(u) = {}
  BY <1>1, <1>2, <1>7 DEF InOrder
<1> QED
  BY <1>5, <1>6, <1>8 DEF InOrder, u, o

-----------------------------------------------------------------------------
(* The FIFO as a ring: c bytes from r on.                                  *)
LEMMA ModWrap ==
  ASSUME NEW Q \in Nat \ {0}, NEW x \in 0..2*Q-1
  PROVE  x % Q = IF x < Q THEN x ELSE x - Q
<1>1. CASE x < Q
  BY <1>1, SMT
<1>2. CASE x >= Q
  BY <1>2, SMT
<1> QED BY <1>1, <1>2

LEMMA PlaceIs ==
  ASSUME NEW Q \in Nat \ {0}, NEW r \in 0..Q-1, NEW c \in 0..Q
  PROVE  /\ r + c < Q => (r + c) % Q = r + c
         /\ r + c >= Q => (r + c) % Q = r + c - Q
         /\ (r + c) % Q \in 0..Q-1
<1> DEFINE x == r + c
<1>1. x \in 0..2*Q-1
  OBVIOUS
<1> HIDE DEF x
<1>2. x % Q = IF x < Q THEN x ELSE x - Q
  BY <1>1, ModWrap
<1>3. (x < Q => x % Q = x) /\ (x >= Q => x % Q = x - Q) /\ x % Q \in 0..Q-1
  BY <1>1, <1>2
<1> QED
  BY <1>3 DEF x

(* The place behind n bytes, and the places of those bytes.                *)
LEMMA PlacesPut ==
  ASSUME NEW Q \in Nat \ {0}, NEW r \in 0..Q-1, NEW n \in 0..Q-1
  PROVE  /\ (((r + n) % Q) + 1) % Q = (r + (n + 1)) % Q
         /\ (r + (n + 1)) % Q \in 0..Q-1
         /\ \A i \in 1..n : (r + i - 1) % Q \in 0..Q-1 /\ (r + i - 1) % Q # (r + n) % Q
<1> DEFINE w == (r + n) % Q
<1>1. /\ r + n < Q => w = r + n
      /\ r + n >= Q => w = r + n - Q
      /\ w \in 0..Q-1
  <2>1. n \in 0..Q
    OBVIOUS
  <2> QED
    BY <2>1, PlaceIs
<1> HIDE DEF w
<1>2. /\ w + 1 < Q => (w + 1) % Q = w + 1
      /\ w + 1 >= Q => (w + 1) % Q = w + 1 - Q
  <2>1. 1 \in 0..Q
    OBVIOUS
  <2> QED
    BY <1>1, <2>1, PlaceIs
<1>3. /\ r + (n + 1) < Q => (r + (n + 1)) % Q = r + (n + 1)
      /\ r + (n + 1) >= Q => (r + (n + 1)) % Q = r + (n + 1) - Q
      /\ (r + (n + 1)) % Q \in 0..Q-1
  <2>1. n + 1 \in 0..Q
    OBVIOUS
  <2> QED
    BY <2>1, PlaceIs
<1>4. ASSUME NEW i \in 1..n PROVE (r + i - 1) % Q \in 0..Q-1 /\ (r + i - 1) % Q # w
  <2>1. i - 1 \in 0..Q /\ r + i - 1 = r + (i - 1)
    OBVIOUS
  <2>2. /\ r + (i - 1) < Q => (r + (i - 1)) % Q = r + (i - 1)
        /\ r + (i - 1) >= Q => (r + (i - 1)) % Q = r + (i - 1) - Q
        /\ (r + (i - 1)) % Q \in 0..Q-1
    BY <2>1, PlaceIs
  <2> QED
    BY <1>1, <2>1, <2>2
<1>5. (w + 1) % Q = (r + (n + 1)) % Q
  BY <1>1, <1>2, <1>3
<1> QED
  BY <1>3, <1>4, <1>5 DEF w

(* The places seen from the second byte.                                   *)
LEMMA PlacesGet ==
  ASSUME NEW Q \in Nat \ {0}, NEW r \in 0..Q-1
  PROVE  /\ (r + 1) % Q \in 0..Q-1 /\ r % Q = r
         /\ \A i \in 1..Q : (((r + 1) % Q) + i - 1) % Q = (r + i) % Q
<1> DEFINE h1 == (r + 1) % Q
<1>1. /\ r + 1 < Q => h1 = r + 1
      /\ r + 1 >= Q => h1 = r + 1 - Q
      /\ h1 \in 0..Q-1
  <2>1. 1 \in 0..Q
    OBVIOUS
  <2> QED
    BY <2>1, PlaceIs
<1>2. r % Q = r
  OBVIOUS
<1> HIDE DEF h1
<1>3. ASSUME NEW i \in 1..Q PROVE (h1 + i - 1) % Q = (r + i) % Q
  <2>1. i - 1 \in 0..Q /\ i \in 0..Q /\ h1 + i - 1 = h1 + (i - 1)
    BY <1>1
  <2>2. /\ r + i < Q => (r + i) % Q = r + i
        /\ r + i >= Q => (r + i) % Q = r + i - Q
    BY <2>1, PlaceIs
  <2>3. /\ h1 + (i - 1) < Q => (h1 + (i - 1)) % Q = h1 + (i - 1)
        /\ h1 + (i - 1) >= Q => (h1 + (i - 1)) % Q = h1 + (i - 1) - Q
    BY <1>1, <2>1, PlaceIs
  <2> QED
    BY <1>1, <2>1, <2>2, <2>3
<1> QED
  BY <1>1, <1>2, <1>3 DEF h1

Ring(k, c) == [i \in 1..c |-> k.buf[(k.r + i - 1) % FS]]

Rings == [buf : [0..FS-1 -> KbdByte], r : 0..FS-1, w : 0..FS-1, n : 0..FS]
RingOk(k, c) == k \in Rings /\ c \in 0..FS /\ k.w = (k.r + c) % FS

LEMMA RingIs ==
  ASSUME NEW k, NEW c, RingOk(k, c)
  PROVE  /\ Ring(k, c) \in Seq(Byte) /\ Len(Ring(k, c)) = c
         /\ \A i \in 1..c : Ring(k, c)[i] = k.buf[(k.r + i - 1) % FS]
<1>1. c \in Nat /\ \A i \in 1..c : k.buf[(k.r + i - 1) % FS] \in Byte
  <2>1. c \in 0..FS /\ k.r \in 0..FS-1 /\ k.buf \in [0..FS-1 -> KbdByte] /\ FS \in Nat \ {0}
    BY InputAssumption DEF RingOk, Rings
  <2>2. \A i \in 1..c : k.r + i - 1 \in 0..2*FS-1
    BY <2>1
  <2>3. \A i \in 1..c : (k.r + i - 1) % FS \in 0..FS-1
    BY <2>1, <2>2
  <2> QED
    BY <2>1, <2>3 DEF Byte
<1> QED
  BY <1>1 DEF Ring

LEMMA RingPut ==
  ASSUME NEW k, NEW b \in KbdByte, RingOk(k, k.n), k.n < FS,
         NEW l, l = [k EXCEPT !.buf[k.w] = b, !.w = (@ + 1) % FS, !.n = @ + 1]
  PROVE  RingOk(l, l.n) /\ l.n = k.n + 1 /\ Ring(l, l.n) = Ring(k, k.n) \o <<b>>
<1> DEFINE n == k.n
<1>1. /\ n \in 0..FS-1 /\ k.r \in 0..FS-1 /\ k.w \in 0..FS-1 /\ FS \in Nat \ {0}
      /\ k.buf \in [0..FS-1 -> KbdByte] /\ k.w = (k.r + n) % FS
  BY InputAssumption DEF RingOk, Rings
<1>2. /\ l.r = k.r /\ l.w = (k.w + 1) % FS /\ l.n = n + 1
      /\ l.buf = [k.buf EXCEPT ![k.w] = b]
      /\ l = [buf |-> l.buf, r |-> l.r, w |-> l.w, n |-> l.n]
  BY DEF RingOk, Rings
<1> HIDE DEF n
<1>3. /\ (((k.r + n) % FS) + 1) % FS = (k.r + (n + 1)) % FS
      /\ (k.r + (n + 1)) % FS \in 0..FS-1
      /\ \A i \in 1..n : (k.r + i - 1) % FS \in 0..FS-1 /\ (k.r + i - 1) % FS # (k.r + n) % FS
  BY <1>1, PlacesPut
<1>4. l.w = (l.r + (n + 1)) % FS /\ l.w \in 0..FS-1
  BY <1>1, <1>2, <1>3
<1>5. l.buf \in [0..FS-1 -> KbdByte] /\ n + 1 \in 0..FS
  <2>1. n + 1 \in 0..FS
    BY ONLY <1>1
  <2>2. [k.buf EXCEPT ![k.w] = b] \in [0..FS-1 -> KbdByte]
    BY ONLY <1>1, b \in KbdByte, Zenon
  <2> QED
    BY ONLY <1>2, <2>1, <2>2, Zenon
<1>6. RingOk(l, n + 1)
  BY <1>1, <1>2, <1>4, <1>5 DEF RingOk, Rings
<1>7. /\ Ring(l, n + 1) \in Seq(Byte) /\ Len(Ring(l, n + 1)) = n + 1
      /\ \A i \in 1..n+1 : Ring(l, n + 1)[i] = l.buf[(l.r + i - 1) % FS]
  BY <1>6, RingIs
<1>8. /\ Ring(k, n) \in Seq(Byte) /\ Len(Ring(k, n)) = n
      /\ \A i \in 1..n : Ring(k, n)[i] = k.buf[(k.r + i - 1) % FS]
  BY RingIs DEF n
<1>9. \A i \in 1..n : (k.r + i - 1) % FS # k.w /\ (k.r + i - 1) % FS \in 0..FS-1
  BY <1>1, <1>3
<1>10. \A i \in 1..n : Ring(l, n + 1)[i] = Ring(k, n)[i]
  <2> TAKE i \in 1..n
  <2>1. i \in 1..n+1
    BY <1>1
  <2>2. l.buf[(k.r + i - 1) % FS] = k.buf[(k.r + i - 1) % FS]
    BY <1>1, <1>2, <1>9
  <2> QED
    BY <1>2, <1>7, <1>8, <2>1, <2>2
<1>11. Ring(l, n + 1)[n + 1] = b
  <2>1. n + 1 \in 1..n+1 /\ k.r + (n + 1) - 1 = k.r + n
    BY <1>1
  <2>2. l.buf[k.w] = b
    BY <1>1, <1>2
  <2>3. Ring(l, n + 1)[n + 1] = l.buf[(l.r + (n + 1) - 1) % FS]
    BY ONLY <1>7, <2>1, Zenon
  <2>4. (l.r + (n + 1) - 1) % FS = k.w
    BY ONLY <1>1, <1>2, <2>1, Zenon
  <2> QED
    BY ONLY <2>2, <2>3, <2>4, Zenon
<1>12. Ring(l, n + 1) = Append(Ring(k, n), b)
  <2> DEFINE u == Ring(l, n + 1)
             v == Ring(k, n)
             a == Append(v, b)
  <2>1. b \in Byte /\ u \in Seq(Byte) /\ v \in Seq(Byte) /\ Len(u) = n + 1 /\ Len(v) = n
    BY <1>7, <1>8 DEF Byte
  <2>2. u[n + 1] = b /\ \A i \in 1..n : u[i] = v[i]
    BY <1>10, <1>11
  <2> HIDE DEF u, v
  <2>3. a \in Seq(Byte) /\ Len(a) = n + 1 /\ a[n + 1] = b /\ \A i \in 1..n : a[i] = v[i]
    BY <2>1, AppendProperties
  <2> HIDE DEF a
  <2>4. \A i \in 1..n+1 : u[i] = a[i]
    <3> TAKE i \in 1..n+1
    <3>1. i \in 1..n \/ i = n + 1
      BY <1>1
    <3> QED
      BY <2>2, <2>3, <3>1
  <2>5. u = a
    BY <2>1, <2>3, <2>4, SeqEqual
  <2> QED
    BY <2>5 DEF u, v, a
<1>13. Append(Ring(k, n), b) = Ring(k, n) \o <<b>>
  BY <1>8, AppendIsConcat DEF Byte
<1> QED
  BY <1>2, <1>6, <1>12, <1>13 DEF n

LEMMA RingGet ==
  ASSUME NEW k, RingOk(k, k.n), k.n # 0, NEW l, l = [k EXCEPT !.r = (@ + 1) % FS]
  PROVE  /\ RingOk(l, k.n - 1) /\ l.n = k.n /\ k.buf[k.r] \in KbdByte
         /\ Ring(k, k.n) = <<k.buf[k.r]>> \o Ring(l, k.n - 1)
<1> DEFINE n == k.n
           b == k.buf[k.r]
<1>1. /\ n \in 1..FS /\ k.r \in 0..FS-1 /\ k.w \in 0..FS-1 /\ FS \in Nat \ {0}
      /\ k.buf \in [0..FS-1 -> KbdByte] /\ k.w = (k.r + n) % FS
  BY InputAssumption DEF RingOk, Rings
<1>2. /\ l.r = (k.r + 1) % FS /\ l.w = k.w /\ l.n = n /\ l.buf = k.buf
      /\ l = [buf |-> l.buf, r |-> l.r, w |-> l.w, n |-> l.n]
  BY DEF RingOk, Rings
<1>3. b \in KbdByte
  BY <1>1
<1> HIDE DEF n, b
<1>4. /\ (k.r + 1) % FS \in 0..FS-1 /\ k.r % FS = k.r
      /\ \A i \in 1..FS : (((k.r + 1) % FS) + i - 1) % FS = (k.r + i) % FS
  BY <1>1, PlacesGet
<1>5. l.r \in 0..FS-1
  BY <1>2, <1>4
<1>6. \A i \in 1..n : (l.r + i - 1) % FS = (k.r + (i + 1) - 1) % FS
  <2> TAKE i \in 1..n
  <2>1. i \in 1..FS /\ k.r + (i + 1) - 1 = k.r + i
    BY <1>1
  <2> QED
    BY <1>2, <1>4, <2>1
<1>7. k.w = (l.r + (n - 1)) % FS
  <2>1. n \in 1..FS /\ l.r + n - 1 = l.r + (n - 1)
    BY <1>1, <1>5
  <2> QED
    BY <1>1, <1>2, <1>4, <2>1
<1>8. RingOk(l, n - 1)
  <2>1. n - 1 \in 0..FS /\ n \in 0..FS
    BY <1>1
  <2>2. l \in Rings
    BY <1>1, <1>2, <1>5, <2>1 DEF Rings
  <2> QED
    BY <1>2, <1>7, <2>1, <2>2 DEF RingOk
<1>9. /\ Ring(l, n - 1) \in Seq(Byte) /\ Len(Ring(l, n - 1)) = n - 1
      /\ \A i \in 1..n-1 : Ring(l, n - 1)[i] = l.buf[(l.r + i - 1) % FS]
  BY ONLY <1>8, RingIs, Zenon
<1>10. /\ Ring(k, n) \in Seq(Byte) /\ Len(Ring(k, n)) = n
       /\ \A i \in 1..n : Ring(k, n)[i] = k.buf[(k.r + i - 1) % FS]
  BY RingIs DEF n
<1>11. Ring(k, n) = <<b>> \o Ring(l, n - 1)
  <2> DEFINE u == Ring(k, n)
             v == Ring(l, n - 1)
             a == <<b>> \o v
  <2>1. b \in Byte /\ u \in Seq(Byte) /\ v \in Seq(Byte) /\ Len(u) = n /\ Len(v) = n - 1
    BY <1>3, <1>9, <1>10 DEF Byte
  <2>2. u[1] = b
    <3>1. 1 \in 1..n /\ k.r + 1 - 1 = k.r /\ k.r % FS = k.r
      BY <1>1, <1>4
    <3> QED
      BY <1>10, <3>1 DEF b
  <2>3. \A i \in 1..n-1 : u[1 + i] = v[i]
    <3> TAKE i \in 1..n-1
    <3>1. 1 + i = i + 1 /\ i + 1 \in 1..n /\ i \in 1..n
      BY <1>1
    <3>2. v[i] = k.buf[(l.r + i - 1) % FS]
      BY <1>2, <1>9
    <3>3. u[i + 1] = k.buf[(k.r + (i + 1) - 1) % FS]
      BY <1>10, <3>1
    <3>4. (l.r + i - 1) % FS = (k.r + (i + 1) - 1) % FS
      BY <1>6, <3>1
    <3> QED
      BY <3>1, <3>2, <3>3, <3>4
  <2> HIDE DEF u, v
  <2>4. a \in Seq(Byte) /\ Len(a) = 1 + Len(v) /\ a[1] = b /\ \A i \in 1..Len(v) : a[1 + i] = v[i]
    BY <2>1, InFront
  <2> HIDE DEF a
  <2>5. \A i \in 1..n : u[i] = a[i]
    <3> TAKE i \in 1..n
    <3>1. CASE i = 1
      BY <2>2, <2>4, <3>1
    <3>2. CASE i # 1
      <4>1. i - 1 \in 1..n-1 /\ 1 + (i - 1) = i
        BY <1>1, <3>2
      <4>2. u[1 + (i - 1)] = v[i - 1] /\ a[1 + (i - 1)] = v[i - 1]
        BY <2>1, <2>3, <2>4, <4>1
      <4> QED
        BY <4>1, <4>2
    <3> QED
      BY <3>1, <3>2
  <2>6. Len(a) = n
    BY <1>1, <2>1, <2>4
  <2>7. u = a
    BY <2>1, <2>4, <2>5, <2>6, SeqEqual
  <2> QED
    BY <2>7 DEF u, v, a
<1> QED
  BY <1>2, <1>3, <1>8, <1>11 DEF n, b

-----------------------------------------------------------------------------
(* The inductive invariant of the keys: the FIFO is a ring of Count bytes, *)
(* fg holds what n was, and the keys are in order on their path as long as *)
(* no exception took what was being handled.                               *)
KeyInv ==
  /\ ByteInv
  /\ RingOk(kfifo, Count)
  /\ d \in [key : KbdByte, n : Nat]
  /\ at = "count" => kfifo.n # 0 /\ d.n = kfifo.n
  /\ fate \in Fates /\ ds \in [entered : BOOLEAN, painted : Nat, faults : Nat]
  /\ ds.faults = 0 => InOrder(Path, fate, sent.kbd)

Inside == Held \o Fifo

LEMMA PathIs ==
  ASSUME KeyInv
  PROVE  /\ Held \in Seq(Byte) /\ Fifo \in Seq(Byte) /\ Inside \in Seq(Byte) /\ obf \in Seq(Byte)
         /\ Fifo = Ring(kfifo, Count)
         /\ queue.kbd \in Seq(KbdByte) /\ queue.kbd \in Seq(Byte) /\ Path \in Seq(Byte)
         /\ Path = Inside \o obf \o queue.kbd
         /\ obf = <<>> => Path = Inside \o queue.kbd
<1>1. Held \in Seq(Byte)
  <2>1. <<d.key>> \in Seq(Byte) /\ <<>> \in Seq(Byte)
    BY EmptySeq DEF KeyInv, Byte
  <2> QED
    BY <2>1, Zenon DEF Held
<1>2. Fifo = Ring(kfifo, Count)
  BY DEF Fifo, Ring
<1>3. Fifo \in Seq(Byte)
  BY <1>2, RingIs DEF KeyInv
<1>4. Inside \in Seq(Byte)
  BY <1>1, <1>3, Joined DEF Inside
<1>5. obf \in Seq(Byte)
  <2>1. \A b \in Byte : <<b>> \in Seq(Byte)
    OBVIOUS
  <2>2. <<>> \in Seq(Byte)
    BY EmptySeq
  <2>3. obf = <<>> \/ \E b \in Byte : obf = <<b>>
    BY DEF KeyInv, ByteInv, Byte
  <2> QED
    BY <2>1, <2>2, <2>3, Zenon
<1>6. queue.kbd \in Seq(KbdByte)
  BY DEF KeyInv, ByteInv
<1>7. queue.kbd \in Seq(Byte)
  BY <1>6, Widened
<1>8. Path = Inside \o obf \o queue.kbd
  BY DEF Path, Inside
<1>9. Path \in Seq(Byte)
  <2> DEFINE q == queue.kbd
             u == Inside \o obf
  <2>1. u \in Seq(Byte)
    BY <1>4, <1>5, Joined
  <2>2. q \in Seq(Byte)
    BY <1>7
  <2> HIDE DEF q, u
  <2>3. u \o q \in Seq(Byte)
    BY <2>1, <2>2, Joined
  <2> QED
    BY <1>8, <2>3 DEF u, q
<1>10. obf = <<>> => Path = Inside \o queue.kbd
  <2>1. Inside \o <<>> = Inside
    BY <1>4, ConcatEmptySeq
  <2> QED
    BY <1>8, <2>1
<1> QED
  BY <1>1, <1>2, <1>3, <1>4, <1>5, <1>6, <1>7, <1>8, <1>9, <1>10

(* Outside fg and the handling of a key the place does not matter.         *)
Busy == {"count", "key?", "key"}
NotAtFifo == UNCHANGED <<kfifo, d>> /\ (at' = at \/ {at, at'} \cap Busy = {})

LEMMA InsideSame ==
  ASSUME NotAtFifo
  PROVE  Held' = Held /\ Count' = Count /\ Inside' = Inside
<1>1. Held' = Held /\ Count' = Count
  BY DEF NotAtFifo, Busy, Held, Count
<1>2. Fifo' = Fifo
  BY <1>1 DEF NotAtFifo, Fifo
<1> QED
  BY <1>1, <1>2 DEF Inside

LEMMA KeysStay ==
  ASSUME KeyInv, ByteInv', NotAtFifo, fate' \in Fates,
         ds' \in [entered : BOOLEAN, painted : Nat, faults : Nat],
         ds'.faults = 0 => ds.faults = 0 /\ InOrder(Path', fate', sent'.kbd)
  PROVE  KeyInv'
<1>1. RingOk(kfifo', Count')
  BY InsideSame DEF NotAtFifo, KeyInv
<1>2. at' = "count" => at = "count"
  BY DEF NotAtFifo, Busy
<1>3. /\ d' \in [key : KbdByte, n : Nat]
      /\ at' = "count" => kfifo'.n # 0 /\ d'.n = kfifo'.n
  BY <1>2 DEF NotAtFifo, KeyInv
<1>4. RingOk(kfifo, Count)'
  BY <1>1 DEF RingOk
<1> QED
  BY <1>3, <1>4 DEF KeyInv

(* Nothing on the path changes.                                            *)
LEMMA PathStays ==
  ASSUME KeyInv, ByteInv', NotAtFifo, UNCHANGED <<obf, fate>>, queue'.kbd = queue.kbd,
         sent'.kbd = sent.kbd,
         ds' \in [entered : BOOLEAN, painted : Nat, faults : Nat], ds'.faults = ds.faults
  PROVE  KeyInv'
<1>1. Path' = Path
  BY InsideSame DEF Path, Inside
<1> QED
  BY <1>1, KeysStay DEF KeyInv

(* The byte in the output buffer is taken, a key is dropped.               *)
LEMMA ByteTaken ==
  ASSUME KeyInv, ByteInv', NotAtFifo, NEW b \in Byte, obf = <<b>>, obf' = <<>>, Dropped(b),
         UNCHANGED <<queue, sent, ds>>
  PROVE  KeyInv'
<1> DEFINE q == queue.kbd
<1>1. /\ Inside \in Seq(Byte) /\ q \in Seq(Byte)
      /\ Path = Inside \o <<b>> \o q
  BY PathIs
<1>2. Path' = Inside \o q
  <2>1. Path' = Inside \o <<>> \o q
    BY InsideSame DEF Path, Inside
  <2> QED
    BY <1>1, <2>1, ConcatEmptySeq
<1> HIDE DEF q
<1>3. /\ fate \in Fates /\ fate' \in Fates
      /\ IsKey(b) => fate' = [fate EXCEPT !.dropped = @ \cup {b.n}]
      /\ ~IsKey(b) => fate' = fate
  BY DEF Dropped, IsKey, KeyInv, Fates, KbdByte, AuxByte, Byte
<1>4. ds.faults = 0 => InOrder(Path', fate', sent'.kbd)
  <2> SUFFICES ASSUME ds.faults = 0 PROVE InOrder(Path', fate', sent'.kbd)
    OBVIOUS
  <2>1. InOrder(Inside \o <<b>> \o q, fate, sent.kbd) /\ sent'.kbd = sent.kbd
    BY <1>1 DEF KeyInv
  <2>2. CASE IsKey(b)
    BY <1>1, <1>2, <1>3, <2>1, <2>2, KeyDropped
  <2>3. CASE ~IsKey(b)
    BY <1>1, <1>2, <1>3, <2>1, <2>3, NoKeyBetween
  <2> QED
    BY <2>2, <2>3
<1> QED
  BY <1>3, <1>4, KeysStay DEF KeyInv

(* A byte is appended to what the keyboard has yet to send.                *)
LEMMA ByteAdded ==
  ASSUME KeyInv, ByteInv', NotAtFifo, UNCHANGED <<obf, fate, ds>>,
         NEW b \in KbdByte, queue'.kbd = Append(queue.kbd, b),
         \/ IsKey(b) /\ b.n = sent.kbd + 1 /\ sent'.kbd = sent.kbd + 1
         \/ ~IsKey(b) /\ sent'.kbd = sent.kbd
  PROVE  KeyInv'
<1> DEFINE q == queue.kbd
           u == Inside \o obf
           p == u \o q
<1>1. /\ Inside \in Seq(Byte) /\ obf \in Seq(Byte) /\ q \in Seq(Byte) /\ p \in Seq(Byte) /\ Path = p
  BY PathIs
<1>2. b \in Byte /\ <<b>> \in Seq(Byte) /\ <<>> \in Seq(Byte)
  BY EmptySeq DEF Byte
<1>3. u \in Seq(Byte)
  BY <1>1, Joined
<1>4. Path' = u \o queue'.kbd
  BY InsideSame DEF Path, Inside
<1>5. queue'.kbd = q \o <<b>>
  BY <1>1, <1>2, AppendIsConcat
<1> HIDE DEF q, u
<1>6. Path' = p \o <<b>>
  BY <1>1, <1>2, <1>3, <1>4, <1>5, ConcatAssociative
<1> HIDE DEF p
<1>7. ds.faults = 0 => InOrder(Path', fate', sent'.kbd)
  <2> SUFFICES ASSUME ds.faults = 0 PROVE InOrder(p \o <<b>>, fate, sent'.kbd)
    BY <1>6
  <2>1. InOrder(p, fate, sent.kbd) /\ sent.kbd \in Nat
    BY <1>1, InputAssumption DEF KeyInv, ByteInv
  <2>2. CASE IsKey(b)
    BY <1>1, <1>2, <2>1, <2>2, KeyPressed
  <2>3. CASE ~IsKey(b)
    <3>1. InOrder(p \o <<b>> \o <<>>, fate, sent.kbd) <=> InOrder(p \o <<>>, fate, sent.kbd)
      BY <1>1, <1>2, <2>3, NoKeyBetween
    <3>2. p \o <<b>> \in Seq(Byte)
      BY <1>1, <1>2, Joined
    <3>3. p \o <<b>> \o <<>> = p \o <<b>> /\ p \o <<>> = p
      BY <1>1, <3>2, ConcatEmptySeq
    <3>4. sent'.kbd = sent.kbd
      BY <2>3
    <3> QED
      BY <2>1, <3>1, <3>3, <3>4
  <2> QED
    BY <2>2, <2>3
<1> QED
  BY <1>7, KeysStay DEF KeyInv

LEMMA DeviceKeys == KeyInv /\ ByteInv' /\ Device => KeyInv'
<1> SUFFICES ASSUME KeyInv, ByteInv', Device PROVE KeyInv'
  OBVIOUS
<1>1. NotAtFifo /\ UNCHANGED <<fate, ds>> /\ ds \in [entered : BOOLEAN, painted : Nat, faults : Nat]
  BY DEF Device, kernvars, NotAtFifo, KeyInv
<1>2. ByteInv
  BY DEF KeyInv
<1>3. CASE PressKey
  <2>1. /\ sent' = [sent EXCEPT !.kbd = @ + 1] /\ obf' = obf
        /\ sent.kbd \in 0..Len(Keys) /\ Len(Keys) \in Nat /\ sent.kbd < Len(Keys)
    <3>1. /\ sent' = [sent EXCEPT !.kbd = @ + 1] /\ obf' = obf
          /\ sent.kbd < IF iflag \/ at \notin Boot THEN Len(Keys) ELSE BootKeys
      BY <1>3 DEF PressKey
    <3>2. sent.kbd \in 0..Len(Keys) /\ Len(Keys) \in Nat /\ BootKeys \in 0..Len(Keys)
      BY <1>2, InputAssumption DEF ByteInv
    <3>3. sent.kbd < Len(Keys)
      BY ONLY <3>1, <3>2
    <3> QED
      BY ONLY <3>1, <3>2, <3>3, Zenon
  <2>2. PICK k \in Keys[sent.kbd + 1] : queue' = [queue EXCEPT !.kbd = Append(@, Key(sent.kbd + 1, k))]
    BY <1>3 DEF PressKey
  <2>3. sent.kbd + 1 \in 1..Len(Keys)
    BY <2>1
  <2>4. k \in {"char", "enter", "panic"}
    BY <2>2, <2>3, InputAssumption
  <2> DEFINE b == Key(sent.kbd + 1, k)
  <2>5. b \in KbdByte /\ b.n = sent.kbd + 1 /\ IsKey(b)
    BY <2>1, <2>4 DEF Key, KbdByte, IsKey
  <2>6. queue'.kbd = Append(queue.kbd, b) /\ sent'.kbd = sent.kbd + 1
    BY <1>2, <2>1, <2>2 DEF ByteInv
  <2> HIDE DEF b
  <2> QED
    BY <1>1, <2>1, <2>5, <2>6, ByteAdded
<1>4. CASE MoveMouse
  <2>1. obf' = obf /\ queue'.kbd = queue.kbd /\ sent'.kbd = sent.kbd
    BY <1>2, <1>4 DEF MoveMouse, ByteInv
  <2> QED
    BY <1>1, <2>1, PathStays
<1>5. CASE Tick
  <2>1. obf' = obf /\ queue'.kbd = queue.kbd /\ sent'.kbd = sent.kbd
    BY <1>2, <1>5 DEF Tick, ByteInv
  <2> QED
    BY <1>1, <2>1, PathStays
<1>6. CASE SendByte
  <2> DEFINE q == queue.kbd
  <2>1. obf = <<>> /\ Path = Inside \o q /\ Inside \in Seq(Byte) /\ q \in Seq(KbdByte) /\ q \in Seq(Byte)
    BY <1>6, PathIs DEF SendByte
  <2>2. PICK s \in {"kbd", "aux"} : Sent(s)
    BY <1>6 DEF SendByte, Sent
  <2>3. Path' = Inside \o obf' \o queue'.kbd /\ sent'.kbd = sent.kbd
    BY <1>1, <1>6, InsideSame DEF Path, Inside, SendByte
  <2>4. CASE s = "kbd"
    <3>1. obf' = <<Head(q)>> /\ queue'.kbd = Tail(q) /\ q # <<>>
      BY <1>2, <2>2, <2>4 DEF Sent, ByteInv
    <3>2. Path' = Path
      <4> HIDE DEF q
      <4>1. /\ Head(q) \in Byte /\ <<Head(q)>> \in Seq(Byte) /\ Tail(q) \in Seq(Byte)
        BY <2>1, <3>1, HeadTailProperties
      <4>2. <<Head(q)>> \o Tail(q) = q
        BY <2>1, <3>1, HeadBefore
      <4>3. Inside \o <<Head(q)>> \o Tail(q) = Inside \o (<<Head(q)>> \o Tail(q))
        BY <2>1, <4>1, ConcatAssociative
      <4> QED
        BY <2>1, <2>3, <3>1, <4>2, <4>3
    <3> QED
      BY <1>1, <2>3, <3>2, KeysStay DEF KeyInv
  <2>5. CASE s = "aux"
    <3> DEFINE b == Head(queue.aux)
    <3>1. obf' = <<b>> /\ queue'.kbd = q
      BY <1>2, <2>2, <2>5 DEF Sent, ByteInv
    <3>2. b \in Byte /\ ~IsKey(b)
      <4>1. queue.aux \in Seq(AuxByte) /\ queue.aux # <<>>
        BY <1>2, <2>2, <2>5 DEF Sent, ByteInv
      <4>2. b \in AuxByte
        BY <4>1, HeadTailProperties
      <4> QED
        BY <4>2 DEF Byte, AuxByte, IsKey
    <3> HIDE DEF b, q
    <3>3. Path' = Inside \o <<b>> \o q
      BY <2>3, <3>1
    <3>4. ds.faults = 0 => InOrder(Path', fate', sent'.kbd)
      <4>1. InOrder(Inside \o <<b>> \o q, fate, sent.kbd) <=> InOrder(Inside \o q, fate, sent.kbd)
        BY <2>1, <3>2, NoKeyBetween
      <4> QED
        BY <1>1, <2>1, <2>3, <3>3, <4>1 DEF KeyInv
    <3> QED
      BY <1>1, <3>4, KeysStay DEF KeyInv
  <2> QED
    BY <2>2, <2>4, <2>5
<1> QED
  BY <1>3, <1>4, <1>5, <1>6 DEF Device

LEMMA StartKeys == KeyInv /\ ByteInv' /\ Start => KeyInv'
<1> SUFFICES ASSUME KeyInv, ByteInv', Start PROVE KeyInv'
  OBVIOUS
<1>1. /\ NotAtFifo /\ UNCHANGED <<sent, ds>>
      /\ ds \in [entered : BOOLEAN, painted : Nat, faults : Nat]
  BY DEF Start, pic_init, EnableKeyboard, Poll, EnableMouse, Drain, FirstSti, FirstCli,
         Program, Only_at, devvars, NotAtFifo, Busy, KeyInv
<1>2. ByteInv
  BY DEF KeyInv
<1>3. CASE pic_init \/ FirstSti \/ FirstCli
  BY <1>1, <1>3, PathStays DEF pic_init, FirstSti, FirstCli, Only_at, devvars
<1>4. CASE EnableKeyboard
  <2> DEFINE b == Ack("kbd")
  <2>1. b \in KbdByte /\ ~IsKey(b)
    BY DEF Ack, KbdByte, IsKey
  <2>2. UNCHANGED <<obf, fate>> /\ queue'.kbd = Append(queue.kbd, b)
    BY <1>2, <1>4 DEF EnableKeyboard, ByteInv
  <2> HIDE DEF b
  <2> QED
    BY <1>1, <2>1, <2>2, ByteAdded
<1>5. CASE EnableMouse
  <2>1. UNCHANGED <<obf, fate>> /\ queue'.kbd = queue.kbd
    BY <1>2, <1>5 DEF EnableMouse, ByteInv
  <2> QED
    BY <1>1, <2>1, PathStays
<1>6. CASE Poll \/ Drain
  <2>1. CASE obf = <<>>
    BY <1>1, <1>6, <2>1, PathStays DEF Poll, Drain
  <2>2. CASE obf # <<>>
    <3>1. PICK b \in Byte : obf = <<b>>
      BY <1>2, <2>2 DEF ByteInv, Byte
    <3>2. obf' = <<>> /\ Dropped(b) /\ queue' = queue
      BY <1>6, <2>2, <3>1 DEF Poll, Drain
    <3> QED
      BY <1>1, <3>1, <3>2, ByteTaken
  <2> QED
    BY <2>1, <2>2
<1> QED
  BY <1>3, <1>4, <1>5, <1>6 DEF Start

(* Three parts of a path in either grouping.                               *)
LEMMA Regrouped ==
  ASSUME NEW s \in Seq(Byte), NEW t \in Seq(Byte), NEW u \in Seq(Byte)
  PROVE  s \o (t \o u) = s \o t \o u
BY ConcatAssociative

(* A path of four parts is its first and the rest.                         *)
Parts(s, t, u, v) == s \o t \o u \o v
Rest(t, u, v) == t \o u \o v

LEMMA FirstOfParts ==
  ASSUME NEW s \in Seq(Byte), NEW t \in Seq(Byte), NEW u \in Seq(Byte), NEW v \in Seq(Byte)
  PROVE  Rest(t, u, v) \in Seq(Byte) /\ Parts(s, t, u, v) = s \o Rest(t, u, v)
<1> DEFINE g == t \o u
<1>1. g \in Seq(Byte)
  BY Joined
<1>2. (s \o t) \o u = s \o g
  BY ConcatAssociative
<1> HIDE DEF g
<1>3. g \o v \in Seq(Byte)
  BY <1>1, Joined
<1>4. (s \o g) \o v = s \o (g \o v)
  BY <1>1, ConcatAssociative
<1> QED
  BY <1>2, <1>3, <1>4 DEF g, Parts, Rest

(* The main loop: fg and the handling of a key.                            *)
LEMMA LoopKeys == KeyInv /\ ByteInv' /\ Loop => KeyInv'
<1> SUFFICES ASSUME KeyInv, ByteInv', Loop PROVE KeyInv'
  OBVIOUS
<1>1. /\ UNCHANGED <<queue, sent, obf, ds>> /\ ds \in [entered : BOOLEAN, painted : Nat, faults : Nat]
      /\ fate \in Fates
  BY DEF Loop, Top, FgEmpty, FgRead, FgCount, KeySti, HandleKey, Sleep, Leave, jump_user,
         Only_at, devvars, KeyInv
<1>2. CASE Top \/ FgEmpty \/ Sleep \/ Leave \/ jump_user
  <2>1. NotAtFifo /\ fate' = fate
    BY <1>2 DEF Top, FgEmpty, Sleep, Leave, jump_user, Program, Only_at, NotAtFifo, Busy
  <2> QED
    BY <1>1, <2>1, PathStays
<1>3. CASE FgRead
  <2>1. /\ at = "fg" /\ at' = "count" /\ kfifo.n # 0 /\ fate' = fate
        /\ d' = [key |-> kfifo.buf[kfifo.r], n |-> kfifo.n]
        /\ kfifo' = [kfifo EXCEPT !.r = (@ + 1) % FS]
    BY <1>3 DEF FgRead, Program
  <2>2. RingOk(kfifo, kfifo.n) /\ Count = kfifo.n
    BY <2>1 DEF KeyInv, Count
  <2>3. /\ RingOk(kfifo', kfifo.n - 1) /\ kfifo'.n = kfifo.n /\ kfifo.buf[kfifo.r] \in KbdByte
        /\ Ring(kfifo, kfifo.n) = <<kfifo.buf[kfifo.r]>> \o Ring(kfifo', kfifo.n - 1)
    BY <2>1, <2>2, RingGet
  <2>4. Count' = kfifo.n - 1 /\ Held' = <<kfifo.buf[kfifo.r]>>
    BY <2>1, <2>3 DEF Count, Held
  <2>5. Fifo' = Ring(kfifo', kfifo.n - 1)
    BY <2>4 DEF Fifo, Ring
  <2>6. Inside' = Fifo
    BY <2>2, <2>3, <2>4, <2>5, PathIs DEF Inside
  <2>7. Inside = Fifo
    <3>1. Held = <<>> /\ Fifo \in Seq(Byte)
      BY <2>1, PathIs DEF Held
    <3> QED
      BY <3>1, ConcatEmptySeq DEF Inside
  <2>8. Path' = Path
    BY <1>1, <2>6, <2>7 DEF Path, Inside
  <2>9. RingOk(kfifo, Count)'
    BY <2>3, <2>4 DEF RingOk
  <2>10. d' \in [key : KbdByte, n : Nat] /\ d'.n = kfifo.n
    <3>1. kfifo.n \in Nat
      BY <2>2, InputAssumption DEF RingOk, Rings
    <3> QED
      BY <2>1, <2>3, <3>1
  <2> QED
    BY <1>1, <2>1, <2>3, <2>8, <2>9, <2>10 DEF KeyInv
<1>4. CASE FgCount
  <2>1. /\ at = "count" /\ at' = "key?" /\ fate' = fate /\ d' = d
        /\ kfifo' = [kfifo EXCEPT !.n = d.n - 1]
    BY <1>4 DEF FgCount, Program
  <2>2. RingOk(kfifo, kfifo.n - 1) /\ kfifo.n # 0 /\ d.n = kfifo.n /\ Count = kfifo.n - 1
    BY <2>1 DEF KeyInv, Count
  <2>3. /\ kfifo'.n = kfifo.n - 1 /\ kfifo'.r = kfifo.r /\ kfifo'.buf = kfifo.buf /\ kfifo'.w = kfifo.w
        /\ kfifo' \in Rings
    BY <2>1, <2>2 DEF RingOk, Rings
  <2>4. Count' = Count /\ Held' = Held
    BY <2>1, <2>2, <2>3 DEF Count, Held
  <2>5. Fifo' = Fifo
    BY <2>3, <2>4 DEF Fifo
  <2>6. Path' = Path
    BY <1>1, <2>4, <2>5 DEF Path
  <2>7. RingOk(kfifo, Count)'
    BY <2>2, <2>3, <2>4 DEF RingOk
  <2> QED
    BY <1>1, <2>1, <2>6, <2>7 DEF KeyInv
<1>5. CASE KeySti
  <2>1. /\ at = "key?" /\ at' = "key" /\ UNCHANGED <<kfifo, d, fate>>
    BY <1>5 DEF KeySti, Program, Only_at
  <2>2. Held' = Held /\ Count' = Count
    BY <2>1 DEF Held, Count
  <2>3. Fifo' = Fifo
    BY <2>1, <2>2 DEF Fifo
  <2>4. Path' = Path
    BY <1>1, <2>2, <2>3 DEF Path
  <2>5. RingOk(kfifo, Count)'
    BY <2>1, <2>2 DEF KeyInv, RingOk
  <2> QED
    BY <1>1, <2>1, <2>4, <2>5 DEF KeyInv
<1>6. CASE HandleKey
  <2> DEFINE b == d.key
  <2>1. /\ at = "key" /\ at' \notin Busy /\ kfifo' = kfifo /\ d' = [key |-> NoKey, n |-> 0]
        /\ fate' = [fate EXCEPT !.handled = (@ \cup {b.n}) \ {0}]
    BY <1>6 DEF HandleKey, Again, Busy
  <2>2. b \in KbdByte /\ b.n \in Nat
    BY DEF KeyInv, KbdByte
  <2>3. Count' = Count /\ Held = <<b>> /\ Held' = <<>>
    BY <2>1 DEF Count, Held, Busy
  <2>4. Fifo' = Fifo
    BY <2>1, <2>3 DEF Fifo
  <2>5. d' \in [key : KbdByte, n : Nat]
    BY <2>1 DEF NoKey, Key, KbdByte
  <2>6. RingOk(kfifo, Count)'
    BY <2>1, <2>3 DEF KeyInv, RingOk
  <2>7. fate' \in Fates
    BY <1>1, <2>1, <2>2 DEF Fates
  <2> DEFINE t == Rest(Fifo, obf, queue.kbd)
  <2>8. t \in Seq(Byte) /\ Path = <<b>> \o t /\ Path' = t
    <3> DEFINE f == Fifo
               q == queue.kbd
               o == <<b>>
    <3>1. f \in Seq(Byte) /\ obf \in Seq(Byte) /\ q \in Seq(Byte) /\ o \in Seq(Byte)
      BY <2>3, PathIs
    <3>2. Path = Parts(o, f, obf, q) /\ Path' = <<>> \o f \o obf \o q
      BY <1>1, <2>3, <2>4 DEF Path, Parts
    <3> HIDE DEF f, q, o
    <3>3. Rest(f, obf, q) \in Seq(Byte) /\ Parts(o, f, obf, q) = o \o Rest(f, obf, q)
      BY <3>1, FirstOfParts
    <3>4. <<>> \o f \o obf \o q = Rest(f, obf, q)
      <4>1. <<>> \o f = f
        BY <3>1, ConcatEmptySeq
      <4> QED
        BY <4>1 DEF Rest
    <3> QED
      BY <3>2, <3>3, <3>4 DEF f, q, o
  <2> HIDE DEF t, b
  <2>9. ds.faults = 0 => InOrder(Path', fate', sent.kbd)
    <3> SUFFICES ASSUME ds.faults = 0 PROVE InOrder(t, fate', sent.kbd)
      BY <2>8
    <3>1. InOrder(<<b>> \o t, fate, sent.kbd)
      BY <2>8 DEF KeyInv
    <3> QED
      BY <1>1, <2>1, <2>2, <2>8, <3>1, KeyHandled
  <2> QED
    BY <1>1, <2>1, <2>5, <2>6, <2>7, <2>9 DEF KeyInv, Busy
<1> QED
  BY <1>2, <1>3, <1>4, <1>5, <1>6 DEF Loop

(* Interrupts.  While fg is between its two steps there are none.          *)
LEMMA ServiceKeys == KeyInv /\ ByteInv' /\ Service => KeyInv'
<1> SUFFICES ASSUME KeyInv, ByteInv', Service PROVE KeyInv'
  OBVIOUS
<1>1. /\ UNCHANGED <<queue, sent, ds, d>> /\ ds \in [entered : BOOLEAN, painted : Nat, faults : Nat]
      /\ at' = at \/ (at = "hlt" /\ at' = "top")
  BY DEF Service, Accept, Eoi, isr20, NoInput, isr21, isr2c, Only_at, devvars, KeyInv
<1>2. ByteInv
  BY DEF KeyInv
<1>3. CASE ~isr21 /\ ~isr2c
  <2>1. NotAtFifo /\ UNCHANGED <<obf, fate>>
    BY <1>1, <1>3 DEF Service, Accept, Eoi, isr20, NoInput, Only_at, devvars, NotAtFifo, Busy
  <2> QED
    BY <1>1, <2>1, PathStays
<1>4. CASE isr2c
  <2>1. obf' = <<>> /\ UNCHANGED <<kfifo, fate, at>>
    BY <1>4 DEF isr2c
  <2>2. PICK b \in AuxByte : obf = <<b>>
    <3>1. \E i \in DOMAIN obf : obf[i].src = "aux"
      BY <1>4 DEF isr2c, Delivered
    <3> QED
      BY <1>2, <3>1 DEF ByteInv, KbdByte
  <2>3. b \in Byte /\ Dropped(b)
    BY <2>1 DEF Byte, AuxByte, Dropped
  <2> QED
    BY <1>1, <2>1, <2>2, <2>3, ByteTaken DEF NotAtFifo
<1>5. CASE isr21
  <2>1. obf' = <<>> /\ at' = at /\ pc = "handler"
    BY <1>5 DEF isr21, Done
  <2>2. PICK b \in KbdByte : obf = <<b>>
    <3>1. \E i \in DOMAIN obf : obf[i].src = "kbd"
      BY <1>5 DEF isr21, Delivered
    <3> QED
      BY <1>2, <3>1 DEF ByteInv, AuxByte
  <2>3. CASE ~FifoFits(kfifo.n)
    <3>1. Dropped(b) /\ kfifo' = kfifo /\ b \in Byte
      BY <1>5, <2>2, <2>3 DEF isr21, Byte
    <3> QED
      BY <1>1, <2>1, <2>2, <3>1, ByteTaken DEF NotAtFifo
  <2>4. CASE FifoFits(kfifo.n)
    <3>1. /\ fate' = fate
          /\ kfifo' = [kfifo EXCEPT !.buf[kfifo.w] = b, !.w = (@ + 1) % FS, !.n = @ + 1]
      BY <1>5, <2>2, <2>4 DEF isr21
    <3>2. at \notin NoIrq /\ at # "count" /\ Count = kfifo.n /\ Count' = kfifo'.n
      BY <1>2, <2>1 DEF ByteInv, NoIrq, Count
    <3>3. RingOk(kfifo, kfifo.n) /\ kfifo.n < FS
      BY <2>4, <3>2 DEF KeyInv, FifoFits
    <3>4. RingOk(kfifo', kfifo'.n) /\ Ring(kfifo', kfifo'.n) = Ring(kfifo, kfifo.n) \o <<b>>
      BY <3>1, <3>3, RingPut
    <3>5. RingOk(kfifo, Count)'
      BY <3>2, <3>4 DEF RingOk
    <3>6. Fifo' = Ring(kfifo', kfifo'.n) /\ Fifo = Ring(kfifo, kfifo.n)
      BY <3>2 DEF Fifo, Ring
    <3>7. Held' = Held
      BY <1>1, <2>1 DEF Held
    <3> DEFINE o == <<b>>
               f == Fifo
               l == Held
               q == queue.kbd
    <3>8. /\ o \in Seq(Byte) /\ f \in Seq(Byte) /\ l \in Seq(Byte) /\ q \in Seq(Byte)
      BY <2>2, PathIs
    <3>9. Path' = l \o (f \o o) \o <<>> \o q /\ Path = l \o f \o o \o q
      BY <1>1, <2>1, <2>2, <3>4, <3>6, <3>7 DEF Path
    <3> HIDE DEF o, f, l, q
    <3>10. l \o (f \o o) = l \o f \o o
      BY ONLY <3>8, Regrouped, Zenon
    <3>11. l \o f \in Seq(Byte)
      BY <3>8, Joined
    <3> DEFINE u == l \o f
    <3>12. u \o o \in Seq(Byte)
      BY <3>8, <3>11, Joined
    <3> DEFINE v == u \o o
    <3>13. v \o <<>> = v
      <4>1. v \in Seq(Byte)
        BY <3>12
      <4> HIDE DEF v
      <4> QED
        BY <4>1, ConcatEmptySeq
    <3>14. Path' = Path
      BY <3>9, <3>10, <3>13
    <3> QED
      BY <1>1, <2>1, <3>1, <3>2, <3>5, <3>14 DEF KeyInv
  <2> QED
    BY <2>3, <2>4
<1> QED
  BY <1>3, <1>4, <1>5

LEMMA KeyStep == KeyInv /\ [Next]_vars => KeyInv'
<1> SUFFICES ASSUME KeyInv, [Next]_vars PROVE KeyInv'
  OBVIOUS
<1>1. ByteInv /\ ByteInv'
  BY ByteStep DEF KeyInv
<1>2. CASE User \/ Dead
  <2>1. UNCHANGED <<kfifo, d, fate, queue, sent, obf>> /\ at \notin Busy /\ at' \notin Busy
    <3>1. CASE DsGuard
      BY <3>1 DEF DsGuard, devvars, Busy
    <3> QED
      BY <1>2, <3>1 DEF User, Syscall, Entry, Dispatch, Answer, Answered, Dead, exc_handler, DsLog,
                  DsPaint, DsHalt, Program, Only_at, devvars, Busy
  <2>2. ds' \in [entered : BOOLEAN, painted : Nat, faults : Nat] /\ ds'.faults = ds.faults
    <3>1. ds \in [entered : BOOLEAN, painted : Nat, faults : Nat]
      BY DEF KeyInv
    <3>2. ds' = ds \/ ds' = [ds EXCEPT !.entered = TRUE] \/ ds' = [ds EXCEPT !.painted = @ + 1]
      BY <1>2 DEF User, Syscall, Entry, Dispatch, Answer, Answered, Dead, exc_handler, DsLog,
                  DsGuard, DsPaint, DsHalt, Only_at
    <3>3. CASE ds' = [ds EXCEPT !.entered = TRUE]
      <4>1. TRUE \in BOOLEAN
        OBVIOUS
      <4> QED
        BY <3>1, <3>3, <4>1
    <3>4. CASE ds' = [ds EXCEPT !.painted = @ + 1]
      <4>1. ds.painted + 1 \in Nat
        BY <3>1
      <4> QED
        BY <3>1, <3>4, <4>1
    <3> QED
      BY <3>1, <3>2, <3>3, <3>4
  <2> QED
    BY <1>1, <2>1, <2>2, PathStays DEF NotAtFifo
<1>3. CASE Fault
  <2>1. /\ ds' = [ds EXCEPT !.faults = @ + 1] /\ at' = "exc" /\ at # "count"
        /\ UNCHANGED <<kfifo, d, fate>>
    BY <1>3 DEF Fault
  <2>2. /\ ds' \in [entered : BOOLEAN, painted : Nat, faults : Nat] /\ ds'.faults # 0
    BY <2>1 DEF KeyInv
  <2>3. Count' = Count
    BY <2>1 DEF Count
  <2>4. RingOk(kfifo, Count)'
    BY <2>1, <2>3 DEF KeyInv, RingOk
  <2> QED
    BY <1>1, <2>1, <2>2, <2>4 DEF KeyInv
<1>4. CASE UNCHANGED vars
  BY <1>1, <1>4, PathStays DEF vars, devvars, kernvars, NotAtFifo, KeyInv
<1> QED
  BY <1>1, <1>2, <1>3, <1>4, DeviceKeys, StartKeys, LoopKeys, ServiceKeys DEF Next, Cpu

LEMMA KeyInit == Init => KeyInv
<1> SUFFICES ASSUME Init PROVE KeyInv
  OBVIOUS
<1>1. /\ queue.kbd = <<>> /\ sent.kbd = 0 /\ obf = <<>> /\ at = "pic"
      /\ kfifo = [buf |-> [i \in 0..FS-1 |-> NoKey], r |-> 0, w |-> 0, n |-> 0]
      /\ d = [key |-> NoKey, n |-> 0] /\ fate = [handled |-> {}, dropped |-> {}]
      /\ ds = [entered |-> FALSE, painted |-> 0, faults |-> 0]
  BY DEF Init, Alive
<1>2. NoKey \in KbdByte
  BY DEF NoKey, Key, KbdByte
<1>3. Count = 0 /\ Held = <<>>
  BY <1>1 DEF Count, Held
<1>4. RingOk(kfifo, Count)
  <2>1. 0 \in 0..FS-1 /\ 0 \in 0..FS /\ (0 + 0) % FS = 0
    BY InputAssumption
  <2> QED
    BY <1>1, <1>2, <1>3, <2>1 DEF RingOk, Rings
<1>5. Len(Fifo) = 0 /\ Fifo \in Seq(Byte)
  BY <1>3, <1>4, RingIs DEF Fifo, Ring
<1>6. Fifo = <<>>
  BY <1>5
<1>7. Path = <<>>
  BY <1>1, <1>3, <1>6, EmptySeq, ConcatEmptySeq DEF Path
<1>8. InOrder(<<>>, fate, 0)
  <2>1. <<>> \in Seq(Byte) /\ Len(<<>>) = 0
    BY EmptySeq
  <2> DEFINE e == <<>>
  <2>2. e \in Seq(Byte) /\ 1..Len(e) = {}
    BY <2>1
  <2> HIDE DEF e
  <2>3. \A n : n \notin KeysOf(e)
    BY <2>2, KeysAre
  <2>4. Rising(e)
    BY <2>2, KeysAre
  <2>5. KeysOf(e) = {} /\ 1..0 = {}
    BY <2>3
  <2>6. fate.handled = {} /\ fate.dropped = {}
    BY <1>1
  <2>7. InOrder(e, fate, 0)
    BY <2>4, <2>5, <2>6 DEF InOrder
  <2> QED
    BY <2>7 DEF e
<1>9. fate \in Fates /\ ds \in [entered : BOOLEAN, painted : Nat, faults : Nat]
      /\ d \in [key : KbdByte, n : Nat]
  BY <1>1, <1>2 DEF Fates
<1> QED
  BY <1>1, <1>4, <1>7, <1>8, <1>9, ByteInit DEF KeyInv

(* No key is lost, doubled or overtaken between keyboard and main loop,    *)
(* but those that arrive while the kernel starts or find the FIFO full     *)
(* (ps2.h:11-12, 36-38, isr.h:26-38, kernel.cpp:906, 938-939).             *)
THEOREM KeysKeepOrder == Spec => []KeysInOrder
<1>1. KeyInv => KeysInOrder
  BY DEF KeyInv, InOrder, KeysInOrder
<1> QED
  BY <1>1, KeyInit, KeyStep, PTL DEF Spec
=============================================================================
