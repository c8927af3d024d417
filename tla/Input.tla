-------------------------------- MODULE Input --------------------------------
(***************************************************************************)
(* Keyboard and mouse: the devices and the controller 8042 with its one    *)
(* output buffer, the interrupt controllers, init_keyboard and             *)
(* mouse_enable that poll the buffer when the kernel starts, the handlers  *)
(* isr20, isr21 and isr2c, the FIFO kfifo and the packet decoder md, the   *)
(* main loop that empties the FIFO, the user program with its system call, *)
(* and the exceptions that end in the dead screen.                         *)
(*                                                                         *)
(* Between any two steps a device may send a byte.  A request of the       *)
(* controller is latched when the buffer becomes full and stays latched    *)
(* when the buffer is read some other way.                                 *)
(***************************************************************************)
EXTENDS Isr, Integers

CONSTANTS FS,         \* length of the FIFO (32)
          Keys,       \* what each key pressed may do: "char", "enter", "panic"
          Bytes,      \* what bytes of a packet look like: "first", "other", "FA"
          BootKeys,   \* bound: keys pressed while the kernel starts
          MaxPackets, \* bound: packets the mouse sends
          MaxTicks,   \* bound: ticks of the timer
          MaxFaults   \* bound: exceptions

ASSUME InputAssumption ==
  /\ FS \in Nat \ {0} /\ Keys \in Seq(SUBSET {"char", "enter", "panic"})
  /\ BootKeys \in 0..Len(Keys) /\ {MaxPackets, MaxTicks, MaxFaults} \subseteq Nat

VARIABLES
  queue,   \* bytes the keyboard and the mouse have yet to send
  sent,    \* how many keys, packets and ticks there have been
  obf,     \* the output buffer: empty or one byte
  irr,     \* requests latched
  isr,     \* interrupts in service
  h,       \* the handler that runs and whether it has sent its EOI
  kfifo,   \* struct Fifo
  phase,   \* g_m.phase
  step,    \* history: what md has been given, see InStep
  at,      \* where the program is
  d,       \* what fg has read: the byte, n
  fate,    \* history: keys that were handled, keys that were dropped
  ds       \* the dead screen: entered, times painted, exceptions

devvars == <<queue, sent, obf, irr>>
kernvars == <<isr, h, kfifo, phase, step, at, d, fate, ds>>
vars == <<cpuvars, devvars, kernvars>>

(* Where the program is: starting, in the main loop, the user program or   *)
(* its system call, an exception.                                          *)
Boot == {"pic", "kbd", "poll", "aux", "drain", "sti", "cli"}
Main == {"top", "fg", "idle", "hlt", "count", "key?", "key", "leave", "jump"}
Ring3 == {"user", "entry", "dispatch", "answer", "sysret", "spin"}
Lost_ == {"exc", "log", "guard", "paint", "painted", "dead"}

-----------------------------------------------------------------------------
(* A byte has a source; of a key we keep its number and what it does, of   *)
(* a byte of the mouse its place in the packet.                            *)
Key(n, does) == [src |-> "kbd", n |-> n, v |-> does]
Aux(n) == [src |-> "aux", n |-> n, v |-> "any"]
Ack(src) == [src |-> src, n |-> 0, v |-> "FA"]
Packet == <<Aux(1), Aux(2), Aux(3)>>

(* What a byte may look like to md, the only reader of packets: like a     *)
(* first byte (0xC8 mask), like 0xFA, or neither, in any place.  A first   *)
(* byte that reports an overflow (0x40, 0x80) does not look like one, a    *)
(* movement may.                                                           *)
Looks(b) == IF b.v = "any" THEN {[b EXCEPT !.v = x] : x \in Bytes} ELSE {b}

NoKey == Key(0, "none")
Alive == [entered |-> FALSE, painted |-> 0, faults |-> 0]
NoHandler == [v |-> "none", eoi |-> FALSE]

Init ==
  /\ CpuInit
  /\ queue = [kbd |-> <<>>, aux |-> <<>>]
  /\ sent = [kbd |-> 0, aux |-> 0, pit |-> 0]
  /\ obf = <<>> /\ irr = {} /\ isr = {} /\ h = NoHandler
  /\ kfifo = [buf |-> [i \in 0..FS-1 |-> NoKey], r |-> 0, w |-> 0, n |-> 0]
  /\ phase = 0 /\ step = "out"
  /\ at = "pic" /\ d = [key |-> NoKey, n |-> 0]
  /\ fate = [handled |-> {}, dropped |-> {}]
  /\ ds = Alive

-----------------------------------------------------------------------------
(* External: the user presses a key, moves the mouse once it is enabled;   *)
(* in the main loop or later the timer ticks; the controller takes the     *)
(* next byte of a device.                                                  *)
PressKey ==
  /\ sent.kbd < IF iflag \/ at \notin Boot THEN Len(Keys) ELSE BootKeys
  /\ sent' = [sent EXCEPT !.kbd = @ + 1]
  /\ \E k \in Keys[sent.kbd + 1] : queue' = [queue EXCEPT !.kbd = Append(@, Key(sent.kbd + 1, k))]
  /\ UNCHANGED <<obf, irr>>

MoveMouse ==
  /\ at \notin {"pic", "kbd", "poll", "aux"} /\ sent.aux < MaxPackets
  /\ sent' = [sent EXCEPT !.aux = @ + 1]
  /\ queue' = [queue EXCEPT !.aux = @ \o Packet]
  /\ UNCHANGED <<obf, irr>>

Tick == /\ at \notin Boot /\ sent.pit < MaxTicks /\ sent' = [sent EXCEPT !.pit = @ + 1]
        /\ irr' = irr \cup {"pit"} /\ UNCHANGED <<queue, obf>>

SendByte ==
  /\ obf = <<>>
  /\ \E s \in {"kbd", "aux"} :
       /\ queue[s] # <<>> /\ obf' = <<Head(queue[s])>>
       /\ queue' = [queue EXCEPT ![s] = Tail(@)] /\ irr' = irr \cup {s}
  /\ UNCHANGED sent

(* Once the dead screen is up nobody listens.                              *)
Device == /\ PressKey \/ MoveMouse \/ Tick \/ SendByte
          /\ ds = Alive
          /\ UNCHANGED <<cpuvars, kernvars>>

-----------------------------------------------------------------------------
(* The kernel starts, with interrupts disabled.                            *)
Program(from, to) == pc = "running" /\ at = from /\ at' = to
Dropped(b) == fate' = IF b.src = "kbd" /\ b.n > 0 THEN [fate EXCEPT !.dropped = @ \cup {b.n}]
                      ELSE fate

(* The controllers are set up: what was latched is forgotten.              *)
pic_init == /\ Program("pic", "kbd") /\ irr' = {} /\ isr' = {}
            /\ UNCHANGED <<cpuvars, queue, sent, obf, h, kfifo, phase, step, d, fate, ds>>

(* init_keyboard: 0xF4 to the keyboard, which will answer 0xFA, and the    *)
(* buffer is read until that comes, or 200000 times; the first time before *)
(* anything is given up.                                                   *)
EnableKeyboard ==
  /\ Program("kbd", "poll") /\ queue' = [queue EXCEPT !.kbd = Append(@, Ack("kbd"))]
  /\ UNCHANGED <<cpuvars, sent, obf, irr, isr, h, kfifo, phase, step, d, fate, ds>>

Poll ==
  /\ pc = "running" /\ at = "poll"
  /\ IF obf # <<>>
       THEN /\ obf' = <<>> /\ Dropped(obf[1])
            /\ at' = IF obf[1].v = "FA" THEN "aux" ELSE "poll"
       ELSE at' = "aux" /\ UNCHANGED <<obf, fate>>
  /\ UNCHANGED <<cpuvars, queue, sent, irr, isr, h, kfifo, phase, step, d, ds>>

(* mouse_enable: 0xF4 to the mouse; one byte is read if one comes in time. *)
EnableMouse ==
  /\ Program("aux", "drain") /\ queue' = [queue EXCEPT !.aux = Append(@, Ack("aux"))]
  /\ UNCHANGED <<cpuvars, sent, obf, irr, isr, h, kfifo, phase, step, d, fate, ds>>

Drain ==
  /\ Program("drain", "sti")
  /\ obf' = <<>> /\ IF obf # <<>> THEN Dropped(obf[1]) ELSE UNCHANGED fate
  /\ UNCHANGED <<cpuvars, queue, sent, irr, isr, h, kfifo, phase, step, d, ds>>

(* cli and sti; what the loop has in its registers is new by then.         *)
SetIF(b) == iflag' = b /\ regs' = Own /\ UNCHANGED <<pc, ring, stack, was>>
Only_at == UNCHANGED <<devvars, isr, h, kfifo, phase, step, d, fate, ds>>

FirstSti == Program("sti", "cli") /\ SetIF(TRUE) /\ Only_at
FirstCli == Program("cli", "top") /\ SetIF(FALSE) /\ Only_at

-----------------------------------------------------------------------------
(* The main loop.                                                          *)

(* Mutant: it does not start with io_cli.                                  *)
LoopIF_Kept == iflag

LoopIF == FALSE

Top == Program("top", "fg") /\ SetIF(LoopIF) /\ Only_at

(* fg, in two steps: the test of n with the read of the byte, and n.       *)
FgEmpty == kfifo.n = 0 /\ Program("fg", "idle") /\ Only_at /\ UNCHANGED cpuvars

FgRead ==
  /\ kfifo.n # 0 /\ Program("fg", "count")
  /\ d' = [key |-> kfifo.buf[kfifo.r], n |-> kfifo.n]
  /\ kfifo' = [kfifo EXCEPT !.r = (@ + 1) % FS]
  /\ UNCHANGED <<cpuvars, devvars, isr, h, phase, step, fate, ds>>

FgCount ==
  /\ Program("count", "key?") /\ kfifo' = [kfifo EXCEPT !.n = d.n - 1]
  /\ UNCHANGED <<cpuvars, devvars, isr, h, phase, step, d, fate, ds>>

KeySti == Program("key?", "key") /\ SetIF(TRUE) /\ Only_at

(* Mutant: after a key it sleeps at once.                                  *)
Again_Sleep == "idle"

Again == "top"

(* What a key does: Enter ends the loop, Ctrl+Shift+B goes to panic.       *)
HandleKey ==
  /\ pc = "running" /\ at = "key"
  /\ at' = CASE d.key.v = "enter" -> "leave" [] d.key.v = "panic" -> "log" [] OTHER -> Again
  /\ fate' = [fate EXCEPT !.handled = (@ \cup {d.key.n}) \ {0}]
  /\ d' = [key |-> NoKey, n |-> 0]
  /\ UNCHANGED <<cpuvars, devvars, isr, h, kfifo, phase, step, ds>>

(* io_stihlt: sti takes effect after hlt has begun.                        *)
Sleep == Program("idle", "hlt") /\ SetIF(TRUE) /\ Only_at

(* Enter: the windows are torn down with interrupts disabled, then         *)
(* jump_user.                                                              *)
Leave == Program("leave", "jump") /\ SetIF(FALSE) /\ Only_at
jump_user == Program("jump", "user") /\ Sysret("rip", "rflags") /\ Only_at

(* user_main: one system call, then a loop without end.                    *)
Syscall  == Program("user", "entry") /\ SysEnter /\ Only_at
Entry    == Program("entry", "dispatch") /\ SysPush /\ Only_at
Dispatch == Program("dispatch", "answer") /\ SysDispatch /\ Only_at
Answer   == Program("answer", "sysret") /\ SysPop /\ Only_at
Answered == Program("sysret", "spin") /\ Sysret(regs["rcx"], regs["r11"]) /\ Only_at

-----------------------------------------------------------------------------
(* Interrupts.  The line with the highest priority is served unless one at *)
(* least as high is in service; the mouse is on the second controller,     *)
(* behind line 2 of the first.                                             *)
Prio(v) == CASE v = "pit" -> 1 [] v = "kbd" -> 2 [] OTHER -> 3
Serves(v) == IF v = "aux" THEN {"cascade", "aux"} ELSE {v}

Accept ==
  /\ \E v \in irr :
       /\ \A u \in irr : Prio(v) <= Prio(u)
       /\ \A u \in isr : Prio(v) < Prio(u)
       /\ irr' = irr \ {v} /\ isr' = isr \cup Serves(v)
       /\ h' = [v |-> v, eoi |-> FALSE]
  /\ Interrupt
  /\ at' = IF at = "hlt" THEN "top" ELSE at
  /\ UNCHANGED <<queue, sent, obf, kfifo, phase, step, d, fate, ds>>

(* The special EOIs 0x60, 0x61, and 0x64 and 0x62, before the handler      *)
(* reads the buffer.                                                       *)

(* Mutant: the first controller gets none for the mouse.                   *)
Ends_Slave(v) == {v}

Ends(v) == IF v = "aux" THEN {"cascade", "aux"} ELSE {v}

Eoi ==
  /\ pc = "handler" /\ ~h.eoi
  /\ isr' = isr \ Ends(h.v) /\ h' = [h EXCEPT !.eoi = TRUE]
  /\ UNCHANGED <<cpuvars, devvars, kfifo, phase, step, at, d, fate, ds>>

Done == pc = "handler" /\ h.eoi /\ Handler /\ h' = NoHandler

isr20 == /\ h.v = "pit" /\ Done
         /\ UNCHANGED <<devvars, isr, kfifo, phase, step, at, d, fate, ds>>

(* Bit 5 of the status tells whose byte it is.                             *)
Delivered(v) == h.v = v /\ \E i \in DOMAIN obf : obf[i].src = v
NoInput == /\ h.v \in {"kbd", "aux"} /\ ~Delivered(h.v) /\ Done
           /\ UNCHANGED <<devvars, isr, kfifo, phase, step, at, d, fate, ds>>

(* fp drops a byte that does not fit.                                      *)
FifoFits(n) == n < FS

isr21 ==
  /\ Delivered("kbd") /\ Done /\ obf' = <<>>
  /\ IF FifoFits(kfifo.n)
       THEN /\ kfifo' = [kfifo EXCEPT !.buf[kfifo.w] = obf[1], !.w = (@ + 1) % FS, !.n = @ + 1]
            /\ UNCHANGED fate
       ELSE Dropped(obf[1]) /\ UNCHANGED kfifo
  /\ UNCHANGED <<queue, sent, irr, isr, phase, step, at, d, ds>>

(* Mutant: 0xFA starts over in every phase.                                *)
md_Always(p, b) == IF b.v = "FA" THEN 1 ELSE CASE p = 0 -> 0
                     [] p = 1 -> IF b.v = "first" THEN 2 ELSE 1
                     [] p = 2 -> 3
                     [] p = 3 -> 1

md(p, b) == CASE p = 0 -> IF b.v = "FA" THEN 1 ELSE 0
              [] p = 1 -> IF b.v = "first" THEN 2 ELSE 1
              [] p = 2 -> 3
              [] p = 3 -> 1

(* What the bytes md was given say of its place, whatever its phase: "out" *)
(* until there was a 0xFA, "in" at the byte the mouse sends next, "skip"   *)
(* in the rest of a packet whose first byte it skipped or never saw, and   *)
(* "lost" when a byte of that rest looked like a first one.                *)
InStep(st, b) ==
  CASE st = "out"  -> IF b.v # "FA" THEN "out" ELSE IF b.n \in {0, 3} THEN "in" ELSE "skip"
    [] st = "in"   -> IF b.n = 1 /\ b.v # "first" THEN "skip" ELSE "in"
    [] st = "skip" -> IF b.v = "first" THEN "lost" ELSE IF b.n = 3 THEN "in" ELSE "skip"
    [] st = "lost" -> "lost"

isr2c ==
  /\ Delivered("aux") /\ Done /\ obf' = <<>>
  /\ \E b \in Looks(obf[1]) : phase' = md(phase, b) /\ step' = InStep(step, b)
  /\ UNCHANGED <<queue, sent, irr, isr, kfifo, at, d, fate, ds>>

Service == \/ Accept \/ Eoi \/ isr20 \/ NoInput \/ isr21 \/ isr2c
           \/ (iretq \/ sysretq) /\ Only_at /\ UNCHANGED at

-----------------------------------------------------------------------------
(* Exceptions.  The gates disable interrupts; exc_handler and ds first log.*)
(* An exception comes while a key is handled, in exc_handler or in ds.     *)
Fault ==
  /\ ds.faults < MaxFaults
  /\ pc = "running" /\ at \in {"key", "exc", "log", "painted"}
  /\ ds' = [ds EXCEPT !.faults = @ + 1] /\ at' = "exc"
  /\ pc' = "running" /\ ring' = 0 /\ iflag' = FALSE /\ stack' = <<>> /\ regs' = Own /\ was' = Own
  /\ h' = NoHandler
  /\ UNCHANGED <<devvars, isr, kfifo, phase, step, d, fate>>

exc_handler == Program("exc", "log") /\ Only_at /\ UNCHANGED cpuvars
DsLog == Program("log", "guard") /\ SetIF(FALSE) /\ Only_at

(* Mutant: entered is not tested.                                          *)
Guard_Not == FALSE

Guard == ds.entered

DsGuard == /\ pc = "running" /\ at = "guard" /\ at' = IF Guard THEN "dead" ELSE "paint"
           /\ ds' = [ds EXCEPT !.entered = TRUE]
           /\ UNCHANGED <<cpuvars, devvars, isr, h, kfifo, phase, step, d, fate>>

(* Painting begins; a fault may come before it is finished.                *)
DsPaint == /\ Program("paint", "painted") /\ ds' = [ds EXCEPT !.painted = @ + 1]
           /\ UNCHANGED <<cpuvars, devvars, isr, h, kfifo, phase, step, d, fate>>
DsHalt == Program("painted", "dead") /\ Only_at /\ UNCHANGED cpuvars

Dead == exc_handler \/ DsLog \/ DsGuard \/ DsPaint \/ DsHalt

Start == pic_init \/ EnableKeyboard \/ Poll \/ EnableMouse \/ Drain \/ FirstSti \/ FirstCli
Loop == Top \/ FgEmpty \/ FgRead \/ FgCount \/ KeySti \/ HandleKey \/ Sleep \/ Leave \/ jump_user
User == Syscall \/ Entry \/ Dispatch \/ Answer \/ Answered

Cpu == Start \/ Loop \/ User \/ Service \/ Dead

Next == Device \/ Cpu \/ Fault

(* The processor runs; nobody has to press a key.                          *)
Spec == Init /\ [][Next]_vars /\ WF_vars(Cpu)

-----------------------------------------------------------------------------
(* The bytes on their way to the main loop, the oldest first: the one it   *)
(* has just read, those in the FIFO, in the output buffer and in the       *)
(* keyboard.                                                               *)
Held  == IF at \in {"count", "key?", "key"} THEN <<d.key>> ELSE <<>>
Count == IF at = "count" THEN kfifo.n - 1 ELSE kfifo.n
Fifo  == [i \in 1..Count |-> kfifo.buf[(kfifo.r + i - 1) % FS]]
Path  == Held \o Fifo \o obf \o queue.kbd

(* Some of the bytes are keys.                                             *)
IsKey(b)  == b.src = "kbd" /\ b.n > 0
KeysOf(s) == {s[i].n : i \in {j \in DOMAIN s : IsKey(s[j])}}
Rising(s) == \A i, j \in DOMAIN s : i < j /\ IsKey(s[i]) /\ IsKey(s[j]) => s[i].n < s[j].n

(* No key is lost, doubled or overtaken between keyboard and main loop,    *)
(* but those that arrive while the kernel starts or find the FIFO full     *)
(* (ps2.h:11-12, 36-38, isr.h:26-38, kernel.cpp:906, 938-939).             *)
KeysInOrder ==
  ds.faults = 0 =>
    /\ Rising(Path)
    /\ \A k \in fate.handled : \A n \in KeysOf(Path) : k < n
    /\ fate.handled \cup fate.dropped \cup KeysOf(Path) = 1..sent.kbd
    /\ fate.handled \cap fate.dropped = {}

(* The mouse's bytes on their way to md, the oldest first.                 *)
FromMouse == (IF obf # <<>> /\ obf[1].src = "aux" THEN obf ELSE <<>>) \o queue.aux

NextByte == IF FromMouse = <<>> THEN 1 ELSE FromMouse[1].n

(* Once a 0xFA has begun it, md is in the phase of the byte that comes     *)
(* next, or skips the rest of a packet it could not begin and goes on with *)
(* the next one: no byte of the mouse goes to anybody else ("the timer     *)
(* read 0x60 too and the cursor flew about", isr.h:15-16, 22, 42;          *)
(* ps2.h:46-55).  The exception is a byte in that rest that looks like a   *)
(* first one: md takes it for one (ps2.h:50), and from then on nothing is  *)
(* said of it.                                                             *)
StaysInStep ==
  /\ step = "out" => phase = 0
  /\ step = "in" => phase = NextByte
  /\ step = "skip" => phase = 1 /\ NextByte \in {2, 3}

(* The controller's buffer never stays full: a byte whose request was      *)
(* forgotten by pic_init is polled away, and no interrupt stays in         *)
(* service.  A full buffer would stop both devices for good (idt.h:18-31,  *)
(* ps2.h:33-38, isr.h:35, 60).                                             *)
InputTaken == obf # <<>> ~> obf = <<>> \/ at \in Lost_

(* The main loop does not sleep on a key: what is in the FIFO is handled,  *)
(* until somebody logs in (kernel.cpp:906, 937-939, 1031; io.h:13-16).     *)
KeysHandled == kfifo.n > 0 ~> kfifo.n = 0 \/ at \in Ring3 \cup Lost_

(* The user program goes on behind its system call with its flags and the  *)
(* registers a call must keep, whatever interrupts came meanwhile on the   *)
(* same stack (isr.S:8-35).                                                *)
SyscallReturns ==
  at = "spin" /\ pc = "running" =>
    /\ \A r \in Registers \ CallerSaved : regs[r] = r
    /\ stack = <<>>

(* The dead screen is painted once, with interrupts disabled, however many *)
(* exceptions its own making brings ("must not recurse until the stack is  *)
(* used up", dead_screen.h:9-17).                                          *)
DeadOnce == ds.painted <= 1 /\ (at \in {"guard", "paint", "painted", "dead"} => ~iflag)

=============================================================================
