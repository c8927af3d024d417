--------------------------------- MODULE Isr ---------------------------------
(***************************************************************************)
(* The processor as kernel/isr.S uses it: the interrupt stub (macro        *)
(* ISR_STUB) around a handler that the compiler made, and the entry of     *)
(* system calls.  What counts is what the registers of the interrupted     *)
(* code hold.  A value is the name of the register it was found in, or     *)
(* "junk".  The stack is a sequence whose first element is at %rsp.        *)
(*                                                                         *)
(* Interrupts are disabled in the stub: the gates are interrupt gates      *)
(* (idt.h:45).  They are not in a system call: SFMASK is never set.        *)
(***************************************************************************)
EXTENDS SequencesExt

VARIABLES
  pc,      \* "running" in the program, "handler", or "return" behind it
  ring,    \* privilege level of the running or interrupted code, 0 or 3
  iflag,     \* RFLAGS.IF
  regs,    \* the general registers, rip and rflags
  stack,   \* what stubs and processor pushed
  was      \* history: the registers when the interrupt came

cpuvars == <<pc, ring, iflag, regs, stack, was>>

(* The registers the stub saves, in the order of its push instructions.    *)
Saved == <<"rax", "rcx", "rdx", "rbx", "rbp", "rsi", "rdi", "r8", "r9",
           "r10", "r11", "r12", "r13", "r14", "r15">>
(* Those syscall_entry_asm saves; the last six are never popped again.     *)
SysSaved == <<"rbx", "rbp", "r12", "r13", "r14", "r15", "r11", "rcx">>
SysArgs == <<"rdi", "rsi", "rdx", "r10", "r8", "r9">>
CallerSaved == {"rax", "rcx", "rdx", "rsi", "rdi", "r8", "r9", "r10", "r11"}
Registers == ToSet(Saved) \cup {"rip", "rflags"}
Own == [r \in Registers |-> r]
FRAME == 5
(* What is found after the handler's or dispatcher's return.               *)
Called(rs) == [r \in Registers |-> IF r \in CallerSaved THEN "junk" ELSE rs[r]]

Pushed(rs, names) == Reverse([i \in DOMAIN names |-> rs[names[i]]])

(* Mutant: the pops are in the order of the pushes.                        *)
Popped_SameOrder(rs, st, names) ==
  [r \in Registers |-> IF r \in ToSet(names)
                       THEN st[CHOOSE i \in DOMAIN names : names[i] = r] ELSE rs[r]]

Popped(rs, st, names) ==
  [r \in Registers |->
     IF r \in ToSet(names)
     THEN st[Len(names) + 1 - (CHOOSE i \in DOMAIN names : names[i] = r)] ELSE rs[r]]

Drop(st, n) == SubSeq(st, n + 1, Len(st))

CpuInit == /\ pc = "running" /\ ring = 0 /\ iflag = FALSE
           /\ regs = Own /\ stack = <<>> /\ was = Own

(* The processor pushes its frame and enters the stub, which saves the     *)
(* registers.                                                              *)
Interrupt == /\ pc = "running" /\ iflag /\ pc' = "handler" /\ iflag' = FALSE
             /\ stack' = Pushed(regs, Saved)
                           \o <<regs["rip"], "cs", regs["rflags"], "rsp", "ss">> \o stack
             /\ was' = regs /\ UNCHANGED <<ring, regs>>

(* "call handler" returns.                                                 *)
Handler == /\ pc = "handler" /\ pc' = "return" /\ regs' = Called(regs)
           /\ UNCHANGED <<ring, iflag, stack, was>>

(* The pops, then movq 8(%rsp), %rax: the code segment tells which way to  *)
(* return.  For ring 3, rcx and r11 are loaded from the frame, and sysretq *)
(* returns by them.                                                        *)
Return(r, rest) ==
  /\ pc = "return" /\ ring = r /\ pc' = "running" /\ iflag' = TRUE
  /\ LET frame == Drop(stack, Len(Saved))
         rs == [Popped(regs, stack, Saved) EXCEPT !["rax"] = frame[2],
                  !["rip"] = frame[1], !["rflags"] = frame[3]]
     IN  /\ stack' = Drop(frame, FRAME)
         /\ regs' = IF rest THEN rs ELSE [rs EXCEPT !["rcx"] = frame[1], !["r11"] = frame[3]]
  /\ was' = Own /\ UNCHANGED ring

iretq   == Return(0, TRUE)
sysretq == Return(3, FALSE)

-----------------------------------------------------------------------------
(* The syscall instruction: the way back is in rcx and r11.                *)
SysEnter == /\ pc = "running" /\ ring = 3 /\ ring' = 0
            /\ regs' = [Own EXCEPT !["rcx"] = "rip", !["r11"] = "rflags",
                                   !["rip"] = "entry", !["rflags"] = "flags"]
            /\ UNCHANGED <<pc, iflag, stack, was>>

SysPush == /\ pc = "running" /\ stack' = Pushed(regs, SysSaved \o SysArgs) \o stack
           /\ UNCHANGED <<pc, ring, iflag, regs, was>>

SysDispatch == /\ pc = "running" /\ regs' = Called(regs)
               /\ UNCHANGED <<pc, ring, iflag, stack, was>>

(* Mutant: addq $40.                                                       *)
ArgSlots_Five == 5

ArgSlots == 6

(* addq $48 drops the arguments, then the pops.                            *)
SysPop == /\ pc = "running"
          /\ LET st == Drop(stack, ArgSlots)
             IN  /\ regs' = Popped(regs, st, SysSaved)
                 /\ stack' = Drop(st, Len(SysSaved))
          /\ UNCHANGED <<pc, ring, iflag, was>>

(* sysretq at the end of the entry, and that of jump_user.                 *)
Sysret(ip, fl) == /\ pc = "running" /\ ring' = 3 /\ iflag' = TRUE
                  /\ regs' = [regs EXCEPT !["rip"] = ip, !["rflags"] = fl]
                  /\ UNCHANGED <<pc, stack, was>>

-----------------------------------------------------------------------------
(* What an interrupt costs the code it came upon.                          *)
Lost == IF ring = 0 THEN {"rax"} ELSE {"rax", "rcx", "r11"}

(* Whatever is interrupted goes on with all other registers, at the place  *)
(* and with the flags it had, in the loop, in ring 3 and in a system call  *)
(* (isr.S:37-61).                                                          *)
GoesOn == [][pc = "return" => \A r \in Registers \ Lost : regs'[r] = was[r]]_cpuvars

(* "interrupts in and out" of ring 3 work (IDEAS.md:69) and iretq returns  *)
(* plainly to ring 0 (isr.S:50-52): whatever was interrupted goes on with  *)
(* the registers it had.                                                   *)
ReturnsAsItWas == [][pc = "return" => regs' = was]_cpuvars

=============================================================================
