----------------------------- MODULE NvmeQueue ------------------------------
(***************************************************************************)
(* One queue pair of the NVMe driver (kernel/fs/nvme.h): nvme_io_cmd, and  *)
(* nvme_admin_cmd, which is the same code on the other pair.  The driver   *)
(* submits a command, rings the doorbell and polls the completion queue by *)
(* its phase bit; it looks neither at the command identifier of an entry   *)
(* nor at the room in the submission queue.                                *)
(*                                                                         *)
(* The controller is external: it fetches what the tail doorbell gave it,  *)
(* in order, and completes in any order, with a status, as long as the     *)
(* head doorbell leaves room.  A call that polled in vain for 20000000     *)
(* rounds returns -2 and its command stays with the controller.            *)
(***************************************************************************)
EXTENDS Integers, Sequences, FiniteSets

CONSTANTS QD,           \* entries of each queue (NVME_IO_QD + 1 = 64)
          CID_FIELD,    \* values of the SQE's identifier field (2^16)
          CID_REG,      \* values of g_nvme.cid (2^32)
          MaxCmds,      \* bound: commands issued in a run
          MaxTimeouts   \* bound: calls that time out

ASSUME NvmeAssumption ==
  /\ {CID_FIELD, CID_REG, MaxCmds} \subseteq Nat \ {0} /\ QD \in Nat \ {0, 1}
  /\ MaxTimeouts \in 0..QD-2

Cmd   == 1..MaxCmds
Index == 0..QD-1
NoEntry == [cmd |-> 0, phase |-> 0, sc |-> 0]

VARIABLES
  sq, tail, cq, head, phase, cid,          \* the driver's queues and state
  db_tail, db_head,                        \* the doorbells
  dev_head, dev_tail, dev_phase, running,  \* the controller
  calls,     \* the calls in progress, the innermost last: <<>> or one; two
             \* only when an interrupt handler calls the driver too
  issued,    \* commands issued so far
  timeouts,  \* calls that returned -2 so far
  done,      \* history: status of the commands the controller completed
  posted, consumed,  \* history: entries written by the controller, taken
  ret        \* the last call that returned: its command and its result

driver == <<sq, tail, cid, issued>>
device == <<dev_head, dev_tail, dev_phase, running, done, posted, cq>>
taken  == <<head, phase, db_head, consumed>>
vars == <<sq, tail, cq, head, phase, cid, db_tail, db_head, dev_head, dev_tail,
          dev_phase, running, calls, issued, timeouts, done, posted, consumed, ret>>

Wrap(i) == (i + 1) % QD

(* Mutant: the phase never changes.                                        *)
Flip_Never(i, p) == p

(* The phase after index i was used: it changes when the index wraps.      *)
Flip(i, p) == IF i = QD - 1 THEN 1 - p ELSE p

-----------------------------------------------------------------------------
(* The queues as nvme_create_io_queues leaves them: zeroed, phase 1.       *)
Init ==
  /\ sq = [i \in Index |-> [cmd |-> 0, cid |-> 0]]
  /\ cq = [i \in Index |-> NoEntry]
  /\ tail = 0 /\ head = 0 /\ phase = 1 /\ cid = 1
  /\ db_tail = 0 /\ db_head = 0
  /\ dev_head = 0 /\ dev_tail = 0 /\ dev_phase = 1 /\ running = {}
  /\ calls = <<>> /\ issued = 0 /\ timeouts = 0
  /\ done = [c \in {} |-> 0] /\ posted = 0 /\ consumed = 0
  /\ ret = [cmd |-> 0, rc |-> -1]

Top == calls[Len(calls)]
Pop == SubSeq(calls, 1, Len(calls) - 1)

(* The identifier put into a command: zero is skipped, then counted up.    *)
NextCid == IF cid = 0 THEN 1 ELSE cid

(* Mutant: the tail is advanced before the entry is written.               *)
Slot_Advanced(t) == (t + 1) % QD

Slot(t) == t

(* A call: the entry is written at the tail.                               *)
Submit ==
  /\ issued < MaxCmds
  /\ issued' = issued + 1
  /\ cid' = (NextCid + 1) % CID_REG
  /\ sq' = [sq EXCEPT ![Slot(tail)] = [cmd |-> issued + 1, cid |-> NextCid % CID_FIELD]]
  /\ calls' = Append(calls, [at |-> "ring", cmd |-> issued + 1, pos |-> tail])
  /\ UNCHANGED <<tail, db_tail, device, taken, timeouts, ret>>

Call == calls = <<>> /\ Submit

(* The tail moves on and the doorbell is rung.                             *)
Ring ==
  /\ calls # <<>> /\ Top.at = "ring"
  /\ tail' = Wrap(Top.pos) /\ db_tail' = tail'
  /\ calls' = [calls EXCEPT ![Len(calls)].at = "poll"]
  /\ UNCHANGED <<sq, cid, issued, device, taken, timeouts, ret>>

(* Mutant: the entry is taken but the head stays.                          *)
Advance_Stays(i) == i

Advance(i) == Wrap(i)

(* The poll finds the phase it waits for: the entry is taken, whatever     *)
(* command it is for, and its status returned.                             *)
Take ==
  /\ calls # <<>> /\ Top.at = "poll" /\ cq[head].phase = phase
  /\ ret' = [cmd |-> Top.cmd, rc |-> cq[head].sc]
  /\ head' = Advance(head) /\ phase' = Flip(head, phase)
  /\ db_head' = head' /\ consumed' = consumed + 1
  /\ calls' = Pop
  /\ UNCHANGED <<driver, db_tail, device, timeouts>>

(* The poll gives up.                                                      *)
TimeOut ==
  /\ calls # <<>> /\ Top.at = "poll" /\ timeouts < MaxTimeouts
  /\ timeouts' = timeouts + 1
  /\ ret' = [cmd |-> Top.cmd, rc |-> -2]
  /\ calls' = Pop
  /\ UNCHANGED <<driver, db_tail, device, taken>>

-----------------------------------------------------------------------------
(* The controller (external).                                              *)
Fetch ==
  /\ dev_head # db_tail
  /\ running' = running \cup {sq[dev_head].cmd}
  /\ dev_head' = (dev_head + 1) % QD
  /\ UNCHANGED <<driver, taken, db_tail, dev_tail, dev_phase, done, posted, cq,
                 calls, timeouts, ret>>

Complete(c, sc) ==
  /\ c \in running /\ (dev_tail + 1) % QD # db_head
  /\ running' = running \ {c}
  /\ done' = [d \in DOMAIN done \cup {c} |-> IF d = c THEN sc ELSE done[d]]
  /\ cq' = [cq EXCEPT ![dev_tail] = [cmd |-> c, phase |-> dev_phase, sc |-> sc]]
  /\ dev_tail' = (dev_tail + 1) % QD
  /\ dev_phase' = IF dev_tail' = 0 THEN 1 - dev_phase ELSE dev_phase
  /\ posted' = posted + 1
  /\ UNCHANGED <<driver, taken, db_tail, dev_head, calls, timeouts, ret>>

Controller == Fetch \/ \E c \in Cmd, sc \in 0..1 : Complete(c, sc)

Next == Call \/ Ring \/ Take \/ TimeOut \/ Controller

Spec == Init /\ [][Next]_vars

(* isr2c logs through the driver while the main loop is inside it.         *)
Interrupt == Len(calls) = 1 /\ Submit

NestedNext == Call \/ Ring \/ Take \/ Controller \/ Interrupt

NestedSpec == Init /\ [][NestedNext]_vars

-----------------------------------------------------------------------------
(* The phase bit at the head says exactly whether the controller posted an *)
(* entry that was not taken yet, through every wrap of the queue and after *)
(* calls that gave up (nvme.h:83, 121-122, 182-187).                       *)
PhaseTells == (cq[head].phase = phase) <=> (posted > consumed)

(* What the controller has yet to fetch are commands issued and not        *)
(* fetched before, in order: no entry is overwritten, lost or fetched      *)
(* twice (nvme.h:172-178).                                                 *)
Unfetched ==
  LET count == (db_tail - dev_head + QD) % QD
      at(k) == sq[(dev_head + k) % QD].cmd
  IN  \A k \in 0..count-1 : /\ at(k) \in Cmd \ (running \cup DOMAIN done)
                            /\ k > 0 => at(k) = at(k-1) + 1

(* Until the first call gives up, a call returns the status of its own     *)
(* command (nvme.h:163-164).                                               *)
OwnResult ==
  timeouts = 0 /\ ret.cmd # 0 => /\ ret.cmd \in DOMAIN done
                                 /\ ret.rc = done[ret.cmd]

(* "submits a command and waits for its completion; 0 = success"           *)
(* (nvme.h:163-164): the command of a call that returned 0 was completed   *)
(* with success.                                                           *)
SuccessMeansDone ==
  ret.rc = 0 => ret.cmd \in DOMAIN done /\ done[ret.cmd] = 0

=============================================================================
