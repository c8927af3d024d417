------------------------------ MODULE LogDisk -------------------------------
(***************************************************************************)
(* The log on disk: the sink of kernel/sys/logdisk.h behind out_str of     *)
(* kernel/sys/serial.h, on top of the NVMe queue pair.  Log text is        *)
(* buffered in one page and written to a fixed region of the disk, whole   *)
(* sectors at a time, straight from that page: a command that a call has   *)
(* given up copies what the page holds when the controller gets to it.     *)
(*                                                                         *)
(* The bytes of the log are numbered 1, 2, ... in the order in which they  *)
(* are logged; 0 is a byte that was never written.                         *)
(***************************************************************************)
EXTENDS NvmeQueue

CONSTANTS SECT,      \* bytes in a sector (512)
          BUF_SZ,    \* LOGDISK_BUF_SZ (4096)
          MAX_SECT,  \* LOGDISK_MAX_SECT (1024)
          Lens,      \* lengths of messages, in bytes
          MaxBytes   \* bound: bytes logged in a run

ASSUME LogDiskAssumption ==
  /\ {SECT, BUF_SZ, MAX_SECT, MaxBytes} \cup Lens \subseteq Nat \ {0}
  /\ BUF_SZ % SECT = 0

VARIABLES
  log,   \* g_logdisk_ok, g_logbuf, g_loglen, g_logsect; the sectors on the
         \* disk; history: bytes logged before the sink was installed
  n,     \* bytes logged so far
  todo,  \* what out_str has yet to give to the sink
  want   \* the sectors each command is to write: first, number

logvars == <<log, n, todo, want>>
allvars == <<vars, logvars>>

-----------------------------------------------------------------------------
LogInit ==
  /\ Init
  /\ log = [ok |-> FALSE, len |-> 0, sect |-> 0, first |-> 0,
            buf  |-> [i \in 0..BUF_SZ-1 |-> 0],
            disk |-> [i \in 0..MAX_SECT-1 |-> [k \in 0..SECT-1 |-> 0]]]
  /\ n = 0 /\ todo = <<>> /\ want = [c \in {} |-> <<0, 0>>]

Idle == calls = <<>> /\ todo = <<>>

(* logdisk_init, once, when the NVMe disk is ready and holds no file       *)
(* system; without it the log goes to the serial line only.                *)
logdisk_init ==
  /\ Idle /\ ~log.ok
  /\ log' = [log EXCEPT !.ok = TRUE, !.len = 0, !.sect = 0, !.first = n]
  /\ UNCHANGED <<vars, n, todo, want>>

(* out_str of a message of k bytes.                                        *)
out_str(k) ==
  /\ Idle /\ n + k <= MaxBytes /\ n' = n + k
  /\ todo' = IF log.ok THEN [i \in 1..k |-> n + i] ELSE <<>>
  /\ UNCHANGED <<vars, log, want>>

(* logdisk_sink: bytes into the page, up to its end.                       *)
logdisk_sink ==
  /\ calls = <<>> /\ todo # <<>> /\ log.len < BUF_SZ
  /\ LET k == IF Len(todo) <= BUF_SZ - log.len THEN Len(todo) ELSE BUF_SZ - log.len
     IN  /\ log' = [log EXCEPT !.len = @ + k,
                      !.buf = [i \in 0..BUF_SZ-1 |-> IF i \in log.len..log.len+k-1
                                                     THEN todo[i - log.len + 1] ELSE @[i]]]
         /\ todo' = SubSeq(todo, k + 1, Len(todo))
  /\ UNCHANGED <<vars, n, want>>

-----------------------------------------------------------------------------
(* Mutant: the length is rounded down to whole sectors.                    *)
Sectors_RoundedDown(len) == len \div SECT

Sectors(len) == (len + SECT - 1) \div SECT

(* Mutant: the region never fills up, it starts over.                      *)
Place_Wraps(L) == IF L.sect + BUF_SZ \div SECT > MAX_SECT THEN 0 ELSE L.sect

Place(L) == L.sect

Fits(L) == Place(L) + Sectors(L.len) <= MAX_SECT

(* A flush is due when the page is full and there is more, or every 200    *)
(* ticks from the main loop (kernel.cpp:919).                              *)
Flush == calls = <<>> /\ log.ok /\ log.len > 0 /\ (todo = <<>> \/ log.len = BUF_SZ)

(* The region is full: the text is dropped.                                *)
FlushFull == /\ Flush /\ ~Fits(log) /\ log' = [log EXCEPT !.len = 0]
             /\ UNCHANGED <<vars, n, todo, want>>

(* nvme_rw of a write.                                                     *)
FlushCall ==
  /\ Flush /\ Fits(log) /\ Call
  /\ want' = [c \in 1..issued+1 |-> IF c = issued + 1 THEN <<Place(log), Sectors(log.len)>>
                                    ELSE want[c]]
  /\ UNCHANGED <<log, n, todo>>

(* Mutant: a failed write still advances.                                  *)
Advance_Always(L, rc) == Place(L) + Sectors(L.len)

SectAfter(L, rc) == IF rc = 0 THEN Place(L) + Sectors(L.len) ELSE L.sect

(* The call returns: the page is empty afterwards in every case.           *)
FlushReturns ==
  /\ Take \/ TimeOut
  /\ log' = [log EXCEPT !.len = 0, !.sect = SectAfter(log, ret'.rc)]
  /\ UNCHANGED <<n, todo, want>>

(* External: the controller copies the page of the driver to the sectors   *)
(* of a command, or does not when the command fails.                       *)
Copied(c) ==
  LET lba == want[c][1] IN
  [i \in 0..MAX_SECT-1 |->
    IF i \in lba..lba+want[c][2]-1
      THEN [k \in 0..SECT-1 |-> IF (i - lba) * SECT + k < BUF_SZ
                                THEN log.buf[(i - lba) * SECT + k] ELSE 0]
      ELSE log.disk[i]]

Done(c) == /\ \/ Complete(c, 0) /\ log' = [log EXCEPT !.disk = Copied(c)]
              \/ Complete(c, 1) /\ log' \in {log, [log EXCEPT !.disk = Copied(c)]}
           /\ UNCHANGED <<n, todo, want>>

LogNext ==
  \/ logdisk_init \/ logdisk_sink \/ FlushFull \/ FlushCall \/ FlushReturns
  \/ \E k \in Lens : out_str(k)
  \/ (Ring \/ Fetch) /\ UNCHANGED logvars
  \/ \E c \in Cmd : Done(c)

LogSpec == LogInit /\ [][LogNext]_allvars

-----------------------------------------------------------------------------
Stored == 0..log.sect-1

(* The region reads as the log in order: each of the g_logsect sectors was *)
(* written and starts with newer text than the one before, although a      *)
(* partial page is padded with what the page held before and a write that  *)
(* failed may be on the disk too (logdisk.h:23-33).  A write that a call   *)
(* has given up may still come, with other text.                           *)
StoredInOrder ==
  timeouts = 0 =>
    \A i \in Stored : /\ log.disk[i][0] # 0
                      /\ \A j \in 0..i-1 : log.disk[j][0] < log.disk[i][0]

(* "the beginning is not overwritten, so that the first boot log is always *)
(* on the disk" (logdisk.h:4-5): a sector that counts as written is never  *)
(* written again, while no call has given up.                              *)
FirstLogStays ==
  [][timeouts = 0 => \A i \in Stored : log'.disk[i] = log.disk[i]]_allvars

(* "at most the last bit is lost" (kernel.cpp:919): while there is room    *)
(* for a page and all writes have succeeded, what was logged once the sink *)
(* is installed is in the page or on the disk, and stays there.            *)
NothingLost ==
  LET kept == {log.buf[i] : i \in 0..log.len-1}
                \cup {log.disk[i][k] : i \in Stored, k \in 0..SECT-1}
                \cup {todo[i] : i \in DOMAIN todo}
  IN  /\ log.ok /\ timeouts = 0 /\ \A c \in DOMAIN done : done[c] = 0
      /\ log.sect + BUF_SZ \div SECT <= MAX_SECT
      => log.first+1..n \subseteq kept

=============================================================================
