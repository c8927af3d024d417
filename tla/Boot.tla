--------------------------------- MODULE Boot ---------------------------------
(***************************************************************************)
(* From power-on to the main loop: the boot loader, then _start of         *)
(* kernel/kernel.cpp with what it does to the page pool and to the disks:  *)
(* the search for a debug disk, the first exfat_init on the four ATA       *)
(* positions, the NVMe controller and its queues, the second exfat_init on *)
(* the NVMe disk, and then a file or bare sectors written to it, the log   *)
(* on disk, a test file, and Login.lgi when the user logs in.              *)
(*                                                                         *)
(* A disk is what is on it, the files the kernel made and the bare sectors *)
(* it wrote.  Reading or writing may fail at any time.  Memory given out   *)
(* by the firmware is taken to be zero where nothing was stored (out_str   *)
(* is called before the BSS is cleared).  A sector outside of the places a *)
(* volume has for them never looks like a directory with a bitmap.         *)
(***************************************************************************)
EXTENDS BootLoader

CONSTANTS PAGES,   \* pages of the heap (16384)
          Buses,   \* what nvme_find meets on the PCI buses, in its order
          Setups   \* the disks in the machine: <<channel, drive>> and "nvme"

Positions == << <<0, 0>>, <<0, 1>>, <<1, 0>>, <<1, 1>> >>
Nvme == <<2, 0>>
Places == {Positions[i] : i \in DOMAIN Positions} \cup {Nvme}

ASSUME BootAssumption ==
  /\ PAGES \in Nat /\ PAGES >= 40
  /\ \A s \in Setups : DOMAIN s = Places

VARIABLES
  pool,    \* the page allocator: page_free_cnt, bits set in page_bmp
  disks,   \* the disks the kernel meets when it starts, what is on each
  nvme,    \* g_nvme.ready, and whether the I/O queues exist (qr = 0)
  ex,      \* the driver: g_ok, the disk its geometry is from, what the first
           \* and the second exfat_init returned
  log,     \* g_logdisk_ok
  errs     \* history: reading the NVMe disk has failed

bootvars == <<pool, disks, nvme, ex, log, errs>>
vars == <<loadvars, bootvars>>

Loaded == UNCHANGED <<gop, screen, img, found, kern, info, map>>
Kernel(from, to) == Go(from, to) /\ Loaded

-----------------------------------------------------------------------------
Disk(what) == [what |-> what, files |-> {}, raw |-> {}]
ImageOf(what) == CASE what = "memdisk" -> memdisk
                   [] what = "large" -> Large
                   [] what = "fat" -> Fat
                   [] what = "mk" -> build(SECT)
                   [] OTHER -> Blank
Present(d) == disks[d].what # "none"
On(d) == ImageOf(disks[d].what)

BootInit ==
  /\ pool = [cnt |-> 8, used |-> 0]
  /\ disks = [d \in {} |-> Disk("none")]
  /\ nvme = [ready |-> FALSE, queues |-> FALSE]
  /\ ex = [ok |-> FALSE, on |-> <<>>, r |-> -8, r2 |-> -8]
  /\ log = FALSE /\ errs = FALSE

Init == LoaderInit /\ BootInit

-----------------------------------------------------------------------------
Take(p, n) == IF n > p.cnt THEN p ELSE [cnt |-> p.cnt - n, used |-> p.used + n]
Give(p, n) == [cnt |-> p.cnt + n, used |-> p.used - n]

(* page_selftest: a page and a block of 32, given back, and the page again.*)
(* Mutant: the last page is not given back.                                *)
Selftest_Keeps(p) == Take(Give(Take(Take(p, 1), 32), 33), 1)

Selftest(p) == Give(Take(Give(Take(Take(p, 1), 32), 33), 1), 1)

EnterKernel ==
  /\ Kernel("kernel", "debug")
  /\ pool' = Selftest([cnt |-> PAGES, used |-> 0])
  /\ disks' \in {[d \in DOMAIN s |-> Disk(s[d])] : s \in Setups}
  /\ UNCHANGED <<nvme, ex, log, errs>>

(* ide_read_sector: it delivers the sector or times out, whatever the      *)
(* drive; the positions that can be read for now.                          *)
AtaReads == SUBSET {d \in DOMAIN disks \ {Nvme} : Present(d)}

Others(good) == {i \in DOMAIN Positions : Positions[i] \in good
                                          /\ Positions[i] # <<info.ch, info.dv>>}

(* The first disk that starts with "WINDBG01", other than at the position  *)
(* the loader came from, gets a mark in its sector 1, if it can be written.*)
DebugDisk ==
  /\ Kernel("debug", "bss")
  /\ \E good \in AtaReads :
       LET signed == {i \in Others(good) : disks[Positions[i]].what = "windbg"}
       IN  disks' \in {disks} \cup
             IF signed = {} THEN {}
             ELSE {[disks EXCEPT ![Positions[Min(signed)]].raw = @ \cup {"mark"}]}
  /\ UNCHANGED <<pool, nvme, ex, log, errs>>

(* The BSS is cleared, the bitmap of the page allocator with it; the count *)
(* of free pages is initialised data and stays.                            *)
ClearBss ==
  /\ Kernel("bss", "init1")
  /\ pool' = [pool EXCEPT !.used = 0]
  /\ UNCHANGED <<disks, nvme, ex, log, errs>>

(* exfat_init before the NVMe controller is there: the ATA positions in    *)
(* turn, those that can be read.  A volume with large clusters ends it.    *)
Init1 ==
  /\ Kernel("init1", "nvme")
  /\ \E good \in AtaReads :
       LET vol == {i \in DOMAIN Positions : Positions[i] \in good
                                            /\ HasVolume(On(Positions[i]))}
           d == Positions[Min(vol)]
       IN  ex' = IF vol = {} THEN [ex EXCEPT !.r = -8]
                 ELSE IF Mountable(On(d)) THEN [ex EXCEPT !.ok = TRUE, !.on = d, !.r = 0]
                 ELSE [ex EXCEPT !.on = d, !.r = -4]
  /\ UNCHANGED <<pool, disks, nvme, log, errs>>

(* nvme_find: the first function of class 01/08 or of vendor 1B36, which   *)
(* is QEMU's NVMe controller, but QEMU's USB controller as well.           *)
nvme_find(bus) == SelectInSeq(bus, LAMBDA f : f.cls = <<1, 8>> \/ f.vid = 6966)

(* nvme_init on what was found: two pages for the queues, and a controller *)
(* that is one becomes ready, or does not.                                 *)
NvmeInit ==
  /\ at = "nvme" /\ Loaded
  /\ \E bus \in Buses :
       LET f == nvme_find(bus)
       IN  /\ pool' = IF f = 0 THEN pool ELSE Take(pool, 2)
           /\ \/ /\ f # 0 /\ bus[f].nvme /\ Present(Nvme)
                 /\ at' = "queues" /\ nvme' = [nvme EXCEPT !.ready = TRUE]
              \/ at' = "log" /\ UNCHANGED nvme
  /\ UNCHANGED <<disks, ex, log, errs>>

(* A page for nvme_identify, given back, and two for the I/O queues, which *)
(* the controller may refuse.                                              *)

CreateQueues ==
  /\ Kernel("queues", "init2")
  /\ pool' = Take(Give(Take(pool, 1), 1), 2)
  /\ nvme' \in {nvme, [nvme EXCEPT !.queues = TRUE]}
  /\ UNCHANGED <<disks, ex, log, errs>>

(* exfat_init again: the block layer reads the NVMe disk now.  It is the   *)
(* only place looked at; a failure leaves g_ok and the geometry alone,     *)
(* large clusters leave g_ok.                                              *)
Init2 ==
  /\ at = "init2" /\ Loaded
  /\ \E good \in BOOLEAN :
       LET read == good /\ nvme.queues
       IN  /\ ex' = IF ~read \/ ~HasVolume(On(Nvme)) THEN [ex EXCEPT !.r2 = -8]
                    ELSE IF Mountable(On(Nvme))
                      THEN [ex EXCEPT !.ok = TRUE, !.on = Nvme, !.r2 = 0]
                    ELSE [ex EXCEPT !.on = Nvme, !.r2 = -4]
           /\ errs' = (errs \/ ~read)
  /\ at' = "nvmetxt"
  /\ UNCHANGED <<pool, disks, nvme, log>>

(* exfat_write_file: the sectors go to the NVMe disk as soon as it is      *)
(* ready, wherever the geometry is from; without a volume at that place    *)
(* there, the call fails.                                                  *)

(* Mutant: writes go by g_ch and g_dv, which are 0 for the NVMe disk.      *)
Target_Ata == IF ex.on = Nvme THEN <<0, 0>> ELSE ex.on

Target == IF nvme.ready THEN Nvme ELSE ex.on

Writable == /\ ex.ok /\ (nvme.ready => nvme.queues)
            /\ HasVolume(On(Target)) /\ On(Target).at[PART_LBA] = On(ex.on).at[PART_LBA]

write_file(name) ==
  disks' \in {disks} \cup
    IF Writable THEN {[disks EXCEPT ![Target].files = @ \cup {name}]} ELSE {}

WriteNvmeTxt ==
  /\ Kernel("nvmetxt", "raw")
  /\ IF ex.r2 = 0 THEN write_file("NVME.TXT") ELSE UNCHANGED disks
  /\ UNCHANGED <<pool, nvme, ex, log, errs>>

(* Without a mounted volume, sector 16384 of the NVMe disk is written.     *)
(* Mutant: the result of exfat_init is not looked at.                      *)
RawTest_Always == nvme.queues

RawTest == nvme.queues /\ ex.r2 # 0

WriteRaw ==
  /\ Kernel("raw", "log")
  /\ disks' \in {disks} \cup
       IF RawTest THEN {[disks EXCEPT ![Nvme].raw = @ \cup {"test"}]} ELSE {}
  /\ UNCHANGED <<pool, nvme, ex, log, errs>>

(* logdisk_init, unless g_exfat_on_nvme.                                   *)
LogToDisk == nvme.ready /\ ex.r2 # 0

StartLog == /\ Kernel("log", "test") /\ log' = LogToDisk
            /\ UNCHANGED <<pool, disks, nvme, ex, errs>>

(* When the first exfat_init succeeded: the root directory is listed and   *)
(* TEST.TXT written.  With the geometry of a volume with large clusters    *)
(* the listing runs over g_tmp, and anything may follow.                   *)
WriteTest ==
  /\ at = "test" /\ Loaded
  /\ IF ex.r # 0 THEN at' = "loop" /\ UNCHANGED disks
     ELSE IF HasVolume(On(ex.on)) /\ ~Mountable(On(ex.on))
       THEN at' = "overrun" /\ UNCHANGED disks
     ELSE at' = "loop" /\ write_file("TEST.TXT")
  /\ UNCHANGED <<pool, nvme, ex, log, errs>>

(* The main loop writes the log once there is some, and saves the name of  *)
(* the user who logs in.                                                   *)
FlushLog ==
  /\ at \in {"loop", "user"} /\ log /\ nvme.queues
  /\ disks' = [disks EXCEPT ![Nvme].raw = @ \cup {"log"}]
  /\ UNCHANGED <<at, pool, nvme, ex, log, errs>> /\ Loaded

LogIn == /\ Kernel("loop", "user") /\ write_file("Login.lgi")
         /\ UNCHANGED <<pool, nvme, ex, log, errs>>

KernelStep ==
  \/ EnterKernel \/ DebugDisk \/ ClearBss \/ Init1 \/ NvmeInit \/ CreateQueues \/ Init2
  \/ WriteNvmeTxt \/ WriteRaw \/ StartLog \/ WriteTest

Next == \/ LoaderStep /\ UNCHANGED bootvars
        \/ (Refused \/ Firmware) /\ UNCHANGED bootvars
        \/ KernelStep \/ FlushLog \/ LogIn

(* Loader and kernel are the only programs on the machine and run; that    *)
(* the firmware refuses something is not fair.                             *)
Spec == Init /\ [][Next]_vars /\ WF_vars((LoaderStep /\ UNCHANGED bootvars) \/ KernelStep)

-----------------------------------------------------------------------------
(* The allocator comes through the clearing of its bitmap: the self-test   *)
(* before it gave everything back, so that the count that stays is right   *)
(* (kernel.cpp:396-405, 470-477, page.h:17-18).                            *)
PoolAgrees ==
  InKernel /\ at # "kernel" => pool.cnt + pool.used = PAGES

(* "bare sectors must never be written on an exFAT disk" (kernel.cpp:794,  *)
(* 842): a volume on the NVMe disk that the driver can use keeps all its   *)
(* sectors, test and log are not written over it, if it could be read.     *)
VolumeKept == Nvme \in DOMAIN disks /\ ~errs /\ Mountable(On(Nvme)) => disks[Nvme].raw = {}

(* A file is written on the volume that was mounted last, not at the       *)
(* places of one volume on another disk, although the NVMe disk takes over *)
(* between two writes (exfat.cpp:55-72, kernel.cpp:797-809, 875).          *)
FilesOnVolume ==
  ~errs => \A d \in DOMAIN disks : disks[d].files # {} => d = ex.on /\ Mountable(On(d))

(* The machine comes up or says that it cannot: no loop of the boot goes   *)
(* on for ever, whatever the firmware does to its memory map (main.rs:     *)
(* 372-399).                                                               *)
BootEnds == at = "start" ~> at \in {"loop", "user", "bsod", "hang", "overrun"}

===============================================================================
