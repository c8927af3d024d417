------------------------------ MODULE BootLoader ------------------------------
(***************************************************************************)
(* The boot loader, src/main.rs: start_kernel up to its jump into the      *)
(* kernel.  The UEFI firmware is external: any of its services may fail,   *)
(* it offers some video modes, and until ExitBootServices it may change    *)
(* the memory map behind the loader's back, which makes the map key stale  *)
(* and may make the map longer than the buffer the loader has for it.      *)
(*                                                                         *)
(* Modes are told apart by how they compare with 1920x1080, the size the   *)
(* kernel's buffers have.  The map is counted in descriptors.              *)
(***************************************************************************)
EXTENDS MemDisk, SequencesExt

CONSTANTS Kernels,    \* lengths of KERNEL.BIN, in bytes
          PER_PAGE,   \* descriptors in a page (4096 \div 48)
          MARGIN,     \* descriptors of slack in the buffer (8)
          MaxMap,     \* bound: descriptors in the firmware's map
          Paths,      \* device paths of the disk the loader came from
          Videos      \* video modes: those offered, the current one

ASSUME LoaderAssumption ==
  /\ Kernels \subseteq Nat \ {0} /\ PER_PAGE \in Nat \ {0}
  /\ {MARGIN, MaxMap} \subseteq Nat
  /\ \A v \in Videos : v[1] \subseteq 1..3 /\ v[2] \in 1..3

TRIES == 8

VARIABLES
  at,      \* where the machine is, in the loader or in the kernel
  gop,     \* the firmware's video modes: offered, current, current at first
  screen,  \* hr and vr
  img,     \* the image read, and the bytes of it in the buffer
  found,   \* what exfat_find_kern answered
  kern,    \* the number of sectors copied to where the kernel will run, and
           \* those of them that are not what KERNEL.BIN has there
  info,    \* BootInfo: controller, channel, drive, start of the partition
  map      \* firmware's map and the loader's copy: size, cap, key, tries

loadvars == <<at, gop, screen, img, found, kern, info, map>>

-----------------------------------------------------------------------------
(* parse_dp: the last messaging node gives the controller, an ATAPI node   *)
(* its channel and drive, a hard drive node the partition.                 *)
Kind(st, was) == CASE st = 1 -> 1 [] st = 18 -> 2 [] st = 23 -> 3 [] st = 5 -> 4
                   [] OTHER -> was
NoInfo == [kind |-> 0, pci |-> <<>>, bus |-> 0, ch |-> 0, dv |-> 0, plba |-> 0]
Visit(acc, node) ==
  CASE node.t = 1 /\ node.st = 2 -> [acc EXCEPT !.bus = node.a]
    [] node.t = 1 /\ node.st = 1 -> [acc EXCEPT !.pci = <<node.a, node.b>>]
    [] node.t = 3 -> [acc EXCEPT !.kind = Kind(node.st, @),
                                 !.ch = IF node.st = 1 THEN node.a ELSE @,
                                 !.dv = IF node.st = 1 THEN node.b ELSE @]
    [] node.t = 4 /\ node.st = 1 -> [acc EXCEPT !.plba = node.a]
    [] OTHER -> acc
parse_dp(path) == FoldLeft(Visit, NoInfo, SubSeq(path, 1, IF Len(path) < 64 THEN Len(path) ELSE 64))

-----------------------------------------------------------------------------
NoImage == [what |-> "none", size |-> 0]
Images == {[what |-> "mk", size |-> k] : k \in {j \in Kernels : Made(j)}}
            \cup {[what |-> "memdisk", size |-> 0]}
Image(i) == IF i.what = "mk" THEN build(i.size) ELSE memdisk

(* Sizes of a picture; Full is 1920x1080.                                  *)
Small == 1
Full == 2
Larger == 3

LoaderInit ==
  /\ at = "start"
  /\ \E v \in Videos : gop = [offered |-> v[1], now |-> v[2], first |-> v[2]]
  /\ screen = 0 /\ img = [of |-> NoImage, size |-> 0] /\ found = <<>>
  /\ kern = [n |-> 0, alien |-> {}]
  /\ info = NoInfo
  /\ map = [size |-> 1, cap |-> 0, key |-> "none", tries |-> 0]

Go(from, to) == at = from /\ at' = to
Bsod(from) == Go(from, "bsod") /\ UNCHANGED <<gop, screen, img, found, kern, info, map>>

(* The device path tells which disk the loader came from.                  *)
AskWhere ==
  /\ Go("start", "video")
  /\ info' \in {info} \cup {parse_dp(p) : p \in Paths}
  /\ UNCHANGED <<gop, screen, img, found, kern, map>>

(* QueryMode of the current mode, or of mode 0, or neither answers.        *)
QueryMode ==
  /\ Go("video", "mode")
  /\ screen' \in {0, gop.now} \cup gop.offered
  /\ UNCHANGED <<gop, img, found, kern, info, map>>

NoVideo == Go("video", "hang") /\ UNCHANGED <<gop, screen, img, found, kern, info, map>>

(* Mutant: any mode at least as large will do.                             *)
Wanted_AtLeast(m) == m >= Full

Wanted(m) == m = Full

(* The mode wanted is set if it is offered; the size is read again from    *)
(* what the firmware says of its current mode.                             *)
SetMode ==
  /\ Go("mode", "alloc")
  /\ \E m \in {gop.now} \cup {x \in gop.offered : Wanted(x)} : gop' = [gop EXCEPT !.now = m]
  /\ screen' = gop'.now
  /\ UNCHANGED <<img, found, kern, info, map>>

(* The file memdisk.img of the volume the loader came from, or of any      *)
(* volume when that one cannot be asked.                                   *)
ReadImage ==
  /\ Go("alloc", "find")
  /\ \E i \in Images : LET n == Image(i).len
                       IN  img' = [of |-> i, size |-> IF n < LIMIT THEN n ELSE LIMIT]
  /\ UNCHANGED <<gop, screen, found, kern, info, map>>

FindKernel ==
  /\ Go("find", "copy")
  /\ found' = exfat_find_kern(Image(img.of), img.size)
  /\ found' # <<>>
  /\ UNCHANGED <<gop, screen, img, kern, info, map>>

NoKernel == Bsod("find") /\ exfat_find_kern(Image(img.of), img.size) = <<>>

(* copy_nonoverlapping out of the buffer: past the bytes read it copies    *)
(* whatever memory holds there.                                            *)
Copied(i) == IF (found[1] + i) * SECT < img.size THEN Image(img.of).at[found[1] + i] ELSE Zero
Sectors == CeilDiv(found[2], SECT)

CopyKernel ==
  /\ Go("copy", "probe")
  /\ kern' = [n |-> Sectors,
              alien |-> {i \in 0..Sectors-1 : Copied(i) # Data("KERNEL.BIN", i)}]
  /\ UNCHANGED <<gop, screen, img, found, info, map>>

-----------------------------------------------------------------------------
(* The loop around ExitBootServices.  An allocation may split a descriptor.*)
AllocateMap ==
  /\ Go("probe", "map")
  /\ \E n \in map.size..map.size+1 :
       map' = [map EXCEPT !.size = IF n > MaxMap THEN @ ELSE n, !.key = "none",
                          !.cap = PER_PAGE * CeilDiv(map.size + MARGIN, PER_PAGE)]
  /\ UNCHANGED <<gop, screen, img, found, kern, info>>

(* Mutant: the buffer that was too small is tried again.                   *)
TooSmall_Again == "map"

TooSmall == "probe"

GetMemoryMap ==
  /\ at = "map"
  /\ IF map.size <= map.cap
       THEN at' = "exit" /\ map' = [map EXCEPT !.key = "fresh"]
       ELSE at' = TooSmall /\ map' = [map EXCEPT !.key = "none"]
  /\ UNCHANGED <<gop, screen, img, found, kern, info>>

(* Mutant: the tries are not counted.                                      *)
GiveUp_Never(n) == FALSE

GiveUp(n) == n > TRIES

(* ExitBootServices succeeds only with the key of the map as it is; its    *)
(* handlers may also change the map and make it fail.                      *)
ExitFails ==
  /\ at = "exit"
  /\ LET n == IF map.tries > TRIES THEN map.tries ELSE map.tries + 1
     IN  /\ at' = IF GiveUp(n) THEN "bsod" ELSE "map"
         /\ map' = [map EXCEPT !.tries = n, !.key = "none"]
  /\ UNCHANGED <<gop, screen, img, found, kern, info>>

Gone == [size |-> 1, cap |-> 0, key |-> "none", tries |-> 0]

(* Firmware and loader are gone, with what they had in memory; interrupts  *)
(* are off and the kernel runs.                                            *)
Exit ==
  /\ map.key = "fresh" /\ Go("exit", "kernel") /\ map' = Gone
  /\ UNCHANGED <<gop, screen, img, found, kern, info>>

(* External: the firmware changes its map.                                 *)
Firmware ==
  /\ at \in {"probe", "map", "exit"}
  /\ \E n \in map.size..MaxMap :
       map' = [map EXCEPT !.size = n, !.key = IF @ = "fresh" THEN "stale" ELSE @]
  /\ UNCHANGED <<at, gop, screen, img, found, kern, info>>

(* An allocation, the file or the map cannot be had.                       *)
Refused == \E s \in {"alloc", "copy", "probe", "map"} : Bsod(s)

LoaderStep ==
  \/ AskWhere \/ QueryMode \/ NoVideo \/ SetMode \/ ReadImage \/ FindKernel \/ NoKernel
  \/ CopyKernel \/ AllocateMap \/ GetMemoryMap \/ ExitFails \/ Exit

-----------------------------------------------------------------------------
(* KERNEL.BIN is found in every image mkmemdisk.py makes and in no other,  *)
(* and the kernel that runs has every sector of it, in order, up to the    *)
(* longest one: writer and reader agree on clusters, entries and the limit *)
(* (mkmemdisk.py:10-17, main.rs:119-175, 311-327).                         *)
InKernel == at \notin {"start", "video", "mode", "alloc", "find", "copy", "probe",
                       "map", "exit", "bsod", "hang"}
KernelWhole ==
  /\ at = "find" => (exfat_find_kern(Image(img.of), img.size) # <<>> <=> img.of.what = "mk")
  /\ InKernel => /\ img.of.what = "mk"
                 /\ kern = [n |-> CeilDiv(img.of.size, SECT), alien |-> {}]

(* "never choose a larger one: lm_map and back_buf are sized for           *)
(* 1920*1080" (main.rs:277-279): the kernel gets a picture larger than its *)
(* buffers only where the firmware had it from the start and 1920x1080     *)
(* could not be set.                                                       *)
PictureFits == InKernel => screen # 0 /\ (screen = Larger => gop.first = Larger)

=============================================================================
