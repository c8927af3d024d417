----------------------------- MODULE BootProofs ------------------------------
(***************************************************************************)
(* What holds of loader and kernel for every set of disks, video modes and *)
(* devices, every number of pages and every memory map of the firmware; of *)
(* the page allocator for every size of the pool; of the exFAT volume for  *)
(* every size of it and every file it had.                                 *)
(***************************************************************************)
EXTENDS Boot, PageAlloc, ExfatVolume, FiniteSetTheorems, SequenceTheorems,
        WellFoundedInduction, NaturalsInduction, TLAPS

(* The kernel has run its first statements.                                *)
Started == InKernel /\ at # "kernel"

(* The loader and its failures stay in the loader or enter the kernel.     *)
LEMMA LoaderStays == LoaderStep \/ Refused \/ Firmware => ~Started'
BY DEF LoaderStep, Refused, Firmware, Started, InKernel, AskWhere, QueryMode, NoVideo, SetMode,
       ReadImage, FindKernel, NoKernel, CopyKernel, AllocateMap, GetMemoryMap, ExitFails, Exit,
       Go, Bsod, TooSmall

-----------------------------------------------------------------------------
(* The pool is full when the bitmap is cleared, and what is taken is given *)
(* back or stays counted.                                                  *)
PoolInv ==
  /\ at \in {"debug", "bss"} => pool = [cnt |-> PAGES, used |-> 0]
  /\ Started => /\ pool.cnt \in Int /\ pool.used \in Int
                /\ pool = [cnt |-> pool.cnt, used |-> pool.used] /\ pool.cnt + pool.used = PAGES

(* Taking and giving back keep the sum.                                    *)
LEMMA TakeSum ==
  ASSUME NEW p, NEW n \in Int, p.cnt \in Int, p.used \in Int
  PROVE  /\ Take(p, n).cnt \in Int /\ Take(p, n).used \in Int
         /\ Take(p, n).cnt + Take(p, n).used = p.cnt + p.used
         /\ Give(p, n).cnt \in Int /\ Give(p, n).used \in Int
         /\ Give(p, n).cnt + Give(p, n).used = p.cnt + p.used
         /\ Give(p, n) = [cnt |-> Give(p, n).cnt, used |-> Give(p, n).used]
BY DEF Take, Give

(* The self-test of a full pool leaves it full.                            *)
LEMMA SelftestFull == Selftest([cnt |-> PAGES, used |-> 0]) = [cnt |-> PAGES, used |-> 0]
BY BootAssumption DEF Selftest, Take, Give

(* The allocator's count and its bitmap agree in every state of the        *)
(* kernel, although the bitmap is cleared under it.                        *)
LEMMA PoolStep == PoolInv /\ [Next]_vars => PoolInv'
<1> SUFFICES ASSUME PoolInv, [Next]_vars PROVE PoolInv' OBVIOUS
<1>1. CASE LoaderStep \/ Refused \/ Firmware
  <2>1. at' \notin {"debug", "bss"} BY <1>1, LoaderStays DEF Started, InKernel
  <2> QED BY <1>1, <2>1, LoaderStays DEF PoolInv
<1>2. CASE EnterKernel
  BY <1>2, SelftestFull, BootAssumption DEF EnterKernel, PoolInv
<1>3. CASE DebugDisk
  <2>1. at = "debug" /\ pool' = pool
    BY <1>3 DEF DebugDisk, Kernel, Go
  <2>2. pool' = [cnt |-> PAGES, used |-> 0]
    BY <2>1 DEF PoolInv
  <2>3. pool'.cnt = PAGES /\ pool'.used = 0 /\ PAGES \in Nat
    BY <2>2, BootAssumption
  <2>4. pool'.cnt \in Int /\ pool'.used \in Int /\ pool'.cnt + pool'.used = PAGES
    BY ONLY <2>3
  <2>5. pool' = [cnt |-> pool'.cnt, used |-> pool'.used]
    BY ONLY <2>2, <2>3
  <2> QED BY ONLY <2>2, <2>4, <2>5 DEF PoolInv
<1>4. CASE ClearBss
  BY <1>4, BootAssumption DEF ClearBss, Kernel, Go, PoolInv, Started, InKernel
<1>5. CASE NvmeInit
  <2>1. Started /\ at' \in {"queues", "log"} /\ pool' \in {pool, Take(pool, 2)}
    BY <1>5 DEF NvmeInit, Started, InKernel
  <2>2. CASE pool' = Take(pool, 2)
    BY <2>1, <2>2, TakeSum DEF PoolInv, Take
  <2>3. CASE pool' = pool
    BY <2>1, <2>3 DEF PoolInv
  <2> QED BY <2>1, <2>2, <2>3
<1>6. CASE CreateQueues
  <2> DEFINE p1 == Take(pool, 1)
             p2 == Give(p1, 1)
  <2>1. Started /\ at' = "init2" /\ pool' = Take(p2, 2)
    BY <1>6 DEF CreateQueues, Kernel, Go, Started, InKernel
  <2>2. p1.cnt \in Int /\ p1.used \in Int /\ p1.cnt + p1.used = PAGES
    BY <2>1, TakeSum DEF PoolInv
  <2>3. /\ p2.cnt \in Int /\ p2.used \in Int /\ p2.cnt + p2.used = PAGES
        /\ p2 = [cnt |-> p2.cnt, used |-> p2.used]
    BY <2>2, TakeSum
  <2> HIDE DEF p2
  <2> QED BY <2>1, <2>3, TakeSum DEF PoolInv, Take
<1>7. CASE Init1 \/ Init2 \/ WriteNvmeTxt \/ WriteRaw \/ StartLog \/ WriteTest \/ FlushLog \/ LogIn
  <2>1. pool' = pool /\ Started /\ at' \notin {"debug", "bss"}
    BY <1>7 DEF Init1, Init2, WriteNvmeTxt, WriteRaw, StartLog, WriteTest, FlushLog, LogIn,
                Kernel, Go, Started, InKernel
  <2> QED BY <2>1 DEF PoolInv
<1>8. CASE UNCHANGED vars
  BY <1>8 DEF vars, loadvars, bootvars, PoolInv, Started, InKernel
<1> QED BY <1>1, <1>2, <1>3, <1>4, <1>5, <1>6, <1>7, <1>8 DEF Next, KernelStep

(* The count of free pages is right from the first statement of the kernel *)
(* to the last (kernel.cpp:396-405, 470-477, page.h:17-18).                *)
THEOREM PoolAgreement == Spec => []PoolAgrees
<1>1. Init => PoolInv
  BY DEF Init, LoaderInit, PoolInv, Started, InKernel
<1>2. PoolInv => PoolAgrees
  BY DEF PoolInv, PoolAgrees, Started
<1> QED BY <1>1, <1>2, PoolStep, PTL DEF Spec

-----------------------------------------------------------------------------
(* Until a mode is set the firmware shows what it showed at first; from    *)
(* then on the loader knows what it shows.                                 *)
PictureInv ==
  /\ gop.now \in 1..3
  /\ gop = [offered |-> gop.offered, now |-> gop.now, first |-> gop.first]
  /\ at \in {"start", "video", "mode"} => gop.now = gop.first
  /\ at \notin {"start", "video", "mode", "bsod", "hang"} =>
       screen \in 1..3 /\ (screen = Larger => gop.first = Larger)

(* No step of the kernel and none of the loader but SetMode touches it.    *)
LEMMA PictureStep == PictureInv /\ [Next]_vars => PictureInv'
<1> SUFFICES ASSUME PictureInv, [Next]_vars PROVE PictureInv' OBVIOUS
<1> DEFINE Early == {"start", "video", "mode"}
<1>1. CASE SetMode
  BY <1>1 DEF SetMode, Go, Wanted, Full, Larger, PictureInv
<1>2. CASE QueryMode \/ AskWhere \/ NoVideo
  BY <1>2 DEF QueryMode, AskWhere, NoVideo, Go, PictureInv
<1>3. CASE ReadImage \/ FindKernel \/ NoKernel \/ CopyKernel \/ AllocateMap \/ GetMemoryMap
  <2>1. at \notin Early \cup {"bsod", "hang"} /\ at' \notin Early /\ UNCHANGED <<gop, screen>>
    BY <1>3 DEF ReadImage, FindKernel, NoKernel, CopyKernel, AllocateMap, GetMemoryMap, Go, Bsod,
                TooSmall
  <2> QED BY <2>1 DEF PictureInv
<1>4. CASE ExitFails \/ Exit \/ Refused \/ Firmware
  <2>1. at \notin Early \cup {"bsod", "hang"} /\ at' \notin Early /\ UNCHANGED <<gop, screen>>
    BY <1>4 DEF ExitFails, Exit, Refused, Firmware, Go, Bsod
  <2> QED BY <2>1 DEF PictureInv
<1>5. CASE KernelStep \/ FlushLog \/ LogIn
  <2>1. at \notin Early \cup {"bsod", "hang"} /\ at' \notin Early /\ UNCHANGED <<gop, screen>>
    BY <1>5 DEF KernelStep, EnterKernel, DebugDisk, ClearBss, Init1, NvmeInit, CreateQueues, Init2,
                WriteNvmeTxt, WriteRaw, StartLog, WriteTest, FlushLog, LogIn, Kernel, Go, Loaded
  <2> QED BY <2>1 DEF PictureInv
<1>6. CASE UNCHANGED vars
  BY <1>6 DEF vars, loadvars, PictureInv
<1> QED BY <1>1, <1>2, <1>3, <1>4, <1>5, <1>6 DEF Next, LoaderStep

(* The kernel never gets a picture larger than its buffers by what the     *)
(* loader does, whatever modes the firmware offers (main.rs:277-310).      *)
THEOREM PictureInBounds == Spec => []PictureFits
<1>1. Init => PictureInv
  BY LoaderAssumption DEF Init, LoaderInit, PictureInv
<1>2. PictureInv => PictureFits
  BY DEF PictureInv, PictureFits, InKernel
<1> QED BY <1>1, <1>2, PictureStep, PTL DEF Spec

-----------------------------------------------------------------------------
(* The kernel.  What is in an image that has one, and what the search      *)
(* finds there.                                                            *)
KernRoot == file_entry(16, SECT, 3) \o name_entry(9, "HELLO.TXT")
RootOf(k) == KernRoot \o file_entry(k, k, 4) \o name_entry(10, "KERNEL.BIN")

(* The size of a file in sectors.                                          *)
LEMMA CeilIs ==
  ASSUME NEW k \in Nat
  PROVE  /\ CeilDiv(k, SECT) \in Nat /\ k <= SECT * CeilDiv(k, SECT)
         /\ \A i \in Nat : i < CeilDiv(k, SECT) <=> SECT * i < k
BY DEF CeilDiv, SECT

LEMMA BuiltHas ==
  ASSUME NEW k \in Nat \ {0}
  PROVE  LET b == build(k)
         IN  /\ b.len \in Nat /\ 146 * SECT + k <= b.len
             /\ b.at[0] = Mbr(128) /\ b.at[128] = Bpb(TRUE, 0, 0, FALSE)
             /\ b.at[144] = Dir(RootOf(k))
             /\ \A i \in Nat : i < CeilDiv(k, SECT) => b.at[146 + i] = Data("KERNEL.BIN", i)
<1> DEFINE want == (HEAP + (CeilDiv(k, SECT) + 4)) * SECT
           made == (HEAP + 2) * SECT + k
           len  == made + SECT * (IF made < want THEN CeilDiv(want - made, SECT) ELSE 0)
           last == CeilDiv(PART_LBA * SECT + len, SECT) - 1
           top  == PART_LBA + HEAP
           sect(i) == IF i = 0 THEN Mbr(PART_LBA)
                      ELSE IF i = PART_LBA THEN Bpb(TRUE, 0, 0, FALSE)
                      ELSE IF i = top THEN Dir(RootOf(k))
                      ELSE IF i = top + 1 THEN Data("HELLO.TXT", 0)
                      ELSE IF i \in top+2..top+1+CeilDiv(k, SECT)
                        THEN Data("KERNEL.BIN", i - top - 2)
                      ELSE Zero
           sects == [i \in 0..last |-> sect(i)]
<1>1. build(k) = [len |-> PART_LBA * SECT + len, at |-> sects]
  BY Zenon DEF build, RootOf, KernRoot
<1>2. CeilDiv(k, SECT) \in Nat /\ \A i \in Nat : i < CeilDiv(k, SECT) <=> SECT * i < k
  BY CeilIs
<1>3. want \in Int /\ made \in Nat /\ made = 18 * SECT + k
  BY <1>2 DEF SECT, HEAP
<1> HIDE DEF want, made
<1>4. len \in Nat /\ made <= len
  BY <1>3, CeilIs DEF SECT
<1> HIDE DEF len
<1>5. 128 * SECT + len \in Nat /\ 146 * SECT + k <= 128 * SECT + len
  BY <1>3, <1>4 DEF SECT
<1>6. last \in Int /\ \A i \in Nat : SECT * i < 128 * SECT + len => i \in 0..last
  <2>1. PART_LBA * SECT + len \in Nat /\ PART_LBA = 128
    BY <1>4 DEF SECT, PART_LBA
  <2> QED
    BY <2>1, CeilIs
<1> HIDE DEF last
<1>7. 0 \in 0..last /\ 128 \in 0..last /\ 144 \in 0..last
  <2>1. /\ SECT * 0 < 128 * SECT + len /\ SECT * 128 < 128 * SECT + len
        /\ SECT * 144 < 128 * SECT + len
    BY <1>5 DEF SECT
  <2>2. 0 \in Nat /\ 128 \in Nat /\ 144 \in Nat
    OBVIOUS
  <2> QED
    BY ONLY <1>6, <2>1, <2>2, Zenon
<1>8. ASSUME NEW i \in Nat, i < CeilDiv(k, SECT)
      PROVE  146 + i \in 0..last /\ sect(146 + i) = Data("KERNEL.BIN", i)
  <2>1. SECT * (146 + i) < 128 * SECT + len
    BY <1>2, <1>5, <1>8 DEF SECT
  <2>2. 146 + i \in 0..last
    BY <1>6, <2>1
  <2> DEFINE j == 146 + i
  <2>3. /\ j # 0 /\ j # PART_LBA /\ j # top /\ j # top + 1
        /\ j \in top+2..top+1+CeilDiv(k, SECT) /\ j - top - 2 = i
    BY <1>2, <1>8 DEF PART_LBA, HEAP
  <2> HIDE DEF j, top
  <2>4. sect(j) = Data("KERNEL.BIN", i)
    BY <2>3, Zenon
  <2> QED
    BY <2>2, <2>4 DEF j
<1>9. sect(0) = Mbr(128) /\ sect(128) = Bpb(TRUE, 0, 0, FALSE) /\ sect(144) = Dir(RootOf(k))
  BY DEF PART_LBA, HEAP
<1> HIDE DEF sect
<1>10. /\ sects[0] = Mbr(128) /\ sects[128] = Bpb(TRUE, 0, 0, FALSE) /\ sects[144] = Dir(RootOf(k))
       /\ \A i \in Nat : i < CeilDiv(k, SECT) => sects[146 + i] = Data("KERNEL.BIN", i)
  BY <1>7, <1>8, <1>9
<1> HIDE DEF sects
<1>11. build(k).len = 128 * SECT + len /\ build(k).at = sects
  BY <1>1 DEF PART_LBA
<1> QED
  BY <1>5, <1>10, <1>11

(* One list after another.                                                 *)
LEMMA After ==
  ASSUME NEW S, NEW s \in Seq(S), NEW t \in Seq(S), NEW r, r = s \o t
  PROVE  /\ r \in Seq(S) /\ Len(r) = Len(s) + Len(t)
         /\ \A i \in 1..Len(s) : r[i] = s[i]
         /\ \A i \in 1..Len(t) : r[Len(s) + i] = t[i]
<1>1. Len(s) \in Nat /\ Len(t) \in Nat
  BY LenProperties
<1>2. r \in Seq(S) /\ Len(r) = Len(s) + Len(t)
  BY ConcatProperties
<1>3. ASSUME NEW i \in 1..Len(s) PROVE r[i] = s[i]
  <2>1. i \in 1..Len(s) + Len(t) /\ i <= Len(s)
    BY <1>1
  <2> QED
    BY <2>1, ConcatProperties
<1>4. ASSUME NEW i \in 1..Len(t) PROVE r[Len(s) + i] = t[i]
  <2>1. /\ Len(s) + i \in 1..Len(s) + Len(t) /\ ~(Len(s) + i <= Len(s))
        /\ Len(s) + i - Len(s) = i
    BY <1>1
  <2>2. r[Len(s) + i] = t[Len(s) + i - Len(s)]
    BY <2>1, ConcatProperties
  <2> QED
    BY <2>1, <2>2
<1> QED
  BY <1>2, <1>3, <1>4

(* Two files, each of two entries and one for the name.                    *)
TwoFiles(a, b, c, d, e, f) == <<a, b>> \o <<c>> \o <<d, e>> \o <<f>>

LEMMA Joined ==
  ASSUME NEW a, NEW b, NEW c, NEW d, NEW e, NEW f
  PROVE  LET r == TwoFiles(a, b, c, d, e, f)
         IN  /\ DOMAIN r = 1..6
             /\ r[1] = a /\ r[2] = b /\ r[3] = c /\ r[4] = d /\ r[5] = e /\ r[6] = f
<1> DEFINE T == {a, b, c, d, e, f}
           w == <<d, e>>
           x == <<f>>
           s == <<a, b>> \o <<c>>
           t == s \o w
           r == TwoFiles(a, b, c, d, e, f)
<1>1. <<a, b>> \in Seq(T) /\ <<c>> \in Seq(T) /\ w \in Seq(T) /\ x \in Seq(T)
  OBVIOUS
<1> HIDE DEF T
<1>0. s \in Seq(T)
  BY <1>1, ConcatProperties
<1>2. Len(s) = 3 /\ s[1] = a /\ s[2] = b /\ s[3] = c
  BY <1>1, ConcatProperties
<1> HIDE DEF s
<1>3. Len(w) = 2 /\ w[1] = d /\ w[2] = e /\ Len(x) = 1 /\ x[1] = f
  OBVIOUS
<1> HIDE DEF w, x
<1>4. /\ t \in Seq(T) /\ Len(t) = Len(s) + Len(w)
      /\ \A i \in 1..Len(s) : t[i] = s[i]
      /\ \A i \in 1..Len(w) : t[Len(s) + i] = w[i]
  <2>1. t = s \o w
    OBVIOUS
  <2> HIDE DEF t
  <2> QED
    BY <1>0, <1>1, <2>1, After
<1>5. r = t \o x
  BY DEF s, t, w, x, TwoFiles
<1> HIDE DEF t, r
<1>6. /\ r \in Seq(T) /\ Len(r) = Len(t) + Len(x)
      /\ \A i \in 1..Len(t) : r[i] = t[i]
      /\ \A i \in 1..Len(x) : r[Len(t) + i] = x[i]
  <2>1. t \in Seq(T)
    BY <1>4
  <2> QED
    BY <1>1, <1>5, <2>1, After
<1>7. /\ t[1] = s[1] /\ t[2] = s[2] /\ t[3] = s[3] /\ t[3 + 1] = w[1] /\ t[3 + 2] = w[2]
      /\ Len(t) = 5
  BY <1>2, <1>3, <1>4
<1>8. /\ r[1] = t[1] /\ r[2] = t[2] /\ r[3] = t[3] /\ r[4] = t[4] /\ r[5] = t[5]
      /\ r[5 + 1] = x[1] /\ Len(r) = 6
  BY <1>3, <1>6, <1>7
<1>9. DOMAIN r = 1..6
  <2>1. r \in Seq(T)
    BY <1>6
  <2>2. DOMAIN r = 1..Len(r)
    BY <2>1, LenProperties
  <2> QED
    BY <1>8, <2>2
<1> QED
  BY <1>2, <1>3, <1>7, <1>8, <1>9 DEF r

(* The directory of a built image: the label's file first, the kernel's    *)
(* second, and then the end.                                               *)
LEMMA RootIs ==
  ASSUME NEW k \in Nat
  PROVE  /\ DOMAIN RootOf(k) = 1..6
         /\ RootOf(k)[1] = Entry(129, 0, 16, 0, SECT, "")
         /\ RootOf(k)[2] = Entry(133, 0, 3, 0, 16, "")
         /\ RootOf(k)[3] = Entry(201, 9, 0, 0, 0, "HELLO.TXT")
         /\ RootOf(k)[4] = Entry(129, 0, k, 0, k, "")
         /\ RootOf(k)[5] = Entry(133, 0, 4, 0, k, "")
         /\ RootOf(k)[6] = Entry(202, 10, 0, 0, 0, "KERNEL.BIN")
<1>1. /\ file_entry(16, SECT, 3) = <<Entry(129, 0, 16, 0, SECT, ""), Entry(133, 0, 3, 0, 16, "")>>
      /\ name_entry(9, "HELLO.TXT") = <<Entry(201, 9, 0, 0, 0, "HELLO.TXT")>>
      /\ file_entry(k, k, 4) = <<Entry(129, 0, k, 0, k, ""), Entry(133, 0, 4, 0, k, "")>>
      /\ name_entry(10, "KERNEL.BIN") = <<Entry(202, 10, 0, 0, 0, "KERNEL.BIN")>>
  BY DEF file_entry, name_entry
<1> DEFINE a == Entry(129, 0, 16, 0, SECT, "")
           b == Entry(133, 0, 3, 0, 16, "")
           c == Entry(201, 9, 0, 0, 0, "HELLO.TXT")
           d == Entry(129, 0, k, 0, k, "")
           e == Entry(133, 0, 4, 0, k, "")
           f == Entry(202, 10, 0, 0, 0, "KERNEL.BIN")
<1>2. RootOf(k) = TwoFiles(a, b, c, d, e, f)
  BY <1>1, Zenon DEF RootOf, KernRoot, TwoFiles
<1> HIDE DEF a, b, c, d, e, f
<1>3. /\ DOMAIN RootOf(k) = 1..6
      /\ RootOf(k)[1] = a /\ RootOf(k)[2] = b /\ RootOf(k)[3] = c
      /\ RootOf(k)[4] = d /\ RootOf(k)[5] = e /\ RootOf(k)[6] = f
  BY <1>2, Joined
<1> QED
  BY <1>3 DEF a, b, c, d, e, f

(* An entry that ends the directory.                                       *)
LEMMA EodEnds == EOD.type = 0
BY DEF EOD

(* The entries of the directory's first sector.                            *)
InDir(es, i) == IF i + 1 \in DOMAIN es THEN es[i + 1] ELSE EOD

LEMMA KernelFound ==
  ASSUME NEW k \in Nat \ {0}
  PROVE  exfat_find_kern(build(k), build(k).len) = <<146, k>>
<1> DEFINE image == build(k)
           total == build(k).len
           po   == image.at[0].part
           bp   == image.at[po]
           root == ClusterAt(po, bp, bp.root)
           entry(e) == LET s == image.at[root + e \div ENTRIES]
                       IN  IF s.kind = "dir" THEN s.entry[e % ENTRIES] ELSE EOD
           fits == {e \in 0..ENTRIES-1 : (root * SECT) + 32 * e + 96 <= total}
           ends == {e \in fits : entry(e).type = 0}
           seen == {e \in fits : \A f \in ends : e < f}
           IsKern(e) == /\ entry(e).type = 129
                        /\ entry(e + 1).type \in {5, 133}
                        /\ entry(e + 2).type >= 192 /\ entry(e + 2).b1 = 10
                        /\ entry(e + 2).name = "KERNEL.BIN"
           stream == entry(Min({e \in seen : IsKern(e)}) + 1)
<1>1. exfat_find_kern(image, total) =
        IF total < SECT \/ image.at[0].kind # "mbr" THEN <<>>
        ELSE IF total < (po + 1) * SECT \/ {e \in seen : IsKern(e)} = {} THEN <<>>
        ELSE <<ClusterAt(po, bp, stream.at16), stream.at24>>
  BY Zenon DEF exfat_find_kern
<1>2. /\ total \in Nat /\ 146 * SECT + k <= total /\ image.at[0] = Mbr(128)
      /\ image.at[128] = Bpb(TRUE, 0, 0, FALSE) /\ image.at[144] = Dir(RootOf(k))
  BY BuiltHas
<1> HIDE DEF image, total
<1>3. po = 128 /\ image.at[0].kind = "mbr"
  BY <1>2 DEF Mbr
<1> HIDE DEF po
<1>4. bp.heap = 16 /\ bp.root = 2 /\ bp.b72 = 0
  BY <1>2, <1>3 DEF Bpb, HEAP
<1> HIDE DEF bp
<1>5. ClusterAt(po, bp, 2) = 144 /\ ClusterAt(po, bp, 4) = 146 /\ root = 144
  <2>1. 2^0 = 1
    BY SMT
  <2> QED
    BY <1>3, <1>4, <2>1 DEF ClusterAt
<1> HIDE DEF root
<1>6. image.at[144].kind = "dir" /\ \A i \in 0..15 : image.at[144].entry[i] = InDir(RootOf(k), i)
  BY <1>2 DEF Dir, InDir, ENTRIES, SECT
<1>7. \A e \in 0..15 : entry(e) = InDir(RootOf(k), e)
  <2> SUFFICES ASSUME NEW e \in 0..15 PROVE entry(e) = InDir(RootOf(k), e)
    OBVIOUS
  <2>1. e \div ENTRIES = 0 /\ e % ENTRIES = e /\ root + 0 = 144
    BY <1>5 DEF ENTRIES, SECT
  <2> QED
    BY <1>6, <2>1
<1> HIDE DEF entry
<1>8. /\ entry(0).type = 129 /\ entry(1).type = 133 /\ entry(2).type = 201 /\ entry(2).b1 = 9
      /\ entry(3).type = 129 /\ entry(4).type = 133 /\ entry(4).at16 = 4 /\ entry(4).at24 = k
      /\ entry(5).type = 202 /\ entry(5).b1 = 10 /\ entry(5).name = "KERNEL.BIN"
      /\ \A e \in 6..15 : entry(e).type = 0
  <2>1. DOMAIN RootOf(k) = 1..6
    BY RootIs
  <2>2. \A e \in 6..15 : entry(e) = EOD
    BY <1>7, <2>1 DEF InDir
  <2>3. /\ entry(0) = RootOf(k)[1] /\ entry(1) = RootOf(k)[2] /\ entry(2) = RootOf(k)[3]
        /\ entry(3) = RootOf(k)[4] /\ entry(4) = RootOf(k)[5] /\ entry(5) = RootOf(k)[6]
    BY <1>7, <2>1 DEF InDir
  <2> DEFINE a == Entry(129, 0, 16, 0, SECT, "")
             b == Entry(133, 0, 3, 0, 16, "")
             c == Entry(201, 9, 0, 0, 0, "HELLO.TXT")
             d == Entry(129, 0, k, 0, k, "")
             x == Entry(133, 0, 4, 0, k, "")
             y == Entry(202, 10, 0, 0, 0, "KERNEL.BIN")
  <2>4. /\ entry(0) = a /\ entry(1) = b /\ entry(2) = c
        /\ entry(3) = d /\ entry(4) = x /\ entry(5) = y
    <3>1. k \in Nat
      BY <1>1
    <3>2. RootOf(k)[1] = a
      BY ONLY <3>1, RootIs DEF a
    <3>3. RootOf(k)[2] = b
      BY ONLY <3>1, RootIs DEF b
    <3>4. RootOf(k)[3] = c
      BY ONLY <3>1, RootIs DEF c
    <3>5. RootOf(k)[4] = d
      BY ONLY <3>1, RootIs DEF d
    <3>6. RootOf(k)[5] = x
      BY ONLY <3>1, RootIs DEF x
    <3>7. RootOf(k)[6] = y
      BY ONLY <3>1, RootIs DEF y
    <3> HIDE DEF a, b, c, d, x, y
    <3> QED
      BY ONLY <2>3, <3>2, <3>3, <3>4, <3>5, <3>6, <3>7, Zenon
  <2>5. \A e \in 6..15 : entry(e).type = 0
    BY <2>2, EodEnds
  <2>6. /\ a.type = 129 /\ b.type = 133 /\ c.type = 201 /\ c.b1 = 9 /\ d.type = 129
        /\ x.type = 133 /\ x.at16 = 4 /\ x.at24 = k
        /\ y.type = 202 /\ y.b1 = 10 /\ y.name = "KERNEL.BIN"
    BY DEF Entry
  <2> HIDE DEF a, b, c, d, x, y
  <2> QED
    BY <2>4, <2>5, <2>6
<1>9. fits = 0..15
  BY <1>2, <1>5 DEF ENTRIES, SECT
<1> HIDE DEF fits
<1>10. ends = 6..15
  <2>1. \A e \in 0..15 : e \in 6..15 \/ e \in {0, 1, 2, 3, 4, 5}
    OBVIOUS
  <2> QED
    BY <1>8, <1>9, <2>1
<1> HIDE DEF ends
<1>11. seen = 0..5
  BY <1>9, <1>10
<1> HIDE DEF seen
<1>12. {e \in seen : IsKern(e)} = {3}
  <2>1. IsKern(3)
    BY <1>8
  <2>2. ~IsKern(0)
    BY <1>8
  <2>3. ~IsKern(1) /\ ~IsKern(2) /\ ~IsKern(4) /\ ~IsKern(5)
    BY <1>8
  <2> HIDE DEF IsKern
  <2>4. 0..5 = {0, 1, 2, 3, 4, 5}
    OBVIOUS
  <2> QED
    BY <1>11, <2>1, <2>2, <2>3, <2>4
<1> HIDE DEF IsKern
<1>13. stream = entry(4)
  BY <1>12 DEF Min
<1>14. ClusterAt(po, bp, stream.at16) = 146 /\ stream.at24 = k
  BY <1>5, <1>8, <1>13
<1>15. ~(total < SECT) /\ ~(total < (po + 1) * SECT)
  BY <1>2, <1>3 DEF SECT
<1> HIDE DEF stream
<1> QED
  BY <1>1, <1>3, <1>12, <1>14, <1>15 DEF image, total

(* There is no kernel in the image the kernel's driver was tested with.    *)
LEMMA NoKernelFound ==
  ASSUME NEW total \in Nat
  PROVE  exfat_find_kern(memdisk, total) = <<>>
<1> DEFINE image == memdisk
           po   == image.at[0].part
           bp   == image.at[po]
           root == ClusterAt(po, bp, bp.root)
           entry(e) == LET s == image.at[root + e \div ENTRIES]
                       IN  IF s.kind = "dir" THEN s.entry[e % ENTRIES] ELSE EOD
           fits == {e \in 0..ENTRIES-1 : (root * SECT) + 32 * e + 96 <= total}
           ends == {e \in fits : entry(e).type = 0}
           seen == {e \in fits : \A f \in ends : e < f}
           IsKern(e) == /\ entry(e).type = 129
                        /\ entry(e + 1).type \in {5, 133}
                        /\ entry(e + 2).type >= 192 /\ entry(e + 2).b1 = 10
                        /\ entry(e + 2).name = "KERNEL.BIN"
           stream == entry(Min({e \in seen : IsKern(e)}) + 1)
           es == <<Entry(129, 0, 0, 4, 1, ""), Entry(133, 0, 0, 0, 0, ""),
                   Entry(192, 0, 0, 3, 16, ""), Entry(193, 0, 0, 0, 0, "HELLO.TXT")>>
<1>1. exfat_find_kern(image, total) =
        IF total < SECT \/ image.at[0].kind # "mbr" THEN <<>>
        ELSE IF total < (po + 1) * SECT \/ {e \in seen : IsKern(e)} = {} THEN <<>>
        ELSE <<ClusterAt(po, bp, stream.at16), stream.at24>>
  BY Zenon DEF exfat_find_kern
<1>2. /\ image.at[0] = Mbr(128) /\ image.at[128] = Bpb(TRUE, 9, 0, TRUE)
      /\ image.at[144] = Dir(es)
  BY DEF memdisk, memdisk_mbr, memdisk_boot, memdisk_root, memdisk_gap, memdisk_fat, memdisk_free,
         PART_LBA, HEAP
<1> HIDE DEF image, es
<1>3. po = 128
  BY <1>2 DEF Mbr
<1> HIDE DEF po
<1>4. bp.heap = 16 /\ bp.root = 2 /\ bp.b72 = 0
  BY <1>2, <1>3 DEF Bpb, HEAP
<1> HIDE DEF bp
<1>5. root = 144
  <2>1. 2^0 = 1
    BY SMT
  <2> QED
    BY <1>3, <1>4, <2>1 DEF ClusterAt
<1> HIDE DEF root
<1>6. image.at[144].kind = "dir" /\ \A i \in 0..15 : image.at[144].entry[i] = InDir(es, i)
  BY <1>2 DEF Dir, InDir, ENTRIES, SECT
<1>7. \A e \in 0..15 : entry(e) = InDir(es, e)
  <2> SUFFICES ASSUME NEW e \in 0..15 PROVE entry(e) = InDir(es, e)
    OBVIOUS
  <2>1. e \div ENTRIES = 0 /\ e % ENTRIES = e /\ root + 0 = 144
    BY <1>5 DEF ENTRIES, SECT
  <2> QED
    BY <1>6, <2>1
<1> HIDE DEF entry
<1>8. /\ entry(1).type = 133 /\ entry(2).type = 192 /\ entry(2).b1 = 0 /\ entry(3).type = 193
      /\ \A e \in 4..15 : entry(e).type = 0
  <2>0. DOMAIN es = 1..4
    BY DEF es
  <2>1. \A e \in 4..15 : entry(e) = EOD
    BY <1>7, <2>0 DEF InDir
  <2> DEFINE b == Entry(133, 0, 0, 0, 0, "")
             c == Entry(192, 0, 0, 3, 16, "")
             d == Entry(193, 0, 0, 0, 0, "HELLO.TXT")
  <2>2. entry(1) = b /\ entry(2) = c /\ entry(3) = d
    <3>1. entry(1) = es[2] /\ entry(2) = es[3] /\ entry(3) = es[4]
      BY <1>7, <2>0 DEF InDir
    <3> QED
      BY <3>1 DEF es
  <2>3. \A e \in 4..15 : entry(e).type = 0
    BY <2>1, EodEnds
  <2>4. b.type = 133 /\ c.type = 192 /\ c.b1 = 0 /\ d.type = 193
    BY DEF Entry
  <2> HIDE DEF b, c, d
  <2> QED
    BY <2>2, <2>3, <2>4
<1>9. fits \subseteq 0..15
  BY DEF ENTRIES, SECT
<1> HIDE DEF fits
<1>10. {e \in seen : IsKern(e)} = {}
  <2>1. \A e \in 0..15 : e \in 4..15 \/ e \in {0, 1, 2, 3}
    OBVIOUS
  <2>2. \A e \in 0..15 : ~IsKern(e)
    BY <1>8, <2>1
  <2> HIDE DEF IsKern
  <2>3. seen \subseteq 0..15
    BY <1>9
  <2> QED
    BY <2>2, <2>3
<1> HIDE DEF seen, IsKern, stream
<1> QED
  BY <1>1, <1>10 DEF image

(* What the loader has read: the whole of an image with a kernel, or one   *)
(* without.                                                                *)
Before == {"start", "video", "mode", "alloc"}
Over   == {"bsod", "hang"}
IsBuilt == /\ img.of.what = "mk" /\ img.of.size \in Nat \ {0}
           /\ img.size = build(img.of.size).len
IsOther == img.of.what = "memdisk" /\ img.size \in Nat
IsCopied == IsBuilt /\ kern = [n |-> CeilDiv(img.of.size, SECT), alien |-> {}]

KernInv ==
  /\ at = "find" => IsBuilt \/ IsOther
  /\ at = "copy" => IsBuilt /\ found = <<146, img.of.size>>
  /\ at \notin Before \cup Over \cup {"find", "copy"} => IsCopied

(* The search answers for an image with a kernel, and for no other.        *)
LEMMA SearchIs ==
  /\ IsBuilt => exfat_find_kern(Image(img.of), img.size) = <<146, img.of.size>>
  /\ IsOther => exfat_find_kern(Image(img.of), img.size) = <<>>
<1>1. ASSUME IsBuilt PROVE exfat_find_kern(Image(img.of), img.size) = <<146, img.of.size>>
  <2>1. Image(img.of) = build(img.of.size)
    BY <1>1 DEF IsBuilt, Image
  <2> QED
    BY <1>1, <2>1, KernelFound DEF IsBuilt
<1>2. ASSUME IsOther PROVE exfat_find_kern(Image(img.of), img.size) = <<>>
  <2>1. Image(img.of) = memdisk
    BY <1>2 DEF IsOther, Image
  <2> QED
    BY <1>2, <2>1, NoKernelFound DEF IsOther
<1> QED
  BY <1>1, <1>2

(* Reading: an image that mkmemdisk.py writes fits the buffer.             *)
LEMMA ReadIs == ReadImage => (IsBuilt \/ IsOther)'
<1> SUFFICES ASSUME ReadImage PROVE (IsBuilt \/ IsOther)'
  OBVIOUS
<1>1. PICK i \in Images :
        img' = [of |-> i, size |-> IF Image(i).len < LIMIT THEN Image(i).len ELSE LIMIT]
  BY DEF ReadImage
<1>2. CASE i = [what |-> "memdisk", size |-> 0]
  <2>1. Image(i).len \in Nat /\ LIMIT \in Nat
    BY <1>2 DEF Image, memdisk, SECT, LIMIT
  <2> QED
    BY <1>1, <1>2, <2>1 DEF IsOther
<1>3. ASSUME NEW k \in Kernels, Made(k), i = [what |-> "mk", size |-> k] PROVE IsBuilt'
  <2>1. k \in Nat \ {0} /\ Image(i) = build(k)
    BY <1>3, LoaderAssumption DEF Image
  <2>2. build(k).len \in Nat /\ build(k).len <= LIMIT
    BY <1>3, <2>1, BuiltHas DEF Made
  <2>3. img'.size = build(k).len
    BY <1>1, <2>1, <2>2 DEF LIMIT
  <2> QED
    BY <1>1, <1>3, <2>1, <2>3 DEF IsBuilt
<1> QED
  BY <1>1, <1>2, <1>3 DEF Images

(* Copying: every sector is within what was read and is the kernel's.      *)
LEMMA CopyIs == ASSUME KernInv, CopyKernel PROVE IsCopied'
<1> DEFINE k == img.of.size
<1>1. /\ k \in Nat \ {0} /\ img.of.what = "mk" /\ img.size = build(k).len
      /\ found[1] = 146 /\ found[2] = k /\ IsBuilt
  BY DEF KernInv, CopyKernel, Go, IsBuilt
<1>2. Image(img.of) = build(k)
  BY <1>1 DEF Image
<1> HIDE DEF k
<1>3. Sectors = CeilDiv(k, SECT)
  BY <1>1 DEF Sectors
<1>4. ASSUME NEW i \in 0..CeilDiv(k, SECT)-1 PROVE Copied(i) = Data("KERNEL.BIN", i)
  <2>1. CeilDiv(k, SECT) \in Nat /\ i \in Nat /\ i < CeilDiv(k, SECT) /\ SECT * i < k
    BY <1>1, <1>4, CeilIs
  <2>2. build(k).len \in Nat /\ 146 * SECT + k <= build(k).len
        /\ build(k).at[146 + i] = Data("KERNEL.BIN", i)
    <3>1. k \in Nat \ {0}
      BY <1>1
    <3>2. /\ build(k).len \in Nat /\ 146 * SECT + k <= build(k).len
          /\ \A j \in Nat : j < CeilDiv(k, SECT) => build(k).at[146 + j] = Data("KERNEL.BIN", j)
      BY ONLY <3>1, BuiltHas, Zenon
    <3> QED
      BY ONLY <2>1, <3>2, Zenon
  <2>3. (146 + i) * SECT < build(k).len
    BY <1>1, <2>1, <2>2 DEF SECT
  <2> QED
    BY <1>1, <1>2, <2>2, <2>3 DEF Copied
<1>5. kern' = [n |-> CeilDiv(k, SECT), alien |-> {}]
  BY <1>3, <1>4 DEF CopyKernel
<1> QED
  BY <1>1, <1>5 DEF CopyKernel, IsCopied, IsBuilt, k

(* Nothing else touches image or kernel.                                   *)
LEMMA KernStep == KernInv /\ [Next]_vars => KernInv'
<1> SUFFICES ASSUME KernInv, [Next]_vars PROVE KernInv'
  OBVIOUS
<1> DEFINE Same == UNCHANGED <<img, found, kern>>
           Rest == Before \cup Over \cup {"find", "copy"}
<1>1. CASE AskWhere \/ QueryMode \/ NoVideo \/ SetMode
  <2>1. at' \in Before \cup Over
    BY <1>1 DEF AskWhere, QueryMode, NoVideo, SetMode, Go, Before, Over
  <2> QED
    BY <2>1 DEF KernInv, Before, Over
<1>2. CASE ReadImage
  <2>1. at' = "find"
    BY <1>2 DEF ReadImage, Go
  <2> QED
    BY <1>2, <2>1, ReadIs DEF KernInv
<1>3. CASE FindKernel
  <2>1. at = "find" /\ at' = "copy" /\ UNCHANGED img
        /\ found' = exfat_find_kern(Image(img.of), img.size) /\ found' # <<>>
    BY <1>3 DEF FindKernel, Go
  <2>2. IsBuilt /\ found' = <<146, img.of.size>>
    BY <2>1, SearchIs DEF KernInv
  <2> QED
    BY <2>1, <2>2 DEF KernInv, IsBuilt
<1>4. CASE CopyKernel
  <2>1. at' = "probe"
    BY <1>4 DEF CopyKernel, Go
  <2> QED
    BY <1>4, <2>1, CopyIs DEF KernInv
<1>5. CASE NoKernel \/ Refused
  <2>1. at' = "bsod"
    BY <1>5 DEF NoKernel, Refused, Bsod, Go
  <2> QED
    BY <2>1 DEF KernInv, Over
<1>6. CASE AllocateMap \/ GetMemoryMap \/ ExitFails \/ Exit \/ Firmware
  <2>1. at \notin Rest /\ at' \notin {"find", "copy"} /\ Same
    BY <1>6 DEF AllocateMap, GetMemoryMap, ExitFails, Exit, Firmware, Go, Before, Over, TooSmall
  <2> QED
    BY <2>1 DEF KernInv, IsCopied, IsBuilt
<1>7. CASE KernelStep \/ FlushLog \/ LogIn
  <2>1. at \notin Rest /\ at' \notin {"find", "copy"} /\ Same
    BY <1>7 DEF KernelStep, EnterKernel, DebugDisk, ClearBss, Init1, NvmeInit, CreateQueues, Init2,
                WriteNvmeTxt, WriteRaw, StartLog, WriteTest, FlushLog, LogIn, Kernel, Go, Loaded,
                Before, Over
  <2> QED
    BY <2>1 DEF KernInv, IsCopied, IsBuilt
<1>8. CASE UNCHANGED vars
  BY <1>8 DEF vars, loadvars, KernInv, IsCopied, IsBuilt, IsOther
<1> QED
  BY <1>1, <1>2, <1>3, <1>4, <1>5, <1>6, <1>7, <1>8 DEF Next, LoaderStep

(* The kernel that runs is the whole of KERNEL.BIN, in order, whatever its *)
(* length, and it is found where mkmemdisk.py put it and nowhere else      *)
(* (mkmemdisk.py:10-17, main.rs:119-175, 311-327).                         *)
THEOREM KernelIsWhole == Spec => []KernelWhole
<1>1. Init => KernInv
  BY DEF Init, LoaderInit, KernInv, Before
<1>2. KernInv => KernelWhole
  <2> SUFFICES ASSUME KernInv PROVE KernelWhole
    OBVIOUS
  <2>1. ASSUME at = "find"
        PROVE  exfat_find_kern(Image(img.of), img.size) # <<>> <=> img.of.what = "mk"
    <3>1. CASE IsBuilt
      <4>1. \A x : <<146, x>> # <<>>
        OBVIOUS
      <4> QED
        BY <3>1, <4>1, SearchIs DEF IsBuilt
    <3>2. CASE IsOther
      BY <3>2, SearchIs DEF IsOther
    <3> QED
      BY <2>1, <3>1, <3>2 DEF KernInv
  <2>2. ASSUME InKernel
        PROVE  img.of.what = "mk" /\ kern = [n |-> CeilDiv(img.of.size, SECT), alien |-> {}]
    BY <2>2 DEF KernInv, InKernel, Before, Over, IsCopied, IsBuilt
  <2> QED
    BY <2>1, <2>2 DEF KernelWhole
<1> QED
  BY <1>1, <1>2, KernStep, PTL DEF Spec

-----------------------------------------------------------------------------
(* The disks.  Before the NVMe disk takes over nothing is written but a    *)
(* mark on an ATA disk; when it has taken over, the driver's second answer *)
(* says what is there, and the disk the geometry is from is the one that   *)
(* is written.                                                             *)
Early == {"debug", "bss", "init1", "nvme", "queues", "init2"}
Late == {"nvmetxt", "raw", "log", "test", "loop", "user", "overrun"}

IsDisk(x) == x = [what |-> x.what, files |-> x.files, raw |-> x.raw]

Answers ==
  /\ ex = [ok |-> ex.ok, on |-> ex.on, r |-> ex.r, r2 |-> ex.r2]
  /\ nvme = [ready |-> nvme.ready, queues |-> nvme.queues]
  /\ (ex.ok <=> ex.r = 0 \/ ex.r2 = 0) /\ ex.r \in {0, -4, -8} /\ ex.r2 \in {0, -4, -8}
  /\ ex.r = 0 \/ ex.r2 = 0 => ex.on \in Places /\ (ex.r2 = -4 \/ Mountable(On(ex.on)))
  /\ ex.r2 # -8 => ex.on = Nvme
  /\ ex.r2 = -4 => HasVolume(On(Nvme)) /\ ~Mountable(On(Nvme))
  /\ nvme.queues => nvme.ready

DisksInv ==
  /\ ~Started => /\ nvme = [ready |-> FALSE, queues |-> FALSE] /\ ~log /\ ~errs
                 /\ ex = [ok |-> FALSE, on |-> <<>>, r |-> -8, r2 |-> -8]
  /\ at \in {"loop", "user"} /\ ex.ok => ex.r2 # -4
  /\ at \in {"debug", "bss", "init1"} => ex.r = -8
  /\ at \in Early => \A d \in DOMAIN disks : disks[d].files = {} /\ (d = Nvme => disks[d].raw = {})
  /\ Started =>
       /\ Answers
       /\ \A d \in DOMAIN disks : IsDisk(disks[d])
       /\ DOMAIN disks = Places
       /\ at \in Early => ex.r2 = -8 /\ ~errs /\ ~log
       /\ at \in {"queues", "init2"} => nvme.ready
       /\ at \notin {"queues", "init2"} \cup Late => ~nvme.ready
       /\ at \in Late /\ ~errs /\ nvme.ready /\ ex.r2 = -8 => ~HasVolume(On(Nvme))
       /\ log => nvme.ready /\ ex.r2 # 0
  /\ VolumeKept /\ FilesOnVolume

(* A volume the driver can use is a volume.                                *)
LEMMA MountableHas == ASSUME NEW i, Mountable(i) PROVE HasVolume(i)
BY DEF Mountable

(* The first position found is a position.                                 *)
LEMMA FirstPosition ==
  ASSUME NEW S \in SUBSET (1..4), S # {} PROVE Min(S) \in S
<1>1. \E x \in S : \A y \in S : x <= y
  <2>1. CASE 1 \in S BY <2>1
  <2>2. CASE 1 \notin S /\ 2 \in S BY <2>2
  <2>3. CASE 1 \notin S /\ 2 \notin S /\ 3 \in S BY <2>3
  <2>4. CASE 1 \notin S /\ 2 \notin S /\ 3 \notin S
    <3>1. \A y \in S : y \in 1..4 /\ y = 4 BY <2>4
    <3>2. PICK y \in S : TRUE OBVIOUS
    <3> QED BY <3>1, <3>2
  <2> QED BY <2>1, <2>2, <2>3, <2>4
<1> QED BY <1>1 DEF Min

(* Positions are places, none of them the NVMe disk.                       *)
LEMMA PositionsArePlaces ==
  /\ DOMAIN Positions = 1..4
  /\ \A i \in 1..4 : Positions[i] \in Places /\ Positions[i] # Nvme
<1>1. DOMAIN Positions = 1..4 BY DEF Positions
<1>2. \A i \in 1..4 : Positions[i] # Nvme BY DEF Positions, Nvme
<1> QED BY <1>1, <1>2 DEF Places

(* Writing a file changes the files of the disk that is written.           *)
LEMMA WriteChanges ==
  ASSUME NEW name, write_file(name), \A d \in DOMAIN disks : IsDisk(disks[d])
  PROVE  /\ DOMAIN disks' = DOMAIN disks
         /\ \A d \in DOMAIN disks :
              /\ IsDisk(disks'[d]) /\ disks'[d].what = disks[d].what /\ disks'[d].raw = disks[d].raw
              /\ disks'[d].files # disks[d].files => d = Target /\ Writable
<1>1. CASE disks' = disks BY <1>1
<1>2. CASE Writable /\ disks' = [disks EXCEPT ![Target].files = @ \cup {name}]
  BY <1>2 DEF IsDisk
<1> QED BY <1>1, <1>2 DEF write_file

(* Writing a bare sector changes the bare sectors of that disk.            *)
LEMMA RawChanges ==
  ASSUME NEW t, NEW x, disks' = [disks EXCEPT ![t].raw = @ \cup {x}],
         \A d \in DOMAIN disks : IsDisk(disks[d])
  PROVE  /\ DOMAIN disks' = DOMAIN disks
         /\ \A d \in DOMAIN disks :
              /\ IsDisk(disks'[d]) /\ disks'[d].what = disks[d].what
              /\ disks'[d].files = disks[d].files
              /\ d # t => disks'[d].raw = disks[d].raw
BY DEF IsDisk

(* At power-on the kernel has met no disk.                                 *)
LEMMA DisksInit == Init => DisksInv
<1> SUFFICES ASSUME Init PROVE DisksInv OBVIOUS
<1>1. ~Started /\ at \notin Early \cup {"debug", "bss", "init1", "loop", "user"}
  BY DEF Init, LoaderInit, Started, InKernel, Early
<1>2. DOMAIN disks = {} BY DEF Init, BootInit
<1>3. VolumeKept /\ FilesOnVolume BY <1>2 DEF VolumeKept, FilesOnVolume
<1> QED BY <1>1, <1>3 DEF Init, BootInit, DisksInv

(* Writing a file on the mounted volume, or failing to, keeps DisksInv.    *)
LEMMA FileKeeps ==
  ASSUME NEW name, DisksInv, Started, at \in Late, at' \in Late \ {"overrun"}, write_file(name),
         UNCHANGED <<nvme, ex, log, errs>>, ex.ok => ex.r2 # -4
  PROVE  DisksInv'
<1>1. Started' /\ Answers /\ at' \notin Early \cup {"debug", "bss", "init1", "queues", "init2"}
  BY DEF Started, InKernel, Early, Late, DisksInv
<1>2. /\ DOMAIN disks' = Places
      /\ \A d \in Places :
           /\ IsDisk(disks'[d]) /\ disks'[d].what = disks[d].what /\ disks'[d].raw = disks[d].raw
           /\ disks'[d].files # disks[d].files => d = Target /\ Writable
  BY WriteChanges DEF DisksInv
<1>3. \A d \in Places : On(d)' = On(d)
  BY <1>2 DEF On
<1>4. Nvme \in Places BY DEF Places
<1>5. Answers'
  BY <1>1, <1>3, <1>4 DEF Answers
<1>6. VolumeKept'
  BY <1>2, <1>3, <1>4 DEF DisksInv, VolumeKept
<1>7. ~errs /\ Writable => Target = ex.on /\ Mountable(On(ex.on))
  BY <1>1 DEF Writable, Target, Answers, DisksInv
<1>8. FilesOnVolume'
  BY <1>1, <1>2, <1>3, <1>7 DEF DisksInv, FilesOnVolume, Answers, Writable
<1> QED BY <1>1, <1>2, <1>3, <1>4, <1>5, <1>6, <1>8 DEF DisksInv

(* So do the bare sectors, which go to an NVMe disk without such a volume. *)
LEMMA RawKeeps ==
  ASSUME NEW x, DisksInv, Started, at \in Late, at' \in Late \ {"overrun"},
         disks' = [disks EXCEPT ![Nvme].raw = @ \cup {x}], nvme.ready, ex.r2 # 0,
         UNCHANGED <<nvme, ex, log, errs>>, at' \in {"loop", "user"} => at \in {"loop", "user"}
  PROVE  DisksInv'
<1>1. Started' /\ Answers /\ at' \notin Early \cup {"debug", "bss", "init1", "queues", "init2"}
  BY DEF Started, InKernel, Early, Late, DisksInv
<1>2. /\ DOMAIN disks' = Places
      /\ \A d \in Places :
           /\ IsDisk(disks'[d]) /\ disks'[d].what = disks[d].what
           /\ disks'[d].files = disks[d].files
  BY RawChanges DEF DisksInv
<1>3. \A d \in Places : On(d)' = On(d)
  BY <1>2 DEF On
<1>4. Nvme \in Places BY DEF Places
<1>5. Answers'
  BY <1>1, <1>3, <1>4 DEF Answers
<1>6. ~errs => ~Mountable(On(Nvme))
  BY <1>1, MountableHas DEF Answers, DisksInv
<1>7. VolumeKept'
  BY <1>3, <1>4, <1>6 DEF VolumeKept
<1>8. FilesOnVolume'
  BY <1>1, <1>2, <1>3, <1>5 DEF DisksInv, FilesOnVolume
<1> QED BY <1>1, <1>2, <1>3, <1>4, <1>5, <1>7, <1>8 DEF DisksInv

(* Nothing is written.                                                     *)
LEMMA IdleKeeps ==
  ASSUME DisksInv, Started, at \in Late, at' \in Late, UNCHANGED <<disks, nvme, ex, errs>>,
         log' => nvme.ready /\ ex.r2 # 0,
         at' \in {"loop", "user"} /\ ex.ok => ex.r2 # -4
  PROVE  DisksInv'
<1>1. Started' /\ Answers /\ at' \notin Early \cup {"debug", "bss", "init1", "queues", "init2"}
  BY DEF Started, InKernel, Early, Late, DisksInv
<1>2. \A d : On(d)' = On(d) BY DEF On
<1>3. Answers' BY <1>1, <1>2 DEF Answers
<1>4. VolumeKept' /\ FilesOnVolume'
  BY <1>1, <1>2 DEF DisksInv, VolumeKept, FilesOnVolume
<1> QED BY <1>1, <1>2, <1>3, <1>4 DEF DisksInv

(* Before the second exfat_init no file is written.                        *)
LEMMA EarlyStep ==
  ASSUME DisksInv, EnterKernel \/ DebugDisk \/ ClearBss \/ Init1 \/ NvmeInit \/ CreateQueues
  PROVE  DisksInv'
<1>1. Nvme \in Places BY DEF Places
<1>2. CASE EnterKernel
  <2>1. /\ Started' /\ ~Started /\ at' = "debug" /\ UNCHANGED <<nvme, ex, log, errs>>
        /\ \E s \in Setups : disks' = [d \in DOMAIN s |-> Disk(s[d])]
    BY <1>2 DEF EnterKernel, Kernel, Go, Started, InKernel
  <2>2. /\ DOMAIN disks' = Places
        /\ \A d \in Places : IsDisk(disks'[d]) /\ disks'[d].files = {} /\ disks'[d].raw = {}
    <3>1. PICK s \in Setups : disks' = [d \in DOMAIN s |-> Disk(s[d])] BY <2>1
    <3>2. disks' = [d \in Places |-> Disk(s[d])] BY <3>1, BootAssumption
    <3> QED BY <3>2 DEF Disk, IsDisk
  <2>3. Answers'
    BY <2>1 DEF DisksInv, Answers
  <2>4. VolumeKept' /\ FilesOnVolume'
    BY <2>2, <1>1 DEF VolumeKept, FilesOnVolume
  <2> QED BY <2>1, <2>2, <2>3, <2>4 DEF DisksInv, Late
<1>3. CASE DebugDisk
  <2>1. /\ Started /\ Started' /\ at = "debug" /\ at' = "bss" /\ UNCHANGED <<nvme, ex, log, errs>>
        /\ at \in Early /\ Answers
    BY <1>3 DEF DebugDisk, Kernel, Go, Started, InKernel, DisksInv, Early
  <2>2. \/ disks' = disks
        \/ \E t \in Places \ {Nvme} : disks' = [disks EXCEPT ![t].raw = @ \cup {"mark"}]
    <3>1. PICK good \in AtaReads :
            LET signed == {i \in Others(good) : disks[Positions[i]].what = "windbg"}
            IN  disks' \in {disks} \cup
                  IF signed = {} THEN {}
                  ELSE {[disks EXCEPT ![Positions[Min(signed)]].raw = @ \cup {"mark"}]}
      BY <1>3 DEF DebugDisk
    <3> DEFINE signed == {i \in Others(good) : disks[Positions[i]].what = "windbg"}
    <3>2. signed \in SUBSET (1..4) BY PositionsArePlaces DEF Others
    <3>3. signed # {} => Positions[Min(signed)] \in Places \ {Nvme}
      BY <3>2, FirstPosition, PositionsArePlaces
    <3>4. CASE disks' = disks BY <3>4
    <3>5. CASE /\ signed # {}
               /\ disks' = [disks EXCEPT ![Positions[Min(signed)]].raw = @ \cup {"mark"}]
      BY <3>3, <3>5
    <3> QED BY <3>1, <3>4, <3>5
  <2> DEFINE Same == /\ DOMAIN disks' = Places
                     /\ \A d \in Places : /\ IsDisk(disks'[d]) /\ disks'[d].what = disks[d].what
                                           /\ disks'[d].files = disks[d].files
                     /\ disks'[Nvme].raw = disks[Nvme].raw
  <2>3. Same
    <3>1. CASE disks' = disks BY <2>1, <3>1 DEF DisksInv
    <3>2. ASSUME NEW t \in Places \ {Nvme}, disks' = [disks EXCEPT ![t].raw = @ \cup {"mark"}]
          PROVE  Same
      BY <1>1, <2>1, <3>2, RawChanges DEF DisksInv
    <3> QED BY <2>2, <3>1, <3>2
  <2>4. Answers'
    <3>1. \A d \in Places : On(d)' = On(d) BY <2>3 DEF On
    <3> QED BY <1>1, <2>1, <3>1 DEF Answers
  <2>5. VolumeKept' /\ FilesOnVolume'
    BY <1>1, <2>1, <2>3 DEF VolumeKept, FilesOnVolume, DisksInv
  <2> QED BY <1>1, <2>1, <2>3, <2>4, <2>5 DEF DisksInv, Late, Early
<1>4. CASE ClearBss
  <2>1. /\ Started /\ Started' /\ at = "bss" /\ at' = "init1"
        /\ UNCHANGED <<disks, nvme, ex, log, errs>>
    BY <1>4 DEF ClearBss, Kernel, Go, Started, InKernel
  <2>2. \A d : On(d)' = On(d) BY <2>1 DEF On
  <2>3. Answers' BY <2>1, <2>2 DEF DisksInv, Answers
  <2>4. VolumeKept' /\ FilesOnVolume' BY <2>1, <2>2 DEF DisksInv, VolumeKept, FilesOnVolume
  <2> QED BY <2>1, <2>3, <2>4 DEF DisksInv, Late, Early
<1>5. CASE Init1
  <2>1. /\ Started /\ Started' /\ at = "init1" /\ at' = "nvme"
        /\ UNCHANGED <<disks, nvme, log, errs>>
        /\ Answers /\ ex.r = -8 /\ ex.r2 = -8 /\ at \in Early
    BY <1>5 DEF Init1, Kernel, Go, Started, InKernel, Early, DisksInv
  <2>2. PICK good \in AtaReads :
          LET vol == {i \in DOMAIN Positions : Positions[i] \in good
                                               /\ HasVolume(On(Positions[i]))}
              d == Positions[Min(vol)]
          IN  ex' = IF vol = {} THEN [ex EXCEPT !.r = -8]
                    ELSE IF Mountable(On(d)) THEN [ex EXCEPT !.ok = TRUE, !.on = d, !.r = 0]
                    ELSE [ex EXCEPT !.on = d, !.r = -4]
    BY <1>5 DEF Init1
  <2> DEFINE vol == {i \in DOMAIN Positions : Positions[i] \in good /\ HasVolume(On(Positions[i]))}
             d == Positions[Min(vol)]
  <2>3. vol # {} => d \in Places
    BY FirstPosition, PositionsArePlaces
  <2> HIDE DEF vol
  <2>4. \/ ex' = [ex EXCEPT !.r = -8]
        \/ d \in Places /\ Mountable(On(d)) /\ ex' = [ex EXCEPT !.ok = TRUE, !.on = d, !.r = 0]
        \/ d \in Places /\ ex' = [ex EXCEPT !.on = d, !.r = -4]
    BY <2>2, <2>3 DEF vol
  <2> HIDE DEF d
  <2>5. \A p : On(p)' = On(p) BY <2>1 DEF On
  <2>6. ~ex.ok BY <2>1 DEF Answers
  <2>7. Answers' /\ ex'.r2 = -8
    <3>1. CASE ex' = [ex EXCEPT !.r = -8]
      BY <2>1, <2>5, <2>6, <3>1 DEF Answers
    <3>2. CASE /\ d \in Places /\ Mountable(On(d))
               /\ ex' = [ex EXCEPT !.ok = TRUE, !.on = d, !.r = 0]
      <4>1. ex'.ok /\ ex'.on = d /\ ex'.r = 0 /\ ex'.r2 = -8 BY <2>1, <3>2 DEF Answers
      <4>2. On(ex.on)' = On(d) BY <2>1, <4>1 DEF On
      <4>3. Mountable(On(ex.on))' BY <3>2, <4>2
      <4>4. ex' = [ok |-> ex'.ok, on |-> ex'.on, r |-> ex'.r, r2 |-> ex'.r2]
        BY <2>1, <3>2 DEF Answers
      <4> QED BY <2>1, <3>2, <4>1, <4>3, <4>4 DEF Answers
    <3>3. CASE d \in Places /\ ex' = [ex EXCEPT !.on = d, !.r = -4]
      <4>1. /\ ex' = [ok |-> ex'.ok, on |-> ex'.on, r |-> ex'.r, r2 |-> ex'.r2]
            /\ ex'.ok = ex.ok /\ ex'.r = -4 /\ ex'.r2 = -8
        BY <2>1, <3>3 DEF Answers
      <4> QED BY <2>1, <2>6, <4>1 DEF Answers
    <3> QED BY <2>4, <3>1, <3>2, <3>3
  <2>8. VolumeKept' /\ FilesOnVolume' BY <1>1, <2>1, <2>5 DEF DisksInv, VolumeKept, FilesOnVolume
  <2> QED BY <2>1, <2>7, <2>8 DEF DisksInv, Late, Early
<1>6. CASE NvmeInit \/ CreateQueues
  <2>1. /\ Started /\ Started' /\ at \in {"nvme", "queues"} /\ UNCHANGED <<disks, ex, log, errs>>
        /\ \/ at' \in {"queues", "init2"} /\ nvme'.ready
           \/ at' = "log" /\ at = "nvme" /\ nvme' = nvme
        /\ nvme' = [ready |-> nvme'.ready, queues |-> nvme'.queues]
        /\ nvme'.queues => nvme'.ready
    <3>1. CASE NvmeInit
      BY <3>1 DEF NvmeInit, Loaded, Started, InKernel, DisksInv, Answers, Early
    <3>2. CASE CreateQueues
      BY <3>2 DEF CreateQueues, Kernel, Go, Started, InKernel, DisksInv, Answers
    <3> QED BY <1>6, <3>1, <3>2
  <2>2. \A d : On(d)' = On(d) BY <2>1 DEF On
  <2>3. at \in Early /\ Answers BY <2>1 DEF Early, DisksInv
  <2>4. Answers' BY <2>1, <2>2, <2>3 DEF Answers
  <2>5. VolumeKept' /\ FilesOnVolume' BY <2>1, <2>2 DEF DisksInv, VolumeKept, FilesOnVolume
  <2> QED BY <2>1, <2>3, <2>4, <2>5 DEF DisksInv, Late
<1> QED BY <1>2, <1>3, <1>4, <1>5, <1>6

(* The second exfat_init: an answer other than -8 is about the NVMe disk.  *)
LEMMA Init2Keeps == ASSUME DisksInv, Init2 PROVE DisksInv'
<1>1. /\ Started /\ Started' /\ at = "init2" /\ at \in Early /\ at' = "nvmetxt"
      /\ at' \notin Early \cup {"debug", "bss", "init1", "loop", "user"}
      /\ UNCHANGED <<disks, nvme, log>>
  BY DEF Init2, Started, InKernel, Early
<1>2. Answers /\ ex.r2 = -8 /\ ~errs /\ ~log /\ nvme.ready
  BY <1>1 DEF DisksInv
<1>3. PICK good \in BOOLEAN :
        LET read == good /\ nvme.queues
        IN  /\ ex' = IF ~read \/ ~HasVolume(On(Nvme)) THEN [ex EXCEPT !.r2 = -8]
                     ELSE IF Mountable(On(Nvme))
                       THEN [ex EXCEPT !.ok = TRUE, !.on = Nvme, !.r2 = 0]
                     ELSE [ex EXCEPT !.on = Nvme, !.r2 = -4]
            /\ errs' = (errs \/ ~read)
  BY DEF Init2
<1>4. \A d : On(d)' = On(d) BY <1>1 DEF On
<1>5. Nvme \in Places BY DEF Places
<1>6. Answers' /\ (~errs' /\ ex'.r2 = -8 => ~HasVolume(On(Nvme)))
  <2>1. CASE (~good \/ ~nvme.queues \/ ~HasVolume(On(Nvme))) /\ ex' = [ex EXCEPT !.r2 = -8]
    BY <1>1, <1>2, <1>3, <1>4, <2>1 DEF Answers
  <2>2. CASE /\ HasVolume(On(Nvme)) /\ Mountable(On(Nvme))
             /\ ex' = [ex EXCEPT !.ok = TRUE, !.on = Nvme, !.r2 = 0]
    <3>1. ex'.ok /\ ex'.on = Nvme /\ ex'.r2 = 0 /\ ex'.r = ex.r
      BY <1>2, <2>2 DEF Answers
    <3>2. ex' = [ok |-> ex'.ok, on |-> ex'.on, r |-> ex'.r, r2 |-> ex'.r2]
      BY <1>2, <2>2 DEF Answers
    <3>3. On(ex.on)' = On(Nvme) BY <1>1, <3>1 DEF On
    <3>4. Mountable(On(ex.on))' BY <2>2, <3>3
    <3> QED BY <1>1, <1>2, <1>5, <3>1, <3>2, <3>4 DEF Answers
  <2>3. CASE /\ HasVolume(On(Nvme)) /\ ~Mountable(On(Nvme))
             /\ ex' = [ex EXCEPT !.on = Nvme, !.r2 = -4]
    <3>1. /\ ex' = [ok |-> ex'.ok, on |-> ex'.on, r |-> ex'.r, r2 |-> ex'.r2]
          /\ ex'.ok = ex.ok /\ ex'.on = Nvme /\ ex'.r = ex.r /\ ex'.r2 = -4
      BY <1>2, <2>3 DEF Answers
    <3>2. HasVolume(On(Nvme))' /\ ~Mountable(On(Nvme))' BY <1>4, <2>3
    <3> QED BY <1>1, <1>2, <1>5, <3>1, <3>2 DEF Answers
  <2> QED BY <1>3, <2>1, <2>2, <2>3
<1>7. VolumeKept' /\ FilesOnVolume'
  BY <1>1, <1>4 DEF DisksInv, VolumeKept, FilesOnVolume
<1> QED BY <1>1, <1>2, <1>4, <1>6, <1>7 DEF DisksInv, Late

(* Every step keeps DisksInv.                                              *)
LEMMA DisksStep == DisksInv /\ [Next]_vars => DisksInv'
<1> SUFFICES ASSUME DisksInv, [Next]_vars PROVE DisksInv' OBVIOUS
<1>1. CASE (LoaderStep \/ Refused \/ Firmware) /\ UNCHANGED bootvars
  <2>1. ~Started' BY <1>1, LoaderStays
  <2>2. ~Started
    BY <1>1 DEF LoaderStep, Refused, Firmware, Started, InKernel, AskWhere, QueryMode, NoVideo,
       SetMode, ReadImage, FindKernel, NoKernel, CopyKernel, AllocateMap, GetMemoryMap, ExitFails,
       Exit, Go, Bsod
  <2>3. at' \notin Early \cup {"debug", "bss", "init1", "loop", "user"}
    BY <2>1 DEF Started, InKernel, Early
  <2>4. (VolumeKept /\ FilesOnVolume)'
    BY <1>1 DEF DisksInv, VolumeKept, FilesOnVolume, On, bootvars
  <2> QED BY <1>1, <2>1, <2>2, <2>3, <2>4 DEF DisksInv, bootvars
<1>2. CASE WriteNvmeTxt
  <2>1. /\ Started /\ at \in Late /\ at' \in Late \ {"overrun"} /\ at' \notin {"loop", "user"}
        /\ UNCHANGED <<nvme, ex, log, errs>>
    BY <1>2 DEF WriteNvmeTxt, Kernel, Go, Started, InKernel, Late
  <2>2. CASE ex.r2 = 0 /\ write_file("NVME.TXT")
    BY <2>1, <2>2, FileKeeps
  <2>3. CASE disks' = disks
    BY <2>1, <2>3, IdleKeeps DEF DisksInv
  <2> QED BY <1>2, <2>2, <2>3 DEF WriteNvmeTxt
<1>3. CASE WriteRaw
  <2>1. /\ Started /\ at \in Late /\ at' \in Late \ {"overrun"} /\ at' \notin {"loop", "user"}
        /\ UNCHANGED <<nvme, ex, log, errs>> /\ Answers
    BY <1>3 DEF WriteRaw, Kernel, Go, Started, InKernel, Late, DisksInv
  <2>2. CASE RawTest /\ disks' = [disks EXCEPT ![Nvme].raw = @ \cup {"test"}]
    <3>1. nvme.ready /\ ex.r2 # 0 BY <2>1, <2>2 DEF RawTest, Answers
    <3> QED BY <2>1, <2>2, <3>1, RawKeeps
  <2>3. CASE disks' = disks
    BY <2>1, <2>3, IdleKeeps DEF DisksInv
  <2> QED BY <1>3, <2>2, <2>3 DEF WriteRaw
<1>4. CASE FlushLog
  <2>1. /\ Started /\ at \in Late /\ at' \in Late \ {"overrun"} /\ at \in {"loop", "user"}
        /\ UNCHANGED <<nvme, ex, log, errs>> /\ nvme.ready /\ ex.r2 # 0
        /\ disks' = [disks EXCEPT ![Nvme].raw = @ \cup {"log"}]
    BY <1>4 DEF FlushLog, Started, InKernel, Late, DisksInv
  <2> QED BY <2>1, RawKeeps
<1>5. CASE LogIn
  <2>1. /\ Started /\ at \in Late /\ at' \in Late \ {"overrun"} /\ write_file("Login.lgi")
        /\ UNCHANGED <<nvme, ex, log, errs>> /\ (ex.ok => ex.r2 # -4)
    BY <1>5 DEF LogIn, Kernel, Go, Started, InKernel, Late, DisksInv
  <2> QED BY <2>1, FileKeeps
<1>6. CASE StartLog
  <2>1. /\ Started /\ at \in Late /\ at' \in Late /\ at' \notin {"loop", "user"}
        /\ UNCHANGED <<disks, nvme, ex, errs>> /\ (log' => nvme.ready /\ ex.r2 # 0)
    BY <1>6 DEF StartLog, Kernel, Go, Started, InKernel, Late, LogToDisk
  <2> QED BY <2>1, IdleKeeps
<1>7. CASE WriteTest
  <2>1. /\ Started /\ at \in Late /\ at' \in Late /\ UNCHANGED <<nvme, ex, log, errs>> /\ Answers
    BY <1>7 DEF WriteTest, Loaded, Started, InKernel, Late, DisksInv
  <2>2. CASE disks' = disks /\ (at' = "loop" => ex.r # 0) /\ at' # "user"
    BY <2>1, <2>2, IdleKeeps DEF DisksInv, Answers
  <2>3. CASE /\ at' = "loop" /\ write_file("TEST.TXT")
             /\ ~(HasVolume(On(ex.on)) /\ ~Mountable(On(ex.on)))
    <3>1. ex.r2 # -4 BY <2>1, <2>3 DEF Answers
    <3> QED BY <2>1, <2>3, <3>1, FileKeeps DEF Late
  <2> QED BY <1>7, <2>2, <2>3 DEF WriteTest
<1>8. CASE UNCHANGED vars
  <2>1. \A d : On(d)' = On(d) BY <1>8 DEF vars, bootvars, On
  <2> QED
    BY <1>8, <2>1 DEF vars, loadvars, bootvars, DisksInv, Answers, Started, InKernel, VolumeKept,
                      FilesOnVolume
<1> QED
  BY <1>1, <1>2, <1>3, <1>4, <1>5, <1>6, <1>7, <1>8, EarlyStep, Init2Keeps DEF Next, KernelStep

(* No bare sector is written over a volume of the NVMe disk that the       *)
(* driver can use, with any disks in the machine (kernel.cpp:794, 842).    *)
THEOREM VolumesKept == Spec => []VolumeKept
<1>1. DisksInv => VolumeKept BY DEF DisksInv
<1> QED BY <1>1, DisksInit, DisksStep, PTL DEF Spec

(* Every file is written on the volume mounted last (exfat.cpp:55-72).     *)
THEOREM FilesWhereMounted == Spec => []FilesOnVolume
<1>1. DisksInv => FilesOnVolume BY DEF DisksInv
<1> QED BY <1>1, DisksInit, DisksStep, PTL DEF Spec

-----------------------------------------------------------------------------
(* The page allocator whose count the boot code only reads, for every pool *)
(* and bitmap size.                                                        *)
USE PageAssumption

AllocInv == PoolTypeOK /\ CountExact /\ BlocksOwnPages

-----------------------------------------------------------------------------
(* What is left of a finite set when a part of it is taken out.            *)
LEMMA TakeOut ==
  ASSUME NEW S, IsFiniteSet(S), NEW T \in SUBSET S
  PROVE  /\ IsFiniteSet(S \ T) /\ IsFiniteSet(T)
         /\ Cardinality(S) \in Nat /\ Cardinality(T) \in Nat
         /\ Cardinality(S \ T) = Cardinality(S) - Cardinality(T)
<1>1. IsFiniteSet(T) /\ IsFiniteSet(S \ T)
  BY FS_Subset
<1>2. S \cap T = T
  OBVIOUS
<1>3. Cardinality(S \ T) = Cardinality(S) - Cardinality(S \cap T)
  BY FS_Difference
<1> QED
  BY <1>1, <1>2, <1>3, FS_CardinalityType

(* The pages of a run: n of them.                                          *)
LEMMA RunSize ==
  ASSUME NEW base \in Nat, NEW n \in Nat \ {0}
  PROVE  /\ IsFiniteSet(base..base + n - 1)
         /\ Cardinality(base..base + n - 1) = n
<1>1. /\ base \in Int /\ base + n - 1 \in Int
      /\ ~(base > base + n - 1) /\ (base + n - 1) - base + 1 = n
  OBVIOUS
<1> QED
  BY <1>1, FS_Interval

(* The pool is finite, and so is what is free in it.                       *)
LEMMA PoolFinite ==
  ASSUME PoolTypeOK
  PROVE  IsFiniteSet(Pool) /\ Cardinality(Pool) = g_pages
<1>1. g_pages \in Nat \ {0}
  BY DEF PoolTypeOK
<1> QED
  BY <1>1, RunSize DEF Pool

-----------------------------------------------------------------------------
(* At boot the pool is the static one, and all of it is free.              *)
LEMMA AllocInit == PoolInit => AllocInv
<1> SUFFICES ASSUME PoolInit PROVE AllocInv
  OBVIOUS
<1>1. PoolTypeOK
  <2>1. STATIC \in 1..PAGE_MAX
    BY PageAssumption
  <2>2. g_pages \in 1..PAGE_MAX /\ page_free_cnt \in 0..PAGE_MAX
    BY <2>1, PageAssumption DEF PoolInit
  <2> QED
    BY <2>2 DEF PoolInit, PoolTypeOK
<1>2. CountExact
  <2>1. Pool \ used = Pool
    BY DEF PoolInit
  <2> QED
    BY <1>1, <2>1, PoolFinite DEF PoolInit, CountExact
<1>3. BlocksOwnPages
  BY DEF PoolInit, BlocksOwnPages
<1> QED
  BY <1>1, <1>2, <1>3 DEF AllocInv

(* Before page_init nothing is in use: no caller is ready to ask.          *)
NothingUsedBefore == ~ready => used = {} /\ blocks = {}

(* page_init.                                                              *)
LEMMA PageInitKeeps ==
  ASSUME AllocInv, NothingUsedBefore, NEW pages \in 1..PAGE_MAX+1, page_init(pages)
  PROVE  AllocInv' /\ NothingUsedBefore'
<1>1. used = {} /\ blocks = {} /\ used' = {} /\ blocks' = {}
  BY DEF NothingUsedBefore, page_init
<1>2. PoolTypeOK'
  BY <1>1 DEF AllocInv, PoolTypeOK, page_init, Capped, Pool
<1>3. page_free_cnt' = g_pages'
  <2>1. page_free_cnt = g_pages
    <3>1. Pool \ used = Pool
      BY <1>1
    <3> QED
      BY <3>1, PoolFinite DEF AllocInv, CountExact
  <2> QED
    BY <2>1 DEF page_init
<1>4. CountExact'
  <2>1. IsFiniteSet(Pool') /\ Cardinality(Pool') = g_pages'
    <3>1. g_pages' \in Nat \ {0}
      BY <1>2 DEF PoolTypeOK
    <3>2. Pool' = 0..0 + g_pages' - 1
      BY <3>1 DEF Pool
    <3> QED
      BY <3>1, <3>2, RunSize
  <2>2. (Pool \ used)' = Pool'
    BY <1>1
  <2> QED
    BY <2>1, <2>2, <1>3 DEF CountExact
<1>5. BlocksOwnPages'
  BY <1>1 DEF BlocksOwnPages
<1> QED
  BY <1>1, <1>2, <1>4, <1>5 DEF AllocInv, NothingUsedBefore

(* page_alloc: the run it finds is free, so it belongs to no block.        *)
LEMMA PageAllocKeeps ==
  ASSUME AllocInv, NEW n \in 1..PAGE_MAX, page_alloc(n)
  PROVE  AllocInv' /\ NothingUsedBefore'
<1>1. PICK base \in Pool :
        /\ FirstFit(base, n)
        /\ used' = used \cup (base..base + n - 1)
        /\ blocks' = blocks \cup {[base |-> base, n |-> n]}
  BY DEF page_alloc
<1> DEFINE run == base..base + n - 1
           b == [base |-> base, n |-> n]
<1>2. /\ g_pages' = g_pages /\ ready' = ready /\ ready
      /\ page_free_cnt' = page_free_cnt - n /\ n <= page_free_cnt
  BY DEF page_alloc
<1>3. /\ base \in Nat /\ n \in Nat \ {0} /\ g_pages \in 1..PAGE_MAX
      /\ page_free_cnt \in 0..PAGE_MAX /\ base < g_pages
      /\ base + n <= g_pages /\ run \cap used = {}
  BY <1>1 DEF FirstFit, Fits, Pool, AllocInv, PoolTypeOK
<1>4. b \in Block /\ Pages(b) = run
  BY <1>3 DEF Block, Pages
<1>5. run \subseteq Pool
  BY <1>3 DEF Pool
<1>6. PoolTypeOK'
  <2>1. Pool' = Pool
    BY <1>2 DEF Pool
  <2>2. used' \subseteq Pool'
    BY <1>1, <1>5, <2>1 DEF AllocInv, PoolTypeOK
  <2>3. page_free_cnt' \in 0..PAGE_MAX
    BY <1>2, <1>3
  <2>4. blocks' \subseteq Block
    BY <1>1, <1>4 DEF AllocInv, PoolTypeOK
  <2> QED
    BY <1>2, <2>2, <2>3, <2>4 DEF AllocInv, PoolTypeOK
<1>7. CountExact'
  <2> DEFINE free == Pool \ used
  <2>1. IsFiniteSet(free)
    BY PoolFinite, FS_Subset DEF AllocInv
  <2>2. run \in SUBSET free
    BY <1>3, <1>5
  <2>3. Cardinality(free \ run) = Cardinality(free) - Cardinality(run)
    BY <2>1, <2>2, TakeOut
  <2>4. Cardinality(run) = n
    BY <1>3, RunSize
  <2>5. (Pool \ used)' = free \ run
    BY <1>1, <1>2 DEF Pool
  <2> QED
    BY <2>3, <2>4, <2>5, <1>2 DEF CountExact, AllocInv
<1>8. BlocksOwnPages'
  <2>1. \A c \in blocks : Pages(c) \subseteq used
    BY DEF AllocInv, BlocksOwnPages
  <2>2. used' = UNION {Pages(c) : c \in blocks'}
    BY <1>1, <1>4 DEF AllocInv, BlocksOwnPages
  <2>3. \A c \in blocks : Pages(c) \cap Pages(b) = {}
    BY <2>1, <1>3, <1>4
  <2>4. \A c, d \in blocks' : c # d => Pages(c) \cap Pages(d) = {}
    BY <2>3, <1>1 DEF AllocInv, BlocksOwnPages
  <2> QED
    BY <2>2, <2>4 DEF BlocksOwnPages
<1> QED
  BY <1>2, <1>6, <1>7, <1>8 DEF AllocInv, NothingUsedBefore

(* page_free: a block's pages are used and belong to no other block.       *)
LEMMA PageFreeKeeps ==
  ASSUME AllocInv, NothingUsedBefore, NEW b \in Block, page_free(b)
  PROVE  AllocInv' /\ NothingUsedBefore'
<1>1. /\ b \in blocks /\ blocks' = blocks \ {b}
      /\ g_pages' = g_pages /\ ready' = ready
  BY DEF page_free
<1>2. /\ b.base \in Nat /\ b.n \in Nat \ {0} /\ g_pages \in 1..PAGE_MAX
      /\ page_free_cnt \in 0..PAGE_MAX
  BY DEF Block, AllocInv, PoolTypeOK
<1>3. Pages(b) \subseteq used /\ Pages(b) \subseteq Pool
  BY <1>1 DEF AllocInv, BlocksOwnPages, PoolTypeOK
<1>4. b.base + b.n <= g_pages
  <2>1. b.base + b.n - 1 \in Pages(b)
    BY <1>2 DEF Pages
  <2> QED
    BY <2>1, <1>2, <1>3 DEF Pool
<1>5. Cleared(b) = Pages(b)
  BY <1>3 DEF Cleared
<1>6. used' = used \ Pages(b) /\ page_free_cnt' = page_free_cnt + b.n
  <2>1. Cardinality(Pages(b)) = b.n
    BY <1>2, RunSize DEF Pages
  <2> QED
    BY <1>2, <1>4, <1>5, <2>1 DEF page_free, FreeCount
<1>7. CountExact'
  <2> DEFINE free == Pool \ used
  <2>1. IsFiniteSet(Pool \ (used \ Pages(b)))
    BY PoolFinite, FS_Subset DEF AllocInv
  <2>2. Pages(b) \in SUBSET (Pool \ (used \ Pages(b)))
    BY <1>3
  <2>3. (Pool \ (used \ Pages(b))) \ Pages(b) = free
    BY <1>3
  <2>4. Cardinality(Pages(b)) = b.n
    BY <1>2, RunSize DEF Pages
  <2>5. /\ Cardinality(Pool \ (used \ Pages(b))) \in Nat
        /\ Cardinality(free) = Cardinality(Pool \ (used \ Pages(b))) - b.n
    BY <2>1, <2>2, <2>3, <2>4, TakeOut
  <2>6. (Pool \ used)' = Pool \ (used \ Pages(b))
    BY <1>1, <1>6 DEF Pool
  <2>7. page_free_cnt = Cardinality(free)
    BY DEF AllocInv, CountExact
  <2>8. page_free_cnt' = Cardinality(Pool \ (used \ Pages(b)))
    BY <2>5, <2>7, <1>2, <1>6
  <2> QED
    BY <2>6, <2>8 DEF CountExact
<1>8. PoolTypeOK'
  <2>1. Pool' = Pool
    BY <1>1 DEF Pool
  <2>2. used' \subseteq Pool'
    BY <1>6, <2>1 DEF AllocInv, PoolTypeOK
  <2>3. page_free_cnt' \in 0..PAGE_MAX
    <3>1. IsFiniteSet(Pool) /\ Cardinality(Pool) = g_pages
      BY PoolFinite DEF AllocInv
    <3>2. page_free_cnt' = Cardinality(Pool \ used')
      BY <1>7, <2>1 DEF CountExact
    <3>3. /\ Cardinality(Pool \ used') \in Nat
          /\ Cardinality(Pool \ used') <= Cardinality(Pool)
      <4>1. Pool \ used' \in SUBSET Pool
        OBVIOUS
      <4> QED
        BY <3>1, <4>1, FS_Subset, FS_CardinalityType
    <3> QED
      BY <1>2, <3>1, <3>2, <3>3
  <2> QED
    BY <1>1, <2>2, <2>3 DEF AllocInv, PoolTypeOK
<1>9. BlocksOwnPages'
  <2>1. \A c \in blocks' : Pages(c) \cap Pages(b) = {}
    BY <1>1 DEF AllocInv, BlocksOwnPages
  <2>2. used' = UNION {Pages(c) : c \in blocks'}
    BY <1>1, <1>6, <2>1 DEF AllocInv, BlocksOwnPages
  <2>3. \A c, d \in blocks' : c # d => Pages(c) \cap Pages(d) = {}
    BY <1>1 DEF AllocInv, BlocksOwnPages
  <2> QED
    BY <2>2, <2>3 DEF BlocksOwnPages
<1>10. NothingUsedBefore'
  BY <1>1, <1>6 DEF NothingUsedBefore
<1> QED
  BY <1>7, <1>8, <1>9, <1>10 DEF AllocInv

-----------------------------------------------------------------------------
(* The inductive invariant is kept by every step.                          *)
LEMMA AllocStep ==
  AllocInv /\ NothingUsedBefore /\ [PoolNext]_poolvars => AllocInv' /\ NothingUsedBefore'
<1> SUFFICES ASSUME AllocInv, NothingUsedBefore, [PoolNext]_poolvars
             PROVE  AllocInv' /\ NothingUsedBefore'
  OBVIOUS
<1>1. CASE \E pages \in 1..PAGE_MAX+1 : page_init(pages)
  BY <1>1, PageInitKeeps
<1>2. CASE \E n \in 1..PAGE_MAX : page_alloc(n)
  BY <1>2, PageAllocKeeps
<1>3. CASE \E b \in Block : page_free(b)
  BY <1>3, PageFreeKeeps
<1>4. CASE UNCHANGED poolvars
  BY <1>4 DEF poolvars, AllocInv, PoolTypeOK, CountExact, BlocksOwnPages, Pool, Pages,
              NothingUsedBefore
<1> QED
  BY <1>1, <1>2, <1>3, <1>4 DEF PoolNext

(* All of it, always.                                                      *)
LEMMA AllocAlways == PoolSpec => [](AllocInv /\ NothingUsedBefore)
<1>1. PoolInit => AllocInv /\ NothingUsedBefore
  BY AllocInit DEF PoolInit, NothingUsedBefore
<1> QED
  BY <1>1, AllocStep, PTL DEF PoolSpec

(* The free count of page_alloc's early return is exact, whatever the      *)
(* sequence of calls (page.h:38, 45, 60).                                  *)
THEOREM FreeCountExact == PoolSpec => []CountExact
<1>1. AllocInv => CountExact
  BY DEF AllocInv
<1> QED
  BY <1>1, AllocAlways, PTL

(* No page is handed out twice and none is lost (page.h:36-61).            *)
THEOREM NoPageTwice == PoolSpec => []BlocksOwnPages
<1>1. AllocInv => BlocksOwnPages
  BY DEF AllocInv
<1> QED
  BY <1>1, AllocAlways, PTL

(* The pool and its bitmap stay within PAGE_MAX.                           *)
THEOREM PoolTyped == PoolSpec => []PoolTypeOK
<1>1. AllocInv => PoolTypeOK
  BY DEF AllocInv
<1> QED
  BY <1>1, AllocAlways, PTL

-----------------------------------------------------------------------------
(* Every nonempty set of natural numbers has a least element.              *)
LEMMA LeastOf ==
  ASSUME NEW F \in SUBSET Nat, F # {}
  PROVE  \E m \in F : \A t \in F : m <= t
<1> DEFINE R == OpToRel(<, Nat)
<1>1. \A x, y \in Nat : <<x, y>> \in R <=> x < y
  BY DEF OpToRel
<1>2. IsWellFoundedOn(R, Nat)
  BY NatLessThanWellFounded
<1> HIDE DEF R
<1>3. PICK x \in F : \A y \in F : ~(<<y, x>> \in R)
  BY <1>2, WFMin
<1>4. ASSUME NEW y \in F PROVE x <= y
  <2>1. x \in Nat /\ y \in Nat
    BY <1>3
  <2>2. ~(y < x)
    BY <1>1, <1>3, <2>1
  <2> QED
    BY <2>1, <2>2
<1> QED
  BY <1>3, <1>4

(* The last page in use up to page i, or -1.                               *)
UpTo(i) == {-1} \cup (used \cap 0..i)
LastUsed(i) == CHOOSE u \in UpTo(i) : \A v \in UpTo(i) : v <= u

LEMMA LastUsedIs ==
  ASSUME PoolTypeOK, NEW i \in -1..g_pages-1
  PROVE  /\ LastUsed(i) \in -1..i
         /\ LastUsed(i) # -1 => LastUsed(i) \in used
         /\ \A j \in Pool : LastUsed(i) < j /\ j <= i => j \notin used
<1>1. g_pages \in Nat /\ used \subseteq Pool /\ i \in Int /\ -1 <= i
  BY DEF PoolTypeOK
<1>2. UpTo(i) \subseteq Int /\ -1 \in UpTo(i) /\ \A u \in UpTo(i) : -1 <= u /\ u <= i
  BY <1>1 DEF UpTo, Pool
<1> DEFINE F == {i - u : u \in UpTo(i)}
<1>3. F \subseteq Nat
  BY <1>1, <1>2
<1>4. i - (-1) \in F
  BY <1>2
<1>5. PICK m \in F : \A t \in F : m <= t
  BY <1>3, <1>4, LeastOf
<1>6. PICK x \in UpTo(i) : m = i - x
  BY <1>5
<1>7. ASSUME NEW v \in UpTo(i) PROVE v <= x
  <2>1. i - v \in F
    OBVIOUS
  <2>2. i - x <= i - v
    BY <1>5, <1>6, <2>1
  <2> QED
    BY <1>1, <1>2, <2>2
<1>8. LastUsed(i) \in UpTo(i) /\ \A v \in UpTo(i) : v <= LastUsed(i)
  BY <1>7 DEF LastUsed
<1>9. ASSUME NEW j \in Pool, LastUsed(i) < j, j <= i PROVE j \notin used
  <2>1. j \in Int /\ 0 <= j /\ LastUsed(i) \in Int
    BY <1>1, <1>2, <1>8 DEF Pool
  <2>2. j \notin UpTo(i)
    BY <1>8, <1>9, <2>1
  <2> QED
    BY <1>1, <1>9, <2>1, <2>2 DEF UpTo
<1> QED
  BY <1>1, <1>2, <1>8, <1>9 DEF UpTo

(* The next page is in use, or the last page in use stays the last.        *)
LEMMA LastUsedNext ==
  ASSUME PoolTypeOK, NEW i \in Pool
  PROVE  /\ i \in used => LastUsed(i) = i
         /\ i \notin used => LastUsed(i) = LastUsed(i - 1)
<1>1. /\ g_pages \in Nat /\ used \subseteq Pool /\ i \in Nat /\ i < g_pages
      /\ i \in -1..g_pages-1 /\ i - 1 \in -1..g_pages-1
  BY DEF PoolTypeOK, Pool
<1> DEFINE l == LastUsed(i)
           k == LastUsed(i - 1)
<1>2. /\ l \in -1..i
      /\ l # -1 => l \in used
      /\ \A j \in Pool : l < j /\ j <= i => j \notin used
  BY <1>1, LastUsedIs
<1>3. /\ k \in -1..i-1
      /\ k # -1 => k \in used
      /\ \A j \in Pool : k < j /\ j <= i - 1 => j \notin used
  BY <1>1, LastUsedIs
<1> HIDE DEF l, k
<1>4. i \in used => l = i
  BY <1>1, <1>2
<1>5. ASSUME i \notin used PROVE l = k
  <2>1. l # i
    BY <1>1, <1>2, <1>5
  <2>2. ~(k < l)
    <3> SUFFICES ASSUME k < l PROVE FALSE
      OBVIOUS
    <3>1. l \in Pool /\ l <= i - 1 /\ l \in used
      BY <1>1, <1>2, <1>3, <2>1 DEF Pool
    <3> QED
      BY <1>3, <3>1
  <2>3. ~(l < k)
    <3> SUFFICES ASSUME l < k PROVE FALSE
      OBVIOUS
    <3>1. k \in Pool /\ k <= i /\ k \in used
      BY <1>1, <1>2, <1>3 DEF Pool
    <3> QED
      BY <1>2, <3>1
  <2> QED
    BY <1>1, <1>2, <1>3, <2>2, <2>3
<1> QED
  BY <1>4, <1>5 DEF l, k

(* The loop's counter after each page: how far the last page in use is     *)
(* behind.                                                                 *)
Counter(run) ==
  run = [i \in -1..g_pages-1 |-> IF i = -1 THEN 0 ELSE RunEnd(run[i-1], i)]

LEMMA CounterIs ==
  ASSUME PoolTypeOK, NEW run, Counter(run), NEW i \in -1..g_pages-1
  PROVE  run[i] = i - LastUsed(i)
<1>1. g_pages \in Nat
  BY DEF PoolTypeOK
<1> DEFINE T == {j \in Nat : j - 1 <= g_pages - 1 /\ run[j - 1] # j - 1 - LastUsed(j - 1)}
<1> SUFFICES T = {}
  <2>1. i + 1 \in Nat /\ (i + 1) - 1 = i
    BY <1>1
  <2>2. i + 1 \notin T
    OBVIOUS
  <2> QED
    BY <1>1, <2>1, <2>2
<1> SUFFICES ASSUME T # {} PROVE FALSE
  OBVIOUS
<1>2. PICK m \in T : \A t \in T : m <= t
  BY LeastOf
<1>3. m \in Nat /\ m - 1 <= g_pages - 1 /\ run[m - 1] # m - 1 - LastUsed(m - 1)
  BY <1>2
<1>4. CASE m = 0
  <2>1. -1 \in -1..g_pages-1 /\ m - 1 = -1
    BY <1>1, <1>4
  <2>2. LastUsed(-1) \in -1..-1
    BY <2>1, LastUsedIs
  <2>3. run[-1] = 0
    BY <2>1 DEF Counter
  <2> QED
    BY <1>3, <2>1, <2>2, <2>3
<1>5. CASE m # 0
  <2> DEFINE p == m - 1
  <2>1. p \in Pool /\ p \in -1..g_pages-1 /\ p - 1 \in -1..g_pages-1 /\ p # -1 /\ p \in Nat
    BY <1>1, <1>3, <1>5 DEF Pool
  <2>2. p \notin T
    BY <1>2, <2>1
  <2>3. run[p - 1] = p - 1 - LastUsed(p - 1)
    BY <1>1, <2>1, <2>2
  <2>4. run[p] = RunEnd(run[p - 1], p)
    BY <2>1 DEF Counter
  <2>5. LastUsed(p - 1) \in Int /\ LastUsed(p) \in Int
    <3>1. LastUsed(p - 1) \in -1..p-1
      BY <2>1, LastUsedIs
    <3>2. LastUsed(p) \in -1..p
      BY <2>1, LastUsedIs
    <3> QED
      BY <2>1, <3>1, <3>2
  <2>6. run[p] = p - LastUsed(p)
    <3>1. CASE p \in used
      <4>1. LastUsed(p) = p /\ run[p] = 0
        BY <2>1, <2>4, <3>1, LastUsedNext DEF RunEnd
      <4> QED
        BY <2>1, <4>1
    <3>2. CASE p \notin used
      <4>1. LastUsed(p) = LastUsed(p - 1) /\ run[p] = run[p - 1] + 1
        BY <2>1, <2>4, <3>2, LastUsedNext DEF RunEnd
      <4> QED
        BY <2>1, <2>3, <2>5, <4>1
    <3> QED
      BY <3>1, <3>2
  <2> QED
    BY <1>3, <2>6
<1> QED
  BY <1>4, <1>5

(* There is such a counter: the function says so itself.                   *)
LEMMA CounterExists == PoolTypeOK => \E run : Counter(run)
<1> SUFFICES ASSUME PoolTypeOK PROVE \E run : Counter(run)
  OBVIOUS
<1> DEFINE run == [i \in -1..g_pages-1 |-> i - LastUsed(i)]
<1>1. g_pages \in Nat
  BY DEF PoolTypeOK
<1>2. ASSUME NEW i \in -1..g_pages-1
      PROVE  run[i] = IF i = -1 THEN 0 ELSE RunEnd(run[i-1], i)
  <2>1. LastUsed(i) \in -1..i
    BY LastUsedIs
  <2>2. CASE i = -1
    BY <2>1, <2>2
  <2>3. CASE i # -1
    <3>1. i \in Pool /\ i - 1 \in -1..g_pages-1 /\ i \in Int
      BY <1>1, <2>3 DEF Pool
    <3>2. LastUsed(i - 1) \in -1..i-1
      BY <3>1, LastUsedIs
    <3>3. run[i] = i - LastUsed(i) /\ run[i - 1] = i - 1 - LastUsed(i - 1)
      BY <3>1
    <3> HIDE DEF run
    <3>4. CASE i \in used
      <4>1. LastUsed(i) = i
        BY <3>1, <3>4, LastUsedNext
      <4> QED
        BY <2>3, <3>1, <3>3, <3>4, <4>1 DEF RunEnd
    <3>5. CASE i \notin used
      <4>1. LastUsed(i) = LastUsed(i - 1)
        BY <3>1, <3>5, LastUsedNext
      <4>2. run[i] = run[i - 1] + 1
        BY <3>1, <3>2, <3>3, <4>1
      <4> QED
        BY <2>3, <3>5, <4>2 DEF RunEnd
    <3> QED
      BY <3>4, <3>5
  <2> QED
    BY <2>2, <2>3
<1>3. Counter(run)
  BY <1>2 DEF Counter
<1> QED
  BY <1>3

(* Where the counter shows n, n pages end that are free; and a run that is *)
(* free lies behind a place where the counter shows its length.            *)
LEMMA HitFits ==
  ASSUME PoolTypeOK, NEW n \in 1..PAGE_MAX, NEW i \in Pool, i - LastUsed(i) = n
  PROVE  i + 1 - n \in Pool /\ Fits(i + 1 - n, n)
<1>1. g_pages \in Nat /\ i \in Nat /\ i < g_pages /\ i \in -1..g_pages-1 /\ n \in Nat /\ 1 <= n
  BY DEF PoolTypeOK, Pool
<1>2. /\ LastUsed(i) \in -1..i
      /\ \A j \in Pool : LastUsed(i) < j /\ j <= i => j \notin used
  BY <1>1, LastUsedIs
<1>3. LastUsed(i) = i - n
  BY <1>1, <1>2
<1>4. i + 1 - n \in Pool
  BY <1>1, <1>2, <1>3 DEF Pool
<1>5. ASSUME NEW j \in (i + 1 - n)..(i + 1 - n) + n - 1 PROVE j \notin used
  <2>1. j \in Pool /\ LastUsed(i) < j /\ j <= i
    BY <1>1, <1>3, <1>4 DEF Pool
  <2> QED
    BY <1>2, <2>1
<1>6. (i + 1 - n) + n <= g_pages
  BY <1>1
<1> QED
  BY <1>4, <1>5, <1>6 DEF Fits

LEMMA FitHits ==
  ASSUME PoolTypeOK, NEW n \in 1..PAGE_MAX, NEW c \in Pool, Fits(c, n)
  PROVE  \E i \in Pool : i - LastUsed(i) = n /\ i + 1 - n <= c
<1> DEFINE e == c + n - 1
           l == LastUsed(e)
           i == l + n
<1>1. /\ g_pages \in Nat /\ c \in Nat /\ n \in Nat /\ 1 <= n /\ used \subseteq Pool
      /\ c + n <= g_pages /\ \A j \in c..e : j \notin used
  BY DEF PoolTypeOK, Pool, Fits
<1>2. e \in Pool /\ e \in -1..g_pages-1 /\ e \in Nat
  BY <1>1 DEF Pool
<1>3. /\ l \in -1..e
      /\ l # -1 => l \in used
      /\ \A j \in Pool : l < j /\ j <= e => j \notin used
  BY <1>2, LastUsedIs
<1> HIDE DEF l
<1>4. l < c
  <2> SUFFICES ASSUME ~(l < c) PROVE FALSE
    OBVIOUS
  <2>1. l \in c..e /\ l # -1
    BY <1>1, <1>2, <1>3
  <2> QED
    BY <1>1, <1>3, <2>1
<1>5. i \in Pool /\ i \in -1..g_pages-1 /\ i <= e /\ l < i /\ i \in Nat
  BY <1>1, <1>2, <1>3, <1>4 DEF Pool
<1>6. LastUsed(i) = l
  <2> DEFINE k == LastUsed(i)
  <2>1. /\ k \in -1..i
        /\ k # -1 => k \in used
        /\ \A j \in Pool : k < j /\ j <= i => j \notin used
    BY <1>5, LastUsedIs
  <2> HIDE DEF k
  <2>2. ~(l < k)
    <3> SUFFICES ASSUME l < k PROVE FALSE
      OBVIOUS
    <3>1. k \in used /\ k \in Pool /\ k <= e
      BY <1>1, <1>2, <1>3, <1>5, <2>1 DEF Pool
    <3> QED
      BY <1>3, <3>1
  <2>3. ~(k < l)
    <3> SUFFICES ASSUME k < l PROVE FALSE
      OBVIOUS
    <3>1. l \in used /\ l \in Pool /\ l <= i
      BY <1>1, <1>3, <1>5, <2>1 DEF Pool
    <3> QED
      BY <2>1, <3>1
  <2> QED
    BY <1>3, <1>5, <2>1, <2>2, <2>3 DEF k
<1>7. i - LastUsed(i) = n /\ i + 1 - n <= c
  BY <1>1, <1>3, <1>4, <1>5, <1>6
<1> QED
  BY <1>5, <1>7

(* The loop of page_alloc, as it is written, is a first fit.               *)
LEMMA ScanFits == PoolTypeOK => ScanIsFirstFit
<1> SUFFICES ASSUME PoolTypeOK, NEW n \in 1..PAGE_MAX
             PROVE  LET base == Scan(n)
                    IN  IF base = -1 THEN \A c \in Pool : ~Fits(c, n)
                        ELSE base \in Pool /\ FirstFit(base, n)
  BY DEF ScanIsFirstFit
<1> DEFINE run == CHOOSE f : Counter(f)
           hits == {i \in Pool : run[i] = n}
           first == CHOOSE i \in hits : \A j \in hits : i <= j
<1>1. g_pages \in Nat /\ n \in Nat /\ 1 <= n /\ Pool \subseteq Nat /\ Pool \subseteq -1..g_pages-1
  BY DEF PoolTypeOK, Pool
<1>2. Counter(run)
  BY CounterExists
<1>3. Scan(n) = IF hits = {} THEN -1 ELSE first + 1 - n
  BY DEF Scan, Counter
<1> HIDE DEF run
<1>4. \A i \in Pool : run[i] = i - LastUsed(i)
  BY <1>1, <1>2, CounterIs
<1>5. CASE hits = {}
  <2>1. \A c \in Pool : ~Fits(c, n)
    BY <1>4, <1>5, FitHits
  <2> QED
    BY <1>3, <1>5, <2>1
<1>6. CASE hits # {}
  <2>1. \E m \in hits : \A t \in hits : m <= t
    BY <1>1, <1>6, LeastOf
  <2>2. first \in hits /\ \A j \in hits : first <= j
    BY <2>1
  <2> HIDE DEF first
  <2> DEFINE base == first + 1 - n
  <2>3. base \in Pool /\ Fits(base, n)
    BY <1>4, <2>2, HitFits
  <2>4. ASSUME NEW c \in Pool, Fits(c, n) PROVE base <= c
    <3>1. PICK i \in Pool : i - LastUsed(i) = n /\ i + 1 - n <= c
      BY <2>4, FitHits
    <3>2. i \in hits
      BY <1>4, <3>1
    <3>3. first \in Int /\ i \in Int /\ c \in Int /\ first <= i
      BY <1>1, <2>2, <2>4, <3>2
    <3> QED
      BY <1>1, <3>1, <3>3
  <2>5. Scan(n) = base /\ base # -1
    BY <1>1, <1>3, <1>6, <2>3
  <2> QED
    BY <2>3, <2>4, <2>5 DEF FirstFit
<1> QED
  BY <1>5, <1>6

(* The loop finds the lowest run that is free whenever there is one, and   *)
(* nothing else, in whatever state the calls left the pool (page.h:39-49). *)
THEOREM ScanAlwaysFirstFit == PoolSpec => []ScanIsFirstFit
<1>1. AllocInv => ScanIsFirstFit
  BY ScanFits DEF AllocInv
<1> QED
  BY <1>1, AllocAlways, PTL

-----------------------------------------------------------------------------
(* The exFAT volume, for every size of the volume and of its directory and *)
(* every file that was there.  An entry that a torn write left behind is   *)
(* never wrong by itself: wherever in the directory a stream entry is, its *)
(* cluster is marked, and no other entry has that cluster.                 *)
Slot == 0..SLOTS-1
Free == Clusters \ (System \cup OldClusters)
OldStream == Stream(OLD[1], Len(OLD))
IsStream(e) == e[1] = "stream"

StreamsIn(d, b) ==
  \A i \in Slot : IsStream(d[i]) => \/ d[i] = OldStream
                                    \/ \E c \in b \cap Free : d[i] = Stream(c, 1)
OneEach(d) ==
  \A i, j \in Slot : IsStream(d[i]) /\ IsStream(d[j]) /\ d[i][2] = d[j][2] => i = j
Without(d, c) == \A i \in Slot : IsStream(d[i]) => d[i][2] # c

(* The volume between two writes.                                          *)
DiskInv ==
  /\ System \cup OldClusters \subseteq bits /\ bits \subseteq Clusters
  /\ dir = [i \in Slot |-> dir[i]] /\ StreamsIn(dir, bits) /\ OneEach(dir)
  /\ data \in [Clusters -> Texts \cup {Junk}]
  /\ kept = [nm \in Names |-> kept[nm]]

(* What a call knows: the directory it read is the one on the disk, and    *)
(* its cluster is nobody else's.                                           *)
CallInv ==
  \/ call = Idle
  \/ /\ call = [pc |-> call.pc, name |-> call.name, text |-> call.text,
                free |-> call.free, bm |-> call.bm, rd_buf |-> call.rd_buf]
     /\ call.name \in Names /\ call.text \in Texts /\ call.free \in Free
     /\ call.rd_buf = dir /\ Without(dir, call.free)
     /\ \/ call.pc = "data" /\ call.bm = bits /\ call.free \notin bits
        \/ call.pc = "bitmap" /\ call.bm = bits /\ call.free \notin bits
                              /\ data[call.free] = call.text
        \/ call.pc = "dir" /\ call.free \in bits /\ data[call.free] = call.text

VolInv == DiskInv /\ CallInv /\ FilesKept

(* What entries are; no two kinds are the same.                            *)
LEMMA Kinds ==
  ASSUME NEW c, NEW len, NEW nm
  PROVE  /\ IsStream(Stream(c, len)) /\ Stream(c, len)[2] = c /\ Stream(c, len)[3] = len
         /\ Name(nm)[1] = "name" /\ Name(nm)[2] = nm /\ ~IsStream(Name(nm))
         /\ ~IsStream(File) /\ ~IsStream(EXFAT_EOD) /\ ~IsStream(Other)
         /\ File[1] \notin {"stream", "name"} /\ EXFAT_EOD[1] \notin {"stream", "name"}
         /\ File # EXFAT_EOD /\ Stream(c, len) # EXFAT_EOD /\ Name(nm) # EXFAT_EOD
         /\ Other # EXFAT_EOD /\ Stream(c, len) # File /\ Name(nm) # File /\ Other # File
<1>1. File[1] = "file" /\ EXFAT_EOD[1] = "eod" /\ Other[1] = "other"
  BY DEF File, EXFAT_EOD, Other
<1>2. Stream(c, len)[1] = "stream" /\ Stream(c, len)[2] = c /\ Stream(c, len)[3] = len
  BY DEF Stream
<1>3. Name(nm)[1] = "name" /\ Name(nm)[2] = nm
  BY DEF Name
<1> QED
  BY <1>1, <1>2, <1>3 DEF IsStream

(* The least and the greatest of some slots.                               *)
LEMMA Least ==
  ASSUME NEW S \in SUBSET Nat, S # {}
  PROVE  Min(S) \in S /\ \A y \in S : Min(S) <= y
<1>1. \E m \in S : \A y \in S : m <= y
  BY LeastOf
<1> QED
  BY <1>1 DEF Min

LEMMA Greatest ==
  ASSUME NEW n \in Nat, NEW S \in SUBSET (0..n), S # {}
  PROVE  Max(S) \in S /\ \A y \in S : y <= Max(S)
<1> DEFINE F == {n - x : x \in S}
<1>1. F \subseteq Nat
  OBVIOUS
<1>2. PICK x \in S : TRUE
  OBVIOUS
<1>3. n - x \in F
  OBVIOUS
<1>4. PICK m \in F : \A t \in F : m <= t
  BY <1>1, <1>3, LeastOf
<1>5. PICK g \in S : m = n - g
  BY <1>4
<1>6. ASSUME NEW y \in S PROVE g >= y
  <2>1. n - y \in F
    OBVIOUS
  <2>2. n - g <= n - y
    BY <1>4, <1>5, <2>1
  <2> QED
    BY <2>2
<1>7. Max(S) \in S /\ \A y \in S : Max(S) >= y
  BY <1>5, <1>6 DEF Max
<1> QED
  BY <1>7

-----------------------------------------------------------------------------
(* The chain of a file of one cluster is the cluster.                      *)
LEMMA ChainOfOne == ASSUME NEW c PROVE Chain(c, 1)[1] = c
<1> DEFINE Is(ch) == ch = [k \in 1..1 |-> IF k = 1 THEN c ELSE next_cluster(ch[k-1])]
           it == [k \in 1..1 |-> c]
<1>1. Is(it)
  OBVIOUS
<1>2. Chain(c, 1) = CHOOSE ch : Is(ch)
  BY DEF Chain
<1>3. Is(Chain(c, 1))
  BY <1>1, <1>2
<1> HIDE DEF Is
<1>4. Chain(c, 1) = [k \in 1..1 |-> IF k = 1 THEN c ELSE next_cluster(Chain(c, 1)[k-1])]
  BY <1>3 DEF Is
<1> QED
  BY <1>4

(* The FAT has the old file's clusters in their order.                     *)
LEMMA NextOld ==
  ASSUME NEW k \in 2..Len(OLD) PROVE next_cluster(OLD[k - 1]) = OLD[k]
<1>1. OLD \in Seq(Clusters) /\ Len(OLD) \in Nat /\ DOMAIN OLD = 1..Len(OLD)
      /\ \A i, j \in DOMAIN OLD : OLD[i] = OLD[j] => i = j
  BY ExfatAssumption
<1> DEFINE after == {i \in 1..Len(OLD)-1 : OLD[i] = OLD[k - 1]}
<1>2. after = {k - 1}
  BY <1>1
<1>3. after # {} /\ Max(after) = k - 1
  BY <1>2 DEF Max
<1>4. next_cluster(OLD[k - 1]) = OLD[Max(after) + 1]
  BY <1>3 DEF next_cluster
<1> QED
  BY <1>1, <1>3, <1>4

(* The chain of the old file is its list of clusters.                      *)
LEMMA ChainOfOld ==
  /\ Len(OLD) \in Nat \ {0} /\ DOMAIN OLD = 1..Len(OLD)
  /\ \A k \in 1..Len(OLD) : OLD[k] \in OldClusters /\ Chain(OLD[1], Len(OLD))[k] = OLD[k]
<1>1. /\ OLD \in Seq(Clusters) /\ Len(OLD) \in Nat \ {0} /\ DOMAIN OLD = 1..Len(OLD)
      /\ OLD = [k \in 1..Len(OLD) |-> OLD[k]]
  BY ExfatAssumption
<1> DEFINE len == Len(OLD)
           Is(ch) == ch = [k \in 1..len |-> IF k = 1 THEN OLD[1] ELSE next_cluster(ch[k-1])]
           ch == Chain(OLD[1], len)
<1> HIDE DEF len
<1>2. Is(OLD)
  <2>1. \A k \in 1..len : OLD[k] = IF k = 1 THEN OLD[1] ELSE next_cluster(OLD[k-1])
    BY <1>1, NextOld DEF len
  <2> QED
    BY <1>1, <2>1 DEF len
<1>3. ch = CHOOSE a : Is(a)
  BY DEF Chain
<1>4. Is(ch)
  BY <1>2, <1>3
<1> HIDE DEF ch
<1>5. \A k \in 1..len : ch[k] = IF k = 1 THEN OLD[1] ELSE next_cluster(ch[k-1])
  BY <1>4
<1> HIDE DEF Is
<1> DEFINE T == {k \in 1..len : ch[k] # OLD[k]}
<1>6. T = {}
  <2> SUFFICES ASSUME T # {} PROVE FALSE
    OBVIOUS
  <2>1. len \in Nat /\ T \subseteq Nat
    BY <1>1 DEF len
  <2>2. PICK m \in T : \A t \in T : m <= t
    BY <2>1, LeastOf
  <2>3. m \in 1..len /\ ch[m] # OLD[m]
    BY <2>2
  <2>4. m # 1
    BY <1>5, <2>1, <2>3
  <2>5. m - 1 \in 1..len /\ m - 1 \notin T /\ m \in 2..len
    BY <2>1, <2>2, <2>3, <2>4
  <2>6. ch[m - 1] = OLD[m - 1]
    BY <2>5
  <2>7. ch[m] = next_cluster(OLD[m - 1])
    BY <1>5, <2>3, <2>4, <2>6
  <2> QED
    BY <2>3, <2>5, <2>7, NextOld DEF len
<1>7. \A k \in 1..len : ch[k] = OLD[k]
  BY <1>6
<1> QED
  BY <1>1, <1>7 DEF len, ch, OldClusters

-----------------------------------------------------------------------------
(* The directory ends at its first EOD.                                    *)
LEMMA EndIs ==
  ASSUME NEW d
  PROVE  /\ EndOfDir(d) \in 0..SLOTS /\ Used(d) = 0..EndOfDir(d)-1
         /\ EndOfDir(d) < SLOTS => d[EndOfDir(d)] = EXFAT_EOD
         /\ \A i \in 0..EndOfDir(d)-1 : d[i] # EXFAT_EOD
<1>1. SLOTS \in Nat
  BY ExfatAssumption
<1> DEFINE E == {i \in Slot : d[i] = EXFAT_EOD} \cup {SLOTS}
<1>2. E \subseteq Nat /\ SLOTS \in E
  BY <1>1 DEF Slot
<1>3. PICK n \in E : \A i \in E : n <= i
  BY <1>2, LeastOf
<1>4. n \in 0..SLOTS
  BY <1>1, <1>2, <1>3
<1>5. \A i \in 0..n-1 : i \in Slot /\ d[i] # EXFAT_EOD
  BY <1>1, <1>3, <1>4 DEF Slot
<1>6. n < SLOTS => d[n] = EXFAT_EOD
  BY <1>3, <1>4
<1>7. Used(d) = 0..n-1
  <2>1. ASSUME NEW i \in Used(d) PROVE i \in 0..n-1
    <3>1. i \in 0..SLOTS-1 /\ \A j \in 0..i : d[j] # EXFAT_EOD
      BY DEF Used
    <3>2. ~(n <= i)
      BY <1>1, <1>4, <1>6, <3>1
    <3> QED
      BY <1>1, <1>4, <3>1, <3>2
  <2>2. ASSUME NEW i \in 0..n-1 PROVE i \in Used(d)
    <3>1. i \in 0..SLOTS-1 /\ \A j \in 0..i : j \in 0..n-1
      BY <1>1, <1>4
    <3> QED
      BY <1>5, <3>1 DEF Used
  <2> QED
    BY <2>1, <2>2
<1>8. Cardinality(0..n-1) = n
  <2>1. CASE n = 0
    <3>1. 0..n-1 = {}
      BY <2>1
    <3> QED
      BY <2>1, <3>1, FS_EmptySet
  <2>2. CASE n # 0
    <3>1. n \in Nat /\ n - 1 \in Int /\ ~(0 > n - 1) /\ (n - 1) - 0 + 1 = n
      BY <1>4, <2>2
    <3> QED
      BY <3>1, FS_Interval
  <2> QED
    BY <2>1, <2>2
<1> QED
  BY <1>4, <1>5, <1>6, <1>7, <1>8 DEF EndOfDir

(* The name that the new group gets: that of the call, and what a longer   *)
(* one left behind it.                                                     *)
Named(d) == Overwritten(d[EndOfDir(d) + 2], call.name)

(* The directory with the new group in it.                                 *)
LEMMA CardIs ==
  ASSUME NEW d, CardFits(d)
  PROVE  LET n == EndOfDir(d)
             e == WithCard(d)
         IN  /\ n \in Slot /\ n + 1 \in Slot /\ n + 2 \in Slot /\ d[n] = EXFAT_EOD
             /\ e = [i \in Slot |-> e[i]]
             /\ e[n] = File /\ e[n + 1] = Stream(call.free, 1) /\ e[n + 2] = Name(Named(d))
             /\ n + 3 \in Slot => e[n + 3] = EXFAT_EOD
             /\ \A i \in Slot : i \notin n..n+3 => e[i] = d[i]
<1> DEFINE n == EndOfDir(d)
           g == Group(Named(d), call.free, 1)
           e == WithCard(d)
<1>1. SLOTS \in Nat /\ n \in 0..SLOTS /\ n + 3 <= SLOTS /\ (n < SLOTS => d[n] = EXFAT_EOD)
  BY ExfatAssumption, EndIs DEF CardFits
<1>2. g[1] = File /\ g[2] = Stream(call.free, 1) /\ g[3] = Name(Named(d))
  BY DEF Group
<1>3. e = [i \in Slot |-> IF i \in n..n+2 THEN g[i - n + 1]
                          ELSE IF i = n + 3 THEN EXFAT_EOD ELSE d[i]]
  BY DEF WithCard, Put, Slot, Named
<1> HIDE DEF g, e, n
<1>4. n \in Slot /\ n + 1 \in Slot /\ n + 2 \in Slot /\ d[n] = EXFAT_EOD /\ n \in Int
  BY <1>1 DEF Slot
<1>5. n - n + 1 = 1 /\ (n + 1) - n + 1 = 2 /\ (n + 2) - n + 1 = 3
  BY <1>4
<1>6. e[n] = File /\ e[n + 1] = Stream(call.free, 1) /\ e[n + 2] = Name(Named(d))
  <2>1. n \in n..n+2 /\ n + 1 \in n..n+2 /\ n + 2 \in n..n+2
    BY <1>4
  <2>2. e[n] = g[n - n + 1] /\ e[n + 1] = g[(n + 1) - n + 1] /\ e[n + 2] = g[(n + 2) - n + 1]
    BY <1>3, <1>4, <2>1
  <2> QED
    BY <1>2, <1>5, <2>2
<1>7. n + 3 \in Slot => e[n + 3] = EXFAT_EOD
  BY <1>3, <1>4
<1>8. \A i \in Slot : i \notin n..n+3 => e[i] = d[i]
  BY <1>3, <1>4 DEF Slot
<1>9. e = [i \in Slot |-> e[i]]
  BY <1>3
<1> QED
  BY <1>4, <1>6, <1>7, <1>8, <1>9 DEF n, e

(* A group's members do not reach the end of the directory, so a group is  *)
(* what it was after anything was written from there on that begins with a *)
(* file entry, or not at all.                                              *)
AfterEnd(d, e) ==
  LET n == EndOfDir(d)
  IN  /\ n \in Slot /\ e[n] \in {EXFAT_EOD, File}
      /\ \A i \in 0..n-1 : e[i] = d[i]

LEMMA MembersOf ==
  ASSUME NEW d, NEW h \in Heads(d)
  PROVE  /\ h \in 0..EndOfDir(d)-1 /\ d[h] = File /\ Members(d, h) \subseteq 0..EndOfDir(d)-1
         /\ \A i \in Members(d, h) : i \in Slot /\ h < i
<1>1. /\ SLOTS \in Nat /\ EndOfDir(d) \in 0..SLOTS /\ Used(d) = 0..EndOfDir(d)-1
      /\ EndOfDir(d) < SLOTS => d[EndOfDir(d)] = EXFAT_EOD
  BY ExfatAssumption, EndIs
<1>2. h \in 0..EndOfDir(d)-1 /\ d[h] = File
  BY <1>1 DEF Heads
<1>3. ASSUME NEW i \in Members(d, h)
      PROVE  i \in 0..EndOfDir(d)-1 /\ i \in Slot /\ h < i
  <2>1. i \in h+1..SLOTS-1 /\ \A j \in h+1..i : d[j][1] \in {"stream", "name"}
    BY DEF Members
  <2>2. ~(EndOfDir(d) <= i)
    <3> SUFFICES ASSUME EndOfDir(d) <= i PROVE FALSE
      OBVIOUS
    <3>1. EndOfDir(d) \in h+1..i /\ EndOfDir(d) < SLOTS
      BY <1>1, <1>2, <2>1
    <3> QED
      BY <1>1, <2>1, <3>1, Kinds
  <2> QED
    BY <1>1, <1>2, <2>1, <2>2 DEF Slot
<1> QED
  BY <1>2, <1>3

LEMMA GroupStays ==
  ASSUME NEW d, NEW e, AfterEnd(d, e), NEW h \in Heads(d)
  PROVE  h \in Heads(e) /\ Members(e, h) = Members(d, h) /\ Info(e, h) = Info(d, h)
<1> DEFINE n == EndOfDir(d)
<1>1. /\ SLOTS \in Nat /\ n \in 0..SLOTS-1 /\ e[n] \in {EXFAT_EOD, File}
      /\ \A i \in 0..n-1 : e[i] = d[i] /\ d[i] # EXFAT_EOD
  BY ExfatAssumption, EndIs DEF AfterEnd, Slot
<1>2. h \in 0..n-1 /\ d[h] = File /\ Members(d, h) \subseteq 0..n-1
      /\ \A i \in Members(d, h) : i \in Slot /\ h < i
  BY MembersOf
<1> HIDE DEF n
<1>3. h \in Heads(e)
  <2>1. h \in 0..SLOTS-1 /\ e[h] = File /\ \A j \in 0..h : j \in 0..n-1
    BY <1>1, <1>2
  <2> QED
    BY <1>1, <2>1 DEF Heads, Used
<1>4. Members(e, h) = Members(d, h)
  <2>1. ASSUME NEW i \in Members(d, h) PROVE i \in Members(e, h)
    <3>1. i \in h+1..SLOTS-1 /\ \A j \in h+1..i : d[j][1] \in {"stream", "name"}
      BY DEF Members
    <3>2. \A j \in h+1..i : j \in 0..n-1
      BY <1>1, <1>2, <3>1
    <3>3. \A j \in h+1..i : e[j] = d[j]
      BY <1>1, <3>2
    <3> QED
      BY <3>1, <3>3 DEF Members
  <2>2. ASSUME NEW i \in Members(e, h) PROVE i \in Members(d, h)
    <3>1. i \in h+1..SLOTS-1 /\ \A j \in h+1..i : e[j][1] \in {"stream", "name"}
      BY DEF Members
    <3>2. ~(n <= i)
      <4> SUFFICES ASSUME n <= i PROVE FALSE
        OBVIOUS
      <4>1. n \in h+1..i
        BY <1>1, <1>2, <3>1
      <4> QED
        BY <1>1, <3>1, <4>1, Kinds
    <3>3. \A j \in h+1..i : j \in 0..n-1
      BY <1>1, <1>2, <3>1, <3>2
    <3>4. \A j \in h+1..i : e[j] = d[j]
      BY <1>1, <3>3
    <3> QED
      BY <3>1, <3>4 DEF Members
  <2> QED
    BY <2>1, <2>2
<1>5. Info(e, h) = Info(d, h)
  <2> DEFINE M == Members(d, h)
             S == {i \in M : d[i][1] = "stream"}
  <2>1. \A i \in M : e[i] = d[i]
    BY <1>1, <1>2
  <2>2. {i \in Members(e, h) : e[i][1] = "stream"} = S
    BY <1>4, <2>1
  <2>3. {e[i][2] : i \in Members(e, h) \ S} = {d[i][2] : i \in M \ S}
    BY <1>4, <2>1
  <2>4. S # {} => Max(S) \in S
    <3>1. n \in Nat /\ S \subseteq 0..n
      BY <1>1, <1>2
    <3> QED
      BY <3>1, Greatest
  <2>5. S # {} => e[Max(S)] = d[Max(S)]
    BY <2>1, <2>4
  <2> HIDE DEF S
  <2>6. Info(e, h) = [cluster |-> IF S = {} THEN 0 ELSE e[Max(S)][2],
                      len     |-> IF S = {} THEN 0 ELSE e[Max(S)][3],
                      name    |-> {e[i][2] : i \in Members(e, h) \ S}]
    BY <2>2 DEF Info
  <2>7. Info(d, h) = [cluster |-> IF S = {} THEN 0 ELSE d[Max(S)][2],
                      len     |-> IF S = {} THEN 0 ELSE d[Max(S)][3],
                      name    |-> {d[i][2] : i \in M \ S}]
    BY DEF Info, S
  <2>8. CASE S = {}
    BY <2>3, <2>6, <2>7, <2>8, Zenon
  <2>9. CASE S # {}
    <3>1. e[Max(S)] = d[Max(S)]
      BY <2>5, <2>9
    <3>2. Info(e, h) = [cluster |-> e[Max(S)][2], len |-> e[Max(S)][3],
                        name |-> {e[i][2] : i \in Members(e, h) \ S}]
      BY <2>6, <2>9, Zenon
    <3>3. Info(d, h) = [cluster |-> d[Max(S)][2], len |-> d[Max(S)][3],
                        name |-> {d[i][2] : i \in M \ S}]
      BY <2>7, <2>9, Zenon
    <3>4. e[Max(S)][2] = d[Max(S)][2] /\ e[Max(S)][3] = d[Max(S)][3]
      BY <3>1
    <3> QED
      BY <2>3, <3>2, <3>3, <3>4, Zenon
  <2> QED
    BY <2>8, <2>9
<1> QED
  BY <1>3, <1>4, <1>5

(* What is new is behind what was there.                                   *)
LEMMA NewGroupBehind ==
  ASSUME NEW d, NEW e, AfterEnd(d, e), NEW h \in Heads(e), h \notin Heads(d)
  PROVE  EndOfDir(d) <= h
<1> SUFFICES ASSUME h < EndOfDir(d) PROVE FALSE
  <2>1. EndOfDir(d) \in Int /\ h \in Int
    BY EndIs, ExfatAssumption DEF Heads, Used
  <2> QED
    BY <2>1
<1>1. /\ SLOTS \in Nat /\ EndOfDir(d) \in 0..SLOTS /\ Used(d) = 0..EndOfDir(d)-1
      /\ \A i \in 0..EndOfDir(d)-1 : e[i] = d[i]
  BY ExfatAssumption, EndIs DEF AfterEnd
<1>2. h \in 0..EndOfDir(d)-1 /\ e[h] = File
  BY <1>1 DEF Heads, Used
<1> QED
  BY <1>1, <1>2 DEF Heads

(* A group that was looked at is looked at; the new one at the end is when *)
(* there are not yet INFOS before it.                                      *)
LEMMA InfosStay ==
  ASSUME NEW d, NEW e, AfterEnd(d, e)
  PROVE  /\ Infos(d) \subseteq Infos(e) /\ Infos(e) \cap Heads(d) \subseteq Infos(d)
         /\ EndOfDir(d) \in Heads(e) /\ Cardinality(Heads(d)) < INFOS
              => EndOfDir(d) \in Infos(e)
<1> DEFINE Ahead(a, h) == {g \in Heads(a) : g < h}
           n == EndOfDir(d)
<1>1. /\ Heads(d) \subseteq Nat /\ Heads(e) \subseteq Nat /\ n \in Nat
      /\ Heads(d) \subseteq Heads(e) /\ \A h \in Heads(d) : h < n
      /\ \A g \in Heads(e) : g \notin Heads(d) => n <= g
  <2>1. Heads(d) \subseteq Nat /\ Heads(e) \subseteq Nat /\ n \in Nat
    BY EndIs, ExfatAssumption DEF Heads, Used
  <2>2. \A h \in Heads(d) : h \in 0..n-1
    BY MembersOf
  <2>3. \A h \in Heads(d) : h < n
    BY <2>1, <2>2
  <2>4. Heads(d) \subseteq Heads(e)
    BY GroupStays
  <2> QED
    BY <2>1, <2>3, <2>4, NewGroupBehind
<1> HIDE DEF n
<1>2. \A h \in Heads(d) : Ahead(e, h) = Ahead(d, h)
  BY <1>1
<1>3. Ahead(e, n) = Heads(d)
  BY <1>1
<1>4. \A a : Infos(a) = {h \in Heads(a) : Cardinality(Ahead(a, h)) < INFOS}
  BY DEF Infos
<1> HIDE DEF Ahead
<1>5. Infos(d) \subseteq Infos(e) /\ Infos(e) \cap Heads(d) \subseteq Infos(d)
  BY <1>1, <1>2, <1>4
<1>6. n \in Heads(e) => (n \in Infos(e) <=> Cardinality(Heads(d)) < INFOS)
  BY <1>3, <1>4
<1> QED
  BY <1>5, <1>6 DEF n

-----------------------------------------------------------------------------
(* What the groups of a directory have on the disk.                        *)
LEMMA GroupHas ==
  ASSUME DiskInv, NEW h \in Heads(dir)
  PROVE  LET fi == Info(dir, h)
         IN  \/ fi.cluster = 0 /\ fi.len = 0
             \/ \E s \in Members(dir, h) :
                  /\ IsStream(dir[s]) /\ fi.cluster = dir[s][2] /\ fi.len = dir[s][3]
                  /\ \/ dir[s] = OldStream
                     \/ \E c \in bits \cap Free : dir[s] = Stream(c, 1)
<1> DEFINE M == Members(dir, h)
           S == {i \in M : dir[i][1] = "stream"}
           fi == Info(dir, h)
<1>1. M \subseteq 0..EndOfDir(dir)-1 /\ \A i \in M : i \in Slot
  BY MembersOf
<1>2. EndOfDir(dir) \in Nat
  BY EndIs, ExfatAssumption
<1>3. S # {} => Max(S) \in S
  <2>1. S \subseteq 0..EndOfDir(dir)
    BY <1>1, <1>2
  <2> QED
    BY <1>2, <2>1, Greatest
<1>4. /\ fi.cluster = IF S = {} THEN 0 ELSE dir[Max(S)][2]
      /\ fi.len = IF S = {} THEN 0 ELSE dir[Max(S)][3]
  BY DEF Info
<1>5. CASE S = {}
  BY <1>4, <1>5
<1>6. CASE S # {}
  <2>1. Max(S) \in M /\ IsStream(dir[Max(S)]) /\ Max(S) \in Slot
    BY <1>1, <1>3, <1>6 DEF IsStream
  <2>2. fi.cluster = dir[Max(S)][2] /\ fi.len = dir[Max(S)][3]
    BY <1>4, <1>6
  <2>3. \/ dir[Max(S)] = OldStream
        \/ \E c \in bits \cap Free : dir[Max(S)] = Stream(c, 1)
    BY <2>1 DEF DiskInv, StreamsIn
  <2> QED
    BY <2>1, <2>2, <2>3
<1> QED
  BY <1>5, <1>6

(* The clusters of the two kinds of files.                                 *)
LEMMA ClustersOfOne == ASSUME NEW c PROVE {Chain(c, 1)[k] : k \in 1..1} = {c}
<1>1. 1..1 = {1}
  OBVIOUS
<1> QED
  BY <1>1, ChainOfOne

LEMMA ClustersOfOld == {Chain(OLD[1], Len(OLD))[k] : k \in 1..Len(OLD)} = OldClusters
BY ChainOfOld DEF OldClusters

LEMMA OfFileIs ==
  ASSUME DiskInv, NEW h \in Heads(dir)
  PROVE  \/ OfFile(h) = {}
         \/ \E s \in Members(dir, h) :
              /\ IsStream(dir[s])
              /\ \/ dir[s] = OldStream /\ OfFile(h) = OldClusters
                 \/ \E c \in bits \cap Free : dir[s] = Stream(c, 1) /\ OfFile(h) = {c}
<1> DEFINE fi == Info(dir, h)
<1>1. OfFile(h) = {Chain(fi.cluster, fi.len)[k] : k \in 1..fi.len}
  BY DEF OfFile
<1>2. CASE fi.cluster = 0 /\ fi.len = 0
  <2>1. 1..fi.len = {}
    BY <1>2
  <2> QED
    BY <1>1, <2>1
<1>3. ASSUME NEW s \in Members(dir, h), IsStream(dir[s]),
             fi.cluster = dir[s][2], fi.len = dir[s][3], dir[s] = OldStream
      PROVE  OfFile(h) = OldClusters
  <2>1. fi.cluster = OLD[1] /\ fi.len = Len(OLD)
    BY <1>3, Kinds DEF OldStream
  <2> QED
    BY <1>1, <2>1, ClustersOfOld
<1>4. ASSUME NEW s \in Members(dir, h), IsStream(dir[s]),
             fi.cluster = dir[s][2], fi.len = dir[s][3],
             NEW c \in bits \cap Free, dir[s] = Stream(c, 1)
      PROVE  OfFile(h) = {c}
  <2>1. fi.cluster = c /\ fi.len = 1
    BY <1>4, Kinds
  <2> QED
    BY <1>1, <2>1, ClustersOfOne
<1> HIDE DEF fi
<1> QED
  BY <1>2, <1>3, <1>4, GroupHas DEF fi

(* No entry belongs to two groups.                                         *)
LEMMA MembersApart ==
  ASSUME NEW h \in Heads(dir), NEW g \in Heads(dir), h # g
  PROVE  Members(dir, h) \cap Members(dir, g) = {}
<1>1. ASSUME NEW x \in Heads(dir), NEW y \in Heads(dir), x < y,
             NEW i \in Members(dir, x), i \in Members(dir, y)
      PROVE  FALSE
  <2>1. /\ i \in x+1..SLOTS-1 /\ \A j \in x+1..i : dir[j][1] \in {"stream", "name"}
        /\ i \in y+1..SLOTS-1 /\ x \in 0..SLOTS-1 /\ y \in 0..SLOTS-1 /\ dir[y] = File
    BY <1>1 DEF Members, Heads, Used
  <2>2. y \in x+1..i
    BY <1>1, <2>1, ExfatAssumption
  <2> QED
    BY <2>1, <2>2, Kinds
<1>2. h \in Int /\ g \in Int
  BY ExfatAssumption DEF Heads, Used
<1>3. h < g \/ g < h
  BY <1>2
<1> QED
  BY <1>1, <1>3

LEMMA Backing == DiskInv => EntriesBacked
<1> SUFFICES ASSUME DiskInv PROVE EntriesBacked
  OBVIOUS
<1>1. System \cup OldClusters \subseteq bits /\ OneEach(dir)
      /\ System \cap OldClusters = {} /\ Free \cap (System \cup OldClusters) = {}
  BY ExfatAssumption DEF DiskInv, Free
<1>2. ASSUME NEW h \in Heads(dir) PROVE OfFile(h) \subseteq bits /\ OfFile(h) \cap System = {}
  BY <1>1, OfFileIs
<1>3. ASSUME NEW h \in Heads(dir), NEW g \in Heads(dir), h # g
      PROVE  OfFile(h) \cap OfFile(g) = {}
  <2>1. CASE OfFile(h) = {} \/ OfFile(g) = {}
    BY <2>1
  <2>2. CASE ~(OfFile(h) = {} \/ OfFile(g) = {})
    <3>1. PICK s \in Members(dir, h) :
            /\ IsStream(dir[s])
            /\ \/ dir[s] = OldStream /\ OfFile(h) = OldClusters
               \/ \E c \in bits \cap Free : dir[s] = Stream(c, 1) /\ OfFile(h) = {c}
      BY <2>2, OfFileIs
    <3>2. PICK t \in Members(dir, g) :
            /\ IsStream(dir[t])
            /\ \/ dir[t] = OldStream /\ OfFile(g) = OldClusters
               \/ \E c \in bits \cap Free : dir[t] = Stream(c, 1) /\ OfFile(g) = {c}
      BY <2>2, OfFileIs
    <3>3. s # t /\ s \in Slot /\ t \in Slot
      BY <1>3, MembersApart, MembersOf
    <3>4. dir[s][2] # dir[t][2]
      BY <1>1, <3>1, <3>2, <3>3 DEF OneEach
    <3>5. CASE dir[s] = OldStream /\ OfFile(h) = OldClusters
      <4>1. dir[t] # OldStream
        BY <3>4, <3>5
      <4> QED
        BY <1>1, <3>2, <3>5, <4>1
    <3>6. ASSUME NEW c \in bits \cap Free, dir[s] = Stream(c, 1), OfFile(h) = {c}
          PROVE  OfFile(h) \cap OfFile(g) = {}
      <4>1. CASE OfFile(g) = OldClusters
        BY <1>1, <3>6, <4>1
      <4>2. ASSUME NEW b \in bits \cap Free, dir[t] = Stream(b, 1), OfFile(g) = {b}
            PROVE  OfFile(h) \cap OfFile(g) = {}
        <5>1. b # c
          BY <3>4, <3>6, <4>2, Kinds
        <5> QED
          BY <3>6, <4>2, <5>1
      <4> QED
        BY <3>2, <4>1, <4>2
    <3> QED
      BY <3>1, <3>5, <3>6
  <2> QED
    BY <2>1, <2>2
<1> QED
  BY <1>1, <1>2, <1>3 DEF EntriesBacked, InUse

-----------------------------------------------------------------------------
(* What is found and read, of any directory and any data.                  *)
FoundIn(d, nm) == {h \in Infos(d) : Info(d, h).name = {nm}}
ReadIn(dt, c, len) ==
  IF \A k \in 1..len : Chain(c, len)[k] \in Clusters
    THEN [k \in 1..len |-> dt[Chain(c, len)[k]]] ELSE None
LookupIn(d, dt, nm) ==
  IF FoundIn(d, nm) = {} THEN None
  ELSE ReadIn(dt, Info(d, Min(FoundIn(d, nm))).cluster, Info(d, Min(FoundIn(d, nm))).len)

LEMMA LookupIs == \A nm : Lookup(nm) = LookupIn(dir, data, nm) /\ Found(nm) = FoundIn(dir, nm)
BY DEF Lookup, Found, LookupIn, FoundIn, exfat_read_file, ReadIn

(* A file of one cluster reads as the text in it.                          *)
LEMMA ReadOne ==
  ASSUME NEW dt, NEW c \in Clusters PROVE ReadIn(dt, c, 1) = <<dt[c]>>
<1>1. \A k \in 1..1 : k = 1 /\ Chain(c, 1)[k] = c
  BY ChainOfOne
<1>2. ReadIn(dt, c, 1) = [k \in 1..1 |-> dt[Chain(c, 1)[k]]]
  BY <1>1 DEF ReadIn
<1>3. [k \in 1..1 |-> dt[Chain(c, 1)[k]]] = [k \in 1..1 |-> dt[c]]
  BY <1>1
<1>4. [k \in 1..1 |-> dt[c]] = <<dt[c]>>
  OBVIOUS
<1> QED
  BY <1>2, <1>3, <1>4

(* What is read does not depend on clusters that nobody has.               *)
LEMMA SameRead ==
  ASSUME DiskInv, NEW dt, \A c \in bits : dt[c] = data[c], NEW h \in Heads(dir)
  PROVE  ReadIn(dt, Info(dir, h).cluster, Info(dir, h).len)
           = ReadIn(data, Info(dir, h).cluster, Info(dir, h).len)
<1> DEFINE c == Info(dir, h).cluster
           len == Info(dir, h).len
<1>1. OfFile(h) = {Chain(c, len)[k] : k \in 1..len}
  BY DEF OfFile
<1>2. OfFile(h) \subseteq bits
  BY Backing DEF EntriesBacked, InUse
<1> HIDE DEF c, len
<1>3. \A k \in 1..len : dt[Chain(c, len)[k]] = data[Chain(c, len)[k]]
  BY <1>1, <1>2
<1>4. [k \in 1..len |-> dt[Chain(c, len)[k]]] = [k \in 1..len |-> data[Chain(c, len)[k]]]
  BY <1>3
<1>5. ReadIn(dt, c, len) = ReadIn(data, c, len)
  BY <1>4 DEF ReadIn
<1> QED
  BY <1>5 DEF c, len

(* The heads of a directory are slots.                                     *)
LEMMA HeadsAre == ASSUME NEW d PROVE Heads(d) \subseteq Nat
BY ExfatAssumption DEF Heads, Used

(* A file that was found is found, and is what it was, after a write that  *)
(* begins at the end of the directory.                                     *)
LEMMA SameFound ==
  ASSUME NEW d, NEW e, AfterEnd(d, e), NEW nm, FoundIn(d, nm) # {}
  PROVE  /\ FoundIn(e, nm) # {} /\ Min(FoundIn(e, nm)) = Min(FoundIn(d, nm))
         /\ Min(FoundIn(d, nm)) \in Heads(d)
<1> DEFINE F == FoundIn(d, nm)
           G == FoundIn(e, nm)
<1>1. F \subseteq Heads(d) /\ F \subseteq Nat /\ G \subseteq Nat
  BY HeadsAre DEF FoundIn, Infos
<1>2. F \subseteq G
  <2>1. ASSUME NEW h \in F PROVE h \in G
    <3>1. h \in Infos(e) /\ Info(d, h).name = {nm}
      BY InfosStay DEF FoundIn
    <3>2. Info(e, h) = Info(d, h)
      BY <1>1, GroupStays
    <3> QED
      BY <3>1, <3>2 DEF FoundIn
  <2> QED
    BY <2>1
<1>3. ASSUME NEW g \in G, g \notin F PROVE EndOfDir(d) <= g
  <2>1. g \in Heads(e) /\ g \in Infos(e) /\ Info(e, g).name = {nm}
    BY DEF FoundIn, Infos
  <2>2. g \notin Heads(d)
    <3> SUFFICES ASSUME g \in Heads(d) PROVE FALSE
      OBVIOUS
    <3>1. Info(d, g).name = {nm} /\ g \in Infos(d)
      BY <2>1, GroupStays, InfosStay
    <3> QED
      BY <1>3, <3>1 DEF FoundIn
  <2> QED
    BY <2>1, <2>2, NewGroupBehind
<1>4. Min(F) \in F /\ \A y \in F : Min(F) <= y
  BY <1>1, Least
<1>5. Min(G) \in G /\ \A y \in G : Min(G) <= y
  BY <1>1, <1>2, Least
<1>6. Min(F) < EndOfDir(d) /\ EndOfDir(d) \in Nat /\ Min(F) \in Nat /\ Min(G) \in Nat
  <2>1. Min(F) \in 0..EndOfDir(d)-1
    BY <1>1, <1>4, MembersOf
  <2>2. EndOfDir(d) \in Nat
    BY EndIs, ExfatAssumption
  <2> QED
    BY <1>1, <1>5, <2>1, <2>2
<1>7. Min(G) <= Min(F)
  BY <1>2, <1>4, <1>5
<1>8. Min(G) \in F
  BY <1>3, <1>5, <1>6, <1>7
<1>9. Min(F) <= Min(G)
  BY <1>4, <1>8
<1> QED
  BY <1>1, <1>2, <1>4, <1>6, <1>7, <1>9

LEMMA SameFile ==
  ASSUME DiskInv, NEW e, e = dir \/ AfterEnd(dir, e), NEW dt, \A c \in bits : dt[c] = data[c],
         NEW nm, FoundIn(dir, nm) # {}
  PROVE  LookupIn(e, dt, nm) = LookupIn(dir, data, nm)
<1> DEFINE m == Min(FoundIn(dir, nm))
<1>1. m \in Heads(dir)
  <2>1. FoundIn(dir, nm) \subseteq Nat
    BY HeadsAre DEF FoundIn, Infos
  <2>2. m \in FoundIn(dir, nm)
    BY <2>1, Least
  <2> QED
    BY <2>2 DEF FoundIn, Infos
<1>2. FoundIn(e, nm) # {} /\ Min(FoundIn(e, nm)) = m
  BY SameFound
<1>3. Info(e, m) = Info(dir, m)
  BY <1>1, GroupStays
<1>4. ReadIn(dt, Info(dir, m).cluster, Info(dir, m).len)
        = ReadIn(data, Info(dir, m).cluster, Info(dir, m).len)
  BY <1>1, SameRead
<1>5. LookupIn(e, dt, nm) = ReadIn(dt, Info(dir, m).cluster, Info(dir, m).len)
  BY <1>2, <1>3 DEF LookupIn
<1>6. LookupIn(dir, data, nm) = ReadIn(data, Info(dir, m).cluster, Info(dir, m).len)
  BY DEF LookupIn
<1> QED
  BY <1>4, <1>5, <1>6

(* The new group, when it was written whole.                               *)
LEMMA NewGroup ==
  ASSUME CardFits(dir), NEW dt
  PROVE  LET n == EndOfDir(dir)
             e == WithCard(dir)
         IN  /\ AfterEnd(dir, e) /\ n \in Heads(e)
             /\ Info(e, n) = [cluster |-> call.free, len |-> 1, name |-> {Named(dir)}]
<1> DEFINE n == EndOfDir(dir)
           e == WithCard(dir)
<1>1. /\ n \in Slot /\ n + 1 \in Slot /\ n + 2 \in Slot /\ dir[n] = EXFAT_EOD
      /\ e[n] = File /\ e[n + 1] = Stream(call.free, 1) /\ e[n + 2] = Name(Named(dir))
      /\ n + 3 \in Slot => e[n + 3] = EXFAT_EOD
      /\ \A i \in Slot : i \notin n..n+3 => e[i] = dir[i]
  BY CardIs
<1>2. n \in Nat /\ SLOTS \in Nat /\ \A i \in 0..n-1 : dir[i] # EXFAT_EOD
  BY EndIs, ExfatAssumption
<1> HIDE DEF n, e
<1>3. n < SLOTS /\ n + 1 < SLOTS /\ n + 2 < SLOTS
  BY <1>1, <1>2 DEF Slot
<1>4. \A i \in 0..n-1 : e[i] = dir[i]
  BY <1>1, <1>2, <1>3 DEF Slot
<1>5. AfterEnd(dir, e)
  BY <1>1, <1>4 DEF AfterEnd, n
<1>6. n \in Heads(e)
  <2>1. \A j \in 0..n : e[j] # EXFAT_EOD
    <3>1. \A j \in 0..n : j = n \/ j \in 0..n-1
      BY <1>2
    <3> QED
      BY <1>1, <1>2, <1>4, <3>1, Kinds
  <2> QED
    BY <1>1, <2>1 DEF Heads, Used, Slot
<1>7. Members(e, n) = {n + 1, n + 2}
  <2>1. ASSUME NEW i \in Members(e, n) PROVE i \in {n + 1, n + 2}
    <3>1. i \in n+1..SLOTS-1 /\ \A j \in n+1..i : e[j][1] \in {"stream", "name"}
      BY DEF Members
    <3>2. ~(n + 3 <= i)
      <4> SUFFICES ASSUME n + 3 <= i PROVE FALSE
        OBVIOUS
      <4>1. n + 3 \in n+1..i /\ n + 3 \in Slot
        BY <1>2, <3>1 DEF Slot
      <4> QED
        BY <1>1, <3>1, <4>1, Kinds
    <3> QED
      BY <1>2, <3>1, <3>2
  <2>2. n + 1 \in Members(e, n)
    <3>1. n + 1 \in n+1..SLOTS-1 /\ \A j \in n+1..n+1 : j = n + 1
      BY <1>2, <1>3
    <3>2. e[n + 1][1] = "stream"
      BY <1>1, Kinds DEF IsStream
    <3> QED
      BY <3>1, <3>2 DEF Members
  <2>3. n + 2 \in Members(e, n)
    <3>1. n + 2 \in n+1..SLOTS-1 /\ \A j \in n+1..n+2 : j = n + 1 \/ j = n + 2
      BY <1>2, <1>3
    <3>2. e[n + 1][1] = "stream" /\ e[n + 2][1] = "name"
      BY <1>1, Kinds DEF IsStream
    <3> QED
      BY <3>1, <3>2 DEF Members
  <2> QED
    BY <2>1, <2>2, <2>3
<1>8. Info(e, n) = [cluster |-> call.free, len |-> 1, name |-> {Named(dir)}]
  <2> DEFINE S == {i \in Members(e, n) : e[i][1] = "stream"}
  <2>1. e[n + 1][1] = "stream" /\ e[n + 2][1] = "name" /\ e[n + 2][2] = Named(dir)
        /\ e[n + 1][2] = call.free /\ e[n + 1][3] = 1 /\ n + 1 # n + 2
    BY <1>1, <1>2, Kinds DEF IsStream
  <2>2. S = {n + 1}
    BY <1>7, <2>1
  <2>3. Max(S) = n + 1
    BY <1>2, <2>2 DEF Max
  <2>4. Members(e, n) \ S = {n + 2}
    BY <1>7, <2>1, <2>2
  <2>5. {e[i][2] : i \in Members(e, n) \ S} = {Named(dir)}
    BY <2>1, <2>4
  <2> HIDE DEF S
  <2>6. Info(e, n) = [cluster |-> IF S = {} THEN 0 ELSE e[Max(S)][2],
                      len     |-> IF S = {} THEN 0 ELSE e[Max(S)][3],
                      name    |-> {e[i][2] : i \in Members(e, n) \ S}]
    BY DEF Info, S
  <2>7. S # {}
    BY <2>2
  <2>8. Info(e, n) = [cluster |-> e[Max(S)][2], len |-> e[Max(S)][3],
                      name    |-> {e[i][2] : i \in Members(e, n) \ S}]
    BY <2>6, <2>7, Zenon
  <2> QED
    BY <2>1, <2>3, <2>5, <2>8
<1> QED
  BY <1>5, <1>6, <1>8 DEF n, e

LEMMA NewFile ==
  ASSUME CardFits(dir), Findable(dir), call.free \in Clusters,
         FoundIn(dir, call.name) = {}, NEW dt
  PROVE  LookupIn(WithCard(dir), dt, call.name) = <<dt[call.free]>>
<1> DEFINE n == EndOfDir(dir)
           e == WithCard(dir)
           G == FoundIn(e, call.name)
<1>1. /\ AfterEnd(dir, e) /\ n \in Heads(e)
      /\ Info(e, n) = [cluster |-> call.free, len |-> 1, name |-> {call.name}]
  BY NewGroup DEF Findable, Named
<1>2. n \in Nat
  BY EndIs, ExfatAssumption
<1>3. n \in G /\ G \subseteq Nat
  <2>1. n \in Infos(e)
    BY <1>1, InfosStay DEF Findable
  <2> QED
    BY <1>1, <2>1, HeadsAre DEF FoundIn, Infos
<1>4. \A g \in G : n <= g
  <2> TAKE g \in G
  <2>1. g \in Heads(e) /\ g \in Infos(e) /\ Info(e, g).name = {call.name}
    BY DEF FoundIn, Infos
  <2>2. g \notin Heads(dir)
    <3> SUFFICES ASSUME g \in Heads(dir) PROVE FALSE
      OBVIOUS
    <3>1. Info(dir, g).name = {call.name} /\ g \in Infos(dir)
      BY <1>1, <2>1, GroupStays, InfosStay
    <3> QED
      BY <3>1 DEF FoundIn
  <2> QED
    BY <1>1, <2>1, <2>2, NewGroupBehind
<1>5. Min(G) = n
  BY <1>2, <1>3, <1>4 DEF Min
<1>6. Info(e, n).cluster = call.free /\ Info(e, n).len = 1
  BY <1>1
<1> HIDE DEF n, e, G
<1>7. LookupIn(e, dt, call.name) = ReadIn(dt, Info(e, n).cluster, Info(e, n).len)
  BY <1>3, <1>5 DEF LookupIn, G
<1> QED
  BY <1>6, <1>7, ReadOne DEF e

-----------------------------------------------------------------------------
(* A mounted volume: its label, bitmap and upcase table, and one file.     *)
LEMMA VolDisk ==
  ASSUME VolInit
  PROVE  /\ SLOTS \in Nat /\ SLOTS >= 6 /\ bits = System \cup OldClusters /\ call = Idle
         /\ dir = [i \in Slot |-> dir[i]] /\ {0, 1, 2, 3, 4, 5} \subseteq Slot
         /\ dir[0] = Other /\ dir[1] = Other /\ dir[2] = Other
         /\ dir[3] = File /\ dir[4] = OldStream /\ dir[5] = Name(OldName)
         /\ \A i \in Slot : i > 5 => dir[i] = EXFAT_EOD
         /\ \A i \in Slot : i = 0 \/ i = 1 \/ i = 2 \/ i = 3 \/ i = 4 \/ i = 5 \/ i > 5
         /\ \A i \in Slot : IsStream(dir[i]) => i = 4
<1> DEFINE d == [i \in 0..SLOTS-1 |-> IF i < 3 THEN Other ELSE EXFAT_EOD]
           g == Group(OldName, OLD[1], Len(OLD))
<1>1. /\ SLOTS \in Nat /\ SLOTS >= 6 /\ bits = System \cup OldClusters
      /\ dir = Put(d, 3, g) /\ call = Idle
  BY ExfatAssumption DEF VolInit
<1>2. g[1] = File /\ g[2] = OldStream /\ g[3] = Name(OldName)
  BY DEF Group, OldStream
<1>3. dir = [i \in Slot |-> IF i \in 3..5 THEN g[i - 2] ELSE IF i = 6 THEN EXFAT_EOD ELSE d[i]]
  BY <1>1 DEF Put, Slot
<1> HIDE DEF g
<1>4. dir = [i \in Slot |-> dir[i]]
  BY <1>3
<1>5. /\ {0, 1, 2, 3, 4, 5} \subseteq Slot
      /\ dir[0] = Other /\ dir[1] = Other /\ dir[2] = Other
      /\ dir[3] = File /\ dir[4] = OldStream /\ dir[5] = Name(OldName)
      /\ \A i \in Slot : i > 5 => dir[i] = EXFAT_EOD
  BY <1>1, <1>2, <1>3 DEF Slot
<1>6. \A i \in Slot : i = 0 \/ i = 1 \/ i = 2 \/ i = 3 \/ i = 4 \/ i = 5 \/ i > 5
  BY <1>1 DEF Slot
<1>7. \A i \in Slot : IsStream(dir[i]) => i = 4
  BY <1>5, <1>6, Kinds
<1> QED
  BY <1>1, <1>4, <1>5, <1>6, <1>7

(* The file that is there is the one that is listed, and is read in the    *)
(* order of its chain.                                                     *)
LEMMA OldListed ==
  ASSUME VolInit
  PROVE  /\ \A nm : FoundIn(dir, nm) = IF nm = OldName THEN {3} ELSE {}
         /\ LookupIn(dir, data, OldName) = [k \in 1..Len(OLD) |-> data[OLD[k]]]
<1>1. Heads(dir) = {3}
  <2>1. \A i \in Slot : dir[i] = File => i = 3
    BY VolDisk, Kinds DEF OldStream
  <2>2. \A j \in 0..3 : dir[j] # EXFAT_EOD
    <3>1. \A j \in 0..3 : j = 0 \/ j = 1 \/ j = 2 \/ j = 3
      OBVIOUS
    <3> QED
      BY VolDisk, <3>1, Kinds
  <2>3. 3 \in Used(dir)
    BY VolDisk, <2>2 DEF Used, Slot
  <2> QED
    BY VolDisk, <2>1, <2>3 DEF Heads, Used, Slot
<1>2. Members(dir, 3) = {4, 5}
  <2>1. ASSUME NEW i \in Members(dir, 3) PROVE i \in {4, 5}
    <3>1. i \in 4..SLOTS-1 /\ \A j \in 4..i : dir[j][1] \in {"stream", "name"}
      BY DEF Members
    <3>2. ~(6 <= i)
      <4> SUFFICES ASSUME 6 <= i PROVE FALSE
        OBVIOUS
      <4>1. 6 \in 4..i /\ 6 \in Slot
        BY VolDisk, <3>1 DEF Slot
      <4>2. dir[6] = EXFAT_EOD
        BY VolDisk, <4>1
      <4> QED
        BY <3>1, <4>1, <4>2, Kinds
    <3> QED
      BY VolDisk, <3>1, <3>2
  <2>2. dir[4][1] = "stream" /\ dir[5][1] = "name"
    BY VolDisk, Kinds DEF OldStream, IsStream
  <2>3. 4 \in Members(dir, 3) /\ 5 \in Members(dir, 3)
    <3>1. \A j \in 4..4 : j = 4
      OBVIOUS
    <3>2. \A j \in 4..5 : j = 4 \/ j = 5
      OBVIOUS
    <3>3. 4 \in 3+1..SLOTS-1 /\ 5 \in 3+1..SLOTS-1 /\ 3 + 1 = 4
      BY VolDisk
    <3> QED
      BY <2>2, <3>1, <3>2, <3>3 DEF Members
  <2> QED
    BY <2>1, <2>3
<1>3. Info(dir, 3) = [cluster |-> OLD[1], len |-> Len(OLD), name |-> {OldName}]
  <2> DEFINE S == {i \in Members(dir, 3) : dir[i][1] = "stream"}
  <2>1. dir[4][1] = "stream" /\ dir[5][1] = "name" /\ dir[5][2] = OldName
        /\ dir[4][2] = OLD[1] /\ dir[4][3] = Len(OLD)
    BY VolDisk, Kinds DEF OldStream, IsStream
  <2>2. S = {4}
    BY <1>2, <2>1
  <2>3. Max(S) = 4
    BY <2>2 DEF Max
  <2>4. Members(dir, 3) \ S = {5}
    BY <1>2, <2>2
  <2>5. {dir[i][2] : i \in Members(dir, 3) \ S} = {OldName}
    BY <2>1, <2>4
  <2> HIDE DEF S
  <2>6. Info(dir, 3) = [cluster |-> IF S = {} THEN 0 ELSE dir[Max(S)][2],
                        len     |-> IF S = {} THEN 0 ELSE dir[Max(S)][3],
                        name    |-> {dir[i][2] : i \in Members(dir, 3) \ S}]
    BY DEF Info, S
  <2>7. S # {}
    BY <2>2
  <2>8. Info(dir, 3) = [cluster |-> dir[Max(S)][2], len |-> dir[Max(S)][3],
                        name    |-> {dir[i][2] : i \in Members(dir, 3) \ S}]
    BY <2>6, <2>7, Zenon
  <2> QED
    BY <2>1, <2>3, <2>5, <2>8
<1>4. \A nm : FoundIn(dir, nm) = IF nm = OldName THEN {3} ELSE {}
  <2>1. {g \in Heads(dir) : g < 3} = {}
    BY <1>1
  <2>2. Cardinality({g \in Heads(dir) : g < 3}) < INFOS
    <3>1. Cardinality({g \in Heads(dir) : g < 3}) = 0
      BY <2>1, FS_EmptySet
    <3> QED
      BY <3>1, EntriesAssumption
  <2>3. Infos(dir) = {3}
    BY <1>1, <2>2 DEF Infos
  <2> QED
    BY <1>3, <2>3 DEF FoundIn
<1>5. Min({3}) = 3
  BY DEF Min
<1>6. Info(dir, 3).cluster = OLD[1] /\ Info(dir, 3).len = Len(OLD)
  BY <1>3
<1>7. LookupIn(dir, data, OldName) = ReadIn(data, OLD[1], Len(OLD))
  BY <1>4, <1>5, <1>6 DEF LookupIn
<1>8. ReadIn(data, OLD[1], Len(OLD)) = [k \in 1..Len(OLD) |-> data[OLD[k]]]
  <2>1. \A k \in 1..Len(OLD) : Chain(OLD[1], Len(OLD))[k] = OLD[k] /\ OLD[k] \in Clusters
    BY ChainOfOld, ExfatAssumption
  <2>2. ReadIn(data, OLD[1], Len(OLD))
          = [k \in 1..Len(OLD) |-> data[Chain(OLD[1], Len(OLD))[k]]]
    BY <2>1 DEF ReadIn
  <2> QED
    BY <2>1, <2>2
<1> QED
  BY <1>4, <1>7, <1>8

LEMMA VolStart == VolInit => VolInv
<1> SUFFICES ASSUME VolInit PROVE VolInv
  OBVIOUS
<1>1. DiskInv
  <2>1. StreamsIn(dir, bits) /\ OneEach(dir)
    BY VolDisk DEF StreamsIn, OneEach
  <2>2. data \in [Clusters -> Texts \cup {Junk}] /\ kept = [nm \in Names |-> kept[nm]]
    BY DEF VolInit
  <2> QED
    BY VolDisk, ExfatAssumption, <2>1, <2>2 DEF DiskInv
<1>2. FilesKept
  <2> SUFFICES ASSUME NEW nm \in Names, kept[nm] # None PROVE Lookup(nm) = kept[nm]
    BY DEF FilesKept
  <2>1. nm = OldName /\ kept[nm] = [k \in 1..Len(OLD) |-> data[OLD[k]]]
    BY DEF VolInit
  <2> QED
    BY <2>1, OldListed, LookupIs
<1> QED
  BY VolDisk, <1>1, <1>2 DEF VolInv, CallInv

(* No entry has a cluster whose bit is clear.                              *)
LEMMA NobodyHas ==
  ASSUME DiskInv, NEW c \in Clusters \ bits PROVE c \in Free /\ Without(dir, c)
<1>1. System \cup OldClusters \subseteq bits /\ StreamsIn(dir, bits)
  BY DEF DiskInv
<1>2. c \in Free
  BY <1>1 DEF Free
<1>3. OLD[1] \in bits
  BY <1>1, ChainOfOld
<1>4. \A i \in Slot : IsStream(dir[i]) => dir[i][2] \in bits
  BY <1>1, <1>3, Kinds DEF StreamsIn, OldStream
<1> QED
  BY <1>2, <1>4 DEF Without

(* What a step leaves of the files that are kept.                          *)
LEMMA FilesStay ==
  ASSUME DiskInv, FilesKept, dir' = dir \/ AfterEnd(dir, dir'), \A c \in bits : data'[c] = data[c],
         NEW nm \in Names, kept[nm] # None
  PROVE  Lookup(nm)' = kept[nm]
<1>1. LookupIn(dir, data, nm) = kept[nm]
  BY LookupIs DEF FilesKept
<1>2. FoundIn(dir, nm) # {}
  BY <1>1 DEF LookupIn
<1>3. LookupIn(dir', data', nm) = LookupIn(dir, data, nm)
  BY <1>2, SameFile
<1>4. Lookup(nm)' = LookupIn(dir', data', nm)
  BY DEF Lookup, Found, LookupIn, FoundIn, exfat_read_file, ReadIn
<1> QED
  BY <1>1, <1>3, <1>4

(* The directory write, whole or torn.                                     *)
LEMMA DirWritten ==
  ASSUME DiskInv, CardFits(dir), call.free \in bits \cap Free, Without(dir, call.free),
         NEW e, e = [i \in Slot |-> e[i]], \A i \in Slot : e[i] \in {dir[i], WithCard(dir)[i]}
  PROVE  StreamsIn(e, bits) /\ OneEach(e) /\ AfterEnd(dir, e)
<1> DEFINE n == EndOfDir(dir)
           w == WithCard(dir)
<1>1. /\ n \in Slot /\ n + 1 \in Slot /\ n + 2 \in Slot /\ dir[n] = EXFAT_EOD
      /\ w[n] = File /\ w[n + 1] = Stream(call.free, 1) /\ w[n + 2] = Name(Named(dir))
      /\ n + 3 \in Slot => w[n + 3] = EXFAT_EOD
      /\ \A i \in Slot : i \notin n..n+3 => w[i] = dir[i]
  BY CardIs
<1>2. n \in Nat /\ SLOTS \in Nat
  BY EndIs, ExfatAssumption
<1> HIDE DEF n, w
<1>3. StreamsIn(dir, bits) /\ OneEach(dir)
  BY DEF DiskInv
<1>4. \A i \in Slot : i = n \/ i = n + 1 \/ i = n + 2 \/ i = n + 3 \/ i \notin n..n+3
  BY <1>2 DEF Slot
<1>5. \A i \in Slot : IsStream(w[i]) => i = n + 1 \/ w[i] = dir[i]
  BY <1>1, <1>4, Kinds
<1>6. \A i \in Slot :
        IsStream(e[i]) => e[i] = dir[i] \/ (i = n + 1 /\ e[i] = Stream(call.free, 1))
  <2> TAKE i \in Slot
  <2>1. e[i] = dir[i] \/ e[i] = w[i]
    BY DEF w
  <2>2. IsStream(w[i]) => i = n + 1 \/ w[i] = dir[i]
    BY <1>5
  <2>3. i = n + 1 => w[i] = Stream(call.free, 1)
    BY <1>1
  <2> QED
    BY <2>1, <2>2, <2>3
<1>7. StreamsIn(e, bits)
  BY <1>3, <1>6 DEF StreamsIn
<1>8. OneEach(e)
  <2> SUFFICES ASSUME NEW i \in Slot, NEW j \in Slot,
                      IsStream(e[i]), IsStream(e[j]), e[i][2] = e[j][2]
               PROVE  i = j
    BY DEF OneEach
  <2>1. CASE e[i] = dir[i] /\ e[j] = dir[j]
    BY <1>3, <2>1 DEF OneEach
  <2>2. CASE i = n + 1 /\ j = n + 1
    BY <2>2
  <2>3. CASE e[i] = Stream(call.free, 1) /\ e[j] = dir[j]
    <3>1. e[i][2] = call.free
      BY <2>3, Kinds
    <3> QED
      BY <2>3, <3>1 DEF Without
  <2>4. CASE e[j] = Stream(call.free, 1) /\ e[i] = dir[i]
    <3>1. e[j][2] = call.free
      BY <2>4, Kinds
    <3> QED
      BY <2>4, <3>1 DEF Without
  <2> QED
    BY <1>6, <2>1, <2>2, <2>3, <2>4
<1>9. AfterEnd(dir, e)
  <2>1. e[n] \in {EXFAT_EOD, File}
    BY <1>1 DEF w
  <2>2. ASSUME NEW i \in 0..n-1 PROVE e[i] = dir[i]
    <3>1. n < SLOTS
      BY <1>1, <1>2 DEF Slot
    <3>2. i \in Slot /\ i \notin n..n+3
      BY <1>2, <3>1 DEF Slot
    <3>3. w[i] = dir[i]
      BY <1>1, <3>2
    <3>4. e[i] = dir[i] \/ e[i] = w[i]
      BY <3>2 DEF w
    <3> QED
      BY <3>3, <3>4
  <2> QED
    BY <1>1, <2>1, <2>2 DEF AfterEnd, n
<1> QED
  BY <1>7, <1>8, <1>9

-----------------------------------------------------------------------------
(* Nothing on the disk changes.                                            *)
LEMMA DiskStays ==
  ASSUME VolInv, UNCHANGED <<bits, dir, data, kept>> PROVE DiskInv' /\ FilesKept'
<1>1. DiskInv'
  BY DEF VolInv, DiskInv
<1>2. FilesKept'
  BY DEF VolInv, FilesKept, Lookup, Found, exfat_read_file
<1> QED
  BY <1>1, <1>2

(* exfat_write_file up to its choice of a cluster.                         *)
LEMMA CallKeeps ==
  ASSUME VolInv, NEW nm \in Names, NEW text \in Texts, Call(nm, text) PROVE VolInv'
<1>1. PICK c \in Candidates :
        /\ IsFree(bits, c)
        /\ call' = [pc |-> "data", name |-> nm, text |-> text, free |-> c,
                    bm |-> bits, rd_buf |-> dir]
  BY DEF Call
<1>2. UNCHANGED <<bits, dir, data, kept>> /\ DiskInv /\ FilesKept
  BY DEF Call, VolInv
<1>3. c \in Clusters /\ c \notin bits
  BY <1>1, ExfatAssumption DEF Candidates, Clusters, IsFree
<1>4. c \in Free /\ Without(dir, c)
  BY <1>2, <1>3, NobodyHas
<1>5. CallInv'
  BY <1>1, <1>2, <1>3, <1>4 DEF CallInv
<1> QED
  BY <1>2, <1>5, DiskStays DEF VolInv

(* What a call in progress knows, by its step.                             *)
LEMMA InCall ==
  ASSUME VolInv, NEW p \in {"data", "bitmap", "dir"}, call.pc = p
  PROVE  /\ call = [pc |-> p, name |-> call.name, text |-> call.text,
                    free |-> call.free, bm |-> call.bm, rd_buf |-> call.rd_buf]
         /\ call.name \in Names /\ call.text \in Texts /\ call.free \in Free
         /\ call.free \in Clusters /\ call.free # ROOT
         /\ call.rd_buf = dir /\ Without(dir, call.free)
         /\ p \in {"data", "bitmap"} => call.bm = bits /\ call.free \notin bits
         /\ p \in {"bitmap", "dir"} => data[call.free] = call.text
         /\ p = "dir" => call.free \in bits
<1>1. call # Idle
  BY DEF Idle
<1> QED
  BY <1>1 DEF VolInv, CallInv, Free, System

(* Data in a cluster that nobody has: the whole text, or what a write that *)
(* failed left.                                                            *)
LEMMA DataKeeps ==
  ASSUME VolInv, call.pc = "data", NEW v \in Texts \cup {Junk}, Store(call.free, v),
         UNCHANGED <<bits, kept>>
  PROVE  DiskInv' /\ FilesKept' /\ dir' = dir /\ data'[call.free] = v
<1>1. /\ call.free \in Clusters /\ call.free # ROOT /\ call.free \notin bits
      /\ DiskInv /\ FilesKept
  BY InCall DEF VolInv
<1>2. dir' = dir /\ data' = [data EXCEPT ![call.free] = v]
  BY <1>1 DEF Store
<1>3. data \in [Clusters -> Texts \cup {Junk}]
  BY <1>1 DEF DiskInv
<1>4. /\ data' \in [Clusters -> Texts \cup {Junk}] /\ data'[call.free] = v
      /\ \A c \in bits : data'[c] = data[c]
  BY <1>1, <1>2, <1>3 DEF DiskInv
<1>5. DiskInv'
  BY <1>1, <1>2, <1>4 DEF DiskInv
<1>6. FilesKept'
  BY <1>1, <1>2, <1>4, FilesStay DEF FilesKept
<1> QED
  BY <1>2, <1>4, <1>5, <1>6

LEMMA WriteDataKeeps == ASSUME VolInv, WriteData PROVE VolInv'
<1>1. call.pc = "data" /\ Store(call.free, call.text) /\ UNCHANGED <<bits, kept>>
      /\ call' = [call EXCEPT !.pc = "bitmap"]
  BY DEF WriteData
<1>2. /\ call = [pc |-> "data", name |-> call.name, text |-> call.text,
                 free |-> call.free, bm |-> call.bm, rd_buf |-> call.rd_buf]
      /\ call.name \in Names /\ call.text \in Texts /\ call.free \in Free
      /\ call.rd_buf = dir /\ Without(dir, call.free)
      /\ call.bm = bits /\ call.free \notin bits
  BY <1>1, InCall
<1>3. DiskInv' /\ FilesKept' /\ dir' = dir /\ data'[call.free] = call.text
  BY <1>1, <1>2, DataKeeps
<1>4. call' = [pc |-> "bitmap", name |-> call.name, text |-> call.text,
               free |-> call.free, bm |-> call.bm, rd_buf |-> call.rd_buf]
  BY <1>1, <1>2
<1>5. CallInv'
  BY <1>1, <1>2, <1>3, <1>4 DEF CallInv
<1> QED
  BY <1>3, <1>5 DEF VolInv

(* The bit of the new cluster.                                             *)
LEMMA BitKeeps ==
  ASSUME VolInv, call.pc = "bitmap", bits' = Marked(call.bm, call.free),
         UNCHANGED <<dir, data, kept>>
  PROVE  DiskInv' /\ FilesKept' /\ bits' = bits \cup {call.free}
<1>1. DiskInv /\ FilesKept /\ call.bm = bits /\ call.free \in Clusters
  BY InCall DEF VolInv
<1>2. bits' = bits \cup {call.free}
  BY <1>1 DEF Marked
<1>3. StreamsIn(dir, bits')
  BY <1>1, <1>2 DEF DiskInv, StreamsIn
<1>4. DiskInv'
  BY <1>1, <1>2, <1>3 DEF DiskInv
<1>5. FilesKept'
  BY <1>1 DEF FilesKept, Lookup, Found, exfat_read_file
<1> QED
  BY <1>2, <1>4, <1>5

LEMMA WriteBitmapKeeps == ASSUME VolInv, WriteBitmap PROVE VolInv'
<1>1. /\ call.pc = "bitmap" /\ bits' = Marked(call.bm, call.free)
      /\ UNCHANGED <<dir, data, kept>> /\ call' = [call EXCEPT !.pc = "dir"]
  BY DEF WriteBitmap
<1>2. /\ call = [pc |-> "bitmap", name |-> call.name, text |-> call.text,
                 free |-> call.free, bm |-> call.bm, rd_buf |-> call.rd_buf]
      /\ call.name \in Names /\ call.text \in Texts /\ call.free \in Free
      /\ call.rd_buf = dir /\ Without(dir, call.free) /\ data[call.free] = call.text
  BY <1>1, InCall
<1>3. DiskInv' /\ FilesKept' /\ bits' = bits \cup {call.free}
  BY <1>1, BitKeeps
<1>4. call' = [pc |-> "dir", name |-> call.name, text |-> call.text,
               free |-> call.free, bm |-> call.bm, rd_buf |-> call.rd_buf]
  BY <1>1, <1>2
<1>5. CallInv'
  BY <1>1, <1>2, <1>3, <1>4 DEF CallInv
<1> QED
  BY <1>3, <1>5 DEF VolInv

(* The directory, whole: the call returns 0.                               *)
LEMMA WriteDirKeeps == ASSUME VolInv, WriteDir PROVE VolInv'
<1>1. /\ call.pc = "dir" /\ CardFits(call.rd_buf) /\ dir' = WithCard(call.rd_buf)
      /\ kept' = IF Found(call.name) = {} /\ Findable(call.rd_buf)
                   THEN [kept EXCEPT ![call.name] = <<call.text>>] ELSE kept
      /\ call' = Idle /\ UNCHANGED <<bits, data>>
  BY DEF WriteDir
<1>2. /\ call.rd_buf = dir /\ Without(dir, call.free) /\ call.free \in bits \cap Free
      /\ call.free \in Clusters /\ call.name \in Names /\ data[call.free] = call.text
      /\ DiskInv /\ FilesKept
  BY <1>1, InCall DEF VolInv
<1>3. CardFits(dir) /\ dir' = WithCard(dir)
  BY <1>1, <1>2
<1>4. dir' = [i \in Slot |-> dir'[i]]
  BY <1>3, CardIs
<1>5. StreamsIn(dir', bits) /\ OneEach(dir') /\ AfterEnd(dir, dir')
  BY <1>2, <1>3, <1>4, DirWritten
<1>6. kept = [nm \in Names |-> kept[nm]]
  BY <1>2 DEF DiskInv
<1>7. kept' = [nm \in Names |-> kept'[nm]]
      /\ \A nm \in Names : kept'[nm] = IF nm = call.name /\ Found(call.name) = {} /\ Findable(dir)
                                         THEN <<call.text>> ELSE kept[nm]
  BY <1>1, <1>2, <1>6
<1>8. DiskInv'
  BY <1>1, <1>2, <1>4, <1>5, <1>7 DEF DiskInv
<1>9. ASSUME NEW nm \in Names, kept'[nm] # None PROVE Lookup(nm)' = kept'[nm]
  <2>1. CASE nm = call.name /\ Found(call.name) = {} /\ Findable(dir)
    <3>1. FoundIn(dir, call.name) = {}
      BY <2>1, LookupIs
    <3>2. LookupIn(dir', data', nm) = <<call.text>>
      BY <1>1, <1>2, <1>3, <2>1, <3>1, NewFile
    <3>3. Lookup(nm)' = LookupIn(dir', data', nm)
      BY DEF Lookup, Found, LookupIn, FoundIn, exfat_read_file, ReadIn
    <3> QED
      BY <1>7, <2>1, <3>2, <3>3
  <2>2. CASE ~(nm = call.name /\ Found(call.name) = {} /\ Findable(dir))
    <3>1. kept'[nm] = kept[nm]
      BY <1>7, <2>2
    <3> QED
      BY <1>1, <1>2, <1>5, <1>9, <3>1, FilesStay
  <2> QED
    BY <2>1, <2>2
<1>10. FilesKept'
  BY <1>9 DEF FilesKept
<1> QED
  BY <1>1, <1>8, <1>10 DEF VolInv, CallInv

(* A write that fails, or a crash, anywhere.                               *)
LEMMA TornIs ==
  ASSUME NEW d, NEW w, NEW e \in Torn(d, w)
  PROVE  e = [i \in Slot |-> e[i]] /\ \A i \in Slot : e[i] \in {d[i], w[i]}
<1>1. PICK S \in SUBSET (0..(SLOTS \div PER_SECT)-1) :
        e = [i \in 0..SLOTS-1 |-> IF i \div PER_SECT \in S THEN w[i] ELSE d[i]]
  BY DEF Torn
<1> QED
  BY <1>1 DEF Slot

LEMMA FailKeeps == ASSUME VolInv, Fail PROVE VolInv'
<1>1. call' = Idle /\ UNCHANGED kept /\ DiskInv /\ FilesKept
  BY DEF Fail, VolInv
<1>2. CallInv'
  BY <1>1 DEF CallInv
<1>3. CASE UNCHANGED <<bits, dir, data>>
  BY <1>1, <1>2, <1>3, DiskStays DEF VolInv
<1>4. ASSUME call.pc = "data", UNCHANGED bits,
             NEW v \in {call.text, Junk}, Store(call.free, v)
      PROVE  VolInv'
  <2>1. v \in Texts \cup {Junk}
    BY <1>4, InCall
  <2> QED
    BY <1>1, <1>2, <1>4, <2>1, DataKeeps DEF VolInv
<1>5. CASE call.pc = "bitmap" /\ UNCHANGED <<dir, data>> /\ bits' = Marked(call.bm, call.free)
  BY <1>1, <1>2, <1>5, BitKeeps DEF VolInv
<1>6. CASE /\ call.pc = "dir" /\ CardFits(call.rd_buf) /\ UNCHANGED <<bits, data>>
           /\ dir' \in Torn(dir, WithCard(call.rd_buf))
  <2>1. /\ call.rd_buf = dir /\ Without(dir, call.free) /\ call.free \in bits \cap Free
        /\ CardFits(dir) /\ dir' \in Torn(dir, WithCard(dir))
    BY <1>6, InCall
  <2>2. dir' = [i \in Slot |-> dir'[i]] /\ \A i \in Slot : dir'[i] \in {dir[i], WithCard(dir)[i]}
    BY <2>1, TornIs
  <2>3. StreamsIn(dir', bits) /\ OneEach(dir') /\ AfterEnd(dir, dir')
    BY <1>1, <2>1, <2>2, DirWritten
  <2>4. DiskInv'
    BY <1>1, <1>6, <2>2, <2>3 DEF DiskInv
  <2>5. FilesKept'
    BY <1>1, <1>6, <2>3, FilesStay DEF FilesKept
  <2> QED
    BY <1>2, <2>4, <2>5 DEF VolInv
<1> QED
  BY <1>1, <1>3, <1>4, <1>5, <1>6 DEF Fail

LEMMA VolStep == VolInv /\ [VolNext]_volvars => VolInv'
<1> SUFFICES ASSUME VolInv, [VolNext]_volvars PROVE VolInv'
  OBVIOUS
<1>1. ASSUME NEW nm \in Names, NEW text \in Texts, Call(nm, text) PROVE VolInv'
  BY <1>1, CallKeeps
<1>2. CASE WriteData
  BY <1>2, WriteDataKeeps
<1>3. CASE WriteBitmap
  BY <1>3, WriteBitmapKeeps
<1>4. CASE WriteDir
  BY <1>4, WriteDirKeeps
<1>5. CASE DirFull
  <2>1. call' = Idle /\ UNCHANGED <<bits, dir, data, kept>>
    BY <1>5 DEF DirFull
  <2> QED
    BY <2>1, DiskStays DEF VolInv, CallInv
<1>6. CASE Fail
  BY <1>6, FailKeeps
<1>7. CASE UNCHANGED volvars
  <2>1. UNCHANGED <<bits, dir, data, kept>> /\ call' = call
    BY <1>7 DEF volvars
  <2>2. CallInv'
    BY <2>1 DEF VolInv, CallInv
  <2> QED
    BY <2>1, <2>2, DiskStays DEF VolInv
<1> QED
  BY <1>1, <1>2, <1>3, <1>4, <1>5, <1>6, <1>7 DEF VolNext

LEMMA VolAlways == VolSpec => []VolInv
BY VolStart, VolStep, PTL DEF VolSpec

(* Whatever write fails, and wherever the power does, each cluster of a    *)
(* listed file is marked and belongs to that file only                     *)
(* (exfat.cpp:215, 246-286).                                               *)
THEOREM ClustersBacked == VolSpec => []EntriesBacked
<1>1. VolInv => EntriesBacked
  BY Backing DEF VolInv
<1> QED
  BY <1>1, VolAlways, PTL

(* Later writes, failures and crashes leave a file that was there, or that *)
(* was written under a new name and can be found, as it was                *)
(* (exfat.cpp:217-288).                                                    *)
THEOREM FilesAreKept == VolSpec => []FilesKept
<1>1. VolInv => FilesKept
  BY DEF VolInv
<1> QED
  BY <1>1, VolAlways, PTL

-----------------------------------------------------------------------------
(* The names that are listed, and what is read under them.                 *)
Listed(d) == {nm \in Names : FoundIn(d, nm) # {}}

LEMMA ListingIs ==
  /\ Listing = [nm \in Listed(dir) |-> LookupIn(dir, data, nm)]
  /\ Listing' = [nm \in Listed(dir') |-> LookupIn(dir', data', nm)]
<1>1. \A nm : Found(nm)' = FoundIn(dir', nm) /\ Lookup(nm)' = LookupIn(dir', data', nm)
  BY DEF Lookup, Found, LookupIn, FoundIn, exfat_read_file, ReadIn
<1>2. Listing' = [nm \in {n \in Names : Found(n)' # {}} |-> Lookup(nm)']
  BY DEF Listing
<1>3. Listing' = [nm \in Listed(dir') |-> LookupIn(dir', data', nm)]
  BY <1>1, <1>2 DEF Listed
<1>4. Listing = [nm \in Listed(dir) |-> LookupIn(dir, data, nm)]
  BY LookupIs DEF Listing, Listed
<1> QED
  BY <1>3, <1>4

(* A step leaves each listed file alone, and the list when it adds none.   *)
LEMMA ListingGrows ==
  ASSUME DiskInv, dir' = dir \/ AfterEnd(dir, dir'), \A c \in bits : data'[c] = data[c]
  PROVE  /\ DOMAIN Listing = Listed(dir) /\ DOMAIN Listing' = Listed(dir')
         /\ DOMAIN Listing \subseteq DOMAIN Listing'
         /\ \A nm \in DOMAIN Listing : Listing'[nm] = Listing[nm]
         /\ Listed(dir') \subseteq Listed(dir) => Listing' = Listing
<1>1. DOMAIN Listing = Listed(dir) /\ DOMAIN Listing' = Listed(dir')
  BY ListingIs
<1>2. Listed(dir) \subseteq Listed(dir')
  BY SameFound DEF Listed
<1>3. ASSUME NEW nm \in Listed(dir) PROVE LookupIn(dir', data', nm) = LookupIn(dir, data, nm)
  BY SameFile DEF Listed
<1>4. \A nm \in DOMAIN Listing : Listing'[nm] = Listing[nm]
  BY <1>1, <1>2, <1>3, ListingIs
<1>5. ASSUME Listed(dir') \subseteq Listed(dir) PROVE Listing' = Listing
  <2>1. Listed(dir') = Listed(dir)
    BY <1>2, <1>5
  <2> QED
    BY <1>3, <2>1, ListingIs
<1> QED
  BY <1>1, <1>2, <1>4, <1>5

LEMMA ListingStays ==
  ASSUME DiskInv, dir' = dir, \A c \in bits : data'[c] = data[c] PROVE Listing' = Listing
BY ListingGrows

(* A directory write that is whole has one new group, at the end.          *)
LEMMA OneNewHead ==
  ASSUME CardFits(dir), NEW g \in Heads(WithCard(dir)), g \notin Heads(dir)
  PROVE  g = EndOfDir(dir)
<1> DEFINE n == EndOfDir(dir)
           e == WithCard(dir)
<1>1. /\ n \in Slot /\ e[n + 1] = Stream(call.free, 1) /\ e[n + 2] = Name(Named(dir))
      /\ n + 3 \in Slot => e[n + 3] = EXFAT_EOD
  BY CardIs
<1>2. g \in Slot /\ e[g] = File /\ \A j \in 0..g : e[j] # EXFAT_EOD
  BY DEF Heads, Used, Slot
<1>3. n <= g
  BY NewGroup, NewGroupBehind
<1> HIDE DEF n, e
<1>4. n \in Nat /\ g \in Nat /\ SLOTS \in Nat
  BY <1>1, <1>2, ExfatAssumption DEF Slot
<1>5. ~(n + 3 <= g)
  <2> SUFFICES ASSUME n + 3 <= g PROVE FALSE
    OBVIOUS
  <2>1. n + 3 \in 0..g /\ n + 3 \in Slot
    BY <1>2, <1>4 DEF Slot
  <2> QED
    BY <1>1, <1>2, <2>1
<1>6. g # n + 1 /\ g # n + 2
  BY <1>1, <1>2, Kinds
<1> QED
  BY <1>3, <1>4, <1>5, <1>6 DEF n

(* If that one can be found, it lists the name of the call, and no other   *)
(* that was not listed.                                                    *)
LEMMA OneNewName ==
  ASSUME CardFits(dir), Findable(dir), call.name \in Names
  PROVE  Listed(WithCard(dir)) = Listed(dir) \cup {call.name}
<1> DEFINE n == EndOfDir(dir)
           e == WithCard(dir)
<1>1. /\ AfterEnd(dir, e) /\ n \in Heads(e) /\ n \in Infos(e)
      /\ Info(e, n).name = {call.name}
  BY NewGroup, InfosStay DEF Findable, Named
<1>2. Listed(dir) \subseteq Listed(e)
  BY <1>1, SameFound DEF Listed
<1>3. n \in FoundIn(e, call.name)
  BY <1>1 DEF FoundIn
<1>4. ASSUME NEW nm \in Listed(e), nm \notin Listed(dir) PROVE nm = call.name
  <2>1. PICK g \in Infos(e) : g \in Heads(e) /\ Info(e, g).name = {nm}
    BY DEF Listed, FoundIn, Infos
  <2>2. g \notin Heads(dir)
    <3> SUFFICES ASSUME g \in Heads(dir) PROVE FALSE
      OBVIOUS
    <3>1. Info(dir, g).name = {nm} /\ g \in Infos(dir)
      BY <1>1, <2>1, GroupStays, InfosStay
    <3> QED
      BY <1>4, <3>1 DEF Listed, FoundIn
  <2>3. g = n
    BY <2>1, <2>2, OneNewHead
  <2> QED
    BY <1>1, <2>1, <2>3
<1>5. call.name \in Listed(e)
  BY <1>3 DEF Listed
<1> QED
  BY <1>2, <1>4, <1>5

(* The call that returns 0, and whose file can be found or cannot.         *)
LEMMA WriteDirReturns ==
  ASSUME VolInv, WriteDir PROVE IF Findable(dir) THEN Whole!Return ELSE Whole!GiveUp
<1>1. /\ call.pc = "dir" /\ CardFits(call.rd_buf) /\ dir' = WithCard(call.rd_buf)
      /\ kept' = IF Found(call.name) = {} /\ Findable(call.rd_buf)
                   THEN [kept EXCEPT ![call.name] = <<call.text>>] ELSE kept
      /\ call' = Idle /\ UNCHANGED <<bits, data>>
  BY DEF WriteDir
<1>2. /\ call.rd_buf = dir /\ Without(dir, call.free) /\ call.free \in bits \cap Free
      /\ call.free \in Clusters /\ call.name \in Names /\ data[call.free] = call.text /\ DiskInv
  BY <1>1, InCall DEF VolInv
<1>3. CardFits(dir) /\ dir' = WithCard(dir)
  BY <1>1, <1>2
<1>4. AfterEnd(dir, dir')
  BY <1>3, NewGroup
<1>5. /\ DOMAIN Listing = Listed(dir) /\ DOMAIN Listing' = Listed(dir')
      /\ \A nm \in DOMAIN Listing : Listing'[nm] = Listing[nm]
      /\ Listed(dir') \subseteq Listed(dir) => Listing' = Listing
  BY <1>1, <1>2, <1>4, ListingGrows
<1>6. Findable(dir) => Listed(dir') = Listed(dir) \cup {call.name}
  BY <1>2, <1>3, OneNewName
<1>7. Asked = <<call.name, call.text>> /\ Asked' = <<>> /\ Asked # <<>>
  BY <1>1 DEF Asked, Idle
<1>8. Found(call.name) = {} <=> call.name \notin DOMAIN Listing
  BY <1>2, <1>5, LookupIs DEF Listed
<1>9. CASE Findable(dir) /\ call.name \in DOMAIN Listing
  <2>1. UNCHANGED <<Listing, kept>>
    BY <1>1, <1>5, <1>6, <1>8, <1>9
  <2> QED
    BY <1>7, <1>9, <2>1 DEF Whole!Return
<1>10. CASE Findable(dir) /\ call.name \notin DOMAIN Listing
  <2>1. LookupIn(dir', data', call.name) = <<call.text>>
    <3>1. FoundIn(dir, call.name) = {}
      BY <1>8, <1>10, LookupIs
    <3> QED
      BY <1>1, <1>2, <1>3, <1>10, <3>1, NewFile
  <2>2. Listing'[call.name] = <<call.text>>
    BY <1>6, <1>10, <2>1, ListingIs
  <2>3. Listing' = [n \in DOMAIN Listing \cup {call.name} |->
                      IF n = call.name THEN <<call.text>> ELSE Listing[n]]
    <3>1. Listing' = [n \in DOMAIN Listing \cup {call.name} |-> Listing'[n]]
      BY <1>5, <1>6, <1>10, ListingIs
    <3> QED
      BY <1>5, <2>2, <3>1
  <2>4. kept' = [kept EXCEPT ![call.name] = <<call.text>>]
    BY <1>1, <1>2, <1>8, <1>10
  <2> QED
    BY <1>7, <1>10, <2>3, <2>4 DEF Whole!Return
<1>11. CASE ~Findable(dir)
  <2>1. kept' = kept /\ DOMAIN Listing \subseteq DOMAIN Listing'
    BY <1>1, <1>2, <1>4, <1>11, ListingGrows
  <2> QED
    BY <1>5, <1>7, <1>11, <2>1 DEF Whole!GiveUp
<1> QED
  BY <1>9, <1>10, <1>11

(* A write that fails, or a crash: nothing was promised, nothing is lost.  *)
LEMMA FailGivesUp == ASSUME VolInv, Fail PROVE Whole!GiveUp
<1>1. call' = Idle /\ UNCHANGED kept /\ DiskInv /\ call.pc \in {"data", "bitmap", "dir"}
  BY DEF Fail, VolInv
<1>2. Asked # <<>> /\ Asked' = <<>>
  BY <1>1 DEF Asked, Idle
<1>3. (dir' = dir \/ AfterEnd(dir, dir')) /\ \A c \in bits : data'[c] = data[c]
  <2>1. CASE UNCHANGED <<dir, data>>
    BY <2>1
  <2>2. ASSUME call.pc = "data", UNCHANGED bits,
               NEW v \in {call.text, Junk}, Store(call.free, v)
        PROVE  dir' = dir /\ \A c \in bits : data'[c] = data[c]
    <3>1. call.free # ROOT /\ call.free \notin bits
      BY <2>2, InCall
    <3>2. data' = [data EXCEPT ![call.free] = v] /\ dir' = dir
      BY <2>2, <3>1 DEF Store
    <3>3. data = [c \in Clusters |-> data[c]] /\ bits \subseteq Clusters
      BY <1>1 DEF DiskInv
    <3> QED
      BY <3>1, <3>2, <3>3
  <2>3. CASE /\ call.pc = "dir" /\ CardFits(call.rd_buf) /\ UNCHANGED <<bits, data>>
             /\ dir' \in Torn(dir, WithCard(call.rd_buf))
    <3>1. /\ call.rd_buf = dir /\ Without(dir, call.free) /\ call.free \in bits \cap Free
          /\ CardFits(dir) /\ dir' \in Torn(dir, WithCard(dir))
      BY <2>3, InCall
    <3>2. dir' = [i \in Slot |-> dir'[i]]
          /\ \A i \in Slot : dir'[i] \in {dir[i], WithCard(dir)[i]}
      BY <3>1, TornIs
    <3>3. AfterEnd(dir, dir')
      BY <1>1, <3>1, <3>2, DirWritten
    <3> QED
      BY <2>3, <3>3
  <2> QED
    BY <2>1, <2>2, <2>3 DEF Fail
<1>4. DOMAIN Listing \subseteq DOMAIN Listing' /\ \A nm \in DOMAIN Listing : Listing'[nm] = Listing[nm]
  BY <1>1, <1>3, ListingGrows
<1> QED
  BY <1>1, <1>2, <1>4 DEF Whole!GiveUp

(* The call begins, and gets its data and its bit onto the disk: nothing   *)
(* of it is seen.                                                          *)
LEMMA CallAsks ==
  ASSUME VolInv, NEW nm \in Names, NEW text \in Texts, Call(nm, text) PROVE Whole!Ask
<1>1. call.pc = "idle" /\ UNCHANGED <<bits, dir, data, kept>> /\ DiskInv
  BY DEF Call, VolInv
<1>2. call'.pc = "data" /\ call'.name = nm /\ call'.text = text
  BY DEF Call
<1>3. Asked = <<>> /\ Asked' = <<nm, text>>
  BY <1>1, <1>2 DEF Asked
<1>4. Listing' = Listing
  BY <1>1, ListingStays
<1> QED
  BY <1>1, <1>3, <1>4 DEF Whole!Ask

LEMMA WritesHidden ==
  ASSUME VolInv, WriteData \/ WriteBitmap PROVE UNCHANGED Whole!vars
<1>1. PICK p \in {"data", "bitmap"} : call.pc = p
  BY DEF WriteData, WriteBitmap
<1>2. call = [pc |-> p, name |-> call.name, text |-> call.text,
              free |-> call.free, bm |-> call.bm, rd_buf |-> call.rd_buf]
  BY <1>1, InCall
<1>3. PICK q \in {"bitmap", "dir"} : call' = [call EXCEPT !.pc = q]
  BY DEF WriteData, WriteBitmap
<1>4. Asked' = Asked
  BY <1>1, <1>2, <1>3 DEF Asked
<1>5. dir' = dir /\ kept' = kept /\ \A c \in bits : data'[c] = data[c]
  <2>1. CASE WriteData
    <3>1. call.free # ROOT /\ call.free \notin bits /\ DiskInv
      BY <2>1, InCall DEF WriteData, VolInv
    <3>2. data' = [data EXCEPT ![call.free] = call.text] /\ dir' = dir /\ kept' = kept
      BY <2>1, <3>1 DEF WriteData, Store
    <3>3. data = [c \in Clusters |-> data[c]] /\ bits \subseteq Clusters
      BY <3>1 DEF DiskInv
    <3> QED
      BY <3>1, <3>2, <3>3
  <2>2. CASE WriteBitmap
    BY <2>2 DEF WriteBitmap
  <2> QED
    BY <2>1, <2>2
<1>6. Listing' = Listing
  BY <1>5, ListingStays DEF VolInv
<1> QED
  BY <1>4, <1>5, <1>6 DEF Whole!vars

LEMMA WholeStart == VolInit => Whole!Init
<1> SUFFICES ASSUME VolInit PROVE Whole!Init
  OBVIOUS
<1>1. Listed(dir) = {OldName}
  BY OldListed, ExfatAssumption DEF Listed
<1>2. DOMAIN Listing = {OldName} /\ Listing[OldName] = LookupIn(dir, data, OldName)
  BY <1>1, ListingIs
<1>3. Listing[OldName] = [k \in 1..Len(OLD) |-> data[OLD[k]]]
  BY <1>2, OldListed
<1>4. kept = [nm \in Names |-> IF nm = OldName THEN Listing[nm] ELSE None]
  BY <1>3 DEF VolInit
<1>5. Asked = <<>>
  BY VolDisk DEF Asked, Idle
<1> QED
  BY <1>2, <1>4, <1>5 DEF Whole!Init

(* exfat_write_file's three writes, each of which can be the last or be    *)
(* torn, are one operation on the files, for every volume: a call that     *)
(* returns adds its file as a whole and alone, if its group can be found   *)
(* (exfat.cpp:123, 277-280), and no call, failure or crash takes a listed  *)
(* file away or changes it (exfat.cpp:215, 217-288).                       *)
THEOREM VolumeIsFileStore == VolSpec => ImplementsFileStore
<1>1. VolInv /\ [VolNext]_volvars => [Whole!Next]_Whole!vars
  <2> SUFFICES ASSUME VolInv, [VolNext]_volvars PROVE [Whole!Next]_Whole!vars
    OBVIOUS
  <2>1. ASSUME NEW nm \in Names, NEW text \in Texts, Call(nm, text) PROVE Whole!Next
    BY <2>1, CallAsks DEF Whole!Next
  <2>2. CASE WriteData \/ WriteBitmap
    BY <2>2, WritesHidden
  <2>3. CASE WriteDir
    BY <2>3, WriteDirReturns DEF Whole!Next
  <2>4. CASE DirFull
    <3>1. call.pc = "dir" /\ call' = Idle /\ UNCHANGED <<bits, dir, data, kept>> /\ DiskInv
      BY <2>4 DEF DirFull, VolInv
    <3>2. Asked # <<>> /\ Asked' = <<>>
      BY <3>1 DEF Asked, Idle
    <3>3. Listing' = Listing
      BY <3>1, ListingStays
    <3> QED
      BY <3>1, <3>2, <3>3 DEF Whole!GiveUp, Whole!Next
  <2>5. CASE Fail
    BY <2>5, FailGivesUp DEF Whole!Next
  <2>6. CASE UNCHANGED volvars
    <3>1. UNCHANGED <<bits, dir, data, kept>> /\ call' = call
      BY <2>6 DEF volvars
    <3>2. Listing' = Listing
      BY <3>1, ListingStays DEF VolInv
    <3> QED
      BY <3>1, <3>2 DEF Asked, Whole!vars
  <2> QED
    BY <2>1, <2>2, <2>3, <2>4, <2>5, <2>6 DEF VolNext
<1> QED
  BY <1>1, WholeStart, VolAlways, PTL DEF VolSpec, ImplementsFileStore, Whole!Spec

=============================================================================
