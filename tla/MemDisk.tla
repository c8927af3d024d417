-------------------------------- MODULE MemDisk -------------------------------
(***************************************************************************)
(* Disk images with an exFAT volume and the two programs that read them.   *)
(*                                                                         *)
(* tools/mkmemdisk.py builds the image the boot loader reads, with the     *)
(* kernel in it; kernel/fs/memdisk.cpp is the image the kernel's driver    *)
(* was tested with.  exfat_find_kern of src/main.rs reads the first,       *)
(* exfat_init and parse_dir_cluster of kernel/fs/exfat.cpp the second:     *)
(* they take the same fields from different places of an entry.            *)
(*                                                                         *)
(* An image is its length in bytes and its sectors.  A sector is a record  *)
(* with the fields some reader looks at, a sector of data says which part  *)
(* of which file it is.                                                    *)
(***************************************************************************)
EXTENDS Integers, Sequences, FiniteSetsExt

SECT     == 512
ENTRIES  == SECT \div 32    \* directory entries in a sector
FAT_OFF  == 8
HEAP     == 16
PART_LBA == 128
LIMIT    == 262144          \* 0x40000
G_TMP    == 8192            \* sizeof(g_tmp)

Zero == [kind |-> "zero"]
Data(file, part) == [kind |-> "data", file |-> file, part |-> part]
Mbr(lba) == [kind |-> "mbr", part |-> lba, sig |-> TRUE]

(* A boot sector: "EXFAT" at 3, the clusters' first sector at 0x58, the    *)
(* root directory at 0x60; what the driver takes for the shifts of sector  *)
(* and cluster at 0x6C and 0x6D, what the loader takes at 0x72.            *)
Bpb(exfat, b6c, b6d, sig) ==
  [kind |-> "bpb", exfat |-> exfat, heap |-> HEAP, root |-> 2,
   b6c |-> b6c, b6d |-> b6d, b72 |-> 0, sig |-> sig]

(* A directory entry by its type byte and what is at some of its offsets.  *)
EOD == [type |-> 0]
Entry(type, b1, at16, at20, at24, name) ==
  [type |-> type, b1 |-> b1, at16 |-> at16, at20 |-> at20, at24 |-> at24, name |-> name]

Dir(es) == [kind |-> "dir",
            entry |-> [i \in 0..ENTRIES-1 |-> IF i + 1 \in DOMAIN es THEN es[i + 1] ELSE EOD]]

CeilDiv(a, b) == (a + b - 1) \div b

-----------------------------------------------------------------------------
(* tools/mkmemdisk.py.                                                     *)
file_entry(len, alloc, cluster) ==
  <<Entry(129, 0, len, 0, alloc, ""), Entry(133, 0, cluster, 0, len, "")>>

name_entry(n, name) == <<Entry(192 + n, n, 0, 0, 0, name)>>

(* build of a kernel of k bytes: the MBR, the volume at sector 128, one    *)
(* sector each for the root directory and HELLO.TXT, the kernel, and at    *)
(* least two sectors of zeroes.                                            *)
build(k) ==
  LET clusters == CeilDiv(k, SECT) + 4
      want == (HEAP + clusters) * SECT
      made == (HEAP + 2) * SECT + k
      len  == made + SECT * (IF made < want THEN CeilDiv(want - made, SECT) ELSE 0)
      top  == PART_LBA + HEAP
      root == file_entry(16, SECT, 3) \o name_entry(9, "HELLO.TXT")
                \o file_entry(k, k, 4) \o name_entry(10, "KERNEL.BIN")
      at == [i \in 0..CeilDiv(PART_LBA * SECT + len, SECT)-1 |->
               IF i = 0 THEN Mbr(PART_LBA)
               ELSE IF i = PART_LBA THEN Bpb(TRUE, 0, 0, FALSE)
               ELSE IF i = top THEN Dir(root)
               ELSE IF i = top + 1 THEN Data("HELLO.TXT", 0)
               ELSE IF i \in top+2..top+1+CeilDiv(k, SECT)
                 THEN Data("KERNEL.BIN", i - top - 2)
               ELSE Zero]
  IN  [len |-> PART_LBA * SECT + len, at |-> at]

(* Mutant: the limit is held against the volume, without the sectors       *)
(* before the partition.                                                   *)
Made_VolumeOnly(k) == build(k).len - PART_LBA * SECT <= LIMIT

(* main writes memdisk.img only when the image fits the loader's buffer.   *)
Made(k) == build(k).len <= LIMIT

-----------------------------------------------------------------------------
(* kernel/fs/memdisk.cpp, 160 sectors.                                     *)
memdisk_mbr  == Mbr(PART_LBA)
memdisk_boot == Bpb(TRUE, 9, 0, TRUE)
memdisk_root ==
  Dir(<<Entry(129, 0, 0, 4, 1, ""), Entry(133, 0, 0, 0, 0, ""),
        Entry(192, 0, 0, 3, 16, ""), Entry(193, 0, 0, 0, 0, "HELLO.TXT")>>)
memdisk_hello == Data("HELLO.TXT", 0)
(* Bits 2 to 4: the bitmap counts clusters as the driver does, from 0.     *)
memdisk_bitmap == [kind |-> "bitmap", bits |-> {2, 3, 4}]
(* The sectors before the partition, between the boot sector and the       *)
(* clusters, and the free clusters are zero.                               *)
memdisk_gap  == [i \in 1..PART_LBA-1 |-> Zero]
memdisk_fat  == [i \in PART_LBA+1..PART_LBA+HEAP-1 |-> Zero]
memdisk_free == [i \in PART_LBA+HEAP+3..PART_LBA+HEAP+15 |-> Zero]

memdisk ==
  [len |-> 160 * SECT,
   at  |-> [i \in 0..159 |->
              IF i \in DOMAIN memdisk_gap THEN memdisk_gap[i]
              ELSE IF i \in DOMAIN memdisk_fat THEN memdisk_fat[i]
              ELSE IF i \in DOMAIN memdisk_free THEN memdisk_free[i]
              ELSE CASE i = 0 -> memdisk_mbr
                     [] i = PART_LBA -> memdisk_boot
                     [] i = PART_LBA + HEAP -> memdisk_root
                     [] i = PART_LBA + HEAP + 1 -> memdisk_hello
                     [] i = PART_LBA + HEAP + 2 -> memdisk_bitmap]]

(* Disks of another origin: nothing on it; a FAT volume such as the one    *)
(* the machine boots from; an exFAT volume with clusters of 32 KB.         *)
Volume(boot) == [len |-> 160 * SECT,
                 at  |-> [i \in 0..159 |-> IF i = 0 THEN Mbr(PART_LBA)
                                           ELSE IF i = PART_LBA THEN boot ELSE Zero]]
Blank == [len |-> 160 * SECT, at |-> [i \in 0..159 |-> Zero]]
Fat   == Volume(Bpb(FALSE, 0, 0, TRUE))
Large == Volume(Bpb(TRUE, 9, 6, TRUE))

-----------------------------------------------------------------------------
(* exfat_find_kern on the first total bytes of an image: the first file    *)
(* entry followed by a stream entry and by a name entry for KERNEL.BIN,    *)
(* none of them past the end of the directory.  It answers the sector and  *)
(* the length, <<>> when there is none.                                    *)

(* Mutant: clusters are counted from 0.                                    *)
ClusterAt_FromZero(po, bp, c) == po + bp.heap + c * 2^bp.b72

ClusterAt(po, bp, c) == po + bp.heap + (c - 2) * 2^bp.b72

exfat_find_kern(img, total) ==
  LET po   == img.at[0].part
      bp   == img.at[po]
      root == ClusterAt(po, bp, bp.root)
      entry(e) == LET s == img.at[root + e \div ENTRIES]
                  IN  IF s.kind = "dir" THEN s.entry[e % ENTRIES] ELSE EOD
      fits == {e \in 0..ENTRIES-1 : (root * SECT) + 32 * e + 96 <= total}
      ends == {e \in fits : entry(e).type = 0}
      seen == {e \in fits : \A f \in ends : e < f}
      kern == {e \in seen : /\ entry(e).type = 129
                            /\ entry(e + 1).type \in {5, 133}
                            /\ entry(e + 2).type >= 192 /\ entry(e + 2).b1 = 10
                            /\ entry(e + 2).name = "KERNEL.BIN"}
  IN  IF total < SECT \/ img.at[0].kind # "mbr" THEN <<>>
      ELSE IF total < (po + 1) * SECT \/ kern = {} THEN <<>>
      ELSE LET stream == entry(Min(kern) + 1)
           IN  <<ClusterAt(po, bp, stream.at16), stream.at24>>

(* exfat_init of the kernel's driver: the volume it finds on a disk, as    *)
(* "none", "large" (a cluster does not fit g_tmp) or "ok".                 *)
Signed(img) == img.at[0].kind = "mbr" /\ img.at[0].part # 0

HasVolume(img) ==
  Signed(img) /\ LET bp == img.at[img.at[0].part]
                 IN  bp.kind = "bpb" /\ bp.exfat /\ bp.sig

Mountable(img) ==
  LET bp == img.at[img.at[0].part]
  IN  HasVolume(img) /\ 2^bp.b6c * 2^bp.b6d <= G_TMP

=============================================================================
