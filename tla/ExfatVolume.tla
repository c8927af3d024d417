----------------------------- MODULE ExfatVolume -----------------------------
(***************************************************************************)
(* The exFAT driver of kernel/fs/exfat.cpp on a mounted volume:            *)
(* exfat_write_file with its three writes (data, allocation bitmap, root   *)
(* directory), exfat_find and exfat_read_file.  The power may fail and any *)
(* write may fail at each of them; a sector is written as a whole or not   *)
(* at all, a multi-sector write may stop with any of its sectors written.  *)
(*                                                                         *)
(* Clusters are numbered 2..COUNT+1.  A text is one cluster of data, and a *)
(* file name fits one name entry.  The volume was made by another program: *)
(* a label, the bitmap, the upcase table and one file, in a root directory *)
(* of one cluster, and its bitmap is numbered as the driver numbers it,    *)
(* bit c for cluster c (exfat.cpp:242, 259; an exFAT bitmap begins with    *)
(* cluster 2).  Behind the end of the directory there is nothing at first. *)
(***************************************************************************)
EXTENDS Integers, Sequences, FiniteSetsExt

CONSTANTS
  COUNT,     \* g_boot.cluster_count
  BITMAP, UPCASE, ROOT,  \* clusters of the system's own files
  OLD,       \* clusters of the file that is there, in order
  SLOTS,     \* entries in the directory cluster (g_bpc / 32)
  PER_SECT,  \* entries in a sector (16)
  INFOS,     \* groups exfat_find looks at (64)
  Names,     \* file names: sequences of character codes
  OldName, Texts,
  Junk,      \* what an unused cluster holds
  None

Clusters == 2..COUNT+1
System == {BITMAP, UPCASE, ROOT}
OldClusters == {OLD[i] : i \in DOMAIN OLD}

ASSUME ExfatAssumption ==
  /\ COUNT \in Nat /\ OldName \in Names
  /\ OLD \in Seq(Clusters) \ {<<>>}
  /\ \A i, j \in DOMAIN OLD : OLD[i] = OLD[j] => i = j
  /\ System \cup OldClusters \subseteq Clusters
  /\ System \cap OldClusters = {}
  /\ SLOTS \in Nat /\ SLOTS >= 6

(* PER_SECT is at least 4: a group and the EOD behind it lie in two        *)
(* sectors at most.                                                        *)
ASSUME EntriesAssumption ==
  /\ PER_SECT \in Nat /\ PER_SECT >= 4 /\ SLOTS % PER_SECT = 0
  /\ INFOS \in Nat \ {0}
  /\ Names \subseteq Seq(Nat) \ {<<>>}

VARIABLES
  bits,   \* the bits set in the allocation bitmap on the disk
  dir,    \* the entries of the root directory on the disk
  data,   \* the text in each cluster on the disk
  call,   \* the exfat_write_file in progress: its step and local variables
  kept    \* history: what each file must read as, None when unknown

volvars == <<bits, dir, data, call, kept>>
disk == <<bits, dir, data>>

-----------------------------------------------------------------------------
(* Directory entries, by their type byte.                                  *)
EXFAT_EOD == <<"eod">>
Other == <<"other">>
File == <<"file">>
Stream(c, len) == <<"stream", c, len>>
Name(nm) == <<"name", nm>>
Group(nm, c, len) == <<File, Stream(c, len), Name(nm)>>
Put(d, off, g) ==
  [i \in 0..SLOTS-1 |-> IF i \in off..off+2 THEN g[i - off + 1]
                        ELSE IF i = off + 3 THEN EXFAT_EOD ELSE d[i]]

(* parse_dir_cluster: a group is a file entry and the stream and name      *)
(* entries that follow it; the directory ends at the first EOD.            *)
Used(d) == {i \in 0..SLOTS-1 : \A j \in 0..i : d[j] # EXFAT_EOD}
Heads(d) == {i \in Used(d) : d[i] = File}
Members(d, h) == {i \in h+1..SLOTS-1 :
                  \A j \in h+1..i : d[j][1] \in {"stream", "name"}}
Info(d, h) ==
  LET streams == {i \in Members(d, h) : d[i][1] = "stream"}
      last == d[Max(streams)]
  IN  [cluster |-> IF streams = {} THEN 0 ELSE last[2],
       len     |-> IF streams = {} THEN 0 ELSE last[3],
       name    |-> {d[i][2] : i \in Members(d, h) \ streams}]

(* The FAT: only the old file has a chain.  The driver never writes it.    *)
next_cluster(c) ==
  LET after == {i \in 1..Len(OLD)-1 : OLD[i] = c}
  IN  IF after = {} THEN 0 ELSE OLD[Max(after) + 1]

Chain(c, len) ==
  LET at[k \in 1..len] == IF k = 1 THEN c ELSE next_cluster(at[k-1])
  IN  at

exfat_read_file(c, len) ==
  LET at == Chain(c, len)
  IN  IF \A k \in 1..len : at[k] \in Clusters
        THEN [k \in 1..len |-> data[at[k]]] ELSE None

(* exfat_find and exfat_read_file of what it finds: of the first INFOS     *)
(* groups the first with that name.                                        *)
Infos(d) == {h \in Heads(d) : Cardinality({g \in Heads(d) : g < h}) < INFOS}
Found(nm) == {h \in Infos(dir) : Info(dir, h).name = {nm}}
Lookup(nm) ==
  IF Found(nm) = {} THEN None
  ELSE LET fi == Info(dir, Min(Found(nm)))
       IN  exfat_read_file(fi.cluster, fi.len)

-----------------------------------------------------------------------------
Idle == [pc |-> "idle"]

VolInit ==
  /\ bits = System \cup OldClusters
  /\ dir = Put([i \in 0..SLOTS-1 |-> IF i < 3 THEN Other ELSE EXFAT_EOD], 3,
               Group(OldName, OLD[1], Len(OLD)))
  /\ data \in {d \in [Clusters -> Texts \cup {Junk}] :
                 \A c \in Clusters : d[c] = Junk <=> c \notin OldClusters}
  /\ call = Idle
  /\ kept = [nm \in Names |-> IF nm = OldName
                                THEN [k \in 1..Len(OLD) |-> data[OLD[k]]]
                                ELSE None]

(* Mutant: the bit of the cluster after it is tested.                      *)
IsFree_Next(b, c) == c + 1 \notin b

IsFree(b, c) == c \notin b

Candidates == 2..COUNT-1

(* exfat_write_file up to its choice of a cluster: both clusters are read  *)
(* and a clear bit is found; otherwise it returns and nothing happened.    *)
Call(nm, text) ==
  /\ call.pc = "idle"
  /\ \E c \in Candidates :
       /\ IsFree(bits, c) /\ \A b \in 2..c-1 : ~IsFree(bits, b)
       /\ call' = [pc |-> "data", name |-> nm, text |-> text, free |-> c,
                   bm |-> bits, rd_buf |-> dir]
  /\ UNCHANGED <<bits, dir, data, kept>>

(* A text in a cluster; in the root directory it hits the first entry.     *)
Store(c, v) ==
  /\ data' = [data EXCEPT ![c] = v]
  /\ dir' = IF c = ROOT THEN [dir EXCEPT ![0] = Other] ELSE dir

WriteData ==
  /\ call.pc = "data"
  /\ Store(call.free, call.text)
  /\ call' = [call EXCEPT !.pc = "bitmap"]
  /\ UNCHANGED <<bits, kept>>

(* Mutant: the bit is not set.                                             *)
Marked_Not(b, c) == b

Marked(b, c) == b \cup {c}

WriteBitmap ==
  /\ call.pc = "bitmap"
  /\ bits' = Marked(call.bm, call.free)
  /\ call' = [call EXCEPT !.pc = "dir"]
  /\ UNCHANGED <<dir, data, kept>>

EndOfDir(d) == Cardinality(Used(d))
CardFits(d) == EndOfDir(d) + 3 <= SLOTS

(* The name is written over what a torn write left behind the end, as many *)
(* characters as it has and no 0 after them.  Of file and stream entry     *)
(* every byte that is ever read is written.                                *)
Overwritten(e, nm) ==
  IF e[1] = "name" THEN nm \o SubSeq(e[2], Len(nm) + 1, Len(e[2])) ELSE nm

WithCard(d) ==
  LET n == EndOfDir(d)
  IN  Put(d, n, Group(Overwritten(d[n+2], call.name), call.free, 1))

(* The new group can be found: it is one of the first INFOS, and under its *)
(* own name.                                                               *)
Findable(d) == /\ Cardinality(Heads(d)) < INFOS
               /\ Overwritten(d[EndOfDir(d) + 2], call.name) = call.name

(* The call returns 0: if its group can be found, the file is there, under *)
(* this name if the name was not taken.                                    *)
WriteDir ==
  /\ call.pc = "dir" /\ CardFits(call.rd_buf)
  /\ dir' = WithCard(call.rd_buf)
  /\ kept' = IF Found(call.name) = {} /\ Findable(call.rd_buf)
               THEN [kept EXCEPT ![call.name] = <<call.text>>] ELSE kept
  /\ call' = Idle
  /\ UNCHANGED <<bits, data>>

DirFull == /\ call.pc = "dir" /\ ~CardFits(call.rd_buf)
           /\ call' = Idle /\ UNCHANGED <<bits, dir, data, kept>>

(* What a write that was cut short leaves of the entries new.              *)
Torn(d, new) ==
  {[i \in 0..SLOTS-1 |-> IF i \div PER_SECT \in S THEN new[i] ELSE d[i]] :
     S \in SUBSET (0..(SLOTS \div PER_SECT)-1)}

(* The power fails, or the write in progress returns an error: the call is *)
(* over, and its write reached the disk as far as it did.                  *)
Fail ==
  /\ call' = Idle /\ UNCHANGED kept
  /\ \/ /\ call.pc = "data" /\ UNCHANGED bits
        /\ UNCHANGED <<dir, data>>
             \/ \E v \in {call.text, Junk} : Store(call.free, v)
     \/ /\ call.pc = "bitmap" /\ UNCHANGED <<dir, data>>
        /\ bits' \in {bits, Marked(call.bm, call.free)}
     \/ /\ call.pc = "dir" /\ CardFits(call.rd_buf) /\ UNCHANGED <<bits, data>>
        /\ dir' \in Torn(dir, WithCard(call.rd_buf))

VolNext == \/ \E nm \in Names, text \in Texts : Call(nm, text)
           \/ WriteData \/ WriteBitmap \/ WriteDir \/ DirFull \/ Fail

VolSpec == VolInit /\ [][VolNext]_volvars

-----------------------------------------------------------------------------
(* The clusters that belong to a listed file or to the system.             *)
OfFile(h) == LET fi == Info(dir, h)
             IN  {Chain(fi.cluster, fi.len)[k] : k \in 1..fi.len}
InUse == System \cup UNION {OfFile(h) : h \in Heads(dir)}

(* Data, then bitmap, then directory (exfat.cpp:215, 246-286): whenever    *)
(* the power fails and whatever is left of a directory write, each cluster *)
(* of a listed file is marked in the bitmap and belongs to that file only, *)
(* so no later write can take it.                                          *)
EntriesBacked ==
  /\ \A c \in InUse : c \in bits
  /\ \A h, g \in Heads(dir) :
       /\ h # g => OfFile(h) \cap OfFile(g) = {}
       /\ OfFile(h) \cap System = {}

(* Later writes, failures and crashes leave a file alone: the file that    *)
(* was there, and every file for which exfat_write_file returned 0 under a *)
(* new name, is found and reads as it did then (exfat.cpp:217-288, read    *)
(* back at kernel.cpp:879-885).  Two cases are left out, in which a call   *)
(* returns 0 and exfat_find does not find the file: INFOS groups are       *)
(* before it (exfat.cpp:123, 183-184), or a torn write left a longer name  *)
(* in the entry, whose tail now follows the new one (exfat.cpp:277-280).   *)
FilesKept == \A nm \in Names : kept[nm] # None => Lookup(nm) = kept[nm]

(* What exfat_find and exfat_read_file show of the disk, and the call.     *)
Listing == [nm \in {n \in Names : Found(n) # {}} |-> Lookup(nm)]
Asked == IF call.pc = "idle" THEN <<>> ELSE <<call.name, call.text>>

(* The three writes of a call (exfat.cpp:215, 217-288), each of which can  *)
(* be the last one or be torn, are one operation on the files: what is     *)
(* listed only ever grows, and a call that returns adds its file as a      *)
(* whole, at once and alone, if its group can be found.                    *)
Whole == INSTANCE FileStore WITH
           files <- Listing, promised <- kept, asked <- Asked
ImplementsFileStore == Whole!Spec

=============================================================================
