-------------------------------- MODULE MCBoot --------------------------------
(* Kernels of one byte, around a sector, and the longest that fits; a disk *)
(* of each kind on the NVMe controller, with and without ATA disks.        *)
EXTENDS Boot

Node(t, st, a, b) == [t |-> t, st |-> st, a |-> a, b |-> b]
Root == <<Node(2, 1, 0, 0), Node(1, 1, 1, 1)>>
Part == <<Node(4, 1, 2048, 0)>>
MC_Paths == {Root \o <<Node(3, st, 1, 0)>> \o Part : st \in {1, 23}}

Setup(a, b, n) == [d \in Places |->
                     IF d = Nvme THEN n ELSE IF d = <<0, 0>> THEN a
                     ELSE IF d = <<1, 0>> THEN b ELSE "none"]
MC_Setups == {Setup(a, b, n) : a \in {"none", "memdisk"}, b \in {"fat", "large", "windbg"},
                               n \in {"none", "blank", "fat", "memdisk", "large", "mk"}}
MC_Buses == {<<>>,
             <<[vid |-> 32902, cls |-> <<6, 0>>, nvme |-> FALSE],
               [vid |-> 6966, cls |-> <<0, 16>>, nvme |-> TRUE]>>,
             <<[vid |-> 6966, cls |-> <<12, 3>>, nvme |-> FALSE],
               [vid |-> 32902, cls |-> <<1, 8>>, nvme |-> TRUE]>>}
MC_Kernels == {513, 364 * 512, 480 * 512}
MC_Videos == {<<{1, 2, 3}, 1>>, <<{3}, 3>>, <<{1, 3}, 1>>}

=============================================================================
