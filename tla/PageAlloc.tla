----------------------------- MODULE PageAlloc ------------------------------
(***************************************************************************)
(* The page allocator of kernel/desk/page.h: a bitmap over a pool of 4 KB  *)
(* pages and a count of the free ones.  A pointer is the number of its     *)
(* first page.  The callers are the kernel's: they ask for one or more     *)
(* pages and give each block back at most once, with its length            *)
(* (kernel.cpp:396-404, 765-830; nvme.h:201-202, 261-262).                 *)
(***************************************************************************)
EXTENDS Integers, FiniteSets

CONSTANTS PAGE_MAX,   \* pages the bitmap can hold (16384)
          STATIC      \* pages of the static pool (8)

ASSUME PageAssumption == PAGE_MAX \in Nat /\ STATIC \in 1..PAGE_MAX

VARIABLES
  g_pages,        \* pages of the pool in use
  used,           \* pages whose bit is set in page_bmp
  page_free_cnt,
  ready,          \* the boot code is past page_init
  blocks          \* history: the blocks the callers hold, [base, n]

poolvars == <<g_pages, used, page_free_cnt, ready, blocks>>

Pool == 0..g_pages-1
Pages(b) == b.base..b.base + b.n - 1
Block == [base : 0..PAGE_MAX-1, n : 1..PAGE_MAX]

-----------------------------------------------------------------------------
(* A run of n clear bits starts at base.                                   *)
Fits(base, n) == base + n <= g_pages /\ (base..base + n - 1) \cap used = {}

(* Mutant: a used page does not end a run.                                 *)
RunEnd_Kept(run, i) == IF i \in used THEN run ELSE run + 1

(* One round of the loop of page_alloc, on its counter run.                *)
RunEnd(run, i) == IF i \in used THEN 0 ELSE run + 1

(* The loop: run after each page, and the base at which it stops, -1 when  *)
(* it comes to the end of the pool.                                        *)
Scan(n) ==
  LET run[i \in -1..g_pages-1] == IF i = -1 THEN 0 ELSE RunEnd(run[i-1], i)
      hits == {i \in Pool : run[i] = n}
  IN  IF hits = {} THEN -1
      ELSE (CHOOSE i \in hits : \A j \in hits : i <= j) + 1 - n

(* What it computes: the lowest base that fits.                            *)
FirstFit(base, n) == Fits(base, n) /\ \A c \in Pool : Fits(c, n) => base <= c

-----------------------------------------------------------------------------
PoolInit ==
  /\ g_pages = STATIC /\ used = {} /\ page_free_cnt = STATIC
  /\ ready = FALSE /\ blocks = {}

Capped(pages) == IF pages > PAGE_MAX THEN PAGE_MAX ELSE pages

(* page_init with the boot loader's heap of that many whole pages; a heap  *)
(* it rejects leaves the static pool.                                      *)
page_init(pages) ==
  /\ ~ready /\ ready' = TRUE
  /\ \/ UNCHANGED <<g_pages, used, page_free_cnt>>
     \/ /\ g_pages' = Capped(pages) /\ page_free_cnt' = Capped(pages)
        /\ used' = {}
  /\ UNCHANGED blocks

(* page_alloc; when there is no such run it returns 0 and changes nothing. *)
page_alloc(n) ==
  /\ ready /\ n <= page_free_cnt
  /\ \E base \in Pool :
       /\ FirstFit(base, n)
       /\ used' = used \cup (base..base + n - 1)
       /\ blocks' = blocks \cup {[base |-> base, n |-> n]}
  /\ page_free_cnt' = page_free_cnt - n
  /\ UNCHANGED <<g_pages, ready>>

(* Mutant: only the first page of a block is given back.                   *)
Cleared_First(b) == {b.base} \cap used

(* The pages of a block whose bits page_free clears.                       *)
Cleared(b) == Pages(b) \cap used

(* Mutant: one page is counted per call.                                   *)
FreeCount_One(b) == page_free_cnt + 1

FreeCount(b) == page_free_cnt + Cardinality(Cleared(b))

page_free(b) ==
  /\ b \in blocks
  /\ IF b.base + b.n > g_pages THEN UNCHANGED <<used, page_free_cnt>>
     ELSE used' = used \ Cleared(b) /\ page_free_cnt' = FreeCount(b)
  /\ blocks' = blocks \ {b}
  /\ UNCHANGED <<g_pages, ready>>

PoolNext == \/ \E pages \in 1..PAGE_MAX+1 : page_init(pages)
            \/ \E n \in 1..PAGE_MAX : page_alloc(n)
            \/ \E b \in Block : page_free(b)

PoolSpec == PoolInit /\ [][PoolNext]_poolvars

-----------------------------------------------------------------------------
PoolTypeOK ==
  /\ g_pages \in 1..PAGE_MAX
  /\ used \subseteq Pool
  /\ page_free_cnt \in 0..PAGE_MAX
  /\ ready \in BOOLEAN
  /\ blocks \subseteq Block

(* The count is the number of clear bits (page.h:28, 45, 60), which the    *)
(* early return of page_alloc relies on.                                   *)
CountExact == page_free_cnt = Cardinality(Pool \ used)

(* No page is handed out twice, and none is lost: the blocks the callers   *)
(* hold are disjoint and are exactly the pages whose bits are set          *)
(* (page.h:36-61).                                                         *)
BlocksOwnPages ==
  /\ used = UNION {Pages(b) : b \in blocks}
  /\ \A b, c \in blocks : b # c => Pages(b) \cap Pages(c) = {}

(* The loop finds the lowest run whenever there is one, and nothing else   *)
(* (page.h:39-49).                                                         *)
ScanIsFirstFit ==
  \A n \in 1..PAGE_MAX :
    LET base == Scan(n)
    IN  IF base = -1 THEN \A c \in Pool : ~Fits(c, n)
        ELSE base \in Pool /\ FirstFit(base, n)

=============================================================================
