---------------------------- MODULE KmallocProofs ----------------------------
(***************************************************************************)
(* Proofs about Kmalloc for any pools, any size of heap and all requests,  *)
(* provided that the size with its header fits a size_t.                   *)
(***************************************************************************)
EXTENDS Kmalloc, SequenceTheorems, WellFoundedInduction, TLAPS

\* Beyond this bytes_needed wraps, and kmalloc returns a block too small.
SizesFit == \A size \in Requests : size + HEADER < SizeMod

-----------------------------------------------------------------------------
(* Stretches of memory.                                                    *)

Apart(a, m, b, n) == a + m <= b \/ b + n <= a
AllLive(a, m) == \A x \in a .. a + m - 1 : PageOf(x) \in live_pages

\* The memory of a block of this pool and request, and what kmalloc writes
\* before it.
LenOf(block) ==
  IF block.pool = NULL
    THEN PagesFor(block.request + HEADER) * PageUnits
    ELSE MaxSize[block.pool]
HeaderFor(block) ==
  IF block.pool = NULL
    THEN PagesHeader(PagesFor(block.request + HEADER))
    ELSE Header(block.pool, block.request + HEADER)

BlockLen(b) == LenOf(blocks[b])
HeaderOf(b) == HeaderFor(blocks[b])

-----------------------------------------------------------------------------
(* The invariant.                                                          *)

Typed ==
  /\ TypeOK
  /\ freelist \in [Pools -> Seq(0 .. HeapUnits - 1)]
  /\ blocks \in [DOMAIN blocks -> [pool : Pools \cup {NULL}, request : Requests \ {0}]]
  /\ \A b \in DOMAIN blocks : b >= HEADER

\* What kmalloc's steps have found out.
Located ==
  /\ pc = "kmalloc_init" => pool_ptr \in 1 .. Len(MaxSize) + 1
  /\ pc \in {"add_page", "take_chunk", "alloc_pages"} => request \in Requests \ {0}
  /\ pc \in {"add_page", "take_chunk"} =>
       pool_ptr \in Pools /\ request + HEADER <= MaxSize[pool_ptr]
  /\ pc = "take_chunk" => avail[pool_ptr] > 0
  /\ pc = "halted" => request = 0

At(f, k) == IF k <= Len(f) THEN f[k] ELSE NULL

Linked ==
  \A p \in Pools :
    /\ head[p] = At(freelist[p], 1)
    /\ \A k \in 1 .. Len(freelist[p]) : mem[freelist[p][k]] = FreeChunk(At(freelist[p], k + 1))

ListsApart ==
  \A p, q \in Pools : \A j \in 1 .. Len(freelist[p]), k \in 1 .. Len(freelist[q]) :
    p # q \/ j # k => Apart(freelist[p][j], MaxSize[p], freelist[q][k], MaxSize[q])

BlocksApart ==
  \A b, c \in DOMAIN blocks :
    b # c => Apart(b - HEADER, BlockLen(b), c - HEADER, BlockLen(c))

ListsAndBlocksApart ==
  \A b \in DOMAIN blocks, p \in Pools : \A k \in 1 .. Len(freelist[p]) :
    Apart(b - HEADER, BlockLen(b), freelist[p][k], MaxSize[p])

\* All of it is below kern_heap_top, in pages that are allocated.
Within ==
  /\ kern_heap_top = PageOf(kern_heap_top) * PageUnits
  /\ \A p \in Pools : \A k \in 1 .. Len(freelist[p]) :
       freelist[p][k] + MaxSize[p] <= kern_heap_top /\ AllLive(freelist[p][k], MaxSize[p])
  /\ \A b \in DOMAIN blocks :
       b - HEADER + BlockLen(b) <= kern_heap_top /\ AllLive(b - HEADER, BlockLen(b))

\* A block has room for what was asked for, and its header says where it is
\* from; a large one is whole pages.
Headed ==
  \A b \in DOMAIN blocks :
    /\ mem[b - HEADER] = HeaderOf(b)
    /\ blocks[b].request + HEADER <= BlockLen(b)
    /\ blocks[b].pool = NULL => b - HEADER = PageOf(b - HEADER) * PageUnits

HeapInv ==
  /\ Typed
  /\ Located
  /\ Linked
  /\ AvailCovered
  /\ ListsApart
  /\ BlocksApart
  /\ ListsAndBlocksApart
  /\ Within
  /\ Headed

-----------------------------------------------------------------------------
(* Arithmetic.                                                             *)

LEMMA Constants ==
  /\ PageUnits \in Nat /\ PageUnits > 0 /\ HeapPages \in Nat
  /\ HeapUnits \in Nat /\ HeapUnits = HeapPages * PageUnits /\ HeapUnits < SizeMod
  /\ SizeMod \in Nat /\ NULL \notin Int /\ Requests \subseteq Nat
  /\ Len(MaxSize) \in Nat /\ 1 \in Pools /\ Pools \subseteq Nat /\ NULL \notin Pools
  /\ \A p \in Pools : MaxSize[p] \in Nat /\ MaxSize[p] >= 2 /\ MaxSize[p] <= PageUnits
<1>1. Len(MaxSize) \in Nat /\ 1 \in Pools /\ Pools \subseteq Nat
  BY PoolAssumption, LenProperties DEF Pools
<1>2. \A p \in Pools : MaxSize[p] \in Nat /\ MaxSize[p] >= 2 /\ MaxSize[p] <= PageUnits
  BY PoolAssumption, ElementOfSeq DEF Pools
<1>3. PageUnits > 0
  BY <1>1, <1>2, PoolAssumption
<1>4. HeapUnits \in Nat /\ HeapUnits = HeapPages * PageUnits
  BY PoolAssumption DEF HeapUnits
<1>5. NULL \notin Int /\ NULL \notin Pools
  <2>1. NULL \notin Int
    BY PoolAssumption, Zenon
  <2>2. Nat \subseteq Int
    OBVIOUS
  <2> QED
    BY <1>1, <2>1, <2>2, Zenon
<1>6. PageUnits \in Nat /\ HeapPages \in Nat /\ HeapUnits < SizeMod /\ SizeMod \in Nat /\ Requests \subseteq Nat
  BY PoolAssumption
<1> QED
  BY <1>1, <1>2, <1>3, <1>4, <1>5, <1>6

LEMMA Division ==
  ASSUME NEW a \in Nat, NEW m \in Nat, m > 0
  PROVE  /\ a \div m \in Nat /\ (a \div m) * m <= a /\ a < (a \div m) * m + m
         /\ a = (a \div m) * m + (a % m)
<1>1. a \div m \in Nat /\ (a \div m) * m <= a /\ a < (a \div m) * m + m
  OBVIOUS
<1>2. a = (a \div m) * m + (a % m)
  OBVIOUS
<1> QED
  BY <1>1, <1>2

LEMMA Quotient ==
  ASSUME NEW q \in Nat, NEW m \in Nat, NEW r \in 0 .. m - 1
  PROVE  (q * m + r) \div m = q
OBVIOUS

LEMMA Multiples ==
  ASSUME NEW a \in Nat, NEW b \in Nat, NEW m \in Nat
  PROVE  /\ a * m \in Nat /\ (a + 1) * m = a * m + m /\ (a + b) * m = a * m + b * m
         /\ a < b => a * m + m <= b * m
         /\ a <= b => a * m <= b * m
OBVIOUS

LEMMA PageNumber ==
  ASSUME NEW q \in Nat, NEW r \in 0 .. PageUnits - 1
  PROVE  PageOf(q * PageUnits + r) = q
BY Constants, Quotient DEF PageOf

LEMMA PagesForFacts ==
  ASSUME NEW n \in Nat, n > 0
  PROVE  PagesFor(n) \in Nat /\ PagesFor(n) > 0 /\ n <= PagesFor(n) * PageUnits
<1> DEFINE q == (n - 1) \div PageUnits
<1>1. q \in Nat /\ n - 1 < q * PageUnits + PageUnits
  BY Constants, Division
<1> HIDE DEF q
<1>2. (q + 1) * PageUnits = q * PageUnits + PageUnits /\ q * PageUnits \in Nat
  BY <1>1, Constants, Multiples
<1>3. PagesFor(n) = q + 1
  BY DEF PagesFor, q
<1> QED
  BY <1>1, <1>2, <1>3, Constants

\* The chunks of a page fill it.
LEMMA ChunksFill ==
  ASSUME NEW p \in Pools
  PROVE  /\ ChunksPerPage(p) \in Nat /\ ChunksPerPage(p) >= 1
         /\ \A k \in 1 .. ChunksPerPage(p) :
              /\ (k - 1) * MaxSize[p] \in Nat
              /\ (k - 1) * MaxSize[p] + MaxSize[p] = k * MaxSize[p]
              /\ (k - 1) * MaxSize[p] + MaxSize[p] <= PageUnits
              /\ (k - 1) * MaxSize[p] + MaxSize[p] < PageUnits <=> k < ChunksPerPage(p)
         /\ \A j, k \in 1 .. ChunksPerPage(p) :
              j < k => (j - 1) * MaxSize[p] + MaxSize[p] <= (k - 1) * MaxSize[p]
<1> DEFINE m == MaxSize[p]
           n == ChunksPerPage(p)
<1>1. m \in Nat /\ m >= 2 /\ m <= PageUnits /\ PageUnits \in Nat /\ PageUnits % m = 0
  BY Constants, PoolAssumption
<1> HIDE DEF m
<1>2. n = PageUnits \div m
  BY DEF ChunksPerPage, m
<1>3. n \in Nat /\ PageUnits = n * m
  BY <1>1, <1>2, Division
<1> HIDE DEF n
<1>4. n >= 1
  BY <1>1, <1>3
<1>5. ASSUME NEW k \in 1 .. n
      PROVE  /\ (k - 1) * m \in Nat /\ (k - 1) * m + m = k * m
             /\ (k - 1) * m + m <= PageUnits
             /\ (k - 1) * m + m < PageUnits <=> k < n
  <2>1. k - 1 \in Nat /\ k \in Nat /\ (k - 1) + 1 = k
    BY <1>3
  <2>2. (k - 1) * m \in Nat /\ (k - 1) * m + m = k * m
    BY <1>1, <2>1, Multiples
  <2>3. k <= n /\ k * m <= n * m /\ (k < n => k * m + m <= n * m)
    BY <1>1, <1>3, <2>1, Multiples
  <2> QED
    BY <1>1, <1>3, <2>1, <2>2, <2>3
<1>6. ASSUME NEW j \in 1 .. n, NEW k \in 1 .. n, j < k
      PROVE  (j - 1) * m + m <= (k - 1) * m
  <2>1. j - 1 \in Nat /\ k - 1 \in Nat /\ j - 1 < k - 1
    BY <1>3, <1>6
  <2> QED
    BY <1>1, <2>1, Multiples
<1> QED
  BY <1>3, <1>4, <1>5, <1>6 DEF n, m

\* The first pool that is large enough is there when one is.
LEMMA Least ==
  ASSUME NEW T, T \subseteq Nat, T # {}
  PROVE  \E x \in T : \A y \in T : x <= y
<1>1. PICK x \in T : \A y \in T : ~ (<<y, x>> \in OpToRel(<, Nat))
  BY WFMin, NatLessThanWellFounded
<1>2. \A y \in T : ~ (y < x)
  BY <1>1 DEF OpToRel
<1> QED
  BY <1>2

LEMMA BestPool ==
  ASSUME NEW size \in Nat
  PROVE  \/ get_best_pool(size) \in Pools /\ size <= MaxSize[get_best_pool(size)]
         \/ get_best_pool(size) = NULL /\ \A p \in Pools : ~(size <= MaxSize[p])
<1> DEFINE T == {p \in Pools : size <= MaxSize[p]}
           Best(p) == size <= MaxSize[p] /\ \A q \in Pools : size <= MaxSize[q] => p <= q
<1>1. CASE \E p \in Pools : size <= MaxSize[p]
  <2>1. T # {} /\ T \subseteq Nat
    BY <1>1, Constants
  <2>2. \E x \in T : \A y \in T : x <= y
    BY <2>1, Least
  <2>3. \E x \in Pools : Best(x)
    BY <2>2
  <2>4. (CHOOSE p \in Pools : Best(p)) \in Pools /\ Best(CHOOSE p \in Pools : Best(p))
    BY <2>3
  <2>5. get_best_pool(size) = CHOOSE p \in Pools : Best(p)
    BY <1>1 DEF get_best_pool
  <2> QED
    BY <2>4, <2>5
<1>2. CASE ~ \E p \in Pools : size <= MaxSize[p]
  BY <1>2 DEF get_best_pool
<1> QED
  BY <1>1, <1>2

-----------------------------------------------------------------------------
(* Facts about stretches.                                                  *)

LEMMA ApartFacts ==
  ASSUME NEW a \in Nat, NEW m \in Nat, NEW b \in Nat, NEW n \in Nat, Apart(a, m, b, n)
  PROVE  /\ Apart(b, n, a, m)
         /\ (a .. a + m - 1) \cap (b .. b + n - 1) = {}
         /\ m > 0 /\ n > 0 => a # b
BY DEF Apart

\* The pages of a stretch of whole pages, and of one apart from it.
LEMMA WholePages ==
  ASSUME NEW q \in Nat, NEW l \in Nat
  PROVE  /\ AllLive(q * PageUnits, l * PageUnits) => q .. q + l - 1 \subseteq live_pages
         /\ \A a, m \in Nat : Apart(q * PageUnits, l * PageUnits, a, m) =>
              \A x \in a .. a + m - 1 : PageOf(x) \notin q .. q + l - 1
<1>1. q * PageUnits \in Nat /\ l * PageUnits \in Nat /\ q + l \in Nat
      /\ (q + l) * PageUnits = q * PageUnits + l * PageUnits
  BY Constants, Multiples
<1>2. ASSUME AllLive(q * PageUnits, l * PageUnits), NEW x \in q .. q + l - 1
      PROVE  x \in live_pages
  <2>1. x \in Nat /\ q <= x /\ x < q + l
    OBVIOUS
  <2>2. q * PageUnits <= x * PageUnits /\ x * PageUnits + PageUnits <= (q + l) * PageUnits
        /\ x * PageUnits \in Nat
    BY <1>1, <2>1, Constants, Multiples
  <2>3. x * PageUnits \in q * PageUnits .. q * PageUnits + l * PageUnits - 1
    BY <1>1, <2>2, Constants
  <2>4. PageOf(x * PageUnits + 0) = x
    BY <2>1, Constants, PageNumber
  <2>5. PageOf(x * PageUnits) = x
    BY <2>2, <2>4
  <2> QED
    BY <1>2, <2>3, <2>5 DEF AllLive
<1>3. ASSUME NEW a \in Nat, NEW m \in Nat, Apart(q * PageUnits, l * PageUnits, a, m),
             NEW x \in a .. a + m - 1, PageOf(x) \in q .. q + l - 1
      PROVE  FALSE
  <2> DEFINE n == PageOf(x)
  <2>1. x \in Nat
    OBVIOUS
  <2>2. n \in Nat /\ n * PageUnits <= x /\ x < n * PageUnits + PageUnits
    BY <2>1, Constants, Division DEF PageOf
  <2>3. q <= n /\ n < q + l
    BY <1>3, <2>2
  <2> HIDE DEF n
  <2>4. q * PageUnits <= n * PageUnits /\ n * PageUnits + PageUnits <= (q + l) * PageUnits
        /\ n * PageUnits \in Nat
    BY <1>1, <2>2, <2>3, Constants, Multiples
  <2> QED
    BY <1>1, <1>3, <2>1, <2>2, <2>4, Constants DEF Apart
<1> QED
  BY <1>2, <1>3

-----------------------------------------------------------------------------
(* What the invariant says of one chunk and of one block.                  *)

LEMMA ChunkFacts ==
  ASSUME HeapInv, NEW p \in Pools
  PROVE  /\ freelist[p] \in Seq(0 .. HeapUnits - 1) /\ Len(freelist[p]) \in Nat
         /\ \A k \in 1 .. Len(freelist[p]) :
              /\ freelist[p][k] \in Nat /\ freelist[p][k] \in 0 .. HeapUnits - 1
              /\ freelist[p][k] + MaxSize[p] <= kern_heap_top
              /\ AllLive(freelist[p][k], MaxSize[p])
<1>1. freelist[p] \in Seq(0 .. HeapUnits - 1)
  BY DEF HeapInv, Typed
<1>2. /\ Len(freelist[p]) \in Nat
      /\ \A k \in 1 .. Len(freelist[p]) : freelist[p][k] \in 0 .. HeapUnits - 1
  BY <1>1, LenProperties, ElementOfSeq
<1>3. \A k \in 1 .. Len(freelist[p]) :
        freelist[p][k] + MaxSize[p] <= kern_heap_top /\ AllLive(freelist[p][k], MaxSize[p])
  BY DEF HeapInv, Within
<1> QED
  BY <1>1, <1>2, <1>3, Constants, SMTT(30)

LEMMA TopFacts ==
  ASSUME HeapInv
  PROVE  /\ kern_heap_top \in Nat /\ kern_heap_top <= HeapUnits
         /\ kern_heap_top = PageOf(kern_heap_top) * PageUnits /\ PageOf(kern_heap_top) \in Nat
<1>1. kern_heap_top \in 0 .. HeapUnits /\ kern_heap_top = PageOf(kern_heap_top) * PageUnits
  BY DEF HeapInv, Typed, TypeOK, Within
<1>2. kern_heap_top \in Nat /\ kern_heap_top <= HeapUnits
  BY <1>1, Constants
<1> QED
  BY <1>1, <1>2, Constants, Division DEF PageOf

LEMMA BlockFacts ==
  ASSUME HeapInv, NEW b \in DOMAIN blocks
  PROVE  /\ b \in Nat /\ b - HEADER \in Nat /\ b - HEADER \in 0 .. HeapUnits - 1
         /\ blocks[b] \in [pool : Pools \cup {NULL}, request : Requests \ {0}]
         /\ blocks[b].pool \in Pools \cup {NULL} /\ blocks[b].request \in Nat /\ blocks[b].request > 0
         /\ BlockLen(b) \in Nat /\ BlockLen(b) > 0 /\ blocks[b].request + HEADER <= BlockLen(b)
         /\ b - HEADER + BlockLen(b) <= kern_heap_top
         /\ AllLive(b - HEADER, BlockLen(b))
         /\ mem[b - HEADER] = HeaderOf(b)
<1>1. /\ blocks[b] \in [pool : Pools \cup {NULL}, request : Requests \ {0}]
      /\ b \in 0 .. HeapUnits /\ b >= HEADER
  BY DEF HeapInv, Typed, TypeOK
<1>2. /\ b \in Nat /\ b - HEADER \in Nat
      /\ blocks[b].pool \in Pools \cup {NULL} /\ blocks[b].request \in Nat /\ blocks[b].request > 0
  <2>1. b \in Nat /\ b - HEADER \in Nat
    BY <1>1, Constants DEF HEADER
  <2>2. blocks[b].pool \in Pools \cup {NULL} /\ blocks[b].request \in Requests \ {0}
    BY <1>1
  <2>3. blocks[b].request \in Nat /\ blocks[b].request # 0
    BY <2>2, Constants
  <2> QED
    BY <2>1, <2>2, <2>3
<1>3. blocks[b].request + HEADER \in Nat /\ blocks[b].request + HEADER > 0
  BY <1>2 DEF HEADER
<1>4. BlockLen(b) \in Nat
  <2>1. CASE blocks[b].pool = NULL
    <3>1. PagesFor(blocks[b].request + HEADER) \in Nat
      BY <1>3, PagesForFacts
    <3> QED
      BY <2>1, <3>1, Constants, Multiples DEF BlockLen, LenOf
  <2>2. CASE blocks[b].pool # NULL
    BY <2>2, <1>2, Constants DEF BlockLen, LenOf
  <2> QED
    BY <2>1, <2>2
<1>5. /\ blocks[b].request + HEADER <= BlockLen(b) /\ b - HEADER + BlockLen(b) <= kern_heap_top
      /\ AllLive(b - HEADER, BlockLen(b)) /\ mem[b - HEADER] = HeaderOf(b)
  BY DEF HeapInv, Headed, Within
<1>6. BlockLen(b) > 0
  BY <1>3, <1>4, <1>5
<1>7. b - HEADER \in 0 .. HeapUnits - 1
  BY <1>2, <1>4, <1>5, <1>6, TopFacts, Constants DEF HEADER
<1> QED
  BY <1>1, <1>2, <1>4, <1>5, <1>6, <1>7

\* A chunk is nowhere in a block, and no other block's header is.
LEMMA NotInBlock ==
  ASSUME HeapInv, NEW b \in DOMAIN blocks, NEW x \in b - HEADER .. b - HEADER + BlockLen(b) - 1
  PROVE  /\ \A p \in Pools : \A k \in 1 .. Len(freelist[p]) : freelist[p][k] # x
         /\ \A c \in DOMAIN blocks : c # b => c - HEADER # x
<1>1. b - HEADER \in Nat /\ BlockLen(b) \in Nat /\ x \in Int
  BY BlockFacts
<1>2. ASSUME NEW p \in Pools, NEW k \in 1 .. Len(freelist[p]) PROVE freelist[p][k] # x
  <2>1. Apart(b - HEADER, BlockLen(b), freelist[p][k], MaxSize[p])
    BY DEF HeapInv, ListsAndBlocksApart
  <2>2. freelist[p][k] \in Nat /\ MaxSize[p] \in Nat /\ MaxSize[p] >= 2
    BY ChunkFacts, Constants
  <2> QED
    BY <1>1, <2>1, <2>2, SMTT(30) DEF Apart
<1>3. ASSUME NEW c \in DOMAIN blocks, c # b PROVE c - HEADER # x
  <2>1. Apart(b - HEADER, BlockLen(b), c - HEADER, BlockLen(c))
    BY <1>3 DEF HeapInv, BlocksApart
  <2>2. c - HEADER \in Nat /\ BlockLen(c) \in Nat /\ BlockLen(c) > 0
    BY BlockFacts
  <2> QED
    BY <1>1, <2>1, <2>2 DEF Apart
<1> QED
  BY <1>2, <1>3

\* Nothing is at or above kern_heap_top.
LEMMA NotAbove ==
  ASSUME HeapInv
  PROVE  /\ \A p \in Pools : \A k \in 1 .. Len(freelist[p]) : freelist[p][k] < kern_heap_top
         /\ \A c \in DOMAIN blocks : c - HEADER < kern_heap_top
<1>1. ASSUME NEW p \in Pools, NEW k \in 1 .. Len(freelist[p]) PROVE freelist[p][k] < kern_heap_top
  <2>1. freelist[p][k] \in Nat /\ freelist[p][k] + MaxSize[p] <= kern_heap_top
    BY ChunkFacts
  <2> QED
    BY <2>1, Constants, TopFacts, SMTT(30)
<1>2. ASSUME NEW c \in DOMAIN blocks PROVE c - HEADER < kern_heap_top
  BY BlockFacts, TopFacts
<1> QED
  BY <1>1, <1>2

\* A step that leaves the lists, the blocks and the pages alone.
LEMMA SpaceKept ==
  ASSUME HeapInv, UNCHANGED <<freelist, blocks, kern_heap_top, live_pages>>
  PROVE  ListsApart' /\ BlocksApart' /\ ListsAndBlocksApart' /\ Within'
<1>1. ListsApart'
  BY DEF HeapInv, ListsApart
<1>2. BlocksApart' /\ ListsAndBlocksApart'
  BY DEF HeapInv, BlocksApart, ListsAndBlocksApart, BlockLen
<1>3. Within'
  BY DEF HeapInv, Within, BlockLen, AllLive
<1> QED
  BY <1>1, <1>2, <1>3

-----------------------------------------------------------------------------
(* The actions.                                                            *)

LEMMA InitInv == ASSUME Init PROVE HeapInv
<1>1. /\ mem = [a \in 0 .. HeapUnits - 1 |-> Junk]
      /\ avail = [p \in Pools |-> 0] /\ head = [p \in Pools |-> NULL]
      /\ kern_heap_top = 0 /\ live_pages = {}
      /\ pc = "kmalloc_init" /\ pool_ptr = 1 /\ request = NULL
      /\ freelist = [p \in Pools |-> <<>>] /\ blocks = [b \in {} |-> 0]
  BY DEF Init
<1>2. DOMAIN blocks = {}
  BY <1>1
<1>3. <<>> \in Seq(0 .. HeapUnits - 1) /\ Len(<<>>) = 0
  BY EmptySeq
<1>4. Typed
  <2>1. mem \in [0 .. HeapUnits - 1 -> Words]
    BY <1>1 DEF Words
  <2>2. freelist \in [Pools -> Seq(0 .. HeapUnits - 1)]
    BY <1>1, <1>3
  <2>3. blocks \in [DOMAIN blocks -> [pool : Pools \cup {NULL}, request : Requests \ {0}]]
    BY <1>1
  <2>4. /\ avail \in [Pools -> Nat] /\ head \in [Pools -> (0 .. HeapUnits - 1) \cup {NULL}]
        /\ kern_heap_top \in 0 .. HeapUnits /\ live_pages \subseteq 0 .. HeapPages - 1
        /\ request \in Requests \cup {NULL} /\ pool_ptr \in (1 .. Len(MaxSize) + 1) \cup {NULL}
    BY <1>1, Constants
  <2> QED
    BY <1>1, <1>2, <2>1, <2>2, <2>3, <2>4 DEF Typed, TypeOK
<1>5. Located
  BY <1>1, Constants DEF Located
<1>6. \A p \in Pools : freelist[p] = <<>> /\ Len(freelist[p]) = 0 /\ head[p] = NULL /\ avail[p] = 0
  BY <1>1, <1>3
<1>7. Linked /\ AvailCovered
  BY <1>6 DEF Linked, AvailCovered, At
<1>8. kern_heap_top = PageOf(kern_heap_top) * PageUnits
  <2>1. 0 * PageUnits + 0 = 0 /\ 0 * PageUnits = 0 /\ 0 \in 0 .. PageUnits - 1
    BY Constants
  <2>2. PageOf(0 * PageUnits + 0) = 0
    BY <2>1, PageNumber
  <2> QED
    BY <1>1, <2>1, <2>2
<1>9. ListsApart /\ BlocksApart /\ ListsAndBlocksApart /\ Within /\ Headed
  BY <1>2, <1>6, <1>8 DEF ListsApart, BlocksApart, ListsAndBlocksApart, Within, Headed
<1> QED
  BY <1>4, <1>5, <1>7, <1>9 DEF HeapInv

LEMMA StutterStep == ASSUME HeapInv, UNCHANGED vars PROVE HeapInv'
<1>1. UNCHANGED <<mem, avail, head, kern_heap_top, live_pages, pc, pool_ptr, request, freelist, blocks>>
  BY DEF vars, pool_arr, pages, locals
<1>2. Typed' /\ Located'
  BY <1>1 DEF HeapInv, Typed, TypeOK, Located
<1>3. Linked' /\ AvailCovered'
  BY <1>1 DEF HeapInv, Linked, AvailCovered, At
<1>4. Headed'
  BY <1>1 DEF HeapInv, Headed, HeaderOf, BlockLen
<1> QED
  BY <1>1, <1>2, <1>3, <1>4, SpaceKept DEF HeapInv

LEMMA OwnerWritesStep ==
  ASSUME HeapInv, NEW b \in DOMAIN blocks, OwnerWrites(b)
  PROVE  HeapInv'
<1>1. /\ mem' = [a \in DOMAIN mem |-> IF a \in Payload(b) THEN Junk ELSE mem[a]]
      /\ UNCHANGED <<avail, head, kern_heap_top, live_pages, pc, pool_ptr, request, freelist, blocks>>
  BY DEF OwnerWrites, pool_arr, pages, locals
<1>2. mem \in [0 .. HeapUnits - 1 -> Words]
  BY DEF HeapInv, Typed, TypeOK
<1>3. Typed' /\ Located'
  <2>1. mem' \in [0 .. HeapUnits - 1 -> Words]
    BY <1>1, <1>2 DEF Words
  <2> QED
    BY <1>1, <2>1 DEF HeapInv, Typed, TypeOK, Located, Words
<1>4. \A x \in Payload(b) : x \in b - HEADER .. b - HEADER + BlockLen(b) - 1 /\ x # b - HEADER
  BY BlockFacts DEF Payload, HEADER
<1>5. Linked'
  <2>1. ASSUME NEW p \in Pools, NEW k \in 1 .. Len(freelist[p])
        PROVE  mem'[freelist[p][k]] = mem[freelist[p][k]]
    <3>1. freelist[p][k] \in 0 .. HeapUnits - 1 /\ freelist[p][k] \notin Payload(b)
      BY <1>4, ChunkFacts, NotInBlock
    <3> QED
      BY <1>1, <1>2, <3>1
  <2> QED
    BY <1>1, <2>1 DEF HeapInv, Linked, At
<1>6. Headed'
  <2>1. ASSUME NEW c \in DOMAIN blocks PROVE mem'[c - HEADER] = mem[c - HEADER]
    <3>1. c - HEADER \in 0 .. HeapUnits - 1 /\ c - HEADER \notin Payload(b)
      BY <1>4, BlockFacts, NotInBlock
    <3> QED
      BY <1>1, <1>2, <3>1
  <2> QED
    BY <1>1, <2>1 DEF HeapInv, Headed, HeaderOf, BlockLen
<1>7. AvailCovered'
  BY <1>1 DEF HeapInv, AvailCovered
<1> QED
  BY <1>1, <1>3, <1>5, <1>6, <1>7, SpaceKept DEF HeapInv

\* kmalloc's choice, and the return of kmalloc_init.
LEMMA ChoiceSteps ==
  ASSUME HeapInv, SizesFit, InitReturns \/ \E size \in Requests : Kmalloc(size)
  PROVE  HeapInv'
<1>1. UNCHANGED <<mem, avail, head, kern_heap_top, live_pages, freelist, blocks>>
  BY DEF InitReturns, Kmalloc, pool_arr, pages
<1>2. Linked' /\ AvailCovered' /\ Headed'
  BY <1>1 DEF HeapInv, Linked, AvailCovered, At, Headed, HeaderOf, BlockLen
<1>3. CASE InitReturns
  <2>1. pc' = "ready" /\ pool_ptr' = NULL /\ request' = NULL
    BY <1>3 DEF InitReturns, Returns
  <2>2. Typed' /\ Located'
    BY <1>1, <2>1 DEF HeapInv, Typed, TypeOK, Located
  <2> QED
    BY <1>1, <1>2, <2>2, SpaceKept DEF HeapInv
<1>4. ASSUME NEW size \in Requests, Kmalloc(size)
      PROVE  HeapInv'
  <2>1. /\ request' = size /\ pool_ptr' = get_best_pool(bytes_needed(size))
        /\ pc' = IF size = 0 THEN "halted"
                 ELSE IF pool_ptr' = NULL THEN "alloc_pages"
                 ELSE IF avail[pool_ptr'] = 0 THEN "add_page" ELSE "take_chunk"
    BY <1>4 DEF Kmalloc
  <2>2. size \in Nat /\ size + HEADER \in Nat /\ bytes_needed(size) = size + HEADER
    <3>1. size \in Nat /\ size + HEADER < SizeMod /\ size + HEADER \in Nat
      BY Constants DEF SizesFit, HEADER
    <3>2. (size + HEADER) % SizeMod = size + HEADER
      BY <3>1, Constants
    <3> QED
      BY <3>1, <3>2 DEF bytes_needed
  <2>3. \/ pool_ptr' \in Pools /\ size + HEADER <= MaxSize[pool_ptr'] /\ pool_ptr' # NULL
        \/ pool_ptr' = NULL
    BY <2>1, <2>2, BestPool, Constants
  <2>4. avail \in [Pools -> Nat]
    BY DEF HeapInv, Typed, TypeOK
  <2>5. Typed'
    <3>1. pool_ptr' \in (1 .. Len(MaxSize) + 1) \cup {NULL}
      BY <2>3, Constants DEF Pools
    <3>2. pc' \in {"halted", "alloc_pages", "add_page", "take_chunk"}
      BY <2>1
    <3> QED
      BY <1>1, <2>1, <3>1, <3>2 DEF HeapInv, Typed, TypeOK
  <2>6. Located'
    <3>1. pc' = "halted" => request' = 0
      BY <2>1
    <3>2. pc' \in {"alloc_pages", "add_page", "take_chunk"} => request' \in Requests \ {0}
      BY <2>1
    <3>3. pc' \in {"add_page", "take_chunk"} =>
            pool_ptr' \in Pools /\ request' + HEADER <= MaxSize[pool_ptr']
      BY <2>1, <2>3
    <3>4. pc' = "take_chunk" => avail'[pool_ptr'] > 0
      BY <1>1, <2>1, <2>3, <2>4
    <3> QED
      BY <2>1, <3>1, <3>2, <3>3, <3>4 DEF Located
  <2> QED
    BY <1>1, <1>2, <2>5, <2>6, SpaceKept DEF HeapInv
<1> QED
  BY <1>3, <1>4

\* The chunks of a new page: in it, in order, next to each other.
LEMMA NewChunksFacts ==
  ASSUME HeapInv, NEW p \in Pools, kern_heap_top + PageUnits <= HeapUnits
  PROVE  /\ NewChunks(p) \in Seq(0 .. HeapUnits - 1) /\ Len(NewChunks(p)) = ChunksPerPage(p)
         /\ DOMAIN NewChunks(p) = 1 .. ChunksPerPage(p)
         /\ NewChunks(p)[1] = kern_heap_top
         /\ \A k \in 1 .. ChunksPerPage(p) :
              /\ NewChunks(p)[k] \in kern_heap_top .. HeapUnits - 1
              /\ NewChunks(p)[k] + MaxSize[p] <= kern_heap_top + PageUnits
              /\ NewChunks(p)[k] + MaxSize[p] < kern_heap_top + PageUnits <=> k < ChunksPerPage(p)
              /\ k < ChunksPerPage(p) => NewChunks(p)[k + 1] = NewChunks(p)[k] + MaxSize[p]
         /\ \A j, k \in 1 .. ChunksPerPage(p) :
              j # k => Apart(NewChunks(p)[j], MaxSize[p], NewChunks(p)[k], MaxSize[p])
<1> DEFINE n == ChunksPerPage(p)
           new == NewChunks(p)
           t == kern_heap_top
           m == MaxSize[p]
<1>1. n \in Nat /\ n >= 1
  BY ChunksFill
<1>2. m \in Nat /\ m >= 2 /\ t \in Nat /\ PageUnits \in Nat /\ HeapUnits \in Nat
  BY Constants, TopFacts
<1>3. DOMAIN new = 1 .. n /\ \A k \in 1 .. n : new[k] = t + (k - 1) * m
  BY DEF NewChunks
<1>4. \A k \in 1 .. n : /\ (k - 1) * m \in Nat /\ (k - 1) * m + m = k * m
                        /\ (k - 1) * m + m <= PageUnits
                        /\ (k - 1) * m + m < PageUnits <=> k < n
  BY ChunksFill
<1>5. \A j, k \in 1 .. n : j < k => (j - 1) * m + m <= (k - 1) * m
  BY ChunksFill
<1>6. new = [k \in 1 .. n |-> t + (k - 1) * m]
  BY DEF NewChunks
<1> HIDE DEF n, m, t, new
<1>7. t + PageUnits <= HeapUnits
  BY DEF t
<1>8. ASSUME NEW k \in 1 .. n
      PROVE  /\ new[k] \in t .. HeapUnits - 1 /\ new[k] + m <= t + PageUnits
             /\ new[k] + m < t + PageUnits <=> k < n
  BY <1>2, <1>3, <1>4, <1>7
<1>9. ASSUME NEW k \in 1 .. n, k < n PROVE new[k + 1] = new[k] + m
  <2>1. k + 1 \in 1 .. n /\ (k + 1) - 1 = k
    BY <1>1, <1>9
  <2>2. new[k + 1] = t + ((k + 1) - 1) * m
    BY <1>3, <2>1
  <2>3. new[k + 1] = t + k * m /\ new[k] = t + (k - 1) * m
    BY <1>3, <2>1, <2>2
  <2>4. k * m = (k - 1) * m + m /\ (k - 1) * m \in Nat
    BY <1>4
  <2> QED
    BY <1>2, <2>3, <2>4
<1>10. ASSUME NEW j \in 1 .. n, NEW k \in 1 .. n, j # k PROVE Apart(new[j], m, new[k], m)
  <2>1. new[j] = t + (j - 1) * m /\ new[k] = t + (k - 1) * m
        /\ (j - 1) * m \in Nat /\ (k - 1) * m \in Nat
    BY <1>3, <1>4
  <2>2. CASE j < k
    BY <1>2, <1>5, <2>1, <2>2 DEF Apart
  <2>3. CASE k < j
    BY <1>2, <1>5, <2>1, <2>3 DEF Apart
  <2> QED
    BY <1>1, <1>10, <2>2, <2>3
<1>11. new \in Seq(0 .. HeapUnits - 1) /\ Len(new) = n
  <2>1. \A k \in 1 .. n : t + (k - 1) * m \in 0 .. HeapUnits - 1
    BY <1>2, <1>3, <1>8
  <2> DEFINE at(k) == t + (k - 1) * m
  <2>2. \A k \in 1 .. n : at(k) \in 0 .. HeapUnits - 1
    BY <2>1
  <2>3. new = [k \in 1 .. n |-> at(k)]
    BY <1>6
  <2> HIDE DEF at
  <2> QED
    BY <1>1, <2>2, <2>3
<1>12. new[1] = t
  <2>1. (1 - 1) * m = 0
    BY <1>2
  <2> QED
    BY <1>1, <1>2, <1>3, <2>1
<1> QED
  BY <1>3, <1>8, <1>9, <1>10, <1>11, <1>12 DEF n, m, t, new

\* What add_page does to memory.
LEMMA ThreadedFacts ==
  ASSUME HeapInv, NEW p \in Pools, kern_heap_top + PageUnits <= HeapUnits
  PROVE  /\ Threaded(p) \in [0 .. HeapUnits - 1 -> Words]
         /\ \A a \in 0 .. HeapUnits - 1 : a < kern_heap_top => Threaded(p)[a] = mem[a]
         /\ \A k \in 1 .. ChunksPerPage(p) : Threaded(p)[NewChunks(p)[k]] =
              FreeChunk(IF k < ChunksPerPage(p) THEN NewChunks(p)[k + 1] ELSE head[p])
<1> DEFINE n == ChunksPerPage(p)
           new == NewChunks(p)
           t == kern_heap_top
           m == MaxSize[p]
           w == Threaded(p)
           Next1(a) == IF a + m < t + PageUnits THEN a + m ELSE head[p]
<1>1. mem \in [0 .. HeapUnits - 1 -> Words] /\ head[p] \in (0 .. HeapUnits - 1) \cup {NULL}
  BY DEF HeapInv, Typed, TypeOK
<1>2. n \in Nat /\ m \in Nat /\ t \in Nat /\ HeapUnits \in Nat /\ PageUnits \in Nat
  BY ChunksFill, Constants, TopFacts
<1>3. /\ DOMAIN new = 1 .. n
      /\ \A k \in 1 .. n : /\ new[k] \in t .. HeapUnits - 1
                           /\ new[k] + m < t + PageUnits <=> k < n
                           /\ k < n => new[k + 1] = new[k] + m
  BY NewChunksFacts
<1>4. w = [a \in 0 .. HeapUnits - 1 |->
             IF \E k \in 1 .. n : new[k] = a THEN FreeChunk(Next1(a)) ELSE mem[a]]
  BY <1>1, <1>3 DEF Threaded
<1>5. t + PageUnits <= HeapUnits
  OBVIOUS
<1> HIDE DEF n, new, t, m, w
<1>6. ASSUME NEW a \in 0 .. HeapUnits - 1
      PROVE  FreeChunk(Next1(a)) \in Words
  <2>1. Next1(a) \in (0 .. HeapUnits - 1) \cup {NULL}
    BY <1>1, <1>2, <1>5
  <2> QED
    BY <2>1 DEF FreeChunk, Words
<1> HIDE DEF Next1
<1>7. w \in [0 .. HeapUnits - 1 -> Words]
  BY <1>1, <1>4, <1>6
<1>8. \A a \in 0 .. HeapUnits - 1 : a < t => w[a] = mem[a]
  BY <1>2, <1>3, <1>4
<1>9. ASSUME NEW k \in 1 .. n
      PROVE  w[new[k]] = FreeChunk(IF k < n THEN new[k + 1] ELSE head[p])
  <2>1. new[k] \in 0 .. HeapUnits - 1
    BY <1>2, <1>3
  <2>2. w[new[k]] = FreeChunk(Next1(new[k]))
    BY <1>4, <2>1
  <2>3. Next1(new[k]) = IF k < n THEN new[k + 1] ELSE head[p]
    BY <1>3 DEF Next1
  <2> QED
    BY <2>2, <2>3
<1> QED
  BY <1>7, <1>8, <1>9 DEF n, new, t, m, w

\* A longer heap: what was there stays within it, in pages that are live.
LEMMA MoreHeap ==
  ASSUME HeapInv, kern_heap_top' \in Nat, kern_heap_top <= kern_heap_top',
         live_pages \subseteq live_pages'
  PROVE  /\ \A p \in Pools : \A k \in 1 .. Len(freelist[p]) :
              /\ freelist[p][k] + MaxSize[p] <= kern_heap_top'
              /\ \A x \in freelist[p][k] .. freelist[p][k] + MaxSize[p] - 1 : PageOf(x) \in live_pages'
         /\ \A b \in DOMAIN blocks :
              /\ b - HEADER + BlockLen(b) <= kern_heap_top'
              /\ \A x \in b - HEADER .. b - HEADER + BlockLen(b) - 1 : PageOf(x) \in live_pages'
<1>1. ASSUME NEW p \in Pools, NEW k \in 1 .. Len(freelist[p])
      PROVE  /\ freelist[p][k] + MaxSize[p] <= kern_heap_top'
             /\ \A x \in freelist[p][k] .. freelist[p][k] + MaxSize[p] - 1 : PageOf(x) \in live_pages'
  <2>1. /\ freelist[p][k] \in Nat /\ freelist[p][k] + MaxSize[p] <= kern_heap_top
        /\ AllLive(freelist[p][k], MaxSize[p])
    BY ChunkFacts
  <2>2. MaxSize[p] \in Nat /\ kern_heap_top \in Nat
    BY Constants, TopFacts
  <2>3. \A x \in freelist[p][k] .. freelist[p][k] + MaxSize[p] - 1 : PageOf(x) \in live_pages
    BY <2>1 DEF AllLive
  <2> QED
    BY <2>1, <2>2, <2>3
<1>2. ASSUME NEW b \in DOMAIN blocks
      PROVE  /\ b - HEADER + BlockLen(b) <= kern_heap_top'
             /\ \A x \in b - HEADER .. b - HEADER + BlockLen(b) - 1 : PageOf(x) \in live_pages'
  <2>1. /\ b - HEADER + BlockLen(b) <= kern_heap_top
        /\ b - HEADER \in Nat /\ BlockLen(b) \in Nat /\ kern_heap_top \in Nat
        /\ AllLive(b - HEADER, BlockLen(b))
    BY BlockFacts, TopFacts
  <2>2. \A x \in b - HEADER .. b - HEADER + BlockLen(b) - 1 : PageOf(x) \in live_pages
    BY <2>1 DEF AllLive
  <2>3. b - HEADER + BlockLen(b) <= kern_heap_top'
    BY <2>1
  <2> QED
    BY <2>2, <2>3
<1> QED
  BY <1>1, <1>2

\* add_page: the page's chunks are above all there is.
LEMMA AddPageKeeps ==
  ASSUME HeapInv, NEW p \in Pools, add_page(p), UNCHANGED blocks
  PROVE  /\ mem' \in [0 .. HeapUnits - 1 -> Words]
         /\ avail' \in [Pools -> Nat] /\ avail'[p] > 0
         /\ head' \in [Pools -> (0 .. HeapUnits - 1) \cup {NULL}]
         /\ freelist' \in [Pools -> Seq(0 .. HeapUnits - 1)]
         /\ kern_heap_top' \in 0 .. HeapUnits /\ live_pages' \subseteq 0 .. HeapPages - 1
         /\ Linked' /\ AvailCovered' /\ Headed'
         /\ ListsApart' /\ BlocksApart' /\ ListsAndBlocksApart' /\ Within'
<1> DEFINE n == ChunksPerPage(p)
           new == NewChunks(p)
           t == kern_heap_top
           m == MaxSize[p]
           f == freelist[p]
           q == PageOf(t)
<1>1. /\ t + PageUnits <= HeapUnits /\ mem' = Threaded(p)
      /\ head' = [head EXCEPT ![p] = t] /\ avail' = [avail EXCEPT ![p] = @ + n]
      /\ freelist' = [freelist EXCEPT ![p] = new \o f]
      /\ kern_heap_top' = t + PageUnits /\ live_pages' = live_pages \cup {q}
  BY DEF add_page
<1>2. /\ avail \in [Pools -> Nat] /\ head \in [Pools -> (0 .. HeapUnits - 1) \cup {NULL}]
      /\ freelist \in [Pools -> Seq(0 .. HeapUnits - 1)]
      /\ live_pages \subseteq 0 .. HeapPages - 1
  BY DEF HeapInv, Typed, TypeOK
<1>3. /\ t \in Nat /\ q \in Nat /\ t = q * PageUnits /\ PageUnits \in Nat /\ PageUnits > 0
      /\ HeapUnits \in Nat /\ HeapPages \in Nat /\ HeapUnits = HeapPages * PageUnits
      /\ m \in Nat /\ m >= 2
  BY Constants, TopFacts
<1>4. n \in Nat /\ n >= 1
  BY ChunksFill
<1>5. /\ new \in Seq(0 .. HeapUnits - 1) /\ Len(new) = n /\ new[1] = t
      /\ \A k \in 1 .. n : /\ new[k] \in t .. HeapUnits - 1 /\ new[k] + m <= t + PageUnits
                           /\ k < n => new[k + 1] = new[k] + m
      /\ \A j, k \in 1 .. n : j # k => Apart(new[j], m, new[k], m)
  BY <1>1, NewChunksFacts
<1>6. f \in Seq(0 .. HeapUnits - 1) /\ Len(f) \in Nat
  BY <1>2, LenProperties
<1> HIDE DEF n, new, t, m, f, q
<1>7. /\ new \o f \in Seq(0 .. HeapUnits - 1) /\ Len(new \o f) = n + Len(f)
      /\ \A k \in 1 .. n + Len(f) : (new \o f)[k] = IF k <= n THEN new[k] ELSE f[k - n]
  BY <1>5, <1>6, ConcatProperties, ZenonT(30)
<1>8. /\ mem' \in [0 .. HeapUnits - 1 -> Words]
      /\ \A a \in 0 .. HeapUnits - 1 : a < t => mem'[a] = mem[a]
      /\ \A k \in 1 .. n : mem'[new[k]] = FreeChunk(IF k < n THEN new[k + 1] ELSE head[p])
  BY <1>1, ThreadedFacts DEF n, new, t
<1>9. /\ avail' \in [Pools -> Nat] /\ avail'[p] > 0 /\ avail'[p] = avail[p] + n
      /\ \A r \in Pools : r # p => avail'[r] = avail[r]
  <2>1. avail[p] \in Nat /\ avail[p] + n \in Nat
    BY <1>2, <1>4
  <2> QED
    BY <1>1, <1>2, <1>4, <2>1
<1>10. /\ head' \in [Pools -> (0 .. HeapUnits - 1) \cup {NULL}] /\ head'[p] = t
       /\ \A r \in Pools : r # p => head'[r] = head[r]
  <2>1. t \in 0 .. HeapUnits - 1
    BY <1>1, <1>3
  <2> QED
    BY <1>1, <1>2, <2>1
<1>11. /\ freelist' \in [Pools -> Seq(0 .. HeapUnits - 1)] /\ freelist'[p] = new \o f
       /\ \A r \in Pools : r # p => freelist'[r] = freelist[r]
  BY <1>1, <1>2, <1>7
<1>12. /\ kern_heap_top' \in 0 .. HeapUnits /\ t <= kern_heap_top' /\ kern_heap_top' \in Nat
       /\ live_pages \subseteq live_pages'
  BY <1>1, <1>3
<1>13. live_pages' \subseteq 0 .. HeapPages - 1
  <2>1. HeapPages <= q => HeapPages * PageUnits <= q * PageUnits
    BY <1>3, Multiples
  <2>2. q < HeapPages
    BY <1>1, <1>3, <2>1
  <2>3. q \in 0 .. HeapPages - 1
    BY <1>3, <2>2
  <2> QED
    BY <1>1, <1>2, <2>3
\* Where each chunk of the lists comes from.
<1> DEFINE IsNew(r, k) == r = p /\ k <= n
           old(r, k) == IF r = p THEN k - n ELSE k
<1>14. ASSUME NEW r \in Pools, NEW k \in 1 .. Len(freelist'[r])
       PROVE  /\ IsNew(r, k) => k \in 1 .. n /\ freelist'[r][k] = new[k]
              /\ ~IsNew(r, k) => old(r, k) \in 1 .. Len(freelist[r])
                                 /\ freelist'[r][k] = freelist[r][old(r, k)]
  <2>1. CASE r = p
    <3>1. k \in 1 .. n + Len(f) /\ freelist'[r][k] = (new \o f)[k]
      BY <1>7, <1>11, <2>1
    <3>2. freelist'[r][k] = IF k <= n THEN new[k] ELSE f[k - n]
      BY <1>7, <3>1
    <3> QED
      BY <1>4, <1>6, <2>1, <3>1, <3>2 DEF f
  <2>2. CASE r # p
    BY <1>11, <2>2
  <2> QED
    BY <2>1, <2>2
<1> HIDE DEF IsNew, old
<1>15. \A r \in Pools : \A k \in 1 .. Len(freelist[r]) :
         freelist[r][k] \in 0 .. HeapUnits - 1 /\ freelist[r][k] < t /\ mem'[freelist[r][k]] = mem[freelist[r][k]]
  BY <1>8, ChunkFacts, NotAbove DEF t
<1>16. Linked'
  <2>1. Len(freelist'[p]) = n + Len(f) /\ At(freelist'[p], 1) = t
    BY <1>4, <1>5, <1>6, <1>7, <1>11 DEF At
  <2>2. head[p] = At(f, 1)
    BY DEF HeapInv, Linked, f
  <2>3. ASSUME NEW k \in 1 .. Len(freelist'[p])
        PROVE  mem'[freelist'[p][k]] = FreeChunk(At(freelist'[p], k + 1))
    <3>0. k \in 1 .. n + Len(f)
      BY <2>1
    <3>1. CASE k < n
      <4>1. k \in 1 .. n /\ k + 1 \in 1 .. n + Len(f) /\ k + 1 <= n
        BY <1>4, <1>6, <3>0, <3>1
      <4>2. freelist'[p][k] = new[k] /\ At(freelist'[p], k + 1) = new[k + 1]
        BY <1>7, <1>11, <2>1, <3>0, <4>1 DEF At
      <4> QED
        BY <1>8, <3>1, <4>1, <4>2
    <3>2. CASE k = n
      <4>1. k \in 1 .. n /\ freelist'[p][k] = new[k]
        BY <1>4, <1>7, <1>11, <3>0, <3>2
      <4>2. At(freelist'[p], k + 1) = At(f, 1)
        <5>1. CASE Len(f) = 0
          BY <1>4, <2>1, <3>2, <5>1 DEF At
        <5>2. CASE Len(f) # 0
          <6>1. n + 1 \in 1 .. n + Len(f) /\ (n + 1) - n = 1 /\ ~(n + 1 <= n) /\ 1 <= Len(f)
            BY <1>4, <1>6, <5>2
          <6>2. (new \o f)[n + 1] = f[1]
            BY <1>7, <6>1
          <6> QED
            BY <1>11, <2>1, <3>2, <6>1, <6>2 DEF At
        <5> QED
          BY <5>1, <5>2
      <4> QED
        BY <1>8, <2>2, <3>2, <4>1, <4>2
    <3>3. CASE k > n
      <4> DEFINE i == k - n
      <4>1. /\ i \in 1 .. Len(f) /\ k + 1 - n = i + 1 /\ ~(k <= n) /\ ~(k + 1 <= n)
            /\ k + 1 <= n + Len(f) <=> i + 1 <= Len(f)
        BY <1>4, <1>6, <3>0, <3>3
      <4>2. freelist'[p][k] = f[i]
        BY <1>7, <1>11, <3>0, <4>1
      <4>3. At(freelist'[p], k + 1) = At(f, i + 1)
        <5>1. CASE k + 1 <= n + Len(f)
          <6>1. k + 1 \in 1 .. n + Len(f)
            BY <1>4, <1>6, <3>0, <5>1
          <6> DEFINE j == k + 1
          <6>2. j \in 1 .. n + Len(f) /\ ~(j <= n) /\ j - n = i + 1
            BY <1>4, <3>0, <4>1, <6>1
          <6> HIDE DEF j, i
          <6>3. (new \o f)[j] = f[i + 1]
            BY <1>7, <6>2
          <6> QED
            BY <1>11, <2>1, <4>1, <5>1, <6>3 DEF At, j
        <5>2. CASE ~(k + 1 <= n + Len(f))
          BY <2>1, <4>1, <5>2 DEF At
        <5> QED
          BY <5>1, <5>2
      <4> HIDE DEF i
      <4>4. mem[f[i]] = FreeChunk(At(f, i + 1)) /\ mem'[f[i]] = mem[f[i]]
        BY <1>15, <4>1 DEF HeapInv, Linked, f
      <4> QED
        BY <4>2, <4>3, <4>4
    <3> QED
      BY <1>4, <3>0, <3>1, <3>2, <3>3
  <2>4. ASSUME NEW r \in Pools, r # p
        PROVE  /\ head'[r] = At(freelist'[r], 1)
               /\ \A k \in 1 .. Len(freelist'[r]) : mem'[freelist'[r][k]] = FreeChunk(At(freelist'[r], k + 1))
    <3>1. freelist'[r] = freelist[r] /\ head'[r] = head[r]
      BY <1>10, <1>11, <2>4
    <3> QED
      BY <1>15, <3>1 DEF HeapInv, Linked
  <2> QED
    BY <1>10, <2>1, <2>3, <2>4 DEF Linked, At
<1>17. AvailCovered'
  <2>1. ASSUME NEW r \in Pools PROVE avail'[r] <= Len(freelist'[r])
    <3>1. avail[r] <= Len(freelist[r]) /\ avail[r] \in Nat /\ Len(freelist[r]) \in Nat
      BY <1>2, ChunkFacts DEF HeapInv, AvailCovered
    <3>2. CASE r = p
      BY <1>4, <1>7, <1>9, <1>11, <3>1, <3>2 DEF f
    <3>3. CASE r # p
      BY <1>9, <1>11, <3>1, <3>3
    <3> QED
      BY <3>2, <3>3
  <2> QED
    BY <2>1 DEF AvailCovered
<1>18. Headed'
  <2>1. ASSUME NEW c \in DOMAIN blocks PROVE mem'[c - HEADER] = mem[c - HEADER]
    BY <1>8, BlockFacts, NotAbove DEF t
  <2> QED
    BY <2>1 DEF HeapInv, Headed, HeaderOf, BlockLen
<1>19. ListsApart'
  <2>1. ASSUME NEW r \in Pools, NEW s \in Pools, NEW j \in 1 .. Len(freelist'[r]),
               NEW k \in 1 .. Len(freelist'[s]), r # s \/ j # k
        PROVE  Apart(freelist'[r][j], MaxSize[r], freelist'[s][k], MaxSize[s])
    <3>1. CASE IsNew(r, j) /\ IsNew(s, k)
      <4>1. r = p /\ s = p /\ j # k
        BY <2>1, <3>1 DEF IsNew
      <4> QED
        BY <1>5, <1>14, <3>1, <4>1 DEF m
    <3>2. CASE IsNew(r, j) /\ ~IsNew(s, k)
      <4>1. new[j] \in Nat /\ t <= new[j] /\ freelist'[r][j] = new[j]
        BY <1>3, <1>5, <1>14, <3>2, SMTT(30)
      <4>2. freelist[s][old(s, k)] + MaxSize[s] <= t /\ freelist'[s][k] = freelist[s][old(s, k)]
        BY <1>14, <3>2, ChunkFacts DEF t
      <4>3. freelist[s][old(s, k)] \in Nat /\ MaxSize[s] \in Nat
        BY <1>14, <3>2, ChunkFacts, Constants
      <4> QED
        BY <1>3, <4>1, <4>2, <4>3 DEF Apart
    <3>3. CASE ~IsNew(r, j) /\ IsNew(s, k)
      <4>1. new[k] \in Nat /\ t <= new[k] /\ freelist'[s][k] = new[k]
        BY <1>3, <1>5, <1>14, <3>3
      <4>2. freelist[r][old(r, j)] + MaxSize[r] <= t /\ freelist'[r][j] = freelist[r][old(r, j)]
        BY <1>14, <3>3, ChunkFacts DEF t
      <4>3. freelist[r][old(r, j)] \in Nat /\ MaxSize[r] \in Nat
        BY <1>14, <3>3, ChunkFacts, Constants
      <4> QED
        BY <1>3, <4>1, <4>2, <4>3, SMTT(30) DEF Apart
    <3>4. CASE ~IsNew(r, j) /\ ~IsNew(s, k)
      <4>1. r # s \/ old(r, j) # old(s, k)
        BY <1>4, <1>14, <2>1, <3>4 DEF IsNew, old
      <4>2. Apart(freelist[r][old(r, j)], MaxSize[r], freelist[s][old(s, k)], MaxSize[s])
        BY <1>14, <3>4, <4>1 DEF HeapInv, ListsApart
      <4> QED
        BY <1>14, <3>4, <4>2
    <3> QED
      BY <3>1, <3>2, <3>3, <3>4
  <2> QED
    BY <2>1 DEF ListsApart, Apart
<1>20. BlocksApart'
  BY DEF HeapInv, BlocksApart, BlockLen
<1>21. ListsAndBlocksApart'
  <2>1. ASSUME NEW b \in DOMAIN blocks, NEW r \in Pools, NEW k \in 1 .. Len(freelist'[r])
        PROVE  Apart(b - HEADER, BlockLen(b), freelist'[r][k], MaxSize[r])
    <3>1. CASE IsNew(r, k)
      <4>1. new[k] \in Nat /\ t <= new[k] /\ freelist'[r][k] = new[k]
        BY <1>3, <1>5, <1>14, <3>1
      <4>2. b - HEADER + BlockLen(b) <= t /\ b - HEADER \in Nat /\ BlockLen(b) \in Nat
        BY BlockFacts DEF t
      <4> QED
        BY <1>3, <4>1, <4>2 DEF Apart
    <3>2. CASE ~IsNew(r, k)
      BY <1>14, <3>2 DEF HeapInv, ListsAndBlocksApart
    <3> QED
      BY <3>1, <3>2
  <2> QED
    BY <2>1 DEF ListsAndBlocksApart, BlockLen, Apart
<1>22. Within'
  <2>1. kern_heap_top' = PageOf(kern_heap_top') * PageUnits
    <3>1. (q + 1) * PageUnits = q * PageUnits + PageUnits /\ q + 1 \in Nat /\ 0 \in 0 .. PageUnits - 1
      BY <1>3, Multiples
    <3>2. PageOf((q + 1) * PageUnits + 0) = q + 1
      BY <3>1, PageNumber
    <3>3. (q + 1) * PageUnits + 0 = t + PageUnits
      BY <1>3, <3>1
    <3> QED
      BY <1>1, <1>3, <3>1, <3>2, <3>3
  <2>2. ASSUME NEW r \in Pools, NEW k \in 1 .. Len(freelist'[r])
        PROVE  /\ freelist'[r][k] + MaxSize[r] <= kern_heap_top'
               /\ \A x \in freelist'[r][k] .. freelist'[r][k] + MaxSize[r] - 1 : PageOf(x) \in live_pages'
    <3>1. CASE IsNew(r, k)
      <4>1. /\ r = p /\ new[k] \in Nat /\ t <= new[k] /\ new[k] + m <= t + PageUnits
            /\ freelist'[r][k] = new[k]
        <5>1. r = p
          BY <3>1 DEF IsNew
        <5>2. k \in 1 .. n /\ freelist'[r][k] = new[k]
          BY <1>14, <3>1
        <5>3. new[k] \in t .. HeapUnits - 1 /\ new[k] + m <= t + PageUnits
          BY <1>5, <5>2
        <5>4. new[k] \in Nat /\ t <= new[k]
          BY <1>3, <5>3
        <5> QED
          BY <5>1, <5>2, <5>3, <5>4
      <4>2. ASSUME NEW x \in new[k] .. new[k] + m - 1 PROVE PageOf(x) = q
        <5>1. x - t \in 0 .. PageUnits - 1 /\ x = q * PageUnits + (x - t)
          <6>1. x \in Int /\ t <= x /\ x < t + PageUnits
            BY <1>3, <4>1
          <6> QED
            BY <1>3, <6>1
        <5> QED
          BY <1>3, <5>1, PageNumber
      <4> QED
        BY <1>1, <4>1, <4>2 DEF m
    <3>2. CASE ~IsNew(r, k)
      BY <1>12, <1>14, <3>2, MoreHeap DEF t
    <3> QED
      BY <3>1, <3>2
  <2>3. \A b \in DOMAIN blocks :
          /\ b - HEADER + BlockLen(b) <= kern_heap_top'
          /\ \A x \in b - HEADER .. b - HEADER + BlockLen(b) - 1 : PageOf(x) \in live_pages'
    BY <1>12, MoreHeap DEF t
  <2> QED
    BY <2>1, <2>2, <2>3 DEF Within, AllLive, BlockLen
<1> QED
  BY <1>8, <1>9, <1>10, <1>11, <1>12, <1>13, <1>16, <1>17, <1>18, <1>19, <1>20, <1>21, <1>22

LEMMA AddPageSteps == ASSUME HeapInv, InitPool \/ AddPage PROVE HeapInv'
<1>1. CASE InitPool
  <2>1. /\ pc = "kmalloc_init" /\ pool_ptr \in Pools /\ add_page(pool_ptr)
        /\ pool_ptr' = pool_ptr + 1 /\ UNCHANGED <<pc, request, blocks>>
    BY <1>1, Constants DEF InitPool, HeapInv, Located, Pools
  <2>2. pool_ptr' \in 1 .. Len(MaxSize) + 1
    BY <2>1, Constants DEF Pools
  <2>3. Typed' /\ Located'
    BY <2>1, <2>2, AddPageKeeps DEF HeapInv, Typed, TypeOK, Located, Words
  <2> QED
    BY <2>1, <2>3, AddPageKeeps DEF HeapInv
<1>2. CASE AddPage
  <2>1. /\ pc = "add_page" /\ pool_ptr \in Pools /\ add_page(pool_ptr)
        /\ pc' = "take_chunk" /\ UNCHANGED <<pool_ptr, request, blocks>>
        /\ request \in Requests \ {0} /\ request + HEADER <= MaxSize[pool_ptr]
    BY <1>2 DEF AddPage, HeapInv, Located, locals
  <2>2. Typed' /\ Located'
    BY <2>1, AddPageKeeps DEF HeapInv, Typed, TypeOK, Located, Words
  <2> QED
    BY <2>1, <2>2, AddPageKeeps DEF HeapInv
<1> QED
  BY <1>1, <1>2

LEMMA BlockRemoved ==
  ASSUME HeapInv, NEW b \in DOMAIN blocks, blocks' = [c \in DOMAIN blocks \ {b} |-> blocks[c]]
  PROVE  /\ DOMAIN blocks' = DOMAIN blocks \ {b}
         /\ \A c \in DOMAIN blocks' : blocks'[c] = blocks[c] /\ c \in DOMAIN blocks /\ c # b
                                      /\ BlockLen(c)' = BlockLen(c) /\ HeaderOf(c)' = HeaderOf(c)
         /\ BlocksApart'
         /\ blocks' \in [DOMAIN blocks' -> [pool : Pools \cup {NULL}, request : Requests \ {0}]]
<1>1. /\ DOMAIN blocks' = DOMAIN blocks \ {b}
      /\ \A c \in DOMAIN blocks' : blocks'[c] = blocks[c] /\ c \in DOMAIN blocks /\ c # b
  OBVIOUS
<1>2. \A c \in DOMAIN blocks' : BlockLen(c)' = BlockLen(c) /\ HeaderOf(c)' = HeaderOf(c)
  BY <1>1 DEF BlockLen, HeaderOf
<1>3. BlocksApart'
  <2>1. \A x, y \in DOMAIN blocks' : x # y =>
          Apart(x - HEADER, BlockLen(x), y - HEADER, BlockLen(y))
    BY <1>1 DEF HeapInv, BlocksApart
  <2>2. \A x, y \in DOMAIN blocks' : x # y =>
          Apart(x - HEADER, BlockLen(x)', y - HEADER, BlockLen(y)')
    BY <1>2, <2>1
  <2> QED
    BY <2>2 DEF BlocksApart, Apart
<1>4. \A c \in DOMAIN blocks' : blocks'[c] \in [pool : Pools \cup {NULL}, request : Requests \ {0}]
  BY <1>1, BlockFacts
<1> QED
  BY <1>1, <1>2, <1>3, <1>4

\* kmalloc takes the first chunk of the pool's list.
LEMMA TakeChunkStep == ASSUME HeapInv, SizesFit, TakeChunk PROVE HeapInv'
<1> DEFINE p == pool_ptr
           a == head[p]
           f == freelist[p]
           nb == a + HEADER
           rec == [pool |-> p, request |-> request]
<1>1. /\ p \in Pools /\ request \in Requests \ {0} /\ request + HEADER <= MaxSize[p] /\ avail[p] > 0
      /\ head' = [head EXCEPT ![p] = mem[a].next] /\ avail' = [avail EXCEPT ![p] = @ - 1]
      /\ mem' = [mem EXCEPT ![a] = Header(p, bytes_needed(request))]
      /\ freelist' = [freelist EXCEPT ![p] = Tail(f)]
      /\ blocks' = [b \in DOMAIN blocks \cup {nb} |-> IF b = nb THEN rec ELSE blocks[b]]
      /\ pc' = "ready" /\ pool_ptr' = NULL /\ request' = NULL
      /\ UNCHANGED <<kern_heap_top, live_pages>>
  BY DEF TakeChunk, HeapInv, Located, Returns, pages
<1>2. /\ mem \in [0 .. HeapUnits - 1 -> Words] /\ avail \in [Pools -> Nat]
      /\ head \in [Pools -> (0 .. HeapUnits - 1) \cup {NULL}]
      /\ freelist \in [Pools -> Seq(0 .. HeapUnits - 1)]
  BY DEF HeapInv, Typed, TypeOK
<1>3. f \in Seq(0 .. HeapUnits - 1) /\ Len(f) \in Nat /\ avail[p] <= Len(f) /\ avail[p] \in Nat
      /\ Len(f) >= 1
  BY <1>1, <1>2, ChunkFacts DEF HeapInv, AvailCovered
<1>4. /\ a = f[1] /\ a \in 0 .. HeapUnits - 1 /\ a \in Nat /\ mem[a] = FreeChunk(At(f, 2))
      /\ a + MaxSize[p] <= kern_heap_top /\ AllLive(a, MaxSize[p])
  <2>1. head[p] = At(f, 1) /\ mem[f[1]] = FreeChunk(At(f, 1 + 1)) /\ 1 \in 1 .. Len(f)
    BY <1>1, <1>3 DEF HeapInv, Linked
  <2> QED
    <3>1. a = f[1] /\ mem[a] = FreeChunk(At(f, 2))
      BY <1>3, <2>1 DEF At
    <3>2. /\ f[1] \in 0 .. HeapUnits - 1 /\ f[1] \in Nat
          /\ f[1] + MaxSize[p] <= kern_heap_top /\ AllLive(f[1], MaxSize[p])
      BY <1>1, <2>1, ChunkFacts
    <3> QED
      BY <3>1, <3>2
<1>5. Tail(f) \in Seq(0 .. HeapUnits - 1) /\ Len(Tail(f)) = Len(f) - 1
      /\ \A k \in 1 .. Len(f) - 1 : Tail(f)[k] = f[k + 1]
  <2>1. f # <<>>
    BY <1>3
  <2> HIDE DEF f
  <2>2. Tail(f) \in Seq(0 .. HeapUnits - 1) /\ Len(Tail(f)) = Len(f) - 1
        /\ \A k \in 1 .. Len(Tail(f)) : Tail(f)[k] = f[k + 1]
    BY <1>3, <2>1, HeadTailProperties
  <2> QED
    BY <2>2
<1>6. mem[a].next = At(f, 2)
  BY <1>4 DEF FreeChunk
<1>7. MaxSize[p] \in Nat /\ MaxSize[p] >= 2 /\ p # NULL
  BY <1>1, Constants
<1>8. request \in Nat /\ request > 0 /\ bytes_needed(request) = request + HEADER
      /\ request + HEADER \in 0 .. SizeMod - 1
  <2>1. request \in Nat /\ request > 0
    BY <1>1, Constants
  <2>2. request + HEADER < SizeMod /\ request + HEADER \in Nat
    BY <1>1, <2>1 DEF SizesFit, HEADER
  <2>3. (request + HEADER) % SizeMod = request + HEADER
    BY <2>2, Constants, SMTT(30)
  <2> QED
    BY <2>1, <2>2, <2>3, Constants DEF bytes_needed
<1>9. nb \notin DOMAIN blocks /\ nb \in Nat /\ nb - HEADER = a /\ nb \in 0 .. HeapUnits /\ nb >= HEADER
  <2>1. nb \in Nat /\ nb - HEADER = a /\ nb \in 0 .. HeapUnits /\ nb >= HEADER
    BY <1>4, Constants, SMTT(30) DEF HEADER
  <2>2. ASSUME nb \in DOMAIN blocks PROVE FALSE
    <3>1. /\ nb - HEADER \in nb - HEADER .. nb - HEADER + BlockLen(nb) - 1
          /\ 1 \in 1 .. Len(f)
      BY <1>3, <2>2, BlockFacts
    <3> QED
      BY <1>1, <1>4, <2>1, <2>2, <3>1, NotInBlock DEF f
  <2> QED
    BY <2>1, <2>2
<1> HIDE DEF a, f, nb, rec
<1>10. /\ DOMAIN blocks' = DOMAIN blocks \cup {nb} /\ blocks'[nb] = rec
       /\ \A b \in DOMAIN blocks : blocks'[b] = blocks[b] /\ b # nb
                                   /\ LenOf(blocks'[b]) = BlockLen(b) /\ HeaderFor(blocks'[b]) = HeaderOf(b)
  BY <1>1, <1>9 DEF BlockLen, HeaderOf
<1>11. LenOf(blocks'[nb]) = MaxSize[p] /\ HeaderFor(blocks'[nb]) = Header(p, request + HEADER)
  BY <1>7, <1>10 DEF LenOf, HeaderFor, rec
<1> DEFINE old(r, k) == IF r = p THEN k + 1 ELSE k
<1>12. ASSUME NEW r \in Pools, NEW k \in 1 .. Len(freelist'[r])
       PROVE  /\ old(r, k) \in 1 .. Len(freelist[r]) /\ freelist'[r][k] = freelist[r][old(r, k)]
              /\ r = p => old(r, k) # 1
              /\ old(r, k + 1) <= Len(freelist[r]) <=> k + 1 <= Len(freelist'[r])
              /\ old(r, k + 1) = old(r, k) + 1 /\ k \in Nat
  <2>1. CASE r = p
    BY <1>1, <1>2, <1>3, <1>5, <2>1 DEF f
  <2>2. CASE r # p
    BY <1>1, <1>2, <2>2, ChunkFacts
  <2> QED
    BY <2>1, <2>2
<1>13. \A r \in Pools : freelist'[r] \in Seq(0 .. HeapUnits - 1) /\ Len(freelist'[r]) \in Nat
       /\ Len(freelist'[r]) = IF r = p THEN Len(f) - 1 ELSE Len(freelist[r])
  <2> TAKE r \in Pools
  <2>1. CASE r = p
    BY <1>1, <1>2, <1>3, <1>5, <2>1
  <2>2. CASE r # p
    <3>1. freelist'[r] = freelist[r]
      BY <1>1, <1>2, <2>2
    <3> QED
      BY <2>2, <3>1, ChunkFacts
  <2> QED
    BY <2>1, <2>2
<1>14. ASSUME NEW r \in Pools, NEW k \in 1 .. Len(freelist'[r])
       PROVE  Apart(freelist[r][old(r, k)], MaxSize[r], a, MaxSize[p])
  <2>1. r # p \/ old(r, k) # 1
    BY <1>12
  <2>2. 1 \in 1 .. Len(f) /\ old(r, k) \in 1 .. Len(freelist[r])
    BY <1>3, <1>12
  <2> HIDE DEF old
  <2> QED
    BY <1>1, <1>4, <2>1, <2>2 DEF HeapInv, ListsApart, f
<1>15. \A b \in DOMAIN blocks : Apart(b - HEADER, BlockLen(b), a, MaxSize[p])
  <2>1. 1 \in 1 .. Len(f)
    BY <1>3
  <2> QED
    BY <1>1, <1>4, <2>1 DEF HeapInv, ListsAndBlocksApart, f
<1> HIDE DEF old
<1>16. /\ mem' \in [0 .. HeapUnits - 1 -> Words] /\ mem'[a] = Header(p, request + HEADER)
       /\ \A x \in 0 .. HeapUnits - 1 : x # a => mem'[x] = mem[x]
  <2>1. Header(p, request + HEADER) \in Words
    BY <1>1, <1>8 DEF Header, Words
  <2> QED
    BY <1>1, <1>2, <1>4, <1>8, <2>1
<1>17. Typed'
  <2>1. avail' \in [Pools -> Nat]
    BY <1>1, <1>2, <1>3
  <2>2. head' \in [Pools -> (0 .. HeapUnits - 1) \cup {NULL}]
    <3>1. At(f, 2) \in (0 .. HeapUnits - 1) \cup {NULL}
      <4>1. CASE 2 <= Len(f)
        <5>1. 2 \in 1 .. Len(f)
          BY <1>3, <4>1
        <5> QED
          BY <1>3, <4>1, <5>1, ElementOfSeq DEF At
      <4>2. CASE ~(2 <= Len(f))
        BY <4>2 DEF At
      <4> QED
        BY <4>1, <4>2
    <3> QED
      BY <1>1, <1>2, <1>6, <3>1
  <2>3. freelist' \in [Pools -> Seq(0 .. HeapUnits - 1)]
    BY <1>1, <1>2, <1>5
  <2>4. rec \in [pool : Pools \cup {NULL}, request : Requests \ {0}]
    BY <1>1 DEF rec
  <2>5. \A b \in DOMAIN blocks : blocks'[b] \in [pool : Pools \cup {NULL}, request : Requests \ {0}]
    BY <1>10, BlockFacts
  <2>6. blocks' \in [DOMAIN blocks' -> [pool : Pools \cup {NULL}, request : Requests \ {0}]]
    <3>1. \A b \in DOMAIN blocks' : blocks'[b] \in [pool : Pools \cup {NULL}, request : Requests \ {0}]
      BY <1>10, <2>4, <2>5
    <3> DEFINE R == [pool : Pools \cup {NULL}, request : Requests \ {0}]
               D == DOMAIN blocks \cup {nb}
               v(b) == IF b = nb THEN rec ELSE blocks[b]
    <3>2. blocks' = [b \in D |-> v(b)] /\ DOMAIN blocks' = D
      BY <1>1, <1>10
    <3>3. \A b \in D : v(b) \in R
      BY <2>4, BlockFacts
    <3> HIDE DEF R, D, v
    <3>4. blocks' \in [D -> R]
      BY <3>2, <3>3
    <3> QED
      BY <3>2, <3>4 DEF R
  <2>7. DOMAIN blocks' \subseteq 0 .. HeapUnits /\ \A b \in DOMAIN blocks' : b >= HEADER
    BY <1>9, <1>10 DEF HeapInv, Typed, TypeOK
  <2>8. kern_heap_top' \in 0 .. HeapUnits /\ live_pages' \subseteq 0 .. HeapPages - 1
    BY <1>1 DEF HeapInv, Typed, TypeOK
  <2>9. \A r \in Pools : freelist'[r] \in Seq(0 .. HeapUnits - 1)
    BY <1>13
  <2> QED
    BY <1>1, <1>16, <2>1, <2>2, <2>3, <2>6, <2>7, <2>8, <2>9 DEF Typed, TypeOK, Words
<1>18. Located'
  BY <1>1 DEF Located
<1>19. ASSUME NEW r \in Pools, NEW k \in 1 .. Len(freelist'[r])
       PROVE  mem'[freelist'[r][k]] = mem[freelist[r][old(r, k)]]
  <2>1. /\ freelist[r][old(r, k)] \in 0 .. HeapUnits - 1 /\ freelist[r][old(r, k)] \in Nat
        /\ MaxSize[r] \in Nat /\ MaxSize[r] > 0
    <3> DEFINE j == old(r, k)
    <3>1. j \in 1 .. Len(freelist[r])
      BY <1>12
    <3> HIDE DEF j
    <3>2. freelist[r][j] \in 0 .. HeapUnits - 1 /\ freelist[r][j] \in Nat
      BY <3>1, ChunkFacts
    <3>3. MaxSize[r] \in Nat /\ MaxSize[r] > 0
      BY Constants
    <3> QED
      BY <3>2, <3>3 DEF j
  <2>2. freelist[r][old(r, k)] # a
    <3>1. Apart(freelist[r][old(r, k)], MaxSize[r], a, MaxSize[p])
      BY <1>14
    <3> QED
      BY <1>4, <1>7, <2>1, <3>1 DEF Apart
  <2> QED
    BY <1>12, <1>16, <2>1, <2>2
<1>20. Linked'
  <2>1. ASSUME NEW r \in Pools, NEW k \in 1 .. Len(freelist'[r])
        PROVE  mem'[freelist'[r][k]] = FreeChunk(At(freelist'[r], k + 1))
    <3>1. mem[freelist[r][old(r, k)]] = FreeChunk(At(freelist[r], old(r, k) + 1))
      BY <1>12 DEF HeapInv, Linked
    <3>2. At(freelist'[r], k + 1) = At(freelist[r], old(r, k) + 1)
      <4>1. CASE k + 1 <= Len(freelist'[r])
        <5>1. k + 1 \in 1 .. Len(freelist'[r])
          BY <1>12, <1>13, <4>1
        <5>2. freelist'[r][k + 1] = freelist[r][old(r, k + 1)]
          BY <1>12, <5>1
        <5> QED
          BY <1>12, <4>1, <5>2 DEF At
      <4>2. CASE ~(k + 1 <= Len(freelist'[r]))
        BY <1>12, <4>2 DEF At
      <4> QED
        BY <4>1, <4>2
    <3> QED
      BY <1>19, <3>1, <3>2
  <2>2. ASSUME NEW r \in Pools PROVE head'[r] = At(freelist'[r], 1)
    <3>1. CASE r = p
      <4>1. head'[r] = At(f, 2) /\ freelist'[r] = Tail(f)
        BY <1>1, <1>2, <1>6, <3>1
      <4>2. At(Tail(f), 1) = At(f, 2)
        BY <1>3, <1>5 DEF At
      <4> QED
        BY <4>1, <4>2
    <3>2. CASE r # p
      BY <1>1, <1>2, <3>2 DEF HeapInv, Linked, At
    <3> QED
      BY <3>1, <3>2
  <2> QED
    BY <2>1, <2>2 DEF Linked, At
<1>21. AvailCovered'
  <2>1. ASSUME NEW r \in Pools PROVE avail'[r] <= Len(freelist'[r])
    <3>1. CASE r = p
      BY <1>1, <1>2, <1>3, <1>13, <3>1
    <3>2. CASE r # p
      BY <1>1, <1>2, <1>13, <3>2 DEF HeapInv, AvailCovered
    <3> QED
      BY <3>1, <3>2
  <2> QED
    BY <2>1 DEF AvailCovered
<1>22. ListsApart'
  <2>1. ASSUME NEW r \in Pools, NEW s \in Pools, NEW j \in 1 .. Len(freelist'[r]),
               NEW k \in 1 .. Len(freelist'[s]), r # s \/ j # k
        PROVE  Apart(freelist'[r][j], MaxSize[r], freelist'[s][k], MaxSize[s])
    <3>1. r # s \/ old(r, j) # old(s, k)
      BY <2>1, <1>12 DEF old
    <3>2. Apart(freelist[r][old(r, j)], MaxSize[r], freelist[s][old(s, k)], MaxSize[s])
      BY <1>12, <3>1 DEF HeapInv, ListsApart
    <3> QED
      BY <1>12, <3>2
  <2> QED
    BY <2>1 DEF ListsApart, Apart
<1>23. BlocksApart'
  <2>1. ASSUME NEW b \in DOMAIN blocks', NEW c \in DOMAIN blocks', b # c
        PROVE  Apart(b - HEADER, LenOf(blocks'[b]), c - HEADER, LenOf(blocks'[c]))
    <3>1. CASE b = nb
      <4>1. c \in DOMAIN blocks /\ LenOf(blocks'[c]) = BlockLen(c)
        BY <1>10, <2>1, <3>1
      <4>2. Apart(c - HEADER, BlockLen(c), a, MaxSize[p])
        BY <1>15, <4>1
      <4>3. c - HEADER \in Nat /\ BlockLen(c) \in Nat
        BY <4>1, BlockFacts
      <4>4. Apart(a, MaxSize[p], c - HEADER, BlockLen(c))
        BY <1>4, <1>7, <4>2, <4>3, ApartFacts
      <4> QED
        BY <1>9, <1>11, <3>1, <4>1, <4>4
    <3>2. CASE c = nb
      BY <1>9, <1>10, <1>11, <1>15, <2>1, <3>2
    <3>3. CASE b # nb /\ c # nb
      BY <1>10, <2>1, <3>3 DEF HeapInv, BlocksApart
    <3> QED
      BY <3>1, <3>2, <3>3
  <2> QED
    BY <2>1 DEF BlocksApart, Apart, BlockLen
<1>24. ListsAndBlocksApart'
  <2>1. ASSUME NEW b \in DOMAIN blocks', NEW r \in Pools, NEW k \in 1 .. Len(freelist'[r])
        PROVE  Apart(b - HEADER, LenOf(blocks'[b]), freelist'[r][k], MaxSize[r])
    <3>1. CASE b = nb
      <4>1. Apart(freelist[r][old(r, k)], MaxSize[r], a, MaxSize[p])
        BY <1>14
      <4>2. freelist[r][old(r, k)] \in Nat /\ MaxSize[r] \in Nat
        BY <1>12, ChunkFacts, Constants
      <4>3. Apart(a, MaxSize[p], freelist[r][old(r, k)], MaxSize[r])
        BY <1>4, <1>7, <4>1, <4>2, ApartFacts
      <4> QED
        BY <1>9, <1>11, <1>12, <3>1, <4>3
    <3>2. CASE b # nb
      BY <1>10, <1>12, <3>2, ZenonT(30) DEF HeapInv, ListsAndBlocksApart
    <3> QED
      BY <3>1, <3>2
  <2> QED
    BY <2>1 DEF ListsAndBlocksApart, Apart, BlockLen
<1>25. Within'
  <2>1. kern_heap_top' = PageOf(kern_heap_top') * PageUnits
    BY <1>1 DEF HeapInv, Within
  <2>2. ASSUME NEW r \in Pools, NEW k \in 1 .. Len(freelist'[r])
        PROVE  freelist'[r][k] + MaxSize[r] <= kern_heap_top' /\ AllLive(freelist'[r][k], MaxSize[r])
    BY <1>1, <1>12, ChunkFacts, ZenonT(30)
  <2>3. ASSUME NEW b \in DOMAIN blocks'
        PROVE  b - HEADER + LenOf(blocks'[b]) <= kern_heap_top' /\ AllLive(b - HEADER, LenOf(blocks'[b]))
    <3>1. CASE b = nb
      BY <1>1, <1>4, <1>9, <1>11, <3>1
    <3>2. CASE b # nb
      BY <1>1, <1>10, <3>2 DEF HeapInv, Within
    <3> QED
      BY <3>1, <3>2
  <2> QED
    BY <1>1, <2>1, <2>2, <2>3 DEF Within, AllLive, BlockLen
<1>26. Headed'
  <2>1. ASSUME NEW b \in DOMAIN blocks'
        PROVE  /\ mem'[b - HEADER] = HeaderFor(blocks'[b])
               /\ blocks'[b].request + HEADER <= LenOf(blocks'[b])
               /\ blocks'[b].pool = NULL => b - HEADER = PageOf(b - HEADER) * PageUnits
    <3>1. CASE b = nb
      BY <1>1, <1>7, <1>9, <1>10, <1>11, <1>16, <3>1 DEF rec
    <3>2. CASE b # nb
      <4>1. b \in DOMAIN blocks /\ LenOf(blocks'[b]) = BlockLen(b) /\ HeaderFor(blocks'[b]) = HeaderOf(b)
            /\ blocks'[b] = blocks[b]
        BY <1>10, <3>2
      <4>2. /\ b - HEADER \in 0 .. HeapUnits - 1 /\ b - HEADER \in Nat
            /\ BlockLen(b) \in Nat /\ BlockLen(b) > 0
        BY <4>1, BlockFacts
      <4>3. b - HEADER # a
        BY <1>4, <1>7, <1>15, <4>1, <4>2, ApartFacts
      <4>4. mem'[b - HEADER] = mem[b - HEADER]
        BY <1>16, <4>2, <4>3
      <4> QED
        BY <4>1, <4>4 DEF HeapInv, Headed
    <3> QED
      BY <3>1, <3>2
  <2> QED
    BY <2>1 DEF Headed, BlockLen, HeaderOf
<1> QED
  BY <1>17, <1>18, <1>20, <1>21, <1>22, <1>23, <1>24, <1>25, <1>26 DEF HeapInv

\* kmalloc of whole pages: the block is above all there is.
LEMMA AllocPagesStep == ASSUME HeapInv, SizesFit, AllocPages PROVE HeapInv'
<1> DEFINE t == kern_heap_top
           n == PagesFor(request + HEADER)
           q == PageOf(t)
           l == n * PageUnits
           nb == t + HEADER
           rec == [pool |-> NULL, request |-> request]
<1>1. request \in Requests \ {0} /\ pc = "alloc_pages"
  BY DEF AllocPages, HeapInv, Located
<1>2. request \in Nat /\ request > 0 /\ bytes_needed(request) = request + HEADER
      /\ request + HEADER \in Nat /\ request + HEADER > 0
  <2>1. request \in Nat /\ request > 0
    BY <1>1, Constants
  <2>2. request + HEADER < SizeMod /\ request + HEADER \in Nat /\ request + HEADER > 0
    BY <1>1, <2>1 DEF SizesFit, HEADER
  <2>3. (request + HEADER) % SizeMod = request + HEADER
    BY <2>2, Constants
  <2> QED
    BY <2>1, <2>2, <2>3 DEF bytes_needed
<1>3. /\ t + l <= HeapUnits /\ mem' = [mem EXCEPT ![t] = PagesHeader(n)]
      /\ kern_heap_top' = t + l /\ live_pages' = live_pages \cup (q .. q + n - 1)
      /\ blocks' = [b \in DOMAIN blocks \cup {nb} |-> IF b = nb THEN rec ELSE blocks[b]]
      /\ pc' = "ready" /\ pool_ptr' = NULL /\ request' = NULL
      /\ UNCHANGED <<avail, head, freelist>>
  BY <1>2 DEF AllocPages, Returns, pool_arr
<1>4. /\ t \in Nat /\ q \in Nat /\ t = q * PageUnits /\ PageUnits \in Nat /\ PageUnits > 0
      /\ HeapUnits \in Nat /\ HeapPages \in Nat /\ HeapUnits = HeapPages * PageUnits
      /\ HeapUnits < SizeMod /\ SizeMod \in Nat
  BY Constants, TopFacts
<1>5. n \in Nat /\ n > 0 /\ request + HEADER <= l
  BY <1>2, PagesForFacts
<1>6. mem \in [0 .. HeapUnits - 1 -> Words]
  BY DEF HeapInv, Typed, TypeOK
<1> HIDE DEF n, q, t
<1>7. l \in Nat /\ l >= PageUnits /\ (q + n) * PageUnits = t + l /\ q + n \in Nat
  <2>1. l \in Nat /\ (q + n) * PageUnits = q * PageUnits + n * PageUnits
    BY <1>4, <1>5, Multiples
  <2>2. 1 * PageUnits <= n * PageUnits
    BY <1>4, <1>5, Multiples
  <2> QED
    BY <1>4, <1>5, <2>1, <2>2
<1> HIDE DEF l
<1>8. nb \notin DOMAIN blocks /\ nb \in Nat /\ nb - HEADER = t /\ nb \in 0 .. HeapUnits /\ nb >= HEADER
      /\ t \in 0 .. HeapUnits - 1
  <2>1. nb \in Nat /\ nb - HEADER = t /\ nb \in 0 .. HeapUnits /\ nb >= HEADER /\ t \in 0 .. HeapUnits - 1
    BY <1>3, <1>4, <1>7 DEF HEADER
  <2>2. ASSUME nb \in DOMAIN blocks PROVE FALSE
    <3>1. nb - HEADER < t
      BY <2>2, NotAbove DEF t
    <3> QED
      BY <1>4, <2>1, <3>1
  <2> QED
    BY <2>1, <2>2
<1> HIDE DEF nb, rec
<1>9. /\ DOMAIN blocks' = DOMAIN blocks \cup {nb} /\ blocks'[nb] = rec
      /\ \A b \in DOMAIN blocks : blocks'[b] = blocks[b] /\ b # nb
                                  /\ LenOf(blocks'[b]) = BlockLen(b) /\ HeaderFor(blocks'[b]) = HeaderOf(b)
  BY <1>3, <1>8 DEF BlockLen, HeaderOf
<1>10. LenOf(blocks'[nb]) = l /\ HeaderFor(blocks'[nb]) = PagesHeader(n)
  BY <1>9 DEF LenOf, HeaderFor, rec, l, n
<1>11. /\ mem' \in [0 .. HeapUnits - 1 -> Words] /\ mem'[t] = PagesHeader(n)
       /\ \A x \in 0 .. HeapUnits - 1 : x < t => mem'[x] = mem[x]
  <2>1. l \in 0 .. SizeMod - 1
    BY <1>3, <1>4, <1>7
  <2>2. PagesHeader(n) \in Words
    BY <2>1 DEF PagesHeader, Header, Words, l
  <2> QED
    BY <1>3, <1>4, <1>6, <1>8, <2>2
<1>12. kern_heap_top' \in 0 .. HeapUnits /\ t <= kern_heap_top' /\ kern_heap_top' \in Nat
       /\ live_pages \subseteq live_pages'
  BY <1>3, <1>4, <1>7
<1>13. live_pages' \subseteq 0 .. HeapPages - 1
  <2>1. HeapPages < q + n => HeapPages * PageUnits + PageUnits <= (q + n) * PageUnits
    BY <1>4, <1>7, Multiples
  <2>2. q + n <= HeapPages
    BY <1>3, <1>4, <1>7, <2>1
  <2>3. live_pages \subseteq 0 .. HeapPages - 1
    BY DEF HeapInv, Typed, TypeOK
  <2>4. q .. q + n - 1 \subseteq 0 .. HeapPages - 1
    BY <1>4, <1>5, <2>2
  <2> QED
    BY <1>3, <2>3, <2>4
<1>14. Typed'
  <2>1. blocks' \in [DOMAIN blocks' -> [pool : Pools \cup {NULL}, request : Requests \ {0}]]
    <3> DEFINE R == [pool : Pools \cup {NULL}, request : Requests \ {0}]
               D == DOMAIN blocks \cup {nb}
               v(b) == IF b = nb THEN rec ELSE blocks[b]
    <3>1. rec \in R
      BY <1>1 DEF rec
    <3>2. blocks' = [b \in D |-> v(b)] /\ DOMAIN blocks' = D
      BY <1>3, <1>9
    <3>3. \A b \in D : v(b) \in R
      BY <3>1, BlockFacts
    <3> HIDE DEF R, D, v
    <3>4. blocks' \in [D -> R]
      BY <3>2, <3>3
    <3> QED
      BY <3>2, <3>4 DEF R
  <2>2. DOMAIN blocks' \subseteq 0 .. HeapUnits /\ \A b \in DOMAIN blocks' : b >= HEADER
    BY <1>8, <1>9 DEF HeapInv, Typed, TypeOK
  <2> QED
    BY <1>3, <1>11, <1>12, <1>13, <2>1, <2>2 DEF HeapInv, Typed, TypeOK, Words
<1>15. Located'
  BY <1>3 DEF Located
<1>16. Linked'
  <2>1. ASSUME NEW r \in Pools, NEW k \in 1 .. Len(freelist[r])
        PROVE  mem'[freelist[r][k]] = mem[freelist[r][k]]
    BY <1>11, ChunkFacts, NotAbove DEF t
  <2> QED
    <3>1. freelist' = freelist /\ head' = head
      BY <1>3
    <3> QED
      BY <2>1, <3>1 DEF HeapInv, Linked, At
<1>17. AvailCovered' /\ ListsApart'
  BY <1>3 DEF HeapInv, AvailCovered, ListsApart
<1>18. BlocksApart'
  <2>1. ASSUME NEW b \in DOMAIN blocks', NEW c \in DOMAIN blocks', b # c
        PROVE  Apart(b - HEADER, LenOf(blocks'[b]), c - HEADER, LenOf(blocks'[c]))
    <3>1. CASE b = nb
      <4>1. c \in DOMAIN blocks /\ LenOf(blocks'[c]) = BlockLen(c)
        BY <1>9, <2>1, <3>1
      <4>2. c - HEADER \in Nat /\ BlockLen(c) \in Nat /\ c - HEADER + BlockLen(c) <= t
        BY <4>1, BlockFacts DEF t
      <4> QED
        BY <1>4, <1>7, <1>8, <1>10, <3>1, <4>1, <4>2 DEF Apart
    <3>2. CASE c = nb
      <4>1. b \in DOMAIN blocks /\ LenOf(blocks'[b]) = BlockLen(b)
        BY <1>9, <2>1, <3>2
      <4>2. b - HEADER \in Nat /\ BlockLen(b) \in Nat /\ b - HEADER + BlockLen(b) <= t
        BY <4>1, BlockFacts DEF t
      <4> QED
        BY <1>4, <1>7, <1>8, <1>10, <3>2, <4>1, <4>2 DEF Apart
    <3>3. CASE b # nb /\ c # nb
      BY <1>9, <2>1, <3>3 DEF HeapInv, BlocksApart
    <3> QED
      BY <3>1, <3>2, <3>3
  <2> QED
    BY <2>1 DEF BlocksApart, Apart, BlockLen
<1>19. ListsAndBlocksApart'
  <2>1. ASSUME NEW b \in DOMAIN blocks', NEW r \in Pools, NEW k \in 1 .. Len(freelist[r])
        PROVE  Apart(b - HEADER, LenOf(blocks'[b]), freelist[r][k], MaxSize[r])
    <3>1. CASE b = nb
      <4>1. freelist[r][k] \in Nat /\ freelist[r][k] + MaxSize[r] <= t /\ MaxSize[r] \in Nat
        BY ChunkFacts, Constants DEF t
      <4> QED
        BY <1>4, <1>7, <1>8, <1>10, <3>1, <4>1 DEF Apart
    <3>2. CASE b # nb
      BY <1>9, <3>2 DEF HeapInv, ListsAndBlocksApart
    <3> QED
      BY <3>1, <3>2
  <2> QED
    BY <1>3, <2>1 DEF ListsAndBlocksApart, Apart, BlockLen
<1>20. Within'
  <2>1. kern_heap_top' = PageOf(kern_heap_top') * PageUnits
    <3>1. PageOf((q + n) * PageUnits + 0) = q + n
      <4> DEFINE e == q + n
      <4>1. e \in Nat /\ 0 \in 0 .. PageUnits - 1
        BY <1>4, <1>7
      <4> HIDE DEF e
      <4>2. PageOf(e * PageUnits + 0) = e
        BY <4>1, PageNumber
      <4> QED
        BY <4>2 DEF e
    <3>2. (q + n) * PageUnits + 0 = t + l
      BY <1>4, <1>7
    <3> QED
      BY <1>3, <1>7, <3>1, <3>2
  <2>2. ASSUME NEW r \in Pools, NEW k \in 1 .. Len(freelist[r])
        PROVE  /\ freelist[r][k] + MaxSize[r] <= kern_heap_top'
               /\ \A x \in freelist[r][k] .. freelist[r][k] + MaxSize[r] - 1 : PageOf(x) \in live_pages'
    BY <1>12, MoreHeap DEF t
  <2>3. ASSUME NEW b \in DOMAIN blocks'
        PROVE  /\ b - HEADER + LenOf(blocks'[b]) <= kern_heap_top'
               /\ \A x \in b - HEADER .. b - HEADER + LenOf(blocks'[b]) - 1 : PageOf(x) \in live_pages'
    <3>1. CASE b = nb
      <4>1. ASSUME NEW x \in t .. t + l - 1 PROVE PageOf(x) \in live_pages'
        <5> DEFINE d == PageOf(x)
        <5>1. x \in Nat /\ t <= x /\ x < t + l
          BY <1>4, <1>7
        <5>2. d \in Nat /\ d * PageUnits <= x /\ x < d * PageUnits + PageUnits
          BY <1>4, <5>1, Division DEF PageOf
        <5> HIDE DEF d
        <5>3. (d < q => d * PageUnits + PageUnits <= q * PageUnits)
              /\ (q + n <= d => (q + n) * PageUnits <= d * PageUnits) /\ d * PageUnits \in Nat
          BY <1>4, <1>7, <5>2, Multiples
        <5>4. q <= d
          BY <1>4, <5>1, <5>2, <5>3
        <5>5. d < q + n
          BY <1>4, <1>7, <5>1, <5>2, <5>3
        <5> QED
          BY <1>3, <1>4, <1>5, <5>2, <5>4, <5>5 DEF d
      <4>2. b - HEADER = t /\ LenOf(blocks'[b]) = l
        BY <1>8, <1>10, <3>1
      <4> QED
        BY <1>3, <1>4, <1>7, <4>1, <4>2
    <3>2. CASE b # nb
      BY <1>9, <1>12, <3>2, MoreHeap DEF t
    <3> QED
      BY <3>1, <3>2
  <2> QED
    BY <1>3, <2>1, <2>2, <2>3 DEF Within, AllLive, BlockLen
<1>21. Headed'
  <2>1. ASSUME NEW b \in DOMAIN blocks'
        PROVE  /\ mem'[b - HEADER] = HeaderFor(blocks'[b])
               /\ blocks'[b].request + HEADER <= LenOf(blocks'[b])
               /\ blocks'[b].pool = NULL => b - HEADER = PageOf(b - HEADER) * PageUnits
    <3>1. CASE b = nb
      BY <1>4, <1>5, <1>8, <1>9, <1>10, <1>11, <3>1 DEF rec, q
    <3>2. CASE b # nb
      <4>1. b \in DOMAIN blocks /\ LenOf(blocks'[b]) = BlockLen(b) /\ HeaderFor(blocks'[b]) = HeaderOf(b)
            /\ blocks'[b] = blocks[b]
        BY <1>9, <3>2
      <4>2. mem'[b - HEADER] = mem[b - HEADER]
        BY <1>11, <4>1, BlockFacts, NotAbove DEF t
      <4> QED
        BY <4>1, <4>2 DEF HeapInv, Headed
    <3> QED
      BY <3>1, <3>2
  <2> QED
    BY <2>1 DEF Headed, BlockLen, HeaderOf
<1> QED
  BY <1>14, <1>15, <1>16, <1>17, <1>18, <1>19, <1>20, <1>21 DEF HeapInv

\* What a header says, as kfree reads it.
LEMMA HeaderSays ==
  ASSUME HeapInv, NEW b \in DOMAIN blocks
  PROVE  /\ PoolOf(b - HEADER) = blocks[b].pool
         /\ blocks[b].pool = NULL =>
              mem[b - HEADER].size = PagesFor(blocks[b].request + HEADER) * PageUnits
<1>1. mem[b - HEADER] = HeaderFor(blocks[b])
  BY BlockFacts DEF HeaderOf
<1> QED
  BY <1>1 DEF PoolOf, HeaderFor, PagesHeader, Header

\* kfree of a chunk: the block becomes the first of the pool's list.
LEMMA KfreeChunkStep == ASSUME HeapInv, NEW b \in DOMAIN blocks, KfreeChunk(b) PROVE HeapInv'
<1> DEFINE a == b - HEADER
           p == PoolOf(a)
           f == freelist[p]
<1>1. /\ pc = "ready" /\ p # NULL
      /\ mem' = [mem EXCEPT ![a] = FreeChunk(head[p])]
      /\ head' = [head EXCEPT ![p] = a]
      /\ freelist' = [freelist EXCEPT ![p] = <<a>> \o f]
      /\ blocks' = [c \in DOMAIN blocks \ {b} |-> blocks[c]]
      /\ UNCHANGED <<avail, kern_heap_top, live_pages, pc, pool_ptr, request>>
  BY DEF KfreeChunk, pages, locals
<1>2. p = blocks[b].pool /\ p \in Pools
  BY <1>1, HeaderSays, BlockFacts
<1>3. /\ a \in Nat /\ a \in 0 .. HeapUnits - 1 /\ BlockLen(b) = MaxSize[p]
      /\ a + MaxSize[p] <= kern_heap_top /\ AllLive(a, MaxSize[p])
      /\ MaxSize[p] \in Nat /\ MaxSize[p] > 0
  BY <1>1, <1>2, BlockFacts, Constants DEF BlockLen, LenOf
<1>4. /\ mem \in [0 .. HeapUnits - 1 -> Words] /\ avail \in [Pools -> Nat]
      /\ head \in [Pools -> (0 .. HeapUnits - 1) \cup {NULL}]
      /\ freelist \in [Pools -> Seq(0 .. HeapUnits - 1)]
  BY DEF HeapInv, Typed, TypeOK
<1>5. f \in Seq(0 .. HeapUnits - 1) /\ Len(f) \in Nat
  BY <1>2, ChunkFacts
<1> HIDE DEF a, p, f
<1> DEFINE g == <<a>> \o f
<1>6. /\ g \in Seq(0 .. HeapUnits - 1) /\ Len(g) = Len(f) + 1 /\ g[1] = a
      /\ \A k \in 2 .. Len(f) + 1 : g[k] = f[k - 1]
  <2>1. <<a>> \in Seq(0 .. HeapUnits - 1) /\ Len(<<a>>) = 1 /\ <<a>>[1] = a
    BY <1>3
  <2>2. Len(g) = 1 + Len(f) /\ g \in Seq(0 .. HeapUnits - 1)
        /\ \A k \in 1 .. 1 + Len(f) : g[k] = IF k <= 1 THEN <<a>>[k] ELSE f[k - 1]
    BY <1>5, <2>1, ConcatProperties
  <2> QED
    BY <1>5, <2>1, <2>2
<1> HIDE DEF g
<1>7. /\ freelist' \in [Pools -> Seq(0 .. HeapUnits - 1)] /\ freelist'[p] = g
      /\ \A r \in Pools : r # p => freelist'[r] = freelist[r]
  BY <1>1, <1>2, <1>4, <1>6 DEF g
<1>8. /\ DOMAIN blocks' = DOMAIN blocks \ {b}
      /\ \A c \in DOMAIN blocks' : blocks'[c] = blocks[c] /\ c \in DOMAIN blocks /\ c # b
                                   /\ BlockLen(c)' = BlockLen(c) /\ HeaderOf(c)' = HeaderOf(c)
      /\ BlocksApart'
      /\ blocks' \in [DOMAIN blocks' -> [pool : Pools \cup {NULL}, request : Requests \ {0}]]
  BY <1>1, BlockRemoved
<1>9. /\ mem' \in [0 .. HeapUnits - 1 -> Words] /\ mem'[a] = FreeChunk(head[p])
      /\ \A x \in 0 .. HeapUnits - 1 : x # a => mem'[x] = mem[x]
  <2>1. head[p] \in (0 .. HeapUnits - 1) \cup {NULL}
    BY <1>2, <1>4
  <2>2. FreeChunk(head[p]) \in Words
    BY <2>1 DEF FreeChunk, Words
  <2> QED
    BY <1>1, <1>3, <1>4, <2>2
<1>10. head' \in [Pools -> (0 .. HeapUnits - 1) \cup {NULL}] /\ head'[p] = a
       /\ \A r \in Pools : r # p => head'[r] = head[r]
  BY <1>1, <1>2, <1>3, <1>4
<1>11. Typed'
  <2>1. DOMAIN blocks' \subseteq 0 .. HeapUnits /\ \A c \in DOMAIN blocks' : c >= HEADER
    BY <1>8 DEF HeapInv, Typed, TypeOK
  <2> QED
    BY <1>1, <1>7, <1>8, <1>9, <1>10, <2>1 DEF HeapInv, Typed, TypeOK, Words
<1>12. Located'
  BY <1>1 DEF Located
\* Where each chunk of the lists comes from.
<1> DEFINE IsNew(r, k) == r = p /\ k = 1
           old(r, k) == IF r = p THEN k - 1 ELSE k
<1>13. ASSUME NEW r \in Pools, NEW k \in 1 .. Len(freelist'[r])
       PROVE  /\ IsNew(r, k) => freelist'[r][k] = a
              /\ ~IsNew(r, k) => old(r, k) \in 1 .. Len(freelist[r])
                                 /\ freelist'[r][k] = freelist[r][old(r, k)]
  <2>1. CASE r = p
    <3>1. k \in 1 .. Len(f) + 1 /\ freelist'[r][k] = g[k] /\ freelist[r] = f
      BY <1>6, <1>7, <2>1 DEF f
    <3>2. CASE k = 1
      BY <1>6, <2>1, <3>1, <3>2
    <3>3. CASE k # 1
      <4>1. k \in 2 .. Len(f) + 1 /\ k - 1 \in 1 .. Len(f)
        BY <1>5, <3>1, <3>3
      <4> QED
        BY <1>6, <2>1, <3>1, <3>3, <4>1
    <3> QED
      BY <3>2, <3>3
  <2>2. CASE r # p
    BY <1>7, <2>2
  <2> QED
    BY <2>1, <2>2
<1> HIDE DEF IsNew, old
<1>14. ASSUME NEW r \in Pools, NEW k \in 1 .. Len(freelist[r])
       PROVE  /\ Apart(a, MaxSize[p], freelist[r][k], MaxSize[r])
              /\ Apart(freelist[r][k], MaxSize[r], a, MaxSize[p])
              /\ mem'[freelist[r][k]] = mem[freelist[r][k]]
  <2>1. Apart(a, MaxSize[p], freelist[r][k], MaxSize[r])
    BY <1>3 DEF HeapInv, ListsAndBlocksApart, a
  <2>2. freelist[r][k] \in Nat /\ freelist[r][k] \in 0 .. HeapUnits - 1 /\ MaxSize[r] \in Nat /\ MaxSize[r] > 0
    <3>1. freelist[r][k] \in Nat /\ freelist[r][k] \in 0 .. HeapUnits - 1
      BY ChunkFacts
    <3>2. MaxSize[r] \in Nat /\ MaxSize[r] > 0
      BY Constants
    <3> QED
      BY <3>1, <3>2
  <2>3. freelist[r][k] # a
    BY <1>3, <2>1, <2>2 DEF Apart
  <2> QED
    BY <1>3, <1>9, <2>1, <2>2, <2>3 DEF Apart
<1>15. Linked'
  <2>1. head[p] = At(f, 1)
    BY <1>2 DEF HeapInv, Linked, f
  <2>2. At(g, 1) = a
    BY <1>5, <1>6 DEF At
  <2>3. ASSUME NEW k \in 1 .. Len(g) PROVE mem'[g[k]] = FreeChunk(At(g, k + 1))
    <3>0. k \in 1 .. Len(f) + 1
      BY <1>6
    <3>1. CASE k = 1
      <4>1. At(g, 2) = At(f, 1)
        <5>1. CASE 1 <= Len(f)
          <6>1. 2 \in 2 .. Len(f) + 1 /\ 2 - 1 = 1 /\ 2 <= Len(f) + 1
            BY <1>5, <5>1
          <6> QED
            BY <1>6, <5>1, <6>1 DEF At
        <5>2. CASE ~(1 <= Len(f))
          BY <1>5, <1>6, <5>2 DEF At
        <5> QED
          BY <5>1, <5>2
      <4> QED
        BY <1>6, <1>9, <2>1, <3>1, <4>1
    <3>2. CASE k # 1
      <4> DEFINE i == k - 1
      <4>1. /\ i \in 1 .. Len(f) /\ k \in 2 .. Len(f) + 1 /\ k + 1 = i + 2 /\ (i + 2) - 1 = i + 1
            /\ i + 2 <= Len(f) + 1 <=> i + 1 <= Len(f)
            /\ i + 2 <= Len(f) + 1 => i + 2 \in 2 .. Len(f) + 1
        BY <1>5, <3>0, <3>2
      <4>2. g[k] = f[i]
        BY <1>6, <4>1
      <4> HIDE DEF i
      <4>3. At(g, k + 1) = At(f, i + 1)
        <5>1. CASE i + 1 <= Len(f)
          <6>1. g[i + 2] = f[i + 1]
            BY <1>6, <4>1, <5>1
          <6> QED
            BY <1>6, <4>1, <5>1, <6>1 DEF At
        <5>2. CASE ~(i + 1 <= Len(f))
          BY <1>6, <4>1, <5>2 DEF At
        <5> QED
          BY <5>1, <5>2
      <4>4. mem[f[i]] = FreeChunk(At(f, i + 1)) /\ mem'[f[i]] = mem[f[i]]
        BY <1>2, <1>14, <4>1 DEF HeapInv, Linked, f
      <4> QED
        BY <4>2, <4>3, <4>4
    <3> QED
      BY <3>1, <3>2
  <2>4. ASSUME NEW r \in Pools, r # p
        PROVE  /\ head'[r] = At(freelist'[r], 1)
               /\ \A k \in 1 .. Len(freelist'[r]) : mem'[freelist'[r][k]] = FreeChunk(At(freelist'[r], k + 1))
    <3>1. freelist'[r] = freelist[r] /\ head'[r] = head[r]
      BY <1>7, <1>10, <2>4
    <3> QED
      BY <1>14, <3>1 DEF HeapInv, Linked
  <2> QED
    BY <1>7, <1>10, <2>2, <2>3, <2>4 DEF Linked, At
<1>16. AvailCovered'
  <2>1. ASSUME NEW r \in Pools PROVE avail'[r] <= Len(freelist'[r])
    <3>1. avail[r] <= Len(freelist[r]) /\ avail[r] \in Nat /\ Len(freelist[r]) \in Nat
      BY <1>4, ChunkFacts DEF HeapInv, AvailCovered
    <3>2. CASE r = p
      BY <1>1, <1>5, <1>6, <1>7, <3>1, <3>2 DEF f
    <3>3. CASE r # p
      BY <1>1, <1>7, <3>1, <3>3
    <3> QED
      BY <3>2, <3>3
  <2> QED
    BY <2>1 DEF AvailCovered
<1>17. ListsApart'
  <2>1. ASSUME NEW r \in Pools, NEW s \in Pools, NEW j \in 1 .. Len(freelist'[r]),
               NEW k \in 1 .. Len(freelist'[s]), r # s \/ j # k
        PROVE  Apart(freelist'[r][j], MaxSize[r], freelist'[s][k], MaxSize[s])
    <3>1. ~(IsNew(r, j) /\ IsNew(s, k))
      BY <2>1 DEF IsNew
    <3>2. CASE IsNew(r, j) /\ ~IsNew(s, k)
      BY <1>13, <1>14, <3>2 DEF IsNew
    <3>3. CASE ~IsNew(r, j) /\ IsNew(s, k)
      BY <1>13, <1>14, <3>3 DEF IsNew
    <3>4. CASE ~IsNew(r, j) /\ ~IsNew(s, k)
      <4>1. r # s \/ old(r, j) # old(s, k)
        BY <2>1, <1>7 DEF old
      <4>2. Apart(freelist[r][old(r, j)], MaxSize[r], freelist[s][old(s, k)], MaxSize[s])
        BY <1>13, <3>4, <4>1 DEF HeapInv, ListsApart
      <4> QED
        BY <1>13, <3>4, <4>2
    <3> QED
      BY <3>1, <3>2, <3>3, <3>4
  <2> QED
    BY <2>1 DEF ListsApart, Apart
<1>18. ListsAndBlocksApart'
  <2>1. ASSUME NEW c \in DOMAIN blocks', NEW r \in Pools, NEW k \in 1 .. Len(freelist'[r])
        PROVE  Apart(c - HEADER, BlockLen(c)', freelist'[r][k], MaxSize[r])
    <3>1. c \in DOMAIN blocks /\ c # b /\ BlockLen(c)' = BlockLen(c)
      BY <1>8
    <3>2. CASE IsNew(r, k)
      <4>1. Apart(c - HEADER, BlockLen(c), b - HEADER, BlockLen(b))
        BY <3>1 DEF HeapInv, BlocksApart
      <4> QED
        BY <1>3, <1>13, <3>1, <3>2, <4>1 DEF IsNew, a
    <3>3. CASE ~IsNew(r, k)
      <4>1. Apart(c - HEADER, BlockLen(c), freelist[r][old(r, k)], MaxSize[r])
        BY <1>13, <3>1, <3>3 DEF HeapInv, ListsAndBlocksApart
      <4> QED
        BY <1>13, <3>1, <3>3, <4>1
    <3> QED
      BY <3>2, <3>3
  <2> QED
    BY <2>1 DEF ListsAndBlocksApart, Apart
<1>19. Within'
  <2>1. kern_heap_top' = PageOf(kern_heap_top') * PageUnits
    BY <1>1 DEF HeapInv, Within
  <2>2. ASSUME NEW r \in Pools, NEW k \in 1 .. Len(freelist'[r])
        PROVE  freelist'[r][k] + MaxSize[r] <= kern_heap_top' /\ AllLive(freelist'[r][k], MaxSize[r])
    <3>1. CASE IsNew(r, k)
      BY <1>1, <1>3, <1>13, <3>1 DEF IsNew
    <3>2. CASE ~IsNew(r, k)
      BY <1>1, <1>13, <3>2, ChunkFacts
    <3> QED
      BY <3>1, <3>2
  <2>3. ASSUME NEW c \in DOMAIN blocks'
        PROVE  c - HEADER + BlockLen(c)' <= kern_heap_top' /\ AllLive(c - HEADER, BlockLen(c)')
    BY <1>1, <1>8 DEF HeapInv, Within
  <2> QED
    BY <1>1, <2>1, <2>2, <2>3 DEF Within, AllLive
<1>20. Headed'
  <2>1. ASSUME NEW c \in DOMAIN blocks'
        PROVE  /\ mem'[c - HEADER] = HeaderOf(c)'
               /\ blocks'[c].request + HEADER <= BlockLen(c)'
               /\ blocks'[c].pool = NULL => c - HEADER = PageOf(c - HEADER) * PageUnits
    <3>1. c \in DOMAIN blocks /\ c # b /\ BlockLen(c)' = BlockLen(c) /\ HeaderOf(c)' = HeaderOf(c)
          /\ blocks'[c] = blocks[c]
      BY <1>8
    <3>2. c - HEADER \in 0 .. HeapUnits - 1 /\ c - HEADER # a
      BY <3>1, BlockFacts DEF a, HEADER
    <3>3. mem'[c - HEADER] = mem[c - HEADER]
      BY <1>9, <3>2
    <3> QED
      BY <3>1, <3>3 DEF HeapInv, Headed
  <2> QED
    BY <2>1 DEF Headed
<1> QED
  BY <1>8, <1>11, <1>12, <1>15, <1>16, <1>17, <1>18, <1>19, <1>20 DEF HeapInv

\* kfree of whole pages: none of them holds anything else, and all of them
\* are allocated, so MMU_free_pages does not halt.
LEMMA KfreePagesStep == ASSUME HeapInv, NEW b \in DOMAIN blocks, KfreePages(b) PROVE HeapInv'
<1> DEFINE a == b - HEADER
           n == PagesFor(blocks[b].request + HEADER)
           q == PageOf(a)
           freed == q .. q + n - 1
<1>1. blocks[b].pool = NULL /\ mem[a].size = n * PageUnits
  BY HeaderSays DEF KfreePages
<1>2. blocks[b].request + HEADER \in Nat /\ blocks[b].request + HEADER > 0
  BY BlockFacts DEF HEADER
<1>3. n \in Nat /\ n > 0 /\ PageUnits \in Nat /\ PageUnits > 0
  BY <1>2, PagesForFacts, Constants
<1>4. BlockLen(b) = n * PageUnits /\ a = q * PageUnits /\ a \in Nat /\ q \in Nat
  BY <1>1, BlockFacts, Constants, Division DEF HeapInv, Headed, BlockLen, LenOf, PageOf
<1>5. mem[a].size \div PageUnits = n
  <2>1. 0 \in 0 .. PageUnits - 1 /\ n * PageUnits + 0 = n * PageUnits
    BY <1>3
  <2> HIDE DEF n
  <2>2. (n * PageUnits + 0) \div PageUnits = n
    BY <1>3, <2>1, Quotient
  <2> QED
    BY <1>1, <2>1, <2>2
<1>6. AllLive(q * PageUnits, n * PageUnits)
  BY <1>4, BlockFacts
<1>7. /\ freed \subseteq live_pages
      /\ \A x, m \in Nat : Apart(q * PageUnits, n * PageUnits, x, m) =>
           \A y \in x .. x + m - 1 : PageOf(y) \notin freed
  <2> HIDE DEF n, q
  <2> QED
    BY <1>3, <1>4, <1>6, WholePages
<1>8. /\ live_pages' = live_pages \ freed
      /\ blocks' = [c \in DOMAIN blocks \ {b} |-> blocks[c]]
      /\ UNCHANGED <<mem, avail, head, kern_heap_top, pc, pool_ptr, request, freelist>>
  BY <1>5, <1>7 DEF KfreePages, pool_arr, locals
<1> HIDE DEF a, n, q, freed
<1>9. /\ DOMAIN blocks' = DOMAIN blocks \ {b}
      /\ \A c \in DOMAIN blocks' : blocks'[c] = blocks[c] /\ c \in DOMAIN blocks /\ c # b
                                   /\ BlockLen(c)' = BlockLen(c) /\ HeaderOf(c)' = HeaderOf(c)
      /\ BlocksApart'
      /\ blocks' \in [DOMAIN blocks' -> [pool : Pools \cup {NULL}, request : Requests \ {0}]]
  BY <1>8, BlockRemoved
<1>10. Typed' /\ Located'
  <2>1. DOMAIN blocks' \subseteq 0 .. HeapUnits /\ \A c \in DOMAIN blocks' : c >= HEADER
    BY <1>9 DEF HeapInv, Typed, TypeOK
  <2>2. live_pages' \subseteq 0 .. HeapPages - 1
    BY <1>8 DEF HeapInv, Typed, TypeOK
  <2> QED
    BY <1>8, <1>9, <2>1, <2>2 DEF HeapInv, Typed, TypeOK, Located
<1>11. Linked' /\ AvailCovered' /\ ListsApart'
  BY <1>8 DEF HeapInv, Linked, AvailCovered, ListsApart, At
<1>12. ListsAndBlocksApart'
  <2>1. \A c \in DOMAIN blocks', r \in Pools : \A k \in 1 .. Len(freelist[r]) :
          Apart(c - HEADER, BlockLen(c)', freelist[r][k], MaxSize[r])
    BY <1>9 DEF HeapInv, ListsAndBlocksApart
  <2> QED
    BY <1>8, <2>1 DEF ListsAndBlocksApart, Apart
<1>13. Within'
  <2>1. ASSUME NEW r \in Pools, NEW k \in 1 .. Len(freelist[r])
        PROVE  /\ freelist[r][k] + MaxSize[r] <= kern_heap_top
               /\ \A x \in freelist[r][k] .. freelist[r][k] + MaxSize[r] - 1 : PageOf(x) \in live_pages'
    <3>1. /\ freelist[r][k] \in Nat /\ freelist[r][k] + MaxSize[r] <= kern_heap_top
          /\ AllLive(freelist[r][k], MaxSize[r])
      BY ChunkFacts
    <3>2. MaxSize[r] \in Nat
      BY Constants
    <3>3. Apart(q * PageUnits, n * PageUnits, freelist[r][k], MaxSize[r])
      BY <1>4 DEF HeapInv, ListsAndBlocksApart, a
    <3> QED
      BY <1>7, <1>8, <3>1, <3>2, <3>3 DEF AllLive
  <2>2. ASSUME NEW c \in DOMAIN blocks'
        PROVE  /\ c - HEADER + BlockLen(c)' <= kern_heap_top
               /\ \A x \in c - HEADER .. c - HEADER + BlockLen(c)' - 1 : PageOf(x) \in live_pages'
    <3>1. c \in DOMAIN blocks /\ c # b /\ BlockLen(c)' = BlockLen(c)
      BY <1>9
    <3>2. /\ c - HEADER \in Nat /\ BlockLen(c) \in Nat /\ c - HEADER + BlockLen(c) <= kern_heap_top
          /\ AllLive(c - HEADER, BlockLen(c))
      BY <3>1, BlockFacts
    <3>3. Apart(q * PageUnits, n * PageUnits, c - HEADER, BlockLen(c))
      BY <1>4, <3>1 DEF HeapInv, BlocksApart, a
    <3> QED
      BY <1>7, <1>8, <3>1, <3>2, <3>3 DEF AllLive
  <2>3. kern_heap_top = PageOf(kern_heap_top) * PageUnits
    BY DEF HeapInv, Within
  <2> QED
    BY <1>8, <2>1, <2>2, <2>3 DEF Within, AllLive
<1>14. Headed'
  <2>1. ASSUME NEW c \in DOMAIN blocks'
        PROVE  /\ mem[c - HEADER] = HeaderOf(c)'
               /\ blocks'[c].request + HEADER <= BlockLen(c)'
               /\ blocks'[c].pool = NULL => c - HEADER = PageOf(c - HEADER) * PageUnits
    BY <1>9 DEF HeapInv, Headed
  <2> QED
    BY <1>8, <2>1 DEF Headed
<1> QED
  BY <1>9, <1>10, <1>11, <1>12, <1>13, <1>14 DEF HeapInv

LEMMA NextInv == ASSUME HeapInv, SizesFit, [Next]_vars PROVE HeapInv'
<1>1. CASE UNCHANGED vars
  BY <1>1, StutterStep
<1>2. ASSUME NEW b \in DOMAIN blocks, KfreeChunk(b) \/ KfreePages(b) \/ OwnerWrites(b)
      PROVE  HeapInv'
  BY <1>2, KfreeChunkStep, KfreePagesStep, OwnerWritesStep
<1> QED
  BY <1>1, <1>2, AddPageSteps, ChoiceSteps, TakeChunkStep, AllocPagesStep DEF Next

LEMMA Invariance == ASSUME SizesFit PROVE Spec => []HeapInv
<1>1. Init => HeapInv
  BY InitInv
<1>2. HeapInv /\ [Next]_vars => HeapInv'
  BY NextInv
<1> QED
  BY <1>1, <1>2, PTL DEF Spec

-----------------------------------------------------------------------------
(* The properties.                                                         *)

\* No function of kmalloc.c leaves its variables' types: the loop of add_page
\* writes nothing but a list's links, and only into the heap.
THEOREM TypeCorrect == ASSUME SizesFit PROVE Spec => []TypeOK
<1>1. HeapInv => TypeOK
  BY DEF HeapInv, Typed
<1> QED
  BY <1>1, Invariance, PTL

\* head and the next pointers in memory are each pool's list, whatever the
\* owners of blocks write.
THEOREM ListsCorrect == ASSUME SizesFit PROVE Spec => []ListsMatchMemory
<1>1. ASSUME HeapInv PROVE ListsMatchMemory
  <2>1. ASSUME NEW p \in Pools
        PROVE  /\ head[p] = At(freelist[p], 1)
               /\ \A k \in 1 .. Len(freelist[p]) :
                    k <= Len(freelist[p]) /\ mem[freelist[p][k]] = FreeChunk(At(freelist[p], k + 1))
    BY <1>1, ChunkFacts DEF HeapInv, Linked
  <2> QED
    BY <2>1 DEF ListsMatchMemory, At
<1> QED
  BY <1>1, Invariance, PTL

\* A list is never shorter than avail says, so kmalloc takes no chunk from an
\* empty list.
THEOREM AvailCorrect == ASSUME SizesFit PROVE Spec => []AvailCovered
<1>1. HeapInv => AvailCovered
  BY DEF HeapInv
<1> QED
  BY <1>1, Invariance, PTL

LEMMA Extents ==
  ASSUME HeapInv
  PROVE  /\ \A b \in DOMAIN blocks : ExtentOfBlock(b) = b - HEADER .. b - HEADER + BlockLen(b) - 1
         /\ \A p \in Pools : DOMAIN freelist[p] = 1 .. Len(freelist[p])
<1>1. \A p \in Pools : DOMAIN freelist[p] = 1 .. Len(freelist[p])
  BY ChunkFacts, LenProperties
<1> QED
  BY <1>1 DEF ExtentOfBlock, BlockLen, LenOf

\* The memory of a chunk is on one list once or in use, in allocated pages.
THEOREM NothingOverlapsEver == ASSUME SizesFit PROVE Spec => []NothingOverlaps
<1>1. ASSUME HeapInv PROVE NothingOverlaps
  <2>1. ASSUME NEW p \in Pools, NEW q \in Pools, NEW j \in DOMAIN freelist[p],
               NEW k \in DOMAIN freelist[q], <<p, j>> # <<q, k>>
        PROVE  ExtentOfChunk(p, j) \cap ExtentOfChunk(q, k) = {}
    <3>1. j \in 1 .. Len(freelist[p]) /\ k \in 1 .. Len(freelist[q])
      BY <1>1, Extents
    <3>2. Apart(freelist[p][j], MaxSize[p], freelist[q][k], MaxSize[q])
      BY <1>1, <2>1, <3>1 DEF HeapInv, ListsApart
    <3>3. freelist[p][j] \in Nat /\ freelist[q][k] \in Nat /\ MaxSize[p] \in Nat /\ MaxSize[q] \in Nat
      BY <1>1, <3>1, ChunkFacts, Constants
    <3> QED
      BY <3>2, <3>3, ApartFacts DEF ExtentOfChunk
  <2>2. ASSUME NEW b \in DOMAIN blocks, NEW c \in DOMAIN blocks \ {b}
        PROVE  ExtentOfBlock(b) \cap ExtentOfBlock(c) = {}
    <3>1. Apart(b - HEADER, BlockLen(b), c - HEADER, BlockLen(c))
      BY <1>1 DEF HeapInv, BlocksApart
    <3>2. b - HEADER \in Nat /\ c - HEADER \in Nat /\ BlockLen(b) \in Nat /\ BlockLen(c) \in Nat
      BY <1>1, BlockFacts
    <3>3. (b - HEADER .. b - HEADER + BlockLen(b) - 1) \cap (c - HEADER .. c - HEADER + BlockLen(c) - 1) = {}
      BY <3>1, <3>2, ApartFacts
    <3> QED
      BY <1>1, <3>3, Extents
  <2>3. ASSUME NEW b \in DOMAIN blocks, NEW p \in Pools, NEW k \in DOMAIN freelist[p]
        PROVE  ExtentOfBlock(b) \cap ExtentOfChunk(p, k) = {}
    <3>1. k \in 1 .. Len(freelist[p])
      BY <1>1, Extents
    <3>2. Apart(b - HEADER, BlockLen(b), freelist[p][k], MaxSize[p])
      BY <1>1, <3>1 DEF HeapInv, ListsAndBlocksApart
    <3>3. b - HEADER \in Nat /\ BlockLen(b) \in Nat /\ freelist[p][k] \in Nat /\ MaxSize[p] \in Nat
      BY <1>1, <3>1, BlockFacts, ChunkFacts, Constants
    <3>4. (b - HEADER .. b - HEADER + BlockLen(b) - 1) \cap ExtentOfChunk(p, k) = {}
      BY <3>2, <3>3, ApartFacts DEF ExtentOfChunk
    <3> QED
      BY <1>1, <3>4, Extents
  <2>4. ASSUME NEW b \in DOMAIN blocks, NEW a \in ExtentOfBlock(b) PROVE PageOf(a) \in live_pages
    BY <1>1, <2>4, Extents, BlockFacts DEF AllLive
  <2> QED
    BY <2>1, <2>2, <2>3, <2>4 DEF NothingOverlaps
<1> QED
  BY <1>1, Invariance, PTL

\* When kfree reads a header it says what kmalloc wrote, every block has room
\* for what was asked for, and only a request for nothing stops the kernel.
THEOREM HeadersCorrect == ASSUME SizesFit PROVE Spec => []HeadersIntact
<1>1. ASSUME HeapInv PROVE HeadersIntact
  <2>1. ASSUME NEW b \in DOMAIN blocks
        PROVE  mem[b - HEADER].pool = blocks[b].pool /\ Payload(b) \subseteq ExtentOfBlock(b)
    <3>1. /\ b \in Nat /\ blocks[b].request \in Nat /\ BlockLen(b) \in Nat
          /\ blocks[b].request + HEADER <= BlockLen(b)
      BY <1>1, BlockFacts
    <3>2. b .. b + blocks[b].request - 1 \subseteq b - HEADER .. b - HEADER + BlockLen(b) - 1
      BY <3>1 DEF HEADER
    <3> QED
      BY <1>1, <3>2, HeaderSays, Extents DEF Payload, PoolOf
  <2>2. pc = "halted" => request = 0
    BY <1>1 DEF HeapInv, Located
  <2> QED
    BY <2>1, <2>2 DEF HeadersIntact
<1> QED
  BY <1>1, Invariance, PTL

-----------------------------------------------------------------------------
(* The abstract heap.                                                      *)

LEMMA PayloadsApart ==
  ASSUME NEW b \in Nat, NEW m \in Nat, NEW r \in Nat, NEW c \in Nat, NEW n \in Nat, NEW s \in Nat,
         r + HEADER <= m, s + HEADER <= n, Apart(b - HEADER, m, c - HEADER, n)
  PROVE  (b .. b + r - 1) \cap (c .. c + s - 1) = {}
BY DEF Apart, HEADER

LEMMA LenType ==
  ASSUME NEW block \in [pool : Pools \cup {NULL}, request : Requests \ {0}]
  PROVE  LenOf(block) \in Nat /\ block.request \in Nat
<1>1. block.request \in Requests \ {0} /\ block.pool \in Pools \cup {NULL}
  OBVIOUS
<1>2. block.request \in Nat /\ block.request + HEADER \in Nat /\ block.request + HEADER > 0
  <2>1. block.request \in Nat
    BY <1>1, Constants
  <2> QED
    BY <2>1 DEF HEADER
<1>3. CASE block.pool = NULL
  <2>1. PagesFor(block.request + HEADER) \in Nat
    BY <1>2, PagesForFacts
  <2> QED
    BY <1>2, <1>3, <2>1, Constants, Multiples DEF LenOf
<1>4. CASE block.pool # NULL
  BY <1>1, <1>2, <1>4, Constants DEF LenOf
<1> QED
  BY <1>3, <1>4

\* A step that adds a block and keeps the invariant is an allocation: the new
\* block is apart from the others, and what was asked for lies in it.
LEMMA NewBlock ==
  ASSUME HeapInv, HeapInv', request \in Requests,
         NEW nb \in Nat, nb \in 0 .. HeapUnits, nb \notin DOMAIN blocks,
         NEW pool,
         blocks' = [b \in DOMAIN blocks \cup {nb} |->
                      IF b = nb THEN [pool |-> pool, request |-> request] ELSE blocks[b]]
  PROVE  Promise!Next
<1> DEFINE lens == [b \in DOMAIN blocks |-> blocks[b].request]
<1>1. /\ DOMAIN blocks' = DOMAIN blocks \cup {nb} /\ blocks'[nb].request = request
      /\ \A b \in DOMAIN blocks : blocks'[b] = blocks[b] /\ b # nb
  OBVIOUS
<1>2. ASSUME NEW b \in DOMAIN blocks
      PROVE  (b .. b + lens[b] - 1) \cap (nb .. nb + request - 1) = {}
  <2>1. /\ blocks'[b] \in [pool : Pools \cup {NULL}, request : Requests \ {0}]
        /\ blocks'[nb] \in [pool : Pools \cup {NULL}, request : Requests \ {0}]
    BY <1>1 DEF HeapInv, Typed
  <2>2. /\ LenOf(blocks'[b]) \in Nat /\ LenOf(blocks'[nb]) \in Nat
        /\ blocks'[b].request \in Nat /\ blocks'[nb].request \in Nat
    BY <2>1, LenType
  <2>3. /\ blocks'[b].request + HEADER <= LenOf(blocks'[b])
        /\ blocks'[nb].request + HEADER <= LenOf(blocks'[nb])
    BY <1>1 DEF HeapInv, Headed, BlockLen
  <2>4. Apart(b - HEADER, LenOf(blocks'[b]), nb - HEADER, LenOf(blocks'[nb]))
    BY <1>1 DEF HeapInv, BlocksApart, BlockLen, Apart
  <2>5. b \in Nat
    BY BlockFacts
  <2>6. (b .. b + blocks'[b].request - 1) \cap (nb .. nb + blocks'[nb].request - 1) = {}
    <3> DEFINE m == LenOf(blocks'[b])  r == blocks'[b].request
               n == LenOf(blocks'[nb])  s == blocks'[nb].request
    <3>1. /\ m \in Nat /\ n \in Nat /\ r \in Nat /\ s \in Nat
          /\ r + HEADER <= m /\ s + HEADER <= n /\ Apart(b - HEADER, m, nb - HEADER, n)
      BY <2>2, <2>3, <2>4
    <3> HIDE DEF m, n, r, s
    <3>2. (b .. b + r - 1) \cap (nb .. nb + s - 1) = {}
      BY <2>5, <3>1, PayloadsApart
    <3> QED
      BY <3>2 DEF r, s
  <2> QED
    BY <1>1, <2>6
<1>3. [b \in DOMAIN blocks' |-> blocks'[b].request] =
        [b \in DOMAIN lens \cup {nb} |-> IF b = nb THEN request ELSE lens[b]]
  BY <1>1
<1>4. PICK len \in Requests : len = request
  OBVIOUS
<1>5. Promise!Allocate(nb, len)
  BY <1>2, <1>3, <1>4 DEF Promise!Allocate, Promise!Extent
<1> QED
  BY <1>5 DEF Promise!Next

LEMMA BlockGone ==
  ASSUME NEW b \in DOMAIN blocks, b \in 0 .. HeapUnits,
         blocks' = [c \in DOMAIN blocks \ {b} |-> blocks[c]]
  PROVE  Promise!Next
<1>1. Promise!Release(b)
  BY DEF Promise!Release
<1> QED
  BY <1>1 DEF Promise!Next

LEMMA PromiseStep ==
  ASSUME HeapInv, HeapInv', SizesFit, [Next]_vars
  PROVE  [Promise!Next]_[b \in DOMAIN blocks |-> blocks[b].request]
<1>1. CASE TakeChunk
  <2> DEFINE a == head[pool_ptr]
             nb == a + HEADER
  <2>1. /\ pool_ptr \in Pools /\ request \in Requests /\ avail[pool_ptr] > 0
        /\ blocks' = [b \in DOMAIN blocks \cup {nb} |->
                        IF b = nb THEN [pool |-> pool_ptr, request |-> request] ELSE blocks[b]]
    BY <1>1 DEF TakeChunk, HeapInv, Located
  <2>2. Len(freelist[pool_ptr]) \in Nat /\ avail[pool_ptr] <= Len(freelist[pool_ptr])
        /\ avail[pool_ptr] \in Nat
    BY <2>1, ChunkFacts DEF HeapInv, AvailCovered, Typed, TypeOK
  <2>3. 1 \in 1 .. Len(freelist[pool_ptr]) /\ a = freelist[pool_ptr][1]
    BY <2>1, <2>2 DEF HeapInv, Linked, At
  <2>4. a \in Nat /\ a \in 0 .. HeapUnits - 1
    BY <2>1, <2>3, ChunkFacts
  <2>5. nb \in Nat /\ nb \in 0 .. HeapUnits /\ nb - HEADER = a
    BY <2>4, Constants DEF HEADER
  <2>6. ASSUME nb \in DOMAIN blocks PROVE FALSE
    <3>1. a \in nb - HEADER .. nb - HEADER + BlockLen(nb) - 1
      BY <2>4, <2>5, <2>6, BlockFacts
    <3> HIDE DEF nb
    <3> QED
      BY <2>1, <2>3, <2>6, <3>1, NotInBlock
  <2> HIDE DEF a, nb
  <2> QED
    BY <2>1, <2>5, <2>6, NewBlock
<1>2. CASE AllocPages
  <2> DEFINE nb == kern_heap_top + HEADER
  <2>1. /\ request \in Requests
        /\ blocks' = [b \in DOMAIN blocks \cup {nb} |->
                        IF b = nb THEN [pool |-> NULL, request |-> request] ELSE blocks[b]]
    BY <1>2 DEF AllocPages, HeapInv, Located
  <2>2. nb \in DOMAIN blocks'
    BY <2>1
  <2>3. nb \in 0 .. HeapUnits /\ nb \in Nat /\ nb - HEADER = kern_heap_top
    BY <2>2, TopFacts DEF HeapInv, Typed, TypeOK, HEADER
  <2>4. ASSUME nb \in DOMAIN blocks PROVE FALSE
    <3>1. nb - HEADER < kern_heap_top
      BY <2>4, NotAbove
    <3> QED
      BY <2>3, <3>1, TopFacts
  <2> HIDE DEF nb
  <2> QED
    BY <2>1, <2>3, <2>4, NewBlock
<1>3. ASSUME NEW b \in DOMAIN blocks, KfreeChunk(b) PROVE Promise!Next
  BY <1>3, BlockGone DEF KfreeChunk, HeapInv, Typed, TypeOK
<1>4. ASSUME NEW b \in DOMAIN blocks, KfreePages(b)
      PROVE  [Promise!Next]_[c \in DOMAIN blocks |-> blocks[c].request]
  <2>1. CASE blocks' = blocks
    BY <2>1
  <2>2. CASE blocks' = [c \in DOMAIN blocks \ {b} |-> blocks[c]]
    BY <2>2, BlockGone DEF HeapInv, Typed, TypeOK
  <2> QED
    BY <1>4, <2>1, <2>2 DEF KfreePages
<1>5. CASE blocks' = blocks
  BY <1>5
<1> QED
  BY <1>1, <1>2, <1>3, <1>4, <1>5
  DEF Next, vars, InitPool, InitReturns, Kmalloc, AddPage, OwnerWrites

\* kmalloc and kfree keep the promise of the abstract heap: a block is as long
\* as asked for and overlaps no other block in use.
THEOREM HeapPromised == ASSUME SizesFit PROVE Spec => ImplementsPromise
<1>1. Init => Promise!Init
  BY DEF Init, Promise!Init
<1>2. HeapInv /\ HeapInv' /\ [Next]_vars =>
        [Promise!Next]_[b \in DOMAIN blocks |-> blocks[b].request]
  BY PromiseStep
<1> QED
  BY <1>1, <1>2, Invariance, PTL DEF Spec, Promise!Spec, ImplementsPromise
=============================================================================
