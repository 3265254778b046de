------------------------------ MODULE Kmalloc ------------------------------
(***************************************************************************)
(* The kernel heap, core/src/kmalloc.c: pools of chunks of a fixed size on *)
(* free lists threaded through the chunks, a header before each block, and *)
(* whole pages for large blocks.                                           *)
(*                                                                         *)
(* Sizes and addresses are in units of sizeof(kmalloc_header_t), so that a *)
(* header is one word of mem; a free chunk's first word holds its next     *)
(* pointer.  Pages come from MMU_alloc_pages, which hands out consecutive  *)
(* pages and never the same one twice (VirtualPages).                      *)
(***************************************************************************)
EXTENDS Integers, Sequences, FiniteSets

CONSTANTS
  PageUnits,    \* PAGE_SIZE
  MaxSize,      \* the max_size of each pool, ascending
  HeapPages,    \* bound: pages of the heap
  Requests,     \* the arguments kmalloc is called with
  SizeMod,      \* size_t wraps here
  NULL,
  Junk          \* a word an owner wrote; new pages are not cleared either

HeapUnits == PageUnits * HeapPages
Pools == 1 .. Len(MaxSize)

ASSUME PoolAssumption ==
  /\ PageUnits \in Nat /\ HeapPages \in Nat /\ HeapPages >= Len(MaxSize)
  /\ MaxSize \in Seq(Nat) /\ Len(MaxSize) > 0
  /\ \A p \in Pools :
       /\ MaxSize[p] >= 2 /\ MaxSize[p] <= PageUnits
       /\ PageUnits % MaxSize[p] = 0
       /\ \A q \in Pools : p < q => MaxSize[p] < MaxSize[q]
  /\ Requests \subseteq Nat /\ SizeMod \in Nat /\ SizeMod > PageUnits
  /\ HeapUnits < SizeMod      \* an address is no wider than a size_t
  /\ NULL \notin Int

VARIABLES
  mem,                \* the heap's words
  avail, head,        \* pool_arr
  kern_heap_top,      \* of vp_alloc.c, in units
  live_pages,         \* pages allocated and not freed
  pc,                 \* the function being executed
  pool_ptr, request,  \* kmalloc_init's index or kmalloc's pool; size of kmalloc
  freelist,           \* history variable: a pool's free chunks, in list order
  blocks              \* history variable: pool and request of each block in use

pool_arr == <<avail, head>>
pages == <<kern_heap_top, live_pages>>
locals == <<pool_ptr, request>>
vars == <<mem, pool_arr, pages, pc, locals, freelist, blocks>>

HEADER == 1                            \* sizeof(kmalloc_header_t)
FreeChunk(next) == [next |-> next]     \* freelist_t
Header(pool, size) == [pool |-> pool, size |-> size]
PageOf(a) == a \div PageUnits

\* kmalloc_init is entered.
Init ==
  /\ mem = [a \in 0 .. HeapUnits - 1 |-> Junk]
  /\ avail = [p \in Pools |-> 0] /\ head = [p \in Pools |-> NULL]
  /\ kern_heap_top = 0 /\ live_pages = {}
  /\ pc = "kmalloc_init" /\ pool_ptr = 1 /\ request = NULL
  /\ freelist = [p \in Pools |-> <<>>]
  /\ blocks = [b \in {} |-> 0]

\* A function of this module returns; its locals are gone.
Returns == pc' = "ready" /\ pool_ptr' = NULL /\ request' = NULL

bytes_needed(size) == (size + HEADER) % SizeMod

\* Mutant: the search does not compare with each pool.
get_best_pool_first(size) == IF size <= MaxSize[Len(MaxSize)] THEN 1 ELSE NULL

\* The first pool that is large enough.
get_best_pool(size) ==
  IF \E p \in Pools : size <= MaxSize[p]
    THEN CHOOSE p \in Pools :
           size <= MaxSize[p] /\ \A q \in Pools : size <= MaxSize[q] => p <= q
    ELSE NULL

-----------------------------------------------------------------------------
(* add_page, called by kmalloc_init for each pool and by kmalloc.          *)

ChunksPerPage(p) == PageUnits \div MaxSize[p]

\* Mutant: chunks do not include their header.
NewChunksTight(p) ==
  [k \in 1 .. ChunksPerPage(p) |-> kern_heap_top + (k - 1) * (MaxSize[p] - HEADER)]

\* The new page's chunks, in address order.
NewChunks(p) == [k \in 1 .. ChunksPerPage(p) |-> kern_heap_top + (k - 1) * MaxSize[p]]

\* Mutant: the last new chunk is not linked to the old list.
ThreadedEnds(p) ==
  LET new == NewChunks(p) IN
  [a \in DOMAIN mem |->
     IF \E k \in DOMAIN new : new[k] = a
       THEN FreeChunk(IF a + MaxSize[p] < kern_heap_top + PageUnits
                        THEN a + MaxSize[p] ELSE NULL)
       ELSE mem[a]]

\* Mutant: the loop runs once too often.
ThreadedTooFar(p) ==
  LET new == NewChunks(p) IN
  [a \in DOMAIN mem |->
     IF \E k \in DOMAIN new : new[k] = a THEN FreeChunk(a + MaxSize[p]) ELSE mem[a]]

\* Each new chunk points to the one behind it, the last to the old list.
Threaded(p) ==
  LET new == NewChunks(p) IN
  [a \in DOMAIN mem |->
     IF \E k \in DOMAIN new : new[k] = a
       THEN FreeChunk(IF a + MaxSize[p] < kern_heap_top + PageUnits
                        THEN a + MaxSize[p] ELSE head[p])
       ELSE mem[a]]

\* Mutant: one chunk too many is counted.
add_page_overcounts(p) ==
  /\ kern_heap_top + PageUnits <= HeapUnits
  /\ mem' = Threaded(p)
  /\ head' = [head EXCEPT ![p] = kern_heap_top]
  /\ avail' = [avail EXCEPT ![p] = @ + ChunksPerPage(p) + 1]
  /\ freelist' = [freelist EXCEPT ![p] = NewChunks(p) \o @]
  /\ kern_heap_top' = kern_heap_top + PageUnits
  /\ live_pages' = live_pages \cup {PageOf(kern_heap_top)}

add_page(p) ==
  /\ kern_heap_top + PageUnits <= HeapUnits     \* bound
  /\ mem' = Threaded(p)
  /\ head' = [head EXCEPT ![p] = kern_heap_top]
  /\ avail' = [avail EXCEPT ![p] = @ + ChunksPerPage(p)]
  /\ freelist' = [freelist EXCEPT ![p] = NewChunks(p) \o @]
  /\ kern_heap_top' = kern_heap_top + PageUnits
  /\ live_pages' = live_pages \cup {PageOf(kern_heap_top)}

\* One iteration of kmalloc_init.
InitPool ==
  /\ pc = "kmalloc_init" /\ pool_ptr <= Len(MaxSize)
  /\ add_page(pool_ptr)
  /\ pool_ptr' = pool_ptr + 1
  /\ UNCHANGED <<pc, request, blocks>>

InitReturns ==
  /\ pc = "kmalloc_init" /\ pool_ptr > Len(MaxSize)
  /\ Returns
  /\ UNCHANGED <<mem, pool_arr, pages, freelist, blocks>>

-----------------------------------------------------------------------------
(* kmalloc.                                                                *)

Kmalloc(size) ==
  /\ pc = "ready"
  /\ request' = size
  /\ pool_ptr' = get_best_pool(bytes_needed(size))
  /\ pc' = IF size = 0 THEN "halted"
           ELSE IF pool_ptr' = NULL THEN "alloc_pages"
           ELSE IF avail[pool_ptr'] = 0 THEN "add_page" ELSE "take_chunk"
  /\ UNCHANGED <<mem, pool_arr, pages, freelist, blocks>>

AddPage ==
  /\ pc = "add_page"
  /\ add_page(pool_ptr)
  /\ pc' = "take_chunk"
  /\ UNCHANGED <<locals, blocks>>

TakeChunk ==
  /\ pc = "take_chunk"
  /\ LET new_mem == head[pool_ptr] IN
     /\ head' = [head EXCEPT ![pool_ptr] = mem[new_mem].next]
     /\ avail' = [avail EXCEPT ![pool_ptr] = @ - 1]
     /\ mem' = [mem EXCEPT ![new_mem] = Header(pool_ptr, bytes_needed(request))]
     /\ freelist' = [freelist EXCEPT ![pool_ptr] = Tail(@)]
     /\ blocks' = [b \in DOMAIN blocks \cup {new_mem + HEADER} |->
                     IF b = new_mem + HEADER THEN [pool |-> pool_ptr, request |-> request]
                     ELSE blocks[b]]
  /\ Returns
  /\ UNCHANGED pages

\* Mutant: a page less when the block fills its pages.
PagesForTruncated(bytes) == bytes \div PageUnits
PagesFor(bytes) == (bytes - 1) \div PageUnits + 1

PagesHeader(n) == Header(NULL, n * PageUnits)

\* Too large for the pools: whole pages.
AllocPages ==
  /\ pc = "alloc_pages"
  /\ LET n == PagesFor(bytes_needed(request)) IN
     /\ kern_heap_top + n * PageUnits <= HeapUnits     \* bound
     /\ mem' = [mem EXCEPT ![kern_heap_top] = PagesHeader(n)]
     /\ kern_heap_top' = kern_heap_top + n * PageUnits
     /\ live_pages' = live_pages \cup
          (PageOf(kern_heap_top) .. PageOf(kern_heap_top) + n - 1)
     /\ blocks' = [b \in DOMAIN blocks \cup {kern_heap_top + HEADER} |->
                     IF b = kern_heap_top + HEADER THEN [pool |-> NULL, request |-> request]
                     ELSE blocks[b]]
  /\ Returns
  /\ UNCHANGED <<pool_arr, freelist>>

-----------------------------------------------------------------------------
(* kfree, and what the owner of a block does with it.                      *)

\* The pool a block goes back to is the one its header names.
PoolOf(old_mem) == mem[old_mem].pool

\* The chunk is put first on its pool's list; avail is not changed.
KfreeChunk(b) ==
  LET old_mem == b - HEADER
      p == PoolOf(old_mem)
  IN
  /\ pc = "ready" /\ b \in DOMAIN blocks /\ p # NULL
  /\ mem' = [mem EXCEPT ![old_mem] = FreeChunk(head[p])]
  /\ head' = [head EXCEPT ![p] = old_mem]
  /\ freelist' = [freelist EXCEPT ![p] = <<old_mem>> \o @]
  /\ blocks' = [c \in DOMAIN blocks \ {b} |-> blocks[c]]
  /\ UNCHANGED <<avail, pages, pc, locals>>

\* A large block: MMU_free_pages, which halts on a page that is not allocated.
KfreePages(b) ==
  LET old_mem == b - HEADER
      freed == PageOf(old_mem) .. PageOf(old_mem) + mem[old_mem].size \div PageUnits - 1
  IN
  /\ pc = "ready" /\ b \in DOMAIN blocks /\ PoolOf(old_mem) = NULL
  /\ IF freed \subseteq live_pages
       THEN /\ live_pages' = live_pages \ freed /\ pc' = pc
            /\ blocks' = [c \in DOMAIN blocks \ {b} |-> blocks[c]]
       ELSE pc' = "halted" /\ UNCHANGED <<live_pages, blocks>>
  /\ UNCHANGED <<mem, pool_arr, kern_heap_top, locals, freelist>>

\* The words of a block are its owner's.
Payload(b) == b .. b + blocks[b].request - 1

OwnerWrites(b) ==
  /\ pc = "ready" /\ b \in DOMAIN blocks
  /\ mem' = [a \in DOMAIN mem |-> IF a \in Payload(b) THEN Junk ELSE mem[a]]
  /\ UNCHANGED <<pool_arr, pages, pc, locals, freelist, blocks>>

Next ==
  \/ InitPool \/ InitReturns
  \/ \E size \in Requests : Kmalloc(size)
  \/ AddPage \/ TakeChunk \/ AllocPages
  \/ \E b \in DOMAIN blocks : KfreeChunk(b) \/ KfreePages(b) \/ OwnerWrites(b)

Spec == Init /\ [][Next]_vars

-----------------------------------------------------------------------------
(* Properties.                                                             *)

Words == {Junk} \cup [next : (0 .. HeapUnits - 1) \cup {NULL}]
         \cup [pool : Pools \cup {NULL}, size : 0 .. SizeMod - 1]

\* Type invariant.
TypeOK ==
  /\ mem \in [0 .. HeapUnits - 1 -> Words]
  /\ avail \in [Pools -> Nat]
  /\ head \in [Pools -> (0 .. HeapUnits - 1) \cup {NULL}]
  /\ kern_heap_top \in 0 .. HeapUnits /\ live_pages \subseteq 0 .. HeapPages - 1
  /\ pc \in {"kmalloc_init", "ready", "add_page", "take_chunk", "alloc_pages", "halted"}
  /\ request \in Requests \cup {NULL} /\ pool_ptr \in (1 .. Len(MaxSize) + 1) \cup {NULL}
  /\ \A p \in Pools : freelist[p] \in Seq(0 .. HeapUnits - 1)
  /\ DOMAIN blocks \subseteq 0 .. HeapUnits

\* head and the next pointers in memory are exactly each pool's list, which
\* ends in NULL, whatever the owners of blocks wrote in them.
ListsMatchMemory ==
  \A p \in Pools :
    LET n == Len(freelist[p])
        at(k) == IF k <= n THEN freelist[p][k] ELSE NULL
    IN head[p] = at(1) /\ \A k \in 1 .. n : mem[at(k)] = FreeChunk(at(k + 1))

\* No list is shorter than avail says, so kmalloc, which looks at avail only,
\* never takes a chunk from an empty list.
AvailCovered == \A p \in Pools : avail[p] <= Len(freelist[p])

\* The memory of a chunk, a header and what follows it, is on one list once or
\* in use: the lists and the blocks overlap nowhere, and lie in pages that are
\* allocated.
ExtentOfBlock(b) ==
  IF blocks[b].pool = NULL
    THEN b - HEADER .. b - HEADER + PagesFor(blocks[b].request + HEADER) * PageUnits - 1
    ELSE b - HEADER .. b - HEADER + MaxSize[blocks[b].pool] - 1
ExtentOfChunk(p, k) == freelist[p][k] .. freelist[p][k] + MaxSize[p] - 1

NothingOverlaps ==
  /\ \A p, q \in Pools : \A j \in DOMAIN freelist[p], k \in DOMAIN freelist[q] :
       <<p, j>> # <<q, k>> => ExtentOfChunk(p, j) \cap ExtentOfChunk(q, k) = {}
  /\ \A b \in DOMAIN blocks :
       /\ \A c \in DOMAIN blocks \ {b} : ExtentOfBlock(b) \cap ExtentOfBlock(c) = {}
       /\ \A p \in Pools : \A k \in DOMAIN freelist[p] :
            ExtentOfBlock(b) \cap ExtentOfChunk(p, k) = {}
       /\ \A a \in ExtentOfBlock(b) : PageOf(a) \in live_pages

\* A block's header still says what kmalloc wrote when kfree reads it, and
\* the block has room for what was asked for: kfree of a block in use never
\* runs into MMU_free_pages' assertions, and no size but 0 stops kmalloc.
HeadersIntact ==
  /\ \A b \in DOMAIN blocks :
       /\ mem[b - HEADER].pool = blocks[b].pool
       /\ Payload(b) \subseteq ExtentOfBlock(b)
  /\ pc = "halted" => request = 0

\* The pools implement the abstract heap.
Promise == INSTANCE HeapBlocks WITH
  Addresses <- 0 .. HeapUnits, Lengths <- Requests,
  in_use <- [b \in DOMAIN blocks |-> blocks[b].request]
ImplementsPromise == Promise!Spec
=============================================================================
