---------------------------- MODULE VirtualPages ----------------------------
(***************************************************************************)
(* The virtual page allocator, core/src/vp_alloc.c: four levels of page    *)
(* tables, a heap that only grows, pages that get their frame in the page  *)
(* fault handler, and the processor's translation buffer (TLB).            *)
(*                                                                         *)
(* A virtual address is a page number.  One iteration of a loop is one     *)
(* step.  Frames come from FrameAllocator, which PageFrames implements.    *)
(* A failed assert or HLT is pc = "halted".  When MMU_pf_alloc answers     *)
(* NULL the code goes on and uses frame 0, the frame allocator's own; the  *)
(* model stops before that, with pc = "null_frame".                        *)
(***************************************************************************)
EXTENDS Integers

CONSTANTS
  Entries,      \* ENTIRES_PER_TABLE
  HeapBase,     \* KERN_HEAP_BASE as a page number
  HeapPages,    \* bound: pages allocated in a behaviour
  MaxRange,     \* bound: num of one MMU_alloc_pages or MMU_free_pages
  Usable,       \* the frames left for MMU_pf_alloc after MMU_init_vp
  L4Table,      \* the frame of l4_table
  NULL

ASSUME HeapAssumption ==
  /\ Entries \in Nat /\ Entries >= 2
  /\ HeapBase \in Nat /\ HeapBase >= Entries * Entries * Entries
  /\ HeapBase % (Entries * Entries * Entries) = 0
  /\ HeapPages \in Nat \ {0} /\ MaxRange \in 1 .. HeapPages
  /\ HeapBase + HeapPages + MaxRange <= Entries * Entries * Entries * Entries
  /\ L4Table \notin Usable /\ NULL \notin Usable \cup {L4Table}

PHYSICAL == 0
L1 == 1
L4 == 4
Index == 0 .. Entries - 1
Heap == HeapBase .. HeapBase + HeapPages - 1

VARIABLES
  table,          \* contents of the frames in use as page tables
  tlb,            \* translations the processor has cached
  kern_heap_top,
  pc,             \* the function being executed
  vp, num, i,     \* arguments and loop counter of MMU_alloc_pages, MMU_free_pages
  free, owned, ret,   \* the frame allocator
  retired         \* history variable: pages freed

vars == <<table, tlb, kern_heap_top, pc, vp, num, i, free, owned, ret, retired>>
call == <<vp, num, i>>
frames == <<free, owned, ret>>

FA == INSTANCE FrameAllocator

-----------------------------------------------------------------------------
(* Page tables.                                                            *)

\* The bits of an entry: physical address, P, W and the available bit 9.
Empty == [addr |-> NULL, present |-> FALSE, writeable |-> FALSE, demand |-> FALSE]
Mapping(f) == [addr |-> f, present |-> TRUE, writeable |-> TRUE, demand |-> FALSE]
Zeroed == [x \in Index |-> Empty]

IndexAt(v, level) ==
  (v \div (CASE level = 1 -> 1
             [] level = 2 -> Entries
             [] level = 3 -> Entries * Entries
             [] level = 4 -> Entries * Entries * Entries)) % Entries

\* What a present entry leads to; NULL below a missing table.
Below(t, x) == IF t = NULL \/ ~table[t][x].present THEN NULL ELSE table[t][x].addr

\* The table of each level on the way to v, and at level 0 the frame of v.
TablesTo(v) ==
  LET l3 == Below(L4Table, IndexAt(v, 4))
      l2 == Below(l3, IndexAt(v, 3))
      l1 == Below(l2, IndexAt(v, 2))
  IN [level \in 0 .. 4 |->
        CASE level = 4 -> L4Table [] level = 3 -> l3 [] level = 2 -> l2
          [] level = 1 -> l1 [] level = 0 -> Below(l1, IndexAt(v, 1))]

\* get_lowest_present_page: *pt_level_ptr, the entry it points to (as table
\* and index), and for a mapped page the frame.  l4_index 0 is the identity map.
LowestLevel(v) ==
  IF IndexAt(v, L4) = 0 THEN PHYSICAL
  ELSE CHOOSE l \in 0 .. 4 :
         TablesTo(v)[l] # NULL /\ \A k \in 0 .. l - 1 : TablesTo(v)[k] = NULL
FrameOf(v) == TablesTo(v)[PHYSICAL]
Mapped(v) == LowestLevel(v) = PHYSICAL
EntryOf(v, level) == table[TablesTo(v)[level]][IndexAt(v, level)]
SetEntry(v, level, e) ==
  [table EXCEPT ![TablesTo(v)[level]] = [@ EXCEPT ![IndexAt(v, level)] = e]]

Demanded(v) == LowestLevel(v) = L1 /\ EntryOf(v, L1).demand

-----------------------------------------------------------------------------
(* MMU_init_vp has run; entry 0 of l4_table, the identity map, is not      *)
(* modelled, because no heap address uses it.                              *)
Init ==
  /\ table = [t \in {L4Table} |-> Zeroed]
  /\ tlb = [w \in {} |-> NULL]
  /\ kern_heap_top = HeapBase
  /\ pc = "ready" /\ vp = HeapBase /\ num = 0 /\ i = 0
  /\ FA!Init
  /\ retired = {}

-----------------------------------------------------------------------------
(* MMU_alloc_pages; alloc_virtual_page(kern_heap_top, true) in its loop.   *)

AllocPages(n) ==
  /\ pc = "ready" /\ kern_heap_top + n <= HeapBase + HeapPages
  /\ pc' = "alloc" /\ vp' = kern_heap_top /\ num' = n /\ i' = 0
  /\ UNCHANGED <<table, tlb, kern_heap_top, frames, retired>>

NeedsTable == pc = "alloc" /\ i < num /\ LowestLevel(kern_heap_top) > L1

\* One iteration of alloc_virtual_page's while loop.
AddTable ==
  /\ NeedsTable
  /\ \E f \in Usable :
       /\ FA!Alloc(f)
       /\ table' = [t \in DOMAIN table \cup {f} |-> IF t = f THEN Zeroed
                    ELSE SetEntry(kern_heap_top, LowestLevel(kern_heap_top), Mapping(f))[t]]
  /\ UNCHANGED <<tlb, kern_heap_top, pc, call, retired>>

\* The same with NULL for a frame, which the code does not look for.
AddTableAtNull ==
  /\ NeedsTable
  /\ FA!AllocFails
  /\ pc' = "null_frame"
  /\ UNCHANGED <<table, tlb, kern_heap_top, call, retired>>

\* The rest of alloc_virtual_page, and the increment in MMU_alloc_pages.
DemandPage ==
  /\ pc = "alloc" /\ i < num /\ ~NeedsTable
  /\ IF Mapped(kern_heap_top) \/ Demanded(kern_heap_top)
       THEN pc' = "halted" /\ UNCHANGED <<table, kern_heap_top, i>>
       ELSE /\ table' = SetEntry(kern_heap_top, L1,
                                 [EntryOf(kern_heap_top, L1) EXCEPT !.demand = TRUE])
            /\ kern_heap_top' = kern_heap_top + 1
            /\ i' = i + 1
            /\ pc' = pc
  /\ UNCHANGED <<tlb, vp, num, frames, retired>>

-----------------------------------------------------------------------------
(* MMU_free_pages.                                                         *)

FreePages(v, n) ==
  /\ pc = "ready"
  /\ pc' = "free" /\ vp' = v /\ num' = n /\ i' = 0
  /\ UNCHANGED <<table, tlb, kern_heap_top, frames, retired>>

\* A call with an address inside a page, or for no pages: its assertions.
FreeRefused(aligned, n) ==
  /\ pc = "ready" /\ ~(aligned /\ n > 0)
  /\ pc' = "halted"
  /\ UNCHANGED <<table, tlb, kern_heap_top, call, frames, retired>>

\* Mutant: only the writeable bit is cleared.
FreeMappedStaysPresent(v) ==
  /\ table' = SetEntry(v, L1, [EntryOf(v, L1) EXCEPT !.writeable = FALSE])
  /\ FA!Free(FrameOf(v))
  /\ tlb' = [w \in DOMAIN tlb \ {vp} |-> tlb[w]]

\* Mutant: the frame is not given back.
FreeMappedKeepsFrame(v) ==
  /\ table' = SetEntry(v, L1, [EntryOf(v, L1) EXCEPT !.present = FALSE, !.writeable = FALSE])
  /\ tlb' = [w \in DOMAIN tlb \ {vp} |-> tlb[w]]
  /\ UNCHANGED frames

\* The page has a frame: unmap it, free the frame, invalidate the translation
\* of vp (not of the page at hand).
FreeMapped(v) ==
  /\ table' = SetEntry(v, L1, [EntryOf(v, L1) EXCEPT !.present = FALSE, !.writeable = FALSE])
  /\ FA!Free(FrameOf(v))
  /\ tlb' = [w \in DOMAIN tlb \ {vp} |-> tlb[w]]

\* Mutant: the assertions against a double free are missing.
DemandedUnchecked(v) == LowestLevel(v) = L1

\* What the assertions about a page without a frame ask for.
DemandedOnly(v) ==
  /\ LowestLevel(v) = L1
  /\ LET e == EntryOf(v, L1) IN e.demand /\ ~e.present /\ ~e.writeable

\* One iteration of the loop.
FreePage ==
  /\ pc = "free" /\ i < num
  /\ LET v == vp + i IN
     \/ /\ Mapped(v)
        /\ FreeMapped(v)
        /\ retired' = retired \cup {v} /\ i' = i + 1 /\ pc' = pc
     \/ /\ DemandedOnly(v)
        /\ table' = SetEntry(v, L1, [EntryOf(v, L1) EXCEPT !.demand = FALSE])
        /\ retired' = retired \cup {v} /\ i' = i + 1 /\ pc' = pc
        /\ UNCHANGED <<tlb, frames>>
     \/ /\ ~Mapped(v) /\ ~DemandedOnly(v)
        /\ pc' = "halted"
        /\ UNCHANGED <<table, tlb, i, frames, retired>>
  /\ UNCHANGED <<kern_heap_top, vp, num>>

\* Mutant: the addresses of a range freed at the top of the heap are used again.
ReturnReusesAddresses ==
  /\ pc \in {"alloc", "free"} /\ i >= num
  /\ pc' = "ready"
  /\ kern_heap_top' = IF pc = "free" /\ vp + num = kern_heap_top
                        THEN vp ELSE kern_heap_top
  /\ UNCHANGED <<table, tlb, call, frames, retired>>

\* The loop of either function is over.
Return ==
  /\ pc \in {"alloc", "free"} /\ i >= num
  /\ pc' = "ready"
  /\ UNCHANGED <<table, tlb, kern_heap_top, call, frames, retired>>

-----------------------------------------------------------------------------
(* The processor translates an address; page_fault_handler.                *)

\* A walk of the tables, remembered.
Translate(v) ==
  /\ pc = "ready" /\ v \notin DOMAIN tlb /\ Mapped(v)
  /\ tlb' = [w \in DOMAIN tlb \cup {v} |-> IF w = v THEN FrameOf(v) ELSE tlb[w]]
  /\ UNCHANGED <<table, kern_heap_top, pc, call, frames, retired>>

\* The processor may forget a translation at any time.
Evict(v) ==
  /\ pc = "ready" /\ v \in DOMAIN tlb
  /\ tlb' = [w \in DOMAIN tlb \ {v} |-> tlb[w]]
  /\ UNCHANGED <<table, kern_heap_top, pc, call, frames, retired>>

Faults(v) == pc = "ready" /\ v \notin DOMAIN tlb /\ ~Mapped(v)

\* Mutant: the handler gives a page that was never allocated a frame, too.
FaultAnyPage(v) ==
  /\ Faults(v) /\ LowestLevel(v) = L1
  /\ \E f \in Usable : FA!Alloc(f) /\ table' = SetEntry(v, L1, Mapping(f))
  /\ UNCHANGED <<tlb, kern_heap_top, pc, call, retired>>

\* The first access to an allocated page.  The frame is not cleared.
FaultOnDemand(v) ==
  /\ Faults(v) /\ Demanded(v)
  /\ \E f \in Usable : FA!Alloc(f) /\ table' = SetEntry(v, L1, Mapping(f))
  /\ UNCHANGED <<tlb, kern_heap_top, pc, call, retired>>

\* MMU_pf_alloc answers NULL; the handler would map the page to frame 0.
FaultMapsNull(v) ==
  /\ Faults(v) /\ Demanded(v) /\ FA!AllocFails
  /\ pc' = "null_frame"
  /\ UNCHANGED <<table, tlb, kern_heap_top, call, retired>>

\* Any other page: "Unhandled page fault", HLT.
FaultUnhandled(v) ==
  /\ Faults(v) /\ ~Demanded(v)
  /\ pc' = "halted"
  /\ UNCHANGED <<table, tlb, kern_heap_top, call, frames, retired>>

Access(v) ==
  Translate(v) \/ FaultOnDemand(v) \/ FaultMapsNull(v) \/ FaultUnhandled(v)

-----------------------------------------------------------------------------
(* Callers ask for any number of pages, and free, by mistake perhaps, any  *)
(* range of the heap, or call MMU_free_pages with what it refuses; any     *)
(* page of the heap is accessed at any time.                               *)

Loop == AddTable \/ AddTableAtNull \/ DemandPage \/ FreePage \/ Return

Next ==
  \/ Loop
  \/ \E n \in 1 .. MaxRange : AllocPages(n) \/ \E v \in Heap : FreePages(v, n)
  \/ \E aligned \in BOOLEAN, n \in 0 .. MaxRange : FreeRefused(aligned, n)
  \/ \E v \in Heap : Access(v) \/ Evict(v)

Spec == Init /\ [][Next]_vars

-----------------------------------------------------------------------------
(* Properties.                                                             *)

\* The present entries, each a table and an index.
Links == {l \in (DOMAIN table) \X Index : table[l[1]][l[2]].present}
LinkTo(l) == table[l[1]][l[2]].addr

\* Every frame taken from the frame allocator is referenced by exactly one
\* present entry, and nothing else is: no frame is mapped twice, used as a
\* table and as a page, leaked, or still mapped when it is freed
\* (alloc_virtual_page, page_fault_handler, MMU_free_pages).
FramesReferencedOnce ==
  /\ {LinkTo(l) : l \in Links} = owned
  /\ \A k, l \in Links : LinkTo(k) = LinkTo(l) => k = l

\* What has been allocated and not freed, as the tables show it, is what
\* callers hold: pages below kern_heap_top that were not freed, none above
\* it, whatever MMU_alloc_pages and MMU_free_pages did on the way.
TablesMatchCalls ==
  {v \in Heap : Demanded(v) \/ Mapped(v)} = (HeapBase .. kern_heap_top - 1) \ retired

\* A page in use is never reached through a translation that is not its own,
\* although only the first page of a freed range is invalidated: addresses
\* are not used again (kern_heap_top in MMU_alloc_pages only grows).
LiveTranslationsTrue ==
  \A v \in DOMAIN tlb : Demanded(v) \/ Mapped(v) => Mapped(v) /\ tlb[v] = FrameOf(v)

\* A page that is not allocated is never freed: the call that tries halts the
\* machine (vp_alloc.c:128, "Double free likely if asserts fail").
DoubleFreeHalts ==
  [][\A v \in Heap : v \in retired \/ v >= kern_heap_top =>
       ~(pc = "free" /\ v = vp + i /\ i' = i + 1)]_vars

\* The page tables implement the abstract heap.
Promise == INSTANCE PageHeap WITH
  Pages <- Heap, Frames <- Usable,
  live <- {v \in Heap : Demanded(v) \/ Mapped(v)},
  backing <- [v \in {w \in Heap : Mapped(w)} |-> FrameOf(v)]
ImplementsPromise == Promise!Spec

\* The comment at pf_alloc.c:196: NULL from MMU_pf_alloc is an invalid address,
\* and frame 0 is the frame allocator's own (pf_alloc.c:93).
NullIsNeverUsed == pc # "null_frame"
=============================================================================
