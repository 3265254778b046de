----------------------------- MODULE PageFrames -----------------------------
(***************************************************************************)
(* The page frame allocator, core/src/pf_alloc.c.                          *)
(*                                                                         *)
(* Free frames form a circular doubly linked list threaded through the     *)
(* frames themselves; its head is in the frame at address 0, which also    *)
(* keeps the bounds of the upper memory region not yet put on the list.    *)
(* Addresses, base_addr and length are in units of PAGE_SIZE.  A loop body *)
(* is one step; a failed assert (CLI, print, HLT) is pc = "halted".        *)
(***************************************************************************)
EXTENDS Integers, Sequences

CONSTANTS
  LowerPages,   \* lower_length / PAGE_SIZE: frames of the region at 0x0
  UpperBase,    \* upper_base / PAGE_SIZE: first frame after the kernel image
  UpperPages,   \* upper_length / PAGE_SIZE
  BatchSize,    \* PAGES_TO_ADD_IF_POOL_EMPTY
  Junk          \* whatever else a word of memory may hold

\* Two lower frames are the least that init_pool's callers can work with: the
\* metadata frame and one frame for the list.  (PCs have more than 150.)
ASSUME LayoutAssumption ==
  /\ LowerPages \in Nat /\ LowerPages >= 2
  /\ UpperBase \in Nat /\ UpperBase >= LowerPages
  /\ UpperPages \in Nat
  /\ BatchSize \in Nat \ {0}
  /\ Junk \notin Int

METADATA == 0   \* METADATA_ADDR, what get_ll_head_info_ptr returns
NULL == 0

UpperEnd == UpperBase + UpperPages
Frames == (0 .. LowerPages - 1) \cup (UpperBase .. UpperEnd - 1)
Usable == Frames \ {METADATA}

VARIABLES
  next, prev,                              \* ll_elem_t of each frame
  base_addr, length, unpooled_page_cnt,    \* the rest of ll_head_info_t
  pc,       \* what the allocator is executing
  i,        \* counter of the loop being executed
  new_cnt,  \* num_new_pages of add_new_upper_pages
  ret,      \* last value MMU_pf_alloc returned
  owned,    \* frames handed out by MMU_pf_alloc and not returned
  pool      \* history variable: the frames added and not popped, in order

head_info == <<base_addr, length, unpooled_page_cnt>>
list == <<next, prev, pool>>
vars == <<next, prev, head_info, pc, i, new_cnt, ret, owned, pool>>

-----------------------------------------------------------------------------
(* The linked list.                                                        *)

\* init_ll_head, reached from MMU_init_pf; nothing else is initialized yet.
Init ==
  /\ next = [f \in Frames |-> IF f = METADATA THEN METADATA ELSE Junk]
  /\ prev = next
  /\ base_addr = Junk /\ length = Junk /\ unpooled_page_cnt = Junk
  /\ pc = "add_lower_pages" /\ i = 1 /\ new_cnt = 0
  /\ ret = NULL
  /\ owned = {}
  /\ pool = <<>>

is_empty == next[METADATA] = prev[METADATA]

\* Mutant: the store head_ptr->prev->next = new_ptr is missing.
add_elem_half_linked(new) ==
  /\ next' = [next EXCEPT ![new] = METADATA]
  /\ prev' = [prev EXCEPT ![new] = prev[METADATA], ![METADATA] = new]
  /\ pool' = Append(pool, new)

\* Mutant: insert at the other end of the list.
add_elem_at_front(new) ==
  /\ next' = [next EXCEPT ![new] = next[METADATA], ![METADATA] = new]
  /\ prev' = [prev EXCEPT ![new] = METADATA, ![next[METADATA]] = new]
  /\ pool' = <<new>> \o pool

\* The four stores, in the code's order; the third may hit the new frame or
\* the head itself.
add_elem(new) ==
  /\ next' = [next EXCEPT ![new] = METADATA, ![prev[METADATA]] = new]
  /\ prev' = [prev EXCEPT ![new] = prev[METADATA], ![METADATA] = new]
  /\ pool' = Append(pool, new)

\* Unlink the frame before the head and hand it out.
pop_elem ==
  LET popped == prev[METADATA] IN
  /\ next' = [next EXCEPT ![prev[popped]] = METADATA]
  /\ prev' = [prev EXCEPT ![METADATA] = prev[popped]]
  /\ pool' = SubSeq(pool, 1, Len(pool) - 1)
  /\ ret' = popped
  /\ owned' = owned \cup {popped}

-----------------------------------------------------------------------------
(* MMU_init_pf.                                                            *)

\* One iteration of add_lower_pages.
AddLowerPage ==
  /\ pc = "add_lower_pages" /\ i < LowerPages
  /\ add_elem(i)
  /\ i' = i + 1
  /\ UNCHANGED <<head_info, pc, new_cnt, ret, owned>>

\* Mutant: init_ll_head_info does not set unpooled_page_cnt.
FinishInitNoCount ==
  /\ pc = "add_lower_pages" /\ i >= LowerPages
  /\ base_addr' = UpperBase /\ length' = UpperPages
  /\ pc' = "ready"
  /\ UNCHANGED <<unpooled_page_cnt, list, i, new_cnt, ret, owned>>

\* The loop's exit with its assertions, then init_ll_head_info.
FinishInit ==
  /\ pc = "add_lower_pages" /\ i >= LowerPages
  /\ base_addr' = UpperBase /\ length' = UpperPages
  /\ unpooled_page_cnt' = UpperPages
  /\ pc' = IF i = LowerPages THEN "ready" ELSE "halted"
  /\ UNCHANGED <<list, i, new_cnt, ret, owned>>

-----------------------------------------------------------------------------
(* MMU_pf_alloc.                                                           *)

\* Mutant: unpooled_page_cnt is not looked at.
AllocFailsEarly ==
  /\ pc = "ready" /\ is_empty
  /\ ret' = NULL
  /\ UNCHANGED <<list, head_info, pc, i, new_cnt, owned>>

\* Nothing on the list by is_empty, and nothing left to put on it.
AllocFails ==
  /\ pc = "ready" /\ is_empty /\ unpooled_page_cnt = 0
  /\ ret' = NULL
  /\ UNCHANGED <<list, head_info, pc, i, new_cnt, owned>>

AllocFromPool ==
  /\ pc = "ready" /\ ~is_empty
  /\ pop_elem
  /\ UNCHANGED <<head_info, pc, i, new_cnt>>

\* Mutant: pages_to_add is not limited to the pages there are.
AllocRefillUnlimited ==
  /\ pc = "ready" /\ is_empty /\ unpooled_page_cnt # 0
  /\ new_cnt' = BatchSize
  /\ i' = 0
  /\ pc' = IF unpooled_page_cnt >= new_cnt' THEN "add_new_upper_pages" ELSE "halted"
  /\ UNCHANGED <<list, head_info, ret, owned>>

\* Choose pages_to_add and enter add_new_upper_pages, with its assertions.
AllocRefill ==
  /\ pc = "ready" /\ is_empty /\ unpooled_page_cnt # 0
  /\ new_cnt' = IF BatchSize > unpooled_page_cnt
                  THEN unpooled_page_cnt ELSE BatchSize
  /\ i' = 0
  /\ pc' = IF unpooled_page_cnt >= new_cnt' /\ new_cnt' > 0
             THEN "add_new_upper_pages" ELSE "halted"
  /\ UNCHANGED <<list, head_info, ret, owned>>

\* Mutant: base_addr does not advance.
AddUpperPageAgain ==
  /\ pc = "add_new_upper_pages" /\ i < new_cnt
  /\ add_elem(base_addr)
  /\ i' = i + 1
  /\ UNCHANGED <<head_info, pc, new_cnt, ret, owned>>

\* One iteration of add_new_upper_pages.
AddUpperPage ==
  /\ pc = "add_new_upper_pages" /\ i < new_cnt
  /\ add_elem(base_addr)
  /\ base_addr' = base_addr + 1
  /\ i' = i + 1
  /\ UNCHANGED <<length, unpooled_page_cnt, pc, new_cnt, ret, owned>>

\* Mutant: a whole batch is deducted, whatever was added.
FinishRefillWholeBatch ==
  /\ pc = "add_new_upper_pages" /\ i >= new_cnt
  /\ length' = length - new_cnt
  /\ unpooled_page_cnt' = unpooled_page_cnt - BatchSize
  /\ pop_elem /\ pc' = "ready"
  /\ UNCHANGED <<base_addr, i, new_cnt>>

\* The loop's exit, the assertion that the region's limit did not move, and
\* pop_elem, which asserts that the list is not empty.
FinishRefill ==
  /\ pc = "add_new_upper_pages" /\ i >= new_cnt
  /\ length' = length - new_cnt
  /\ unpooled_page_cnt' = unpooled_page_cnt - new_cnt
  /\ IF base_addr + length' = (base_addr - i) + length /\ ~is_empty
       THEN pop_elem /\ pc' = "ready"
       ELSE pc' = "halted" /\ UNCHANGED <<list, ret, owned>>
  /\ UNCHANGED <<base_addr, i, new_cnt>>

-----------------------------------------------------------------------------
(* MMU_pf_free, and what the owner of a frame does with it.                *)

Free(pf) ==
  /\ pc = "ready" /\ pf \in owned
  /\ IF pf # NULL
       THEN add_elem(pf) /\ owned' = owned \ {pf} /\ pc' = pc
       ELSE pc' = "halted" /\ UNCHANGED <<list, owned>>
  /\ UNCHANGED <<head_info, i, new_cnt, ret>>

\* The frame's links are the owner's memory now.
OwnerWrites(f) ==
  /\ pc = "ready" /\ f \in owned
  /\ next' = [next EXCEPT ![f] = Junk]
  /\ prev' = [prev EXCEPT ![f] = Junk]
  /\ UNCHANGED <<head_info, pc, i, new_cnt, ret, owned, pool>>

Next ==
  \/ AddLowerPage
  \/ FinishInit
  \/ AllocFails
  \/ AllocFromPool
  \/ AllocRefill
  \/ AddUpperPage
  \/ FinishRefill
  \/ \E f \in Frames : Free(f) \/ OwnerWrites(f)

Spec == Init /\ [][Next]_vars

-----------------------------------------------------------------------------
(* Properties.                                                             *)

Words == Frames \cup {Junk}

\* Type invariant of the allocator's memory and control state.
TypeOK ==
  /\ next \in [Frames -> Words] /\ prev \in [Frames -> Words]
  /\ pc \in {"add_lower_pages", "ready", "add_new_upper_pages", "halted"}
  /\ i \in Nat /\ new_cnt \in Nat
  /\ ret \in Frames
  /\ owned \subseteq Frames
  /\ pool \in Seq(Frames)
  /\ pc # "add_lower_pages" =>
       base_addr \in Nat /\ length \in Nat /\ unpooled_page_cnt \in Nat

\* Position 0 and position Len(pool) + 1 of the list are its head.
At(k) == IF k = 0 \/ k = Len(pool) + 1 THEN METADATA ELSE pool[k]

\* The links in memory are exactly the ring head, pool[1], ..., pool[n], in
\* both directions, whatever the owners of other frames wrote: init_ll_head,
\* add_elem and pop_elem keep the list well formed.
RingMatchesPool ==
  \A k \in 0 .. Len(pool) : next[At(k)] = At(k + 1) /\ prev[At(k + 1)] = At(k)

\* The frames that are still to be put on the list.
Unpooled ==
  IF pc = "add_lower_pages"
    THEN (i .. LowerPages - 1) \cup (UpperBase .. UpperEnd - 1)
    ELSE base_addr .. UpperEnd - 1

\* No frame is on the list twice, or on the list and handed out, or either
\* and still to be added; the metadata frame is none of these.  MMU_pf_alloc
\* therefore never hands out a frame somebody holds.
NoDoubleHandout ==
  /\ \A j, k \in 1 .. Len(pool) : pool[j] = pool[k] => j = k
  /\ \A k \in 1 .. Len(pool) : pool[k] \in Usable \ (owned \cup Unpooled)
  /\ owned \cap Unpooled = {}
  /\ METADATA \notin owned

\* No frame is lost: the frames on the list, the frames handed out and the
\* frames still to be added together are all of memory but the metadata frame.
NoFrameLost ==
  Usable \subseteq owned \cup Unpooled \cup {pool[k] : k \in 1 .. Len(pool)}

\* Every usable frame is in exactly one of the three places, once.
FramesPartitioned == NoDoubleHandout /\ NoFrameLost

\* None of the assertions of pf_alloc.c fails, among them pop_elem's
\* !is_empty after a refill.
NoAssertFails == pc # "halted"

\* The counters: length and unpooled_page_cnt both measure the region from
\* base_addr to its fixed end (while a refill runs, from where it began), and
\* the list always keeps one frame, so that a refill of one page is enough.
CountersAgree ==
  /\ pc = "add_lower_pages" => i \in 1 .. LowerPages /\ Len(pool) = i - 1
  /\ pc # "add_lower_pages" =>
       /\ base_addr \in UpperBase .. UpperEnd
       /\ unpooled_page_cnt = length
       /\ Len(pool) >= 1
  /\ pc = "ready" => base_addr + length = UpperEnd
  /\ pc = "add_new_upper_pages" =>
       /\ i \in 0 .. new_cnt /\ new_cnt \in 1 .. unpooled_page_cnt
       /\ base_addr - i + length = UpperEnd
       /\ Len(pool) >= 1 + i

\* The frame freed last is the next one handed out (pf_simple_test relies on
\* it, system_test/src/pf_alloc_test.c:24-38): a free makes the list hold two
\* frames at least, so no refill comes between.
FreedFrameIsNext ==
  [][\A f \in Frames : Free(f) => prev'[METADATA] = f /\ next'[METADATA] # f]_vars

\* The allocator keeps the promise of FrameAllocator; the frames that are free
\* are those with no owner, wherever the allocator keeps them.
Promise == INSTANCE FrameAllocator WITH free <- Usable \ owned
ImplementsPromise == Promise!Spec
=============================================================================
