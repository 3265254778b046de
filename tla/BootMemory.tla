----------------------------- MODULE BootMemory -----------------------------
(***************************************************************************)
(* MMU_init_pf, core/src/pf_alloc.c: from the boot loader's memory map and *)
(* the kernel's section headers to the memory the page frame allocator is  *)
(* given, which PageFrames takes for its constants.                        *)
(*                                                                         *)
(* Addresses and lengths are small numbers in place of u64, modulo W, and  *)
(* PAGE_SIZE is a few of their units, so that regions and sections begin   *)
(* and end inside pages too.  A tag is its type and whether its format is  *)
(* the one the code was written for.                                       *)
(***************************************************************************)
EXTENDS Integers, Sequences, SequencesExt, FiniteSets

CONSTANTS
  PAGE_SIZE,
  W,              \* one more than the largest u64
  MemoryMaps,     \* the memory maps the loader may report
  SectionTables,  \* the section tables of kernels
  Tags            \* the sequences of tags the loader may write

VALID_MEM_INFO_ENT_TYPE == 1
EndOf(sections) == Last(sections).addr + Last(sections).size

ASSUME BootMemoryAssumption ==
  /\ PAGE_SIZE \in Nat \ {0} /\ W \in Nat /\ W % PAGE_SIZE = 0
  \* Entries do not overlap, and memory is usable at 0: mem_info_entry_t *lower
  \* is always assigned.
  /\ \A m \in MemoryMaps :
       /\ m \in Seq([base_addr : Nat, length : Nat \ {0}, type : Nat])
       /\ \A n \in DOMAIN m : m[n].base_addr + m[n].length < W
       /\ \A n, k \in DOMAIN m : n # k =>
            \/ m[n].base_addr + m[n].length <= m[k].base_addr
            \/ m[k].base_addr + m[k].length <= m[n].base_addr
       /\ \E n \in DOMAIN m : m[n].base_addr = 0 /\ m[n].type = VALID_MEM_INFO_ENT_TYPE
  \* Section 0 is empty, the others begin with the first and end with the last,
  \* and no gap between them is as long as a page.
  /\ \A s \in SectionTables :
       /\ s \in Seq([addr : Nat, size : Nat]) /\ Len(s) > 1 /\ EndOf(s) < W
       /\ s[1].size = 0 /\ s[2].addr > 0 /\ s[2].size > 0
       /\ \A n \in 2 .. Len(s) : s[2].addr <= s[n].addr /\ s[n].addr + s[n].size <= EndOf(s)
       /\ \A a \in s[2].addr .. EndOf(s) - 1 : \E b \in a .. a + PAGE_SIZE - 1 :
            \E n \in 2 .. Len(s) : b \in s[n].addr .. s[n].addr + s[n].size - 1
  \* The kernel's region goes on to the end of the kernel's last page.
  /\ \A m \in MemoryMaps, s \in SectionTables : \A n \in DOMAIN m :
       m[n].type = VALID_MEM_INFO_ENT_TYPE /\ m[n].base_addr = s[2].addr =>
         \E a \in EndOf(s) .. m[n].base_addr + m[n].length : a % PAGE_SIZE = 0
  \* There is at most one tag with a memory map or with sections.
  /\ \A t \in Tags :
       /\ t \in Seq([type : STRING, known : BOOLEAN])
       /\ \A n, k \in DOMAIN t : t[n].type = t[k].type /\ t[n].type \in {"mmap", "elf"} => n = k

VARIABLES
  tags, mem_info, sec_head,   \* what the loader left, as chosen initially
  pc, i,                      \* what is executing; its loop counter
  cnt, lower, upper,          \* get_usable_mem_info_ptrs: entries, by index
  curr_addr, pages,           \* add_lower_pages: its cursor; frames added
  base_addr, length, unpooled_page_cnt,   \* ll_head_info_t
  mem_size                    \* what MMU_init_pf returns

loader == <<tags, mem_info, sec_head>>
usable == <<cnt, lower, upper>>
list == <<curr_addr, pages>>
head_info == <<base_addr, length, unpooled_page_cnt>>
vars == <<loader, pc, i, usable, list, head_info, mem_size>>

Init ==
  /\ tags \in Tags /\ mem_info \in MemoryMaps /\ sec_head \in SectionTables
  /\ pc = "find_tag" /\ i = 1
  /\ cnt = 0 /\ lower = 0 /\ upper = 0
  /\ curr_addr = 0 /\ pages = {}
  /\ base_addr = 0 /\ length = 0 /\ unpooled_page_cnt = 0 /\ mem_size = 0

-----------------------------------------------------------------------------
round_down_nearest_mult(val, mult) == val - (val % mult)

round_up_nearest_mult(val, mult) ==
  IF val % mult # 0 THEN (val + mult - (val % mult)) % W ELSE val

\* The first tag of a type, or 0: the search ends at the end tag.
find_tag(type) == SelectInSeq(tags, LAMBDA t : t.type = type)

\* The assertions of MMU_init_pf and of get_mmap_info and get_elf_info: the
\* tag is there, its entries have the version and sizes of the structures.
HasTag(type) == find_tag(type) # 0 /\ tags[find_tag(type)].known

FindTags ==
  /\ pc = "find_tag"
  /\ pc' = IF HasTag("mmap") /\ HasTag("elf") THEN "scan" ELSE "halted"
  /\ UNCHANGED <<loader, i, usable, list, head_info, mem_size>>

\* One iteration of get_usable_mem_info_ptrs.
ScanEntry ==
  /\ pc = "scan" /\ i <= Len(mem_info)
  /\ LET e == mem_info[i] valid == e.type = VALID_MEM_INFO_ENT_TYPE
     IN /\ cnt' = IF valid THEN cnt + 1 ELSE cnt
        /\ lower' = IF valid /\ e.base_addr = 0 THEN i ELSE lower
        /\ upper' = IF valid /\ e.base_addr # 0 THEN i ELSE upper
  /\ i' = i + 1
  /\ UNCHANGED <<loader, pc, list, head_info, mem_size>>

\* Mutant: further regions are ignored.
ScanEndsAnyway ==
  /\ pc = "scan" /\ i > Len(mem_info)
  /\ IF cnt < 2
       THEN pc' = "halted" /\ UNCHANGED curr_addr
       ELSE /\ pc' = "add_lower_pages"
            /\ curr_addr' = PAGE_SIZE
  /\ UNCHANGED <<loader, i, usable, pages, head_info, mem_size>>

\* assert(cnt == 2), and init_pool up to add_lower_pages.  The frame at 0
\* becomes the head of the list.
ScanEnds ==
  /\ pc = "scan" /\ i > Len(mem_info)
  /\ LET lower_base == round_up_nearest_mult(mem_info[lower].base_addr, PAGE_SIZE)
     IN IF cnt # 2 \/ lower_base # 0
          THEN pc' = "halted" /\ UNCHANGED curr_addr
          ELSE /\ pc' = "add_lower_pages"
               /\ curr_addr' = lower_base + PAGE_SIZE
  /\ UNCHANGED <<loader, i, usable, pages, head_info, mem_size>>

lower_length == round_down_nearest_mult(mem_info[lower].length, PAGE_SIZE)

AddLowerPage ==
  /\ pc = "add_lower_pages" /\ curr_addr < lower_length
  /\ pages' = pages \cup {curr_addr}
  /\ curr_addr' = curr_addr + PAGE_SIZE
  /\ UNCHANGED <<loader, pc, i, usable, head_info, mem_size>>

\* The assertions after the loop.
AddLowerEnds ==
  /\ pc = "add_lower_pages" /\ curr_addr >= lower_length
  /\ pc' = IF curr_addr # lower_length THEN "halted" ELSE "init_ll_head_info"
  /\ UNCHANGED <<loader, i, usable, list, head_info, mem_size>>

\* The end of the kernel: the end of the section listed last.
KernelEnd == EndOf(sec_head) % W

\* Mutant: the length is taken for the end.
InitHeadInfoFromLength ==
  /\ pc = "init_ll_head_info"
  /\ LET upper_base == round_up_nearest_mult(KernelEnd, PAGE_SIZE)
         upper_end == round_down_nearest_mult(mem_info[upper].length, PAGE_SIZE)
     IN /\ base_addr' = upper_base
        /\ length' = (upper_end - upper_base) % W
        /\ unpooled_page_cnt' = length' \div PAGE_SIZE
        /\ pc' = "get_sys_mem_size"
  /\ UNCHANGED <<loader, i, usable, list, mem_size>>

\* Section 0 is empty; section 1 is the first of the kernel.
InitHeadInfo ==
  /\ pc = "init_ll_head_info"
  /\ IF mem_info[upper].base_addr # sec_head[2].addr
       THEN pc' = "halted" /\ UNCHANGED head_info
       ELSE LET upper_base == round_up_nearest_mult(KernelEnd, PAGE_SIZE)
                upper_end == round_down_nearest_mult(
                  (mem_info[upper].length + mem_info[upper].base_addr) % W, PAGE_SIZE)
            IN /\ base_addr' = upper_base
               /\ length' = (upper_end - upper_base) % W
               /\ unpooled_page_cnt' = length' \div PAGE_SIZE
               /\ pc' = IF length' % PAGE_SIZE # 0 THEN "halted" ELSE "get_sys_mem_size"
  /\ UNCHANGED <<loader, i, usable, list, mem_size>>

get_sys_mem_size_byte ==
  /\ pc = "get_sys_mem_size"
  /\ mem_size' = (Last(mem_info).base_addr + Last(mem_info).length) % W
  /\ pc' = "done"
  /\ UNCHANGED <<loader, i, usable, list, head_info>>

Next ==
  \/ FindTags \/ ScanEntry \/ ScanEnds \/ AddLowerPage \/ AddLowerEnds
  \/ InitHeadInfo \/ get_sys_mem_size_byte

Spec == Init /\ [][Next]_vars

-----------------------------------------------------------------------------
(* Properties.                                                             *)

Addresses == 0 .. W - 1
Page(a) == a .. a + PAGE_SIZE - 1
Available(a) ==
  \E n \in DOMAIN mem_info :
    /\ mem_info[n].type = VALID_MEM_INFO_ENT_TYPE
    /\ a \in mem_info[n].base_addr .. mem_info[n].base_addr + mem_info[n].length - 1
InKernel(a) ==
  \E n \in DOMAIN sec_head : a \in sec_head[n].addr .. sec_head[n].addr + sec_head[n].size - 1

UpperPages == {a \in base_addr .. base_addr + length - 1 : a % PAGE_SIZE = 0}

\* What the allocator gets to hand out is every page that is usable memory from
\* end to end, does not hold the kernel and is not the metadata page at 0, and
\* no other: neither rounding takes or leaves a page too many.
HandsOverFreeMemory ==
  pc = "done" =>
    /\ pages \cup UpperPages =
         {a \in Addresses \ {0} :
            a % PAGE_SIZE = 0 /\ \A b \in Page(a) : Available(b) /\ ~InKernel(b)}
    /\ pages \cap UpperPages = {}
    /\ unpooled_page_cnt * PAGE_SIZE = length

Regions == {n \in DOMAIN mem_info : mem_info[n].type = VALID_MEM_INFO_ENT_TYPE}

\* Memory as the comment at pf_alloc.c:84-93 describes it: two usable regions,
\* the first at 0, the kernel at the beginning of the second.
Supported ==
  /\ {"mmap", "elf"} \subseteq {tags[n].type : n \in {m \in DOMAIN tags : tags[m].known}}
  /\ \E low, high \in Regions :
       /\ Regions = {low, high}
       /\ mem_info[low].base_addr = 0 /\ mem_info[low].length >= PAGE_SIZE
       /\ mem_info[high].base_addr = sec_head[2].addr

\* A machine whose memory is not supported is not started with a wrong pool,
\* and any other is.
OnlySupportedMachines == (pc = "done" => Supported) /\ (pc = "halted" => ~Supported)
=============================================================================
