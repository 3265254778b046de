----------------------------- MODULE BootProofs -----------------------------
(***************************************************************************)
(* Proofs about KernelMain and what it runs: the segments and the first    *)
(* gigabyte at every step of the boot, the memory MMU_init_pf accepts and  *)
(* hands over, the string functions, and printk: whatever the boot prints  *)
(* is what was asked for, on the screen and on the serial line.            *)
(***************************************************************************)
EXTENDS KernelMain, Strings, SequenceTheorems, WellFoundedInduction, TLAPS

-----------------------------------------------------------------------------
(* The order of the boot.                                                  *)

Checking == {"check_multiboot", "check_cpuid", "check_long_mode", "hlt"}
Paging == {"set_up_page_tables", "enable_paging"}
Starting == {"VGA_clear", "GDT_init"}
Running ==
  {"IRQ_init", "KBD_init", "SER_init", "MMU_init_pf", "MMU_init_vp", "kmalloc_init", "IRQ_start"}

\* After the message of each step comes the next.
LEMMA StepOrder ==
  /\ Following("VGA_clear") = "GDT_init" /\ Following("GDT_init") = "IRQ_init"
  /\ Following("IRQ_init") = "KBD_init" /\ Following("KBD_init") = "SER_init"
  /\ Following("SER_init") = "MMU_init_pf" /\ Following("MMU_init_pf") = "MMU_init_vp"
  /\ Following("MMU_init_vp") = "kmalloc_init" /\ Following("kmalloc_init") = "IRQ_start"
<1> DEFINE I(step) == {n \in 1 .. 9 : Order[n] = step}
<1>1. ASSUME NEW step, NEW n \in 1 .. 8, I(step) = {n} PROVE Following(step) = Order[n + 1]
  <2>1. SelectInSeq(Order, LAMBDA s : s = step) = IF I(step) # {} THEN CHOOSE x \in I(step) : \A y \in I(step) : x <= y ELSE 0
    BY DEF SelectInSeq, Min, Order
  <2> QED
    BY <1>1, <2>1 DEF Following
<1>2. /\ I("VGA_clear") = {1} /\ I("GDT_init") = {2} /\ I("IRQ_init") = {3} /\ I("KBD_init") = {4}
      /\ I("SER_init") = {5} /\ I("MMU_init_pf") = {6} /\ I("MMU_init_vp") = {7} /\ I("kmalloc_init") = {8}
  BY DEF Order
<1> HIDE DEF I
<1> QED
  BY <1>1, <1>2 DEF Order

\* What a step of the kernel is: to the next check or to error, through the
\* tables of boot.asm, from one call of kernel_main to the next, or inside one.
Advances(from, to) == main = from /\ main' = to

LEMMA Steps ==
  ASSUME [KernelNext]_kernel_vars
  PROVE  \/ /\ \/ Check("check_multiboot", "multiboot", "0", "check_cpuid")
               \/ Check("check_cpuid", "cpuid", "1", "check_long_mode")
               \/ Check("check_long_mode", "long_mode", "2", "set_up_page_tables")
         \/ /\ Advances("set_up_page_tables", "enable_paging") /\ set_up_page_tables
            /\ UNCHANGED <<cpu, err, pf, descriptors>>
         \/ /\ Advances("enable_paging", "lgdt") /\ enable_paging
            /\ UNCHANGED <<cpu, err, pf, descriptors>>
         \/ /\ Advances("lgdt", "VGA_clear") /\ LoadGdt64
            /\ UNCHANGED <<cpu, err, pf, tables>>
         \/ /\ Advances("GDT_init", "IRQ_init") /\ GDT_init
            /\ UNCHANGED <<cpu, err, pf, tables>>
         \/ /\ Advances("IRQ_init", "KBD_init") /\ LoadIdt
            /\ UNCHANGED <<cpu, err, pf, tables>>
         \/ /\ Advances("MMU_init_vp", "kmalloc_init") /\ SwitchTables
            /\ UNCHANGED <<cpu, err, pf, descriptors>>
         \/ /\ \/ Advances("VGA_clear", "GDT_init") \/ Advances("KBD_init", "SER_init")
               \/ Advances("SER_init", "MMU_init_pf")
               \/ Advances("MMU_init_pf", "MMU_init_vp") /\ pc = "done"
               \/ Advances("kmalloc_init", "IRQ_start")
            /\ UNCHANGED <<cpu, err, pf, descriptors, tables>>
         \/ /\ main = "MMU_init_pf" /\ Next
            /\ UNCHANGED <<cpu, err, main, descriptors, tables>>
         \/ UNCHANGED <<cpu, err, main, pf, descriptors, tables>>
<1>1. CASE check_multiboot \/ check_cpuid \/ check_long_mode
  BY <1>1 DEF check_multiboot, check_cpuid, check_long_mode
<1>2. CASE SetUpPageTables \/ EnablePaging \/ Lgdt
  BY <1>2 DEF SetUpPageTables, EnablePaging, Lgdt, Advances
<1>3. ASSUME NEW step \in {"VGA_clear", "KBD_init", "SER_init", "kmalloc_init"},
             Calls(step), Announce(step), UNCHANGED <<pf, descriptors, tables>>
      PROVE  /\ \/ Advances("VGA_clear", "GDT_init") \/ Advances("KBD_init", "SER_init")
                \/ Advances("SER_init", "MMU_init_pf") \/ Advances("kmalloc_init", "IRQ_start")
             /\ UNCHANGED <<cpu, err, pf, descriptors, tables>>
  BY <1>3, StepOrder DEF Calls, Announce, Advances
<1>4. CASE InitGdt \/ IRQ_init
  BY <1>4, StepOrder DEF InitGdt, IRQ_init, Calls, Announce, Advances
<1>5. CASE AfterInitPf \/ MMU_init_vp
  BY <1>5, StepOrder DEF AfterInitPf, MMU_init_vp, Calls, Announce, Advances
<1>6. CASE MMU_init_pf \/ PrintsMessage \/ RunPrintkTest \/ UNCHANGED kernel_vars
  BY <1>6 DEF MMU_init_pf, PrintsMessage, RunPrintkTest, Calls, kernel, kernel_vars
<1> QED
  BY <1>1, <1>2, <1>3, <1>4, <1>5, <1>6 DEF KernelNext, InitDriver

-----------------------------------------------------------------------------
(* Segments.                                                               *)

\* Which tables the processor has at which step, and what is in them.
SegmentsInv ==
  /\ layout \in Layouts /\ DOMAIN gdt = 0 .. 3
  /\ main \in Checking \cup Paging \cup {"lgdt"} => gdtr = "none" /\ idtr = "none"
  /\ main \in Starting => gdtr = "gdt64" /\ idtr = "none"
  /\ main \in Running =>
       /\ gdtr = "gdt" /\ tr = 2
       /\ gdt[1] = set_gdt_usr_desc(KCODE_DESC_ACCESS, KCODE_DESC_FLAGS)
       /\ gdt[2] = set_gdt_sys_desc(TSS_DESC_ACCESS, TSS_DESC_FLAGS, layout.tss, sizeof_tss)
       /\ tss = <<layout.gp_stack_base, layout.df_stack_base, layout.pf_stack_base>>
  /\ main = "IRQ_init" => idtr = "none"
  /\ main \in Running \ {"IRQ_init"} => idtr = "idt" /\ idt = idt_populate
  /\ main \in Checking \cup Paging \cup {"lgdt"} \cup Starting \cup Running

LEMMA SegmentsInit == ASSUME KernelInit PROVE SegmentsInv
BY DEF KernelInit, DescriptorsInit, SegmentsInv, Checking, Paging, Starting, Running

LEMMA SegmentsStep == ASSUME SegmentsInv, [KernelNext]_kernel_vars PROVE SegmentsInv'
<1> USE DEF Checking, Paging, Starting, Running, Advances
<1>1. CASE /\ \/ Check("check_multiboot", "multiboot", "0", "check_cpuid")
              \/ Check("check_cpuid", "cpuid", "1", "check_long_mode")
              \/ Check("check_long_mode", "long_mode", "2", "set_up_page_tables")
  BY <1>1 DEF Check, SegmentsInv, descriptors, idt_populate
<1>2. CASE /\ Advances("set_up_page_tables", "enable_paging") \/ Advances("enable_paging", "lgdt")
           /\ UNCHANGED descriptors
  BY <1>2 DEF SegmentsInv, descriptors, idt_populate
<1>3. CASE Advances("lgdt", "VGA_clear") /\ LoadGdt64
  BY <1>3 DEF SegmentsInv, LoadGdt64, idt_populate
<1>4. CASE Advances("GDT_init", "IRQ_init") /\ GDT_init
  BY <1>4 DEF SegmentsInv, GDT_init, idt_populate
<1>5. CASE Advances("IRQ_init", "KBD_init") /\ LoadIdt
  BY <1>5 DEF SegmentsInv, LoadIdt, idt_populate
<1>6. CASE UNCHANGED <<main, descriptors>>
  BY <1>6 DEF SegmentsInv, descriptors, idt_populate
<1>7. CASE /\ \/ Advances("VGA_clear", "GDT_init") \/ Advances("KBD_init", "SER_init")
              \/ Advances("SER_init", "MMU_init_pf") \/ Advances("MMU_init_pf", "MMU_init_vp")
              \/ Advances("kmalloc_init", "IRQ_start") \/ Advances("MMU_init_vp", "kmalloc_init")
           /\ UNCHANGED descriptors
  BY <1>7 DEF SegmentsInv, descriptors, idt_populate
<1> QED
  BY <1>1, <1>2, <1>3, <1>4, <1>5, <1>6, <1>7, Steps

LEMMA Quotients ==
  ASSUME NEW a \in Nat, NEW m \in Nat, m > 0
  PROVE  a \div m \in Nat /\ (a \div m) * m <= a /\ a = m * (a \div m) + (a % m) /\ a % m \in 0 .. m - 1
<1>1. a \div m \in Nat /\ (a \div m) * m <= a
  OBVIOUS
<1>2. a = m * (a \div m) + (a % m)
  OBVIOUS
<1>3. a % m \in 0 .. m - 1
  OBVIOUS
<1> QED
  BY <1>1, <1>2, <1>3

\* The parts of a split address make it up again.
LEMMA AddressSplit ==
  ASSUME NEW a \in 0 .. U64 - 1
  PROVE  /\ (a % U16) + U16 * ((a \div U16) % U8) + U16 * U8 * ((a \div (U16 * U8)) % U8)
              + U32 * ((a \div U32) % U32) = a
         /\ (a % U16) + U16 * ((a \div U16) % U16) + U32 * ((a \div U32) % U32) = a
<1>1. a \in Nat /\ a < 65536
  BY DEF U64
<1>2. PICK q \in Nat, x \in 0 .. 15 : q = a \div 16 /\ x = a % 16 /\ a = 16 * q + x
  BY <1>1, Quotients
<1>3. PICK r \in Nat, y \in 0 .. 3 : r = q \div 4 /\ y = q % 4 /\ q = 4 * r + y
  BY Quotients
<1>4. PICK t \in Nat, z \in 0 .. 3 : t = r \div 4 /\ z = r % 4 /\ r = 4 * t + z
  BY Quotients
<1>5. a \div 64 = r /\ a \div 256 = t /\ q % 16 = 4 * z + y /\ t % 256 = t
  <2>1. a = 64 * r + (16 * y + x) /\ 16 * y + x \in 0 .. 63
    BY <1>2, <1>3
  <2>2. a = 256 * t + (64 * z + 16 * y + x) /\ 64 * z + 16 * y + x \in 0 .. 255
    BY <1>2, <1>3, <1>4
  <2>3. q = 16 * t + (4 * z + y) /\ 4 * z + y \in 0 .. 15
    BY <1>3, <1>4
  <2>4. t < 256
    BY <1>1, <2>2
  <2> QED
    BY <1>1, <2>1, <2>2, <2>3, <2>4
<1>6. /\ x + 16 * y + 64 * z + 256 * t = a
      /\ x + 16 * (4 * z + y) + 256 * t = a
  BY <1>2, <1>3, <1>4
<1> QED
  BY <1>2, <1>3, <1>4, <1>5, <1>6 DEF U8, U16, U32

\* Every interrupt finds its stub, its code segment and its stack.
THEOREM SegmentsAlwaysFound == KernelSpec => []SegmentsFound
<1>1. ASSUME SegmentsInv PROVE SegmentsFound
  <2>1. ASSUME gdtr # "none" PROVE RunsLongCode(Descriptor(GDT_OFFSET_KERNEL_CODE))
    <3>1. gdt64[1] = Code({"executable", "not_system", "present"}, {"long"})
      BY DEF gdt64
    <3>2. \/ gdtr = "gdt64"
          \/ gdtr = "gdt" /\ gdt[1] = set_gdt_usr_desc(KCODE_DESC_ACCESS, KCODE_DESC_FLAGS)
      BY <1>1, <2>1 DEF SegmentsInv, Checking, Paging, Starting, Running
    <3> QED
      BY <3>1, <3>2 DEF RunsLongCode, Descriptor, GDT_OFFSET_KERNEL_CODE, Code, set_gdt_usr_desc,
        KCODE_DESC_ACCESS, KCODE_DESC_FLAGS
  <2>2. ASSUME idtr # "none"
        PROVE  /\ gdtr = "gdt" /\ tr = 2 /\ idt = idt_populate /\ layout \in Layouts
               /\ gdt[2] = set_gdt_sys_desc(TSS_DESC_ACCESS, TSS_DESC_FLAGS, layout.tss, sizeof_tss)
               /\ tss = <<layout.gp_stack_base, layout.df_stack_base, layout.pf_stack_base>>
    BY <1>1, <2>2 DEF SegmentsInv, Checking, Paging, Starting, Running
  <2>3. ASSUME idtr # "none" PROVE TssFound
    <3>1. layout.tss \in 0 .. U64 - 1
      BY <2>2, <2>3, DescriptorsAssumption
    <3>2. Descriptor(tr) = set_gdt_sys_desc(TSS_DESC_ACCESS, TSS_DESC_FLAGS, layout.tss, sizeof_tss)
      BY <2>2, <2>3 DEF Descriptor
    <3> DEFINE a == layout.tss
    <3>3. SystemBase(Descriptor(tr)) =
            (a % U16) + U16 * ((a \div U16) % U8) + U16 * U8 * ((a \div (U16 * U8)) % U8)
              + U32 * ((a \div U32) % U32)
      BY <3>2 DEF SystemBase, set_gdt_sys_desc
    <3>4. SystemBase(Descriptor(tr)) = a
      BY <3>1, <3>3, AddressSplit
    <3>5. SystemLimit(Descriptor(tr)) >= sizeof_tss - 1
      BY <3>2 DEF SystemLimit, set_gdt_sys_desc, sizeof_tss, U4, U16
    <3> QED
      BY <3>2, <3>4, <3>5 DEF TssFound, set_gdt_sys_desc, TSS_DESC_ACCESS, TSS_DESC_FLAGS
  <2>4. ASSUME idtr # "none", NEW v \in Vectors
        PROVE  /\ HandlerOf(v) = layout.isr_table[v]
               /\ RunsLongCode(Descriptor(idt[v].kernel_cs))
               /\ idt[v].attributes = {"present", "interrupt_gate"}
               /\ idt[v].ist # 0 => TssFound
               /\ v = 13 => tss[idt[v].ist] = layout.gp_stack_base
               /\ v = 8 => tss[idt[v].ist] = layout.df_stack_base
               /\ v = 14 => tss[idt[v].ist] = layout.pf_stack_base
    <3> DEFINE a == layout.isr_table[v]
               st == CASE v = 13 -> 1 [] v = 8 -> 2 [] v = 14 -> 3 [] OTHER -> 0
    <3>1. idt[v] = idt_set_descriptor(a, {"present", "interrupt_gate"}, st)
      BY <2>2, <2>4 DEF idt_populate
    <3>2. a \in 0 .. U64 - 1
      BY <2>2, <2>4, DescriptorsAssumption
    <3>3. HandlerOf(v) = (a % U16) + U16 * ((a \div U16) % U16) + U32 * ((a \div U32) % U32)
      BY <3>1 DEF HandlerOf, idt_set_descriptor
    <3>4. HandlerOf(v) = a
      BY <3>2, <3>3, AddressSplit
    <3>5. idt[v].kernel_cs = GDT_OFFSET_KERNEL_CODE /\ idt[v].ist = st
          /\ idt[v].attributes = {"present", "interrupt_gate"}
      BY <3>1 DEF idt_set_descriptor
    <3>6. /\ v = 13 => st = 1
          /\ v = 8 => st = 2
          /\ v = 14 => st = 3
      OBVIOUS
    <3>7. gdtr # "none"
      BY <2>2, <2>4
    <3> HIDE DEF st
    <3> QED
      BY <2>1, <2>2, <2>3, <2>4, <3>4, <3>5, <3>6, <3>7
  <2> QED
    BY <2>1, <2>4 DEF SegmentsFound
<1>2. KernelInit => SegmentsInv
  BY SegmentsInit
<1>3. SegmentsInv /\ [KernelNext]_kernel_vars => SegmentsInv'
  BY SegmentsStep
<1> QED
  BY <1>1, <1>2, <1>3, PTL DEF KernelSpec

-----------------------------------------------------------------------------
(* The first gigabyte.                                                     *)

\* Which page tables the processor has at which step, and what is in them.
TablesInv ==
  /\ DOMAIN p3_table = Index
  /\ main \in Checking \cup Paging => cr3 = "none"
  /\ main \notin Checking \cup {"set_up_page_tables"} =>
       p3_table[0] = Table("p2_table") /\ p2_table = [ecx \in Index |-> Huge(MIB2 * ecx)]
  /\ cr3 = "l4_table" => l3_identity_table = setup_identity_paging
  /\ cr3 \in {"none", "p4_table", "l4_table"}

LEMMA TablesInit == ASSUME KernelInit PROVE TablesInv
BY DEF KernelInit, IdentityMapInit, TablesInv, Checking, Paging

LEMMA IndexFacts ==
  /\ GIB \in Nat /\ ENTRIES \in Nat /\ GIB > 0 /\ MIB2 \in Nat /\ MIB2 > 0 /\ 0 \in Index
  /\ GIB = MIB2 * ENTRIES
<1>1. GIB \in Nat /\ ENTRIES \in Nat /\ GIB > 0 /\ ENTRIES > 0 /\ GIB % ENTRIES = 0
  BY IdentityMapAssumption
<1>2. MIB2 \in Nat /\ GIB = MIB2 * ENTRIES + (GIB % ENTRIES)
  BY <1>1 DEF MIB2
<1>3. GIB = MIB2 * ENTRIES
  BY <1>1, <1>2
<1>4. MIB2 > 0
  BY <1>1, <1>2, <1>3
<1> QED
  BY <1>1, <1>2, <1>3, <1>4 DEF Index

LEMMA TablesStep == ASSUME TablesInv, [KernelNext]_kernel_vars PROVE TablesInv'
<1> USE DEF Checking, Paging, Advances
<1>1. CASE /\ \/ Check("check_multiboot", "multiboot", "0", "check_cpuid")
              \/ Check("check_cpuid", "cpuid", "1", "check_long_mode")
              \/ Check("check_long_mode", "long_mode", "2", "set_up_page_tables")
  BY <1>1 DEF Check, TablesInv, tables
<1>2. CASE Advances("set_up_page_tables", "enable_paging") /\ set_up_page_tables
  BY <1>2, IndexFacts DEF TablesInv, set_up_page_tables
<1>3. CASE Advances("enable_paging", "lgdt") /\ enable_paging
  BY <1>3 DEF TablesInv, enable_paging
<1>4. CASE /\ \/ Advances("lgdt", "VGA_clear") \/ Advances("GDT_init", "IRQ_init")
              \/ Advances("IRQ_init", "KBD_init")
              \/ Advances("VGA_clear", "GDT_init") \/ Advances("KBD_init", "SER_init")
              \/ Advances("SER_init", "MMU_init_pf") \/ Advances("MMU_init_pf", "MMU_init_vp")
              \/ Advances("kmalloc_init", "IRQ_start")
           /\ UNCHANGED tables
  BY <1>4 DEF TablesInv, tables
<1>5. CASE Advances("MMU_init_vp", "kmalloc_init") /\ SwitchTables
  BY <1>5 DEF TablesInv, SwitchTables, setup_identity_paging
<1>6. CASE UNCHANGED <<main, tables>>
  BY <1>6 DEF TablesInv, tables
<1> QED
  BY <1>1, <1>2, <1>3, <1>4, <1>5, <1>6, Steps

LEMMA Products ==
  ASSUME NEW m \in Nat, NEW q \in Nat, NEW n \in Nat
  PROVE  q * m \in Nat /\ m * n = n * m /\ (n <= q => n * m <= q * m)
OBVIOUS

\* From the moment paging is on, the kernel, its stack, the screen and the
\* tables are at the addresses they have in memory.
THEOREM FirstGigabyteStays == KernelSpec => []FirstGigabyteKept
<1>1. ASSUME TablesInv PROVE FirstGigabyteKept
  <2>1. ASSUME cr3 # "none", NEW a \in 0 .. GIB - 1 PROVE Translate(a) = a
    <3>1. a \in Nat /\ a \div GIB = 0 /\ a % GIB = a /\ a \div GIB \in Index
      BY IndexFacts DEF Index
    <3>2. CASE cr3 = "p4_table"
      <4> DEFINE n == a \div MIB2
      <4>1. n \in Nat /\ n * MIB2 <= a /\ a = MIB2 * n + (a % MIB2) /\ a % MIB2 \in 0 .. MIB2 - 1
        BY <3>1, IndexFacts, Quotients
      <4>2. ENTRIES <= n => ENTRIES * MIB2 <= n * MIB2
        BY <4>1, IndexFacts, Products
      <4>3. n < ENTRIES
        <5>1. MIB2 * ENTRIES = ENTRIES * MIB2 /\ ENTRIES * MIB2 \in Nat /\ n * MIB2 \in Nat
          BY <4>1, IndexFacts, Products
        <5> HIDE DEF n
        <5> QED
          BY <4>1, <4>2, <5>1, IndexFacts
      <4>4. n \in Index
        BY <4>1, <4>3, IndexFacts DEF Index
      <4>5. p3_table[0] = Table("p2_table") /\ p2_table[n] = Huge(MIB2 * n)
        BY <1>1, <3>2, <4>4 DEF TablesInv, Checking, Paging
      <4>6. p2_table[n].kind = "huge" /\ p2_table[n].addr = MIB2 * n
            /\ p3_table[0].kind = "table"
        BY <4>5 DEF Huge, Table
      <4>7. Translate(a) = MIB2 * n + (a % MIB2)
        BY <3>1, <3>2, <4>6 DEF Translate
      <4> QED
        BY <4>1, <4>7
    <3>3. CASE cr3 = "l4_table"
      <4>1. l3_identity_table[0] = Huge(0)
        BY <1>1, <3>3, IndexFacts DEF TablesInv, setup_identity_paging
      <4>2. l3_identity_table[0].kind = "huge" /\ l3_identity_table[0].addr = 0
        BY <4>1 DEF Huge
      <4> QED
        BY <3>1, <3>3, <4>2 DEF Translate
    <3> QED
      BY <1>1, <2>1, <3>2, <3>3 DEF TablesInv
  <2> QED
    BY <2>1 DEF FirstGigabyteKept
<1>2. KernelInit => TablesInv
  BY TablesInit
<1>3. TablesInv /\ [KernelNext]_kernel_vars => TablesInv'
  BY TablesStep
<1> QED
  BY <1>1, <1>2, <1>3, PTL DEF KernelSpec

-----------------------------------------------------------------------------
(* Rounding.                                                               *)

LEMMA Multiple ==
  ASSUME NEW q \in Nat, NEW p \in Nat, p > 0
  PROVE  (q * p) % p = 0 /\ (q * p) \div p = q
OBVIOUS

LEMMA FactorOf ==
  ASSUME NEW a \in Nat, NEW p \in Nat, p > 0, a % p = 0
  PROVE  a \div p \in Nat /\ a = (a \div p) * p
<1>1. a \div p \in Nat /\ a = p * (a \div p) + (a % p)
  BY Quotients
<1>2. p * (a \div p) = (a \div p) * p /\ (a \div p) * p \in Nat
  BY <1>1, Products
<1> QED
  BY <1>1, <1>2

\* Two multiples are a page apart, and so is what lies between.
LEMMA MultipleSteps ==
  ASSUME NEW a \in Nat, NEW b \in Nat, NEW p \in Nat, p > 0, a % p = 0, b % p = 0
  PROVE  /\ a < b => a + p <= b
         /\ (a + b) % p = 0
         /\ b <= a => (a - b) % p = 0 /\ ((a - b) \div p) * p = a - b
<1>1. PICK q \in Nat : a = q * p
  BY FactorOf
<1>2. PICK r \in Nat : b = r * p
  BY FactorOf
<1>3. a < b => a + p <= b
  <2>1. q < r => q * p + p <= r * p
    OBVIOUS
  <2>2. r <= q => r * p <= q * p
    OBVIOUS
  <2> QED
    BY <1>1, <1>2, <2>1, <2>2
<1>4. (q + r) * p = q * p + r * p /\ q + r \in Nat
  OBVIOUS
<1>5. (a + b) % p = 0
  BY <1>1, <1>2, <1>4, Multiple
<1>6. ASSUME b <= a PROVE (a - b) % p = 0 /\ ((a - b) \div p) * p = a - b
  <2>1. q < r => q * p + p <= r * p
    OBVIOUS
  <2>2. r <= q
    BY <1>1, <1>2, <1>6, <2>1
  <2>3. q - r \in Nat /\ (q - r) * p = q * p - r * p
    BY <2>2
  <2>4. ((q - r) * p) % p = 0 /\ ((q - r) * p) \div p = q - r
    BY <2>3, Multiple
  <2> QED
    BY <1>1, <1>2, <2>3, <2>4
<1> QED
  BY <1>3, <1>5, <1>6

LEMMA RoundDown ==
  ASSUME NEW a \in Nat, NEW p \in Nat, p > 0
  PROVE  LET r == round_down_nearest_mult(a, p)
         IN r \in Nat /\ r % p = 0 /\ r <= a /\ a < r + p
<1>1. /\ a \div p \in Nat /\ a = p * (a \div p) + (a % p) /\ a % p \in 0 .. p - 1
      /\ p * (a \div p) = (a \div p) * p
  BY Quotients, Products
<1>2. ((a \div p) * p) % p = 0 /\ (a \div p) * p \in Nat
  BY <1>1, Multiple, Products
<1>3. round_down_nearest_mult(a, p) = (a \div p) * p
  BY <1>1, <1>2 DEF round_down_nearest_mult
<1> QED
  BY <1>1, <1>2, <1>3

\* Up to a multiple that is there: no further, and no wrap.
LEMMA RoundUp ==
  ASSUME NEW a \in Nat, NEW p \in Nat, p > 0, NEW m \in Nat, a <= m, m % p = 0, m < W, W \in Nat
  PROVE  LET u == round_up_nearest_mult(a, p)
         IN u \in Nat /\ u % p = 0 /\ a <= u /\ u < a + p /\ u <= m
<1> DEFINE d == round_down_nearest_mult(a, p)
<1>1. d \in Nat /\ d % p = 0 /\ d <= a /\ a < d + p /\ d = a - (a % p) /\ a % p \in 0 .. p - 1
  BY RoundDown, Quotients DEF round_down_nearest_mult
<1>2. CASE a % p = 0
  BY <1>1, <1>2 DEF round_up_nearest_mult
<1>3. CASE a % p # 0
  <2>1. d < m
    BY <1>1, <1>3
  <2>2. d + p <= m
    BY <1>1, <2>1, MultipleSteps
  <2>3. p % p = 0
    BY Multiple
  <2>4. (d + p) % p = 0
    BY <1>1, <2>3, MultipleSteps
  <2>5. (d + p) % W = d + p
    BY <1>1, <2>2
  <2>6. a + p - (a % p) = d + p
    BY <1>1
  <2>7. round_up_nearest_mult(a, p) = d + p
    BY <1>3, <2>5, <2>6 DEF round_up_nearest_mult
  <2> HIDE DEF d
  <2> QED
    BY <1>1, <1>3, <2>2, <2>4, <2>7
<1> QED
  BY <1>2, <1>3

-----------------------------------------------------------------------------
(* The invariant of MMU_init_pf.                                           *)

\* c counts the members of S, as far as the code looks.
Counted(S, c) ==
  /\ c \in Nat
  /\ c = 0 => S = {}
  /\ c = 1 => \E x \in S : S = {x}
  /\ c = 2 => \E x, y \in S : x # y /\ S = {x, y}
  /\ c > 2 => \E x, y, z \in S : x # y /\ x # z /\ y # z

RegionsTo(k) == {n \in Regions : n <= k}

TagsFound == HasTag("mmap") /\ HasTag("elf")

\* lower and upper are the regions seen so far, if there were no more.
Scanned ==
  /\ i \in 1 .. Len(mem_info) + 1
  /\ Counted(RegionsTo(i - 1), cnt)
  /\ \A n \in RegionsTo(i - 1) :
       IF mem_info[n].base_addr = 0 THEN lower = n ELSE upper # 0
  /\ upper # 0 => upper \in RegionsTo(i - 1) /\ mem_info[upper].base_addr # 0

TwoRegions ==
  /\ lower \in Regions /\ upper \in Regions /\ Regions = {lower, upper}
  /\ mem_info[lower].base_addr = 0 /\ mem_info[upper].base_addr # 0

PagesBelow(end) == {a \in Nat : a % PAGE_SIZE = 0 /\ 0 < a /\ a < end}

LowerAdded ==
  /\ mem_info[lower].length >= PAGE_SIZE
  /\ pages = PagesBelow(lower_length)

\* The pool's upper part is from the first page boundary behind the kernel to
\* the last one in its region.
HeadFilled ==
  LET end == mem_info[upper].base_addr + mem_info[upper].length
  IN /\ mem_info[upper].base_addr = sec_head[2].addr
     /\ base_addr \in Nat /\ base_addr % PAGE_SIZE = 0
     /\ EndOf(sec_head) <= base_addr /\ base_addr < EndOf(sec_head) + PAGE_SIZE
     /\ length \in Nat /\ (base_addr + length) % PAGE_SIZE = 0
     /\ base_addr + length <= end /\ end < base_addr + length + PAGE_SIZE
     /\ unpooled_page_cnt * PAGE_SIZE = length

Adding == {"add_lower_pages", "init_ll_head_info", "get_sys_mem_size", "done"}

MemoryInv ==
  /\ tags \in Tags /\ mem_info \in MemoryMaps /\ sec_head \in SectionTables
  /\ pc \in {"find_tag", "scan", "halted"} \cup Adding
  /\ pc \notin {"find_tag", "halted"} => TagsFound
  /\ pc = "find_tag" => i = 1 /\ cnt = 0 /\ lower = 0 /\ upper = 0
  /\ pc \in {"find_tag", "scan"} => Scanned /\ pages = {}
  /\ pc \in Adding => TwoRegions
  /\ pc = "add_lower_pages" =>
       /\ curr_addr \in Nat /\ curr_addr % PAGE_SIZE = 0 /\ curr_addr >= PAGE_SIZE
       /\ curr_addr = PAGE_SIZE \/ curr_addr <= lower_length
       /\ pages = PagesBelow(curr_addr)
  /\ pc \in Adding \ {"add_lower_pages"} => LowerAdded
  /\ pc \in {"get_sys_mem_size", "done"} => HeadFilled
  /\ pc = "halted" => ~Supported

\* What the loader's data is.
LEMMA LoaderFacts ==
  ASSUME MemoryInv
  PROVE  /\ PAGE_SIZE \in Nat /\ PAGE_SIZE > 0 /\ W \in Nat
         /\ Len(mem_info) \in Nat /\ DOMAIN mem_info = 1 .. Len(mem_info)
         /\ \A n \in DOMAIN mem_info :
              /\ mem_info[n].base_addr \in Nat /\ mem_info[n].length \in Nat /\ mem_info[n].length > 0
              /\ mem_info[n].base_addr + mem_info[n].length < W
              /\ \A k \in DOMAIN mem_info : n # k =>
                   \/ mem_info[n].base_addr + mem_info[n].length <= mem_info[k].base_addr
                   \/ mem_info[k].base_addr + mem_info[k].length <= mem_info[n].base_addr
         /\ \E n \in Regions : mem_info[n].base_addr = 0
         /\ Regions \subseteq 1 .. Len(mem_info)
<1>1. PAGE_SIZE \in Nat /\ PAGE_SIZE > 0 /\ W \in Nat
  BY BootMemoryAssumption
<1>2. /\ mem_info \in Seq([base_addr : Nat, length : Nat \ {0}, type : Nat])
      /\ \A n \in DOMAIN mem_info : mem_info[n].base_addr + mem_info[n].length < W
      /\ \A n, k \in DOMAIN mem_info : n # k =>
           \/ mem_info[n].base_addr + mem_info[n].length <= mem_info[k].base_addr
           \/ mem_info[k].base_addr + mem_info[k].length <= mem_info[n].base_addr
      /\ \E n \in DOMAIN mem_info : mem_info[n].base_addr = 0 /\ mem_info[n].type = VALID_MEM_INFO_ENT_TYPE
  BY BootMemoryAssumption DEF MemoryInv
<1>3. Len(mem_info) \in Nat /\ DOMAIN mem_info = 1 .. Len(mem_info)
  BY <1>2, LenProperties
<1>4. \A n \in DOMAIN mem_info : mem_info[n] \in [base_addr : Nat, length : Nat \ {0}, type : Nat]
  BY <1>2, <1>3, ElementOfSeq
<1>5. \A n \in DOMAIN mem_info :
        mem_info[n].base_addr \in Nat /\ mem_info[n].length \in Nat /\ mem_info[n].length > 0
  BY <1>4
<1> QED
  BY <1>1, <1>2, <1>3, <1>5 DEF Regions

LEMMA SectionFacts ==
  ASSUME MemoryInv
  PROVE  /\ Len(sec_head) \in Nat /\ Len(sec_head) > 1 /\ DOMAIN sec_head = 1 .. Len(sec_head)
         /\ EndOf(sec_head) \in Nat /\ EndOf(sec_head) < W /\ KernelEnd = EndOf(sec_head)
         /\ sec_head[1].size = 0 /\ sec_head[2].addr > 0 /\ sec_head[2].size > 0
         /\ \A n \in 1 .. Len(sec_head) : sec_head[n].addr \in Nat /\ sec_head[n].size \in Nat
         /\ \A n \in 2 .. Len(sec_head) :
              sec_head[2].addr <= sec_head[n].addr /\ sec_head[n].addr + sec_head[n].size <= EndOf(sec_head)
         /\ \A a \in sec_head[2].addr .. EndOf(sec_head) - 1 : \E b \in a .. a + PAGE_SIZE - 1 :
              \E n \in 2 .. Len(sec_head) :
                b \in sec_head[n].addr .. sec_head[n].addr + sec_head[n].size - 1
<1>1. sec_head \in SectionTables
  BY DEF MemoryInv
<1>2. sec_head \in Seq([addr : Nat, size : Nat]) /\ Len(sec_head) > 1 /\ EndOf(sec_head) < W
  BY <1>1, BootMemoryAssumption
<1>3. Len(sec_head) \in Nat /\ DOMAIN sec_head = 1 .. Len(sec_head)
  BY <1>2, LenProperties
<1>4. \A n \in 1 .. Len(sec_head) : sec_head[n] \in [addr : Nat, size : Nat]
  BY <1>2, ElementOfSeq
<1>5. \A n \in 1 .. Len(sec_head) : sec_head[n].addr \in Nat /\ sec_head[n].size \in Nat
  BY <1>4
<1>6. Last(sec_head) = sec_head[Len(sec_head)] /\ Len(sec_head) \in 1 .. Len(sec_head)
  BY <1>2, <1>3 DEF Last
<1>7. EndOf(sec_head) \in Nat
  BY <1>5, <1>6 DEF EndOf
<1>8. KernelEnd = EndOf(sec_head)
  <2>0. W \in Nat
    BY BootMemoryAssumption
  <2>1. \A x \in Nat : x < W => x % W = x
    BY <2>0
  <2> QED
    BY <1>2, <1>7, <2>1 DEF KernelEnd
<1>9. sec_head[1].size = 0 /\ sec_head[2].addr > 0 /\ sec_head[2].size > 0
  BY <1>1, BootMemoryAssumption
<1>10. \A n \in 2 .. Len(sec_head) :
         sec_head[2].addr <= sec_head[n].addr /\ sec_head[n].addr + sec_head[n].size <= EndOf(sec_head)
  BY <1>1, BootMemoryAssumption
<1>11. \A a \in sec_head[2].addr .. EndOf(sec_head) - 1 : \E b \in a .. a + PAGE_SIZE - 1 :
         \E n \in 2 .. Len(sec_head) :
           b \in sec_head[n].addr .. sec_head[n].addr + sec_head[n].size - 1
  BY <1>1, BootMemoryAssumption
<1> QED
  BY <1>2, <1>3, <1>5, <1>7, <1>8, <1>9, <1>10, <1>11

\* The tags are there exactly if the first of each type has the known format.
LEMMA TagFacts ==
  ASSUME MemoryInv
  PROVE  TagsFound <=>
           {"mmap", "elf"} \subseteq {tags[n].type : n \in {m \in DOMAIN tags : tags[m].known}}
<1>1. /\ tags \in Seq([type : STRING, known : BOOLEAN])
      /\ \A n, k \in DOMAIN tags : tags[n].type = tags[k].type /\ tags[n].type \in {"mmap", "elf"} => n = k
  BY BootMemoryAssumption DEF MemoryInv
<1>2. Len(tags) \in Nat /\ DOMAIN tags = 1 .. Len(tags)
  BY <1>1, LenProperties
<1>3. ASSUME NEW ty \in {"mmap", "elf"}
      PROVE  HasTag(ty) <=> \E n \in DOMAIN tags : tags[n].type = ty /\ tags[n].known
  <2> DEFINE I == {n \in 1 .. Len(tags) : tags[n].type = ty}
  <2>1. find_tag(ty) = IF I # {} THEN CHOOSE x \in I : \A y \in I : x <= y ELSE 0
    BY DEF find_tag, SelectInSeq, Min
  <2>2. ASSUME NEW n \in DOMAIN tags, tags[n].type = ty PROVE find_tag(ty) = n
    <3>1. n \in I /\ \A y \in I : y = n
      BY <1>1, <1>2, <2>2
    <3>2. I = {n} /\ n \in Nat
      BY <1>2, <3>1
    <3> HIDE DEF I
    <3>3. (CHOOSE x \in I : \A y \in I : x <= y) = n
      BY <3>2
    <3> QED
      BY <2>1, <3>2, <3>3
  <2>3. CASE \E n \in DOMAIN tags : tags[n].type = ty
    <3>1. PICK n \in DOMAIN tags : tags[n].type = ty
      BY <2>3
    <3>2. find_tag(ty) = n /\ n # 0
      BY <1>2, <2>2, <3>1
    <3>3. \A k \in DOMAIN tags : tags[k].type = ty => k = n
      BY <1>1, <3>1
    <3> QED
      BY <3>1, <3>2, <3>3 DEF HasTag
  <2>4. CASE ~ \E n \in DOMAIN tags : tags[n].type = ty
    <3>1. I = {}
      BY <1>2, <2>4
    <3> HIDE DEF I
    <3> QED
      BY <2>1, <2>4, <3>1 DEF HasTag
  <2> QED
    BY <2>3, <2>4
<1> QED
  BY <1>3 DEF TagsFound

LEMMA CountStep ==
  ASSUME NEW S, NEW c, Counted(S, c), NEW x, x \notin S
  PROVE  Counted(S \cup {x}, c + 1)
<1>1. c \in Nat /\ c + 1 \in Nat
  BY DEF Counted
<1>2. CASE c = 0
  BY <1>2 DEF Counted
<1>3. CASE c = 1
  <2>1. PICK y \in S : S = {y}
    BY <1>3 DEF Counted
  <2>2. x # y /\ S \cup {x} = {x, y}
    BY <2>1
  <2> QED
    BY <1>3, <2>2 DEF Counted
<1>4. CASE c = 2
  <2>1. PICK y \in S, z \in S : y # z /\ S = {y, z}
    BY <1>4 DEF Counted
  <2>2. x # y /\ x # z
    BY <2>1
  <2> QED
    BY <1>4, <2>1, <2>2 DEF Counted
<1>5. CASE c > 2
  <2>1. PICK y \in S, z \in S, u \in S : y # z /\ y # u /\ z # u
    BY <1>5 DEF Counted
  <2> QED
    BY <1>1, <1>5, <2>1 DEF Counted
<1> QED
  BY <1>1, <1>2, <1>3, <1>4, <1>5

LEMMA MemoryInit == ASSUME Init PROVE MemoryInv
<1>1. RegionsTo(0) = {}
  <2>1. mem_info \in Seq([base_addr : Nat, length : Nat \ {0}, type : Nat])
    BY BootMemoryAssumption DEF Init
  <2>2. Regions \subseteq 1 .. Len(mem_info) /\ Len(mem_info) \in Nat
    BY <2>1, LenProperties DEF Regions
  <2>3. \A n \in Regions : ~(n <= 0)
    BY <2>2
  <2> QED
    BY <2>3 DEF RegionsTo
<1>2. Counted({}, 0)
  BY DEF Counted
<1>3. Len(mem_info) \in Nat
  <2>1. mem_info \in Seq([base_addr : Nat, length : Nat \ {0}, type : Nat])
    BY BootMemoryAssumption DEF Init
  <2> QED
    BY <2>1, LenProperties
<1>4. Scanned
  <2>1. i = 1 /\ i - 1 = 0 /\ i \in 1 .. Len(mem_info) + 1 /\ cnt = 0 /\ upper = 0
    BY <1>3 DEF Init
  <2>2. RegionsTo(i - 1) = {}
    BY <1>1, <2>1
  <2> QED
    BY <1>2, <2>1, <2>2 DEF Scanned
<1> QED
  BY <1>4 DEF Init, MemoryInv, Adding

\* The loop over the memory map.
LEMMA ScanEntryStep == ASSUME MemoryInv, ScanEntry PROVE MemoryInv'
<1> DEFINE valid == mem_info[i].type = VALID_MEM_INFO_ENT_TYPE
<1>1. /\ pc = "scan" /\ i <= Len(mem_info) /\ i' = i + 1
      /\ cnt' = IF valid THEN cnt + 1 ELSE cnt
      /\ lower' = IF valid /\ mem_info[i].base_addr = 0 THEN i ELSE lower
      /\ upper' = IF valid /\ mem_info[i].base_addr # 0 THEN i ELSE upper
      /\ UNCHANGED <<tags, mem_info, sec_head, pc, curr_addr, pages, base_addr, length, unpooled_page_cnt, mem_size>>
  BY DEF ScanEntry, loader, list, head_info
<1>2. Scanned /\ TagsFound /\ pages = {}
  BY <1>1 DEF MemoryInv
<1>3. i \in 1 .. Len(mem_info) /\ i \in Nat /\ i \in DOMAIN mem_info /\ i' \in 1 .. Len(mem_info) + 1
  BY <1>1, <1>2, LoaderFacts DEF Scanned
<1>4. /\ RegionsTo(i' - 1) = IF valid THEN RegionsTo(i - 1) \cup {i} ELSE RegionsTo(i - 1)
      /\ i \notin RegionsTo(i - 1)
  <2>1. i' - 1 = i
    BY <1>1, <1>3
  <2>2. ASSUME NEW n \in Regions PROVE n <= i <=> n <= i - 1 \/ n = i
    BY <1>3, LoaderFacts
  <2>3. valid <=> i \in Regions
    BY <1>3 DEF Regions
  <2>4. RegionsTo(i) = {n \in Regions : n <= i - 1 \/ n = i}
    BY <2>2 DEF RegionsTo
  <2>5. valid => RegionsTo(i) = RegionsTo(i - 1) \cup {i}
    BY <2>3, <2>4 DEF RegionsTo
  <2>6. ~valid => RegionsTo(i) = RegionsTo(i - 1)
    BY <2>3, <2>4 DEF RegionsTo
  <2>7. i \notin RegionsTo(i - 1)
    BY <1>3 DEF RegionsTo
  <2> QED
    BY <2>1, <2>5, <2>6, <2>7
<1>5. Regions' = Regions
  BY <1>1 DEF Regions
<1> DEFINE S == RegionsTo(i - 1)
           T == RegionsTo(i' - 1)
<1>6. Counted(T, cnt')
  BY <1>1, <1>2, <1>4, CountStep DEF Scanned
<1>7. ASSUME NEW n \in T
      PROVE  IF mem_info[n].base_addr = 0 THEN lower' = n ELSE upper' # 0
  <2>1. n = i \/ n \in S
    BY <1>4
  <2>2. n = i => valid
    BY <1>4
  <2>3. ASSUME n \in S, n # i, valid, mem_info[n].base_addr = 0, mem_info[i].base_addr = 0 PROVE FALSE
    <3>1. n \in DOMAIN mem_info
      BY <2>3 DEF RegionsTo, Regions
    <3>2. mem_info[n].length > 0 /\ mem_info[i].length > 0
          /\ mem_info[n].length \in Nat /\ mem_info[i].length \in Nat
      BY <1>3, <3>1, LoaderFacts
    <3>3. \/ mem_info[n].base_addr + mem_info[n].length <= mem_info[i].base_addr
          \/ mem_info[i].base_addr + mem_info[i].length <= mem_info[n].base_addr
      BY <1>3, <2>3, <3>1, LoaderFacts
    <3> QED
      BY <2>3, <3>2, <3>3
  <2>4. n \in S => IF mem_info[n].base_addr = 0 THEN lower = n ELSE upper # 0
    BY <1>2 DEF Scanned
  <2> QED
    BY <1>1, <1>3, <1>4, <2>1, <2>2, <2>3, <2>4
<1>8. upper' # 0 => upper' \in T /\ mem_info[upper'].base_addr # 0
  BY <1>1, <1>2, <1>4 DEF Scanned
<1>9. Scanned'
  <2>1. RegionsTo(i - 1)' = T
    BY <1>5 DEF RegionsTo
  <2> QED
    BY <1>1, <1>3, <1>6, <1>7, <1>8, <2>1 DEF Scanned
<1>10. TagsFound'
  BY <1>1, <1>2 DEF TagsFound, HasTag, find_tag, SelectInSeq, Min
<1> QED
  BY <1>1, <1>2, <1>9, <1>10 DEF MemoryInv, Adding

LEMMA LoaderKept ==
  ASSUME UNCHANGED <<tags, mem_info, sec_head>>
  PROVE  Regions' = Regions /\ TagsFound' = TagsFound /\ Supported' = Supported
BY DEF Regions, TagsFound, HasTag, find_tag, SelectInSeq, Min, Supported

LEMMA FindTagsStep == ASSUME MemoryInv, FindTags PROVE MemoryInv'
<1>1. /\ pc = "find_tag" /\ pc' = IF TagsFound THEN "scan" ELSE "halted"
      /\ UNCHANGED <<tags, mem_info, sec_head, i, cnt, lower, upper, pages>>
  BY DEF FindTags, TagsFound, loader, usable, list
<1>2. Regions' = Regions /\ TagsFound' = TagsFound /\ Supported' = Supported
  BY <1>1, LoaderKept
<1>3. Scanned' /\ pages' = {}
  BY <1>1, <1>2 DEF MemoryInv, Scanned, RegionsTo
<1>4. ~TagsFound => ~Supported
  BY TagFacts DEF Supported
<1>5. \/ pc' = "scan" /\ TagsFound'
      \/ pc' = "halted" /\ ~Supported'
  BY <1>1, <1>2, <1>4
<1> QED
  BY <1>1, <1>3, <1>5 DEF MemoryInv, Adding

\* Two regions, or none that the comment describes.
LEMMA CountTells ==
  ASSUME MemoryInv, Counted(Regions, cnt), cnt # 2
  PROVE  ~Supported
<1> SUFFICES ASSUME Supported PROVE FALSE
  OBVIOUS
<1>1. PICK low \in Regions, high \in Regions :
        /\ Regions = {low, high}
        /\ mem_info[low].base_addr = 0 /\ mem_info[high].base_addr = sec_head[2].addr
  BY DEF Supported
<1>2. sec_head[2].addr > 0
  BY SectionFacts
<1>3. low # high
  BY <1>1, <1>2
<1>4. cnt \in Nat
  BY DEF Counted
<1>5. CASE cnt = 0
  BY <1>1, <1>5 DEF Counted
<1>6. CASE cnt = 1
  <2>1. \E x \in Regions : Regions = {x}
    BY <1>6 DEF Counted
  <2> QED
    BY <1>1, <1>3, <2>1
<1>7. CASE cnt > 2
  <2>1. \E x, y, z \in Regions : x # y /\ x # z /\ y # z
    BY <1>7 DEF Counted
  <2> QED
    BY <1>1, <2>1
<1> QED
  BY <1>4, <1>5, <1>6, <1>7

LEMMA ScanEndsStep == ASSUME MemoryInv, ScanEnds PROVE MemoryInv'
<1>1. /\ pc = "scan" /\ i > Len(mem_info)
      /\ UNCHANGED <<tags, mem_info, sec_head, i, cnt, lower, upper, pages>>
  BY DEF ScanEnds, loader, usable
<1>2. Regions' = Regions /\ TagsFound' = TagsFound /\ Supported' = Supported
  BY <1>1, LoaderKept
<1>3. Scanned /\ TagsFound /\ pages = {}
  BY <1>1 DEF MemoryInv
<1>4. RegionsTo(i - 1) = Regions
  <2>1. \A n \in Regions : n <= i - 1
    BY <1>1, <1>3, LoaderFacts DEF Scanned
  <2> QED
    BY <2>1 DEF RegionsTo
<1>5. /\ Counted(Regions, cnt)
      /\ \A n \in Regions : IF mem_info[n].base_addr = 0 THEN lower = n ELSE upper # 0
      /\ upper # 0 => upper \in Regions /\ mem_info[upper].base_addr # 0
  BY <1>3, <1>4 DEF Scanned
<1>6. lower \in Regions /\ mem_info[lower].base_addr = 0
  BY <1>5, LoaderFacts
<1>7. round_up_nearest_mult(mem_info[lower].base_addr, PAGE_SIZE) = 0
  <2>1. 0 % PAGE_SIZE = 0
    BY LoaderFacts
  <2> QED
    BY <1>6, <2>1 DEF round_up_nearest_mult
<1>8. CASE cnt # 2
  <2>1. pc' = "halted"
    BY <1>7, <1>8 DEF ScanEnds
  <2> QED
    BY <1>1, <1>2, <1>5, <1>8, <2>1, CountTells DEF MemoryInv, Adding
<1>9. CASE cnt = 2
  <2>1. pc' = "add_lower_pages" /\ curr_addr' = PAGE_SIZE
    <3>1. 0 + PAGE_SIZE = PAGE_SIZE
      BY LoaderFacts
    <3> QED
      BY <1>7, <1>9, <3>1 DEF ScanEnds
  <2>2. PICK x \in Regions, y \in Regions : x # y /\ Regions = {x, y}
    BY <1>5, <1>9 DEF Counted
  <2>3. PICK z \in Regions : z # lower /\ Regions = {lower, z}
    BY <1>6, <2>2
  <2>4. upper \in Regions /\ mem_info[upper].base_addr # 0
    BY <1>5, <2>3
  <2>5. TwoRegions
    BY <1>6, <2>3, <2>4 DEF TwoRegions
  <2>6. TwoRegions'
    BY <1>1, <1>2, <2>5 DEF TwoRegions
  <2>7. /\ PAGE_SIZE \in Nat /\ PAGE_SIZE > 0 /\ PAGE_SIZE % PAGE_SIZE = 0
        /\ \A a \in Nat : ~(a % PAGE_SIZE = 0 /\ 0 < a /\ a < PAGE_SIZE)
    <3>1. PAGE_SIZE \in Nat /\ PAGE_SIZE > 0
      BY LoaderFacts
    <3>2. PAGE_SIZE % PAGE_SIZE = 0 /\ \A a \in Nat : a < PAGE_SIZE => a % PAGE_SIZE = a
      BY <3>1
    <3> QED
      BY <3>1, <3>2
  <2>8. PagesBelow(PAGE_SIZE) = {}
    BY <2>7 DEF PagesBelow
  <2> QED
    BY <1>1, <1>2, <1>3, <2>1, <2>6, <2>7, <2>8 DEF MemoryInv, Adding
<1> QED
  BY <1>8, <1>9

LEMMA LowerFacts ==
  ASSUME MemoryInv, TwoRegions
  PROVE  /\ mem_info[lower].length \in Nat /\ mem_info[lower].base_addr = 0
         /\ mem_info[upper].base_addr \in Nat /\ mem_info[upper].base_addr > 0
         /\ mem_info[upper].length \in Nat
         /\ mem_info[upper].base_addr + mem_info[upper].length < W
         /\ mem_info[lower].length <= mem_info[upper].base_addr
         /\ lower_length \in Nat /\ lower_length % PAGE_SIZE = 0
         /\ lower_length <= mem_info[lower].length /\ mem_info[lower].length < lower_length + PAGE_SIZE
<1>1. lower \in DOMAIN mem_info /\ upper \in DOMAIN mem_info
      /\ mem_info[lower].base_addr = 0 /\ mem_info[upper].base_addr # 0 /\ lower # upper
  BY DEF TwoRegions, Regions
<1>2. /\ mem_info[lower].length \in Nat /\ mem_info[upper].base_addr \in Nat
      /\ mem_info[upper].length \in Nat /\ mem_info[upper].length > 0
      /\ mem_info[upper].base_addr + mem_info[upper].length < W
      /\ PAGE_SIZE \in Nat /\ PAGE_SIZE > 0
  BY <1>1, LoaderFacts
<1>3. \/ mem_info[lower].base_addr + mem_info[lower].length <= mem_info[upper].base_addr
      \/ mem_info[upper].base_addr + mem_info[upper].length <= mem_info[lower].base_addr
  BY <1>1, LoaderFacts
<1>4. mem_info[lower].length <= mem_info[upper].base_addr /\ mem_info[upper].base_addr > 0
  BY <1>1, <1>2, <1>3
<1>5. /\ lower_length \in Nat /\ lower_length % PAGE_SIZE = 0
      /\ lower_length <= mem_info[lower].length /\ mem_info[lower].length < lower_length + PAGE_SIZE
  BY <1>2, RoundDown DEF lower_length
<1> QED
  BY <1>1, <1>2, <1>4, <1>5

\* The loop of add_lower_pages.
LEMMA AddLowerPageStep == ASSUME MemoryInv, AddLowerPage PROVE MemoryInv'
<1>1. /\ pc = "add_lower_pages" /\ curr_addr < lower_length
      /\ pages' = pages \cup {curr_addr} /\ curr_addr' = curr_addr + PAGE_SIZE
      /\ UNCHANGED <<tags, mem_info, sec_head, pc, i, cnt, lower, upper>>
  BY DEF AddLowerPage, loader, usable
<1>2. Regions' = Regions /\ TagsFound' = TagsFound /\ lower_length' = lower_length
  BY <1>1, LoaderKept DEF lower_length
<1>3. /\ TagsFound /\ TwoRegions
      /\ curr_addr \in Nat /\ curr_addr % PAGE_SIZE = 0 /\ curr_addr >= PAGE_SIZE
      /\ pages = PagesBelow(curr_addr)
  BY <1>1 DEF MemoryInv, Adding
<1>4. PAGE_SIZE \in Nat /\ PAGE_SIZE > 0 /\ lower_length \in Nat /\ lower_length % PAGE_SIZE = 0
  BY <1>3, LoaderFacts, LowerFacts
<1>5. PAGE_SIZE % PAGE_SIZE = 0
  BY <1>4
<1>6. /\ curr_addr' \in Nat /\ curr_addr' % PAGE_SIZE = 0 /\ curr_addr' >= PAGE_SIZE
      /\ curr_addr' <= lower_length
  <2>1. (curr_addr + PAGE_SIZE) % PAGE_SIZE = 0 /\ curr_addr + PAGE_SIZE <= lower_length
    BY <1>1, <1>3, <1>4, <1>5, MultipleSteps
  <2> QED
    BY <1>1, <1>3, <1>4, <2>1
<1>7. pages' = PagesBelow(curr_addr')
  <2>1. ASSUME NEW a \in Nat, a % PAGE_SIZE = 0
        PROVE  a < curr_addr + PAGE_SIZE <=> a < curr_addr \/ a = curr_addr
    <3>1. curr_addr < a => curr_addr + PAGE_SIZE <= a
      BY <1>3, <1>4, <2>1, MultipleSteps
    <3> QED
      BY <1>3, <1>4, <3>1
  <2>2. curr_addr > 0
    BY <1>3, <1>4
  <2>3. PagesBelow(curr_addr + PAGE_SIZE) =
          {a \in Nat : a % PAGE_SIZE = 0 /\ 0 < a /\ (a < curr_addr \/ a = curr_addr)}
    BY <2>1 DEF PagesBelow
  <2>4. PagesBelow(curr_addr + PAGE_SIZE) = PagesBelow(curr_addr) \cup {curr_addr}
    BY <1>3, <2>2, <2>3 DEF PagesBelow
  <2> QED
    BY <1>1, <1>3, <2>4
<1>8. TwoRegions'
  BY <1>1, <1>2, <1>3 DEF TwoRegions
<1> QED
  BY <1>1, <1>2, <1>3, <1>6, <1>7, <1>8 DEF MemoryInv, Adding

LEMMA AddLowerEndsStep == ASSUME MemoryInv, AddLowerEnds PROVE MemoryInv'
<1>1. /\ pc = "add_lower_pages" /\ curr_addr >= lower_length
      /\ pc' = IF curr_addr # lower_length THEN "halted" ELSE "init_ll_head_info"
      /\ UNCHANGED <<tags, mem_info, sec_head, i, cnt, lower, upper, curr_addr, pages>>
  BY DEF AddLowerEnds, loader, usable, list
<1>2. Regions' = Regions /\ TagsFound' = TagsFound /\ lower_length' = lower_length /\ Supported' = Supported
  BY <1>1, LoaderKept DEF lower_length
<1>3. /\ TagsFound /\ TwoRegions
      /\ curr_addr \in Nat /\ curr_addr >= PAGE_SIZE
      /\ curr_addr = PAGE_SIZE \/ curr_addr <= lower_length
      /\ pages = PagesBelow(curr_addr)
  BY <1>1 DEF MemoryInv, Adding
<1>4. /\ PAGE_SIZE \in Nat /\ PAGE_SIZE > 0 /\ lower_length \in Nat
      /\ mem_info[lower].length \in Nat
      /\ lower_length <= mem_info[lower].length /\ mem_info[lower].length < lower_length + PAGE_SIZE
  BY <1>3, LoaderFacts, LowerFacts
<1>5. CASE curr_addr = lower_length
  <2>1. LowerAdded
    BY <1>3, <1>4, <1>5 DEF LowerAdded
  <2> QED
    BY <1>1, <1>2, <1>3, <1>5, <2>1 DEF MemoryInv, Adding, TwoRegions, LowerAdded
<1>6. CASE curr_addr # lower_length
  <2>1. lower_length < PAGE_SIZE /\ lower_length % PAGE_SIZE = 0
    BY <1>1, <1>3, <1>4, <1>6, LowerFacts
  <2>2. lower_length = 0
    BY <1>4, <2>1
  <2>3. ASSUME Supported PROVE FALSE
    <3>1. PICK low \in Regions : mem_info[low].base_addr = 0 /\ mem_info[low].length >= PAGE_SIZE
      BY <2>3 DEF Supported
    <3>2. low = lower
      BY <1>3, <3>1 DEF TwoRegions
    <3> QED
      BY <1>4, <2>2, <3>1, <3>2
  <2> QED
    BY <1>1, <1>2, <1>6, <2>3 DEF MemoryInv, Adding
<1> QED
  BY <1>5, <1>6

\* The part behind the kernel: neither rounding leaves the region, and the
\* length does not wrap.
LEMMA InitHeadInfoStep == ASSUME MemoryInv, InitHeadInfo PROVE MemoryInv'
<1> DEFINE ke == EndOf(sec_head)
           end == mem_info[upper].base_addr + mem_info[upper].length
           ub == round_up_nearest_mult(KernelEnd, PAGE_SIZE)
           ue == round_down_nearest_mult(
                   (mem_info[upper].length + mem_info[upper].base_addr) % W, PAGE_SIZE)
<1>1. /\ pc = "init_ll_head_info"
      /\ UNCHANGED <<tags, mem_info, sec_head, i, cnt, lower, upper, curr_addr, pages>>
  BY DEF InitHeadInfo, loader, usable, list
<1>2. Regions' = Regions /\ TagsFound' = TagsFound /\ lower_length' = lower_length /\ Supported' = Supported
  BY <1>1, LoaderKept DEF lower_length
<1>3. TagsFound /\ TwoRegions /\ LowerAdded
  BY <1>1 DEF MemoryInv, Adding
<1>4. TwoRegions' /\ LowerAdded'
  BY <1>1, <1>2, <1>3 DEF TwoRegions, LowerAdded, PagesBelow
<1>5. CASE mem_info[upper].base_addr # sec_head[2].addr
  <2>1. pc' = "halted"
    BY <1>5 DEF InitHeadInfo
  <2>2. ASSUME Supported PROVE FALSE
    <3>1. PICK high \in Regions : mem_info[high].base_addr = sec_head[2].addr
      BY <2>2 DEF Supported
    <3>2. sec_head[2].addr > 0
      BY SectionFacts
    <3> QED
      BY <1>3, <1>5, <3>1, <3>2 DEF TwoRegions
  <2> QED
    BY <1>1, <1>2, <2>1, <2>2 DEF MemoryInv, Adding
<1>6. CASE mem_info[upper].base_addr = sec_head[2].addr
  <2>1. /\ base_addr' = ub /\ length' = (ue - ub) % W
        /\ unpooled_page_cnt' = length' \div PAGE_SIZE
        /\ pc' = IF length' % PAGE_SIZE # 0 THEN "halted" ELSE "get_sys_mem_size"
    BY <1>6 DEF InitHeadInfo
  <2>2. /\ PAGE_SIZE \in Nat /\ PAGE_SIZE > 0 /\ W \in Nat
        /\ mem_info[upper].base_addr \in Nat /\ mem_info[upper].length \in Nat
        /\ end \in Nat /\ end < W
    BY <1>3, LoaderFacts, LowerFacts
  <2>3. ke \in Nat /\ KernelEnd = ke
    BY SectionFacts
  <2>4. PICK m \in ke .. end : m % PAGE_SIZE = 0
    <3>1. upper \in DOMAIN mem_info /\ mem_info[upper].type = VALID_MEM_INFO_ENT_TYPE
      BY <1>3 DEF TwoRegions, Regions
    <3>2. mem_info \in MemoryMaps /\ sec_head \in SectionTables
      BY DEF MemoryInv
    <3> QED
      BY <1>6, <3>1, <3>2, BootMemoryAssumption
  <2>5. m \in Nat /\ ke <= m /\ m <= end /\ m < W
    BY <2>2, <2>3
  <2>6. ub \in Nat /\ ub % PAGE_SIZE = 0 /\ ke <= ub /\ ub < ke + PAGE_SIZE /\ ub <= m
    BY <2>2, <2>3, <2>4, <2>5, RoundUp
  <2>7. (mem_info[upper].length + mem_info[upper].base_addr) % W = end
    <3>1. mem_info[upper].length + mem_info[upper].base_addr = end
      BY <2>2
    <3>2. end % W = end
      <4> HIDE DEF end
      <4> QED
        BY <2>2
    <3> QED
      BY <3>1, <3>2
  <2>8. ue \in Nat /\ ue % PAGE_SIZE = 0 /\ ue <= end /\ end < ue + PAGE_SIZE
    BY <2>2, <2>7, RoundDown
  <2> HIDE DEF ub, ue, end, ke
  <2>9. ue < ub => ue + PAGE_SIZE <= ub
    BY <2>2, <2>6, <2>8, MultipleSteps
  <2>10. ub <= ue
    BY <2>2, <2>5, <2>6, <2>8, <2>9
  <2>11. (ue - ub) % PAGE_SIZE = 0 /\ ((ue - ub) \div PAGE_SIZE) * PAGE_SIZE = ue - ub
    BY <2>2, <2>6, <2>8, <2>10, MultipleSteps
  <2>12. ue - ub \in Nat /\ ue - ub < W /\ ub + (ue - ub) = ue
    BY <2>2, <2>6, <2>8, <2>10
  <2>13. (ue - ub) % W = ue - ub
    BY <2>2, <2>12
  <2>14. /\ length' = ue - ub /\ base_addr' = ub /\ pc' = "get_sys_mem_size"
         /\ unpooled_page_cnt' * PAGE_SIZE = length'
    BY <2>1, <2>11, <2>13
  <2>15. HeadFilled'
    <3>1. end' = end /\ ke' = ke
      BY <1>1 DEF end, ke
    <3>2. /\ base_addr' \in Nat /\ base_addr' % PAGE_SIZE = 0
          /\ ke <= base_addr' /\ base_addr' < ke + PAGE_SIZE
          /\ length' \in Nat /\ (base_addr' + length') % PAGE_SIZE = 0
          /\ base_addr' + length' <= end /\ end < base_addr' + length' + PAGE_SIZE
      BY <2>6, <2>8, <2>12, <2>14
    <3>3. mem_info'[upper'].base_addr = sec_head'[2].addr
      BY <1>1, <1>6
    <3> QED
      BY <2>14, <3>1, <3>2, <3>3 DEF HeadFilled, end, ke
  <2> QED
    BY <1>1, <1>2, <1>3, <1>4, <2>14, <2>15 DEF MemoryInv, Adding
<1> QED
  BY <1>5, <1>6

LEMMA OtherMemorySteps ==
  ASSUME MemoryInv, get_sys_mem_size_byte \/ UNCHANGED vars PROVE MemoryInv'
<1>1. /\ UNCHANGED <<tags, mem_info, sec_head, i, cnt, lower, upper, curr_addr, pages,
                     base_addr, length, unpooled_page_cnt>>
      /\ \/ pc = "get_sys_mem_size" /\ pc' = "done"
         \/ pc' = pc
  BY DEF get_sys_mem_size_byte, vars, loader, usable, list, head_info
<1>2. Regions' = Regions /\ TagsFound' = TagsFound /\ lower_length' = lower_length /\ Supported' = Supported
  BY <1>1, LoaderKept DEF lower_length
<1>3. /\ Scanned' = Scanned /\ TwoRegions' = TwoRegions /\ LowerAdded' = LowerAdded
      /\ HeadFilled' = HeadFilled
  BY <1>1, <1>2 DEF Scanned, RegionsTo, TwoRegions, LowerAdded, PagesBelow, HeadFilled
<1>4. PagesBelow(curr_addr)' = PagesBelow(curr_addr)
  BY <1>1 DEF PagesBelow
<1> QED
  BY <1>1, <1>2, <1>3, <1>4 DEF MemoryInv, Adding

LEMMA MemoryStep == ASSUME MemoryInv, [Next]_vars PROVE MemoryInv'
BY FindTagsStep, ScanEntryStep, ScanEndsStep, AddLowerPageStep, AddLowerEndsStep,
  InitHeadInfoStep, OtherMemorySteps DEF Next

-----------------------------------------------------------------------------
(* What MMU_init_pf accepts and what it hands over.                        *)

\* A page is free memory exactly if it is in the lower region or behind the
\* kernel: one across the regions would hold the kernel's beginning.
LEMMA FreePages ==
  ASSUME MemoryInv, TwoRegions, LowerAdded, HeadFilled, NEW a \in Nat, a % PAGE_SIZE = 0, 0 < a
  PROVE  (a < W /\ \A b \in Page(a) : Available(b) /\ ~InKernel(b)) <=>
           \/ a < lower_length
           \/ base_addr <= a /\ a < base_addr + length
<1> DEFINE low == mem_info[lower].length
           start == mem_info[upper].base_addr
           end == mem_info[upper].base_addr + mem_info[upper].length
           ke == EndOf(sec_head)
<1>1. PAGE_SIZE \in Nat /\ PAGE_SIZE > 0 /\ W \in Nat
  BY LoaderFacts
<1>2. /\ low \in Nat /\ start \in Nat /\ start > 0 /\ end \in Nat /\ end < W /\ low <= start
      /\ lower_length \in Nat /\ lower_length % PAGE_SIZE = 0
      /\ lower_length <= low /\ low < lower_length + PAGE_SIZE
      /\ start <= end
  BY LowerFacts
<1>3. /\ base_addr \in Nat /\ base_addr % PAGE_SIZE = 0 /\ start = sec_head[2].addr
      /\ ke <= base_addr /\ base_addr < ke + PAGE_SIZE
      /\ length \in Nat /\ base_addr + length \in Nat /\ (base_addr + length) % PAGE_SIZE = 0
      /\ base_addr + length <= end /\ end < base_addr + length + PAGE_SIZE
  BY DEF HeadFilled
<1>4. ke \in Nat
  BY SectionFacts
<1>5. \A b \in Nat : Available(b) <=> b < low \/ (start <= b /\ b < end)
  <2>1. \A b \in Nat : Available(b) <=>
          \E n \in Regions : b \in mem_info[n].base_addr .. mem_info[n].base_addr + mem_info[n].length - 1
    BY DEF Available, Regions
  <2>2. \A b \in Nat : b \in mem_info[lower].base_addr .. mem_info[lower].base_addr + mem_info[lower].length - 1
                         <=> b < low
    BY <1>2 DEF TwoRegions
  <2>3. \A b \in Nat : b \in mem_info[upper].base_addr .. mem_info[upper].base_addr + mem_info[upper].length - 1
                         <=> start <= b /\ b < end
    BY <1>2, LowerFacts
  <2> QED
    BY <2>1, <2>2, <2>3 DEF TwoRegions
<1>6. \A b \in Nat : InKernel(b) => start <= b /\ b < ke
  <2>1. ASSUME NEW b \in Nat, NEW n \in DOMAIN sec_head,
               b \in sec_head[n].addr .. sec_head[n].addr + sec_head[n].size - 1
        PROVE  start <= b /\ b < ke
    <3>1. n \in 1 .. Len(sec_head) /\ sec_head[n].addr \in Nat /\ sec_head[n].size \in Nat
          /\ sec_head[2].addr \in Nat
      BY SectionFacts
    <3>2. n # 1
      BY <2>1, <3>1, SectionFacts
    <3>3. n \in 2 .. Len(sec_head)
      BY <3>1, <3>2, SectionFacts
    <3>4. sec_head[2].addr <= sec_head[n].addr /\ sec_head[n].addr + sec_head[n].size <= ke
      BY <3>3, SectionFacts
    <3>5. /\ sec_head[n].addr <= b /\ b < sec_head[n].addr + sec_head[n].size /\ ke \in Nat
          /\ start = sec_head[2].addr
      BY <1>3, <1>4, <2>1, <3>1
    <3> HIDE DEF start, ke
    <3> QED
      BY <3>1, <3>4, <3>5
  <2> QED
    BY <2>1 DEF InKernel
<1>7. InKernel(start)
  <2>1. 2 \in DOMAIN sec_head /\ sec_head[2].size \in Nat /\ sec_head[2].size > 0
    BY SectionFacts
  <2> QED
    BY <1>2, <1>3, <2>1 DEF InKernel
<1>8. \A c \in start .. ke - 1 : \E b \in c .. c + PAGE_SIZE - 1 : InKernel(b)
  <2>1. ASSUME NEW c \in start .. ke - 1 PROVE \E b \in c .. c + PAGE_SIZE - 1 : InKernel(b)
    <3>1. PICK b \in c .. c + PAGE_SIZE - 1 : \E n \in 2 .. Len(sec_head) :
            b \in sec_head[n].addr .. sec_head[n].addr + sec_head[n].size - 1
      BY <1>3, <2>1, SectionFacts
    <3>2. 2 .. Len(sec_head) \subseteq DOMAIN sec_head
      BY SectionFacts
    <3> QED
      BY <3>1, <3>2 DEF InKernel
  <2> QED
    BY <2>1
<1> HIDE DEF low, start, end, ke
<1>9. /\ a \in Page(a) /\ a + PAGE_SIZE - 1 \in Page(a) /\ Page(a) \subseteq Nat
      /\ \A b \in Page(a) : a <= b /\ b < a + PAGE_SIZE
      /\ \A b \in Nat : a <= b /\ b < a + PAGE_SIZE => b \in Page(a)
  BY <1>1 DEF Page
<1>10. ASSUME a < lower_length
       PROVE  a < W /\ \A b \in Page(a) : Available(b) /\ ~InKernel(b)
  <2>1. a + PAGE_SIZE <= lower_length
    BY <1>1, <1>2, <1>10, MultipleSteps
  <2>2. a < W /\ \A b \in Page(a) : b < low /\ ~(start <= b)
    BY <1>1, <1>2, <1>9, <2>1
  <2> QED
    BY <1>5, <1>6, <1>9, <2>2
<1>11. ASSUME base_addr <= a, a < base_addr + length
       PROVE  a < W /\ \A b \in Page(a) : Available(b) /\ ~InKernel(b)
  <2>1. a + PAGE_SIZE <= base_addr + length
    BY <1>1, <1>3, <1>11, MultipleSteps
  <2>2. start <= ke
    BY <1>2, <1>4, <1>6, <1>7
  <2>3. a < W /\ \A b \in Page(a) : start <= b /\ b < end /\ ~(b < ke)
    BY <1>1, <1>2, <1>3, <1>4, <1>9, <1>11, <2>1, <2>2
  <2> QED
    BY <1>5, <1>6, <1>9, <2>3
<1>12. ASSUME \A b \in Page(a) : Available(b) /\ ~InKernel(b),
              ~(a < lower_length), ~(base_addr <= a /\ a < base_addr + length)
       PROVE  FALSE
  <2>1. \A b \in Nat : a <= b /\ b < a + PAGE_SIZE => (b < low \/ (start <= b /\ b < end)) /\ b # start
    BY <1>5, <1>7, <1>9, <1>12
  <2>2. CASE a < low
    <3>1. ~(start <= a + PAGE_SIZE - 1)
      BY <1>1, <1>2, <2>1, <2>2
    <3>2. a + PAGE_SIZE - 1 < low
      BY <1>1, <2>1, <3>1
    <3>3. lower_length < a + PAGE_SIZE => lower_length + PAGE_SIZE <= a + PAGE_SIZE
      BY <1>1, <1>2, <1>12
    <3> QED
      BY <1>1, <1>2, <3>2, <3>3, <1>12
  <2>3. CASE ~(a < low)
    <3>1. start <= a /\ a + PAGE_SIZE - 1 < end
      BY <1>1, <1>2, <2>1, <2>3
    <3>2. ~(a < ke)
      <4>1. a < ke => \E b \in a .. a + PAGE_SIZE - 1 : InKernel(b)
        BY <1>2, <1>4, <1>8, <3>1
      <4> QED
        BY <1>12, <4>1 DEF Page
    <3>3. base_addr <= a
      <4>1. a < base_addr => a + PAGE_SIZE <= base_addr
        BY <1>1, <1>3, MultipleSteps
      <4> QED
        BY <1>1, <1>3, <1>4, <3>2, <4>1
    <3>4. ~(a < base_addr + length)
      BY <1>12, <3>3
    <3> QED
      BY <1>1, <1>2, <1>3, <3>1, <3>4
  <2> QED
    BY <2>2, <2>3
<1> QED
  BY <1>10, <1>11, <1>12

LEMMA MemoryInvariance == Spec => []MemoryInv
<1>1. Init => MemoryInv
  BY MemoryInit
<1>2. MemoryInv /\ [Next]_vars => MemoryInv'
  BY MemoryStep
<1> QED
  BY <1>1, <1>2, PTL DEF Spec

\* The allocator gets every page of free memory but the first, and no other.
LEMMA FreeMemory == ASSUME MemoryInv PROVE HandsOverFreeMemory
<1> SUFFICES ASSUME pc = "done" PROVE HandsOverFreeMemory
  BY DEF HandsOverFreeMemory
<1>1. TwoRegions /\ LowerAdded /\ HeadFilled
  BY DEF MemoryInv, Adding
<1>2. /\ PAGE_SIZE \in Nat /\ PAGE_SIZE > 0 /\ W \in Nat
      /\ lower_length \in Nat /\ base_addr \in Nat /\ length \in Nat
      /\ lower_length <= mem_info[lower].length /\ mem_info[lower].length \in Nat
      /\ mem_info[lower].length <= mem_info[upper].base_addr /\ mem_info[upper].base_addr \in Nat
      /\ mem_info[upper].base_addr > 0
  BY <1>1, LoaderFacts, LowerFacts DEF HeadFilled
<1>3. mem_info[upper].base_addr <= base_addr
  <2>1. /\ 2 \in 2 .. Len(sec_head) /\ sec_head[2].addr \in Nat /\ sec_head[2].size \in Nat
        /\ sec_head[2].addr + sec_head[2].size <= EndOf(sec_head) /\ EndOf(sec_head) \in Nat
    BY SectionFacts
  <2>2. mem_info[upper].base_addr = sec_head[2].addr /\ EndOf(sec_head) <= base_addr
    BY <1>1 DEF HeadFilled
  <2> QED
    BY <1>2, <2>1, <2>2
<1> DEFINE free == {a \in Addresses \ {0} :
                      a % PAGE_SIZE = 0 /\ \A b \in Page(a) : Available(b) /\ ~InKernel(b)}
<1>4. ASSUME NEW a \in Nat, a % PAGE_SIZE = 0, 0 < a
      PROVE  a \in free <=> a \in pages \cup UpperPages
  <2>1. a \in pages <=> a < lower_length
    BY <1>1, <1>4 DEF LowerAdded, PagesBelow
  <2>2. a \in UpperPages <=> base_addr <= a /\ a < base_addr + length
    BY <1>2, <1>4 DEF UpperPages
  <2>3. a \in Addresses \ {0} <=> a < W
    BY <1>2, <1>4 DEF Addresses
  <2>4. (a < W /\ \A b \in Page(a) : Available(b) /\ ~InKernel(b)) <=>
           \/ a < lower_length
           \/ base_addr <= a /\ a < base_addr + length
    BY <1>1, <1>4, FreePages
  <2> QED
    BY <1>4, <2>1, <2>2, <2>3, <2>4
<1>5. \A a \in free \cup pages \cup UpperPages : a \in Nat /\ a % PAGE_SIZE = 0 /\ 0 < a
  <2>1. \A a \in free : a \in Nat /\ a % PAGE_SIZE = 0 /\ 0 < a
    BY <1>2 DEF Addresses
  <2>2. \A a \in pages : a \in Nat /\ a % PAGE_SIZE = 0 /\ 0 < a
    BY <1>1 DEF LowerAdded, PagesBelow
  <2>3. \A a \in UpperPages : a \in Nat /\ a % PAGE_SIZE = 0 /\ 0 < a
    BY <1>2, <1>3 DEF UpperPages
  <2> QED
    BY <2>1, <2>2, <2>3
<1>6. pages \cup UpperPages = free
  <2> HIDE DEF free
  <2> QED
    BY <1>4, <1>5
<1>7. pages \cap UpperPages = {}
  <2>1. \A a \in pages : a \in Nat /\ a < lower_length
    BY <1>1 DEF LowerAdded, PagesBelow
  <2>2. \A a \in UpperPages : base_addr <= a
    BY <1>2 DEF UpperPages
  <2> QED
    BY <1>2, <1>3, <2>1, <2>2
<1> QED
  BY <1>1, <1>6, <1>7 DEF HandsOverFreeMemory, HeadFilled

LEMMA SupportedOnly == ASSUME MemoryInv PROVE OnlySupportedMachines
<1>1. ASSUME pc = "done" PROVE Supported
  <2>1. TagsFound /\ TwoRegions /\ LowerAdded /\ HeadFilled
    BY <1>1 DEF MemoryInv, Adding
  <2> QED
    BY <2>1, TagFacts DEF Supported, TwoRegions, LowerAdded, HeadFilled
<1> QED
  BY <1>1 DEF MemoryInv, OnlySupportedMachines

-----------------------------------------------------------------------------
(* The kernel starts where it is supported.                                *)

\* The boot runs MMU_init_pf and nothing else of it.
LEMMA MemorySteps == ASSUME [KernelNext]_kernel_vars PROVE [Next]_vars
BY Steps DEF Check, pf, vars

\* Each check that is passed is one the machine passes.
MachineInv ==
  /\ cpu \subseteq {"multiboot", "cpuid", "long_mode"}
  /\ main # "hlt" => err = ""
  /\ main = "hlt" =>
       \/ err = "0" /\ "multiboot" \notin cpu
       \/ err = "1" /\ "multiboot" \in cpu /\ "cpuid" \notin cpu
       \/ err = "2" /\ "multiboot" \in cpu /\ "cpuid" \in cpu /\ "long_mode" \notin cpu
  /\ main \notin {"check_multiboot", "hlt"} => "multiboot" \in cpu
  /\ main \notin {"check_multiboot", "check_cpuid", "hlt"} => "cpuid" \in cpu
  /\ main \notin Checking => "long_mode" \in cpu

LEMMA MachineInit == ASSUME KernelInit PROVE MachineInv
BY KernelMainAssumption DEF KernelInit, MachineInv, Checking

LEMMA MachineStep == ASSUME MachineInv, [KernelNext]_kernel_vars PROVE MachineInv'
<1> USE DEF Checking, Advances
<1>1. CASE Check("check_multiboot", "multiboot", "0", "check_cpuid")
  BY <1>1 DEF Check, MachineInv
<1>2. CASE Check("check_cpuid", "cpuid", "1", "check_long_mode")
  BY <1>2 DEF Check, MachineInv
<1>3. CASE Check("check_long_mode", "long_mode", "2", "set_up_page_tables")
  BY <1>3 DEF Check, MachineInv
<1>4. CASE /\ \/ Advances("set_up_page_tables", "enable_paging") \/ Advances("enable_paging", "lgdt")
              \/ Advances("lgdt", "VGA_clear") \/ Advances("GDT_init", "IRQ_init")
              \/ Advances("IRQ_init", "KBD_init") \/ Advances("MMU_init_vp", "kmalloc_init")
              \/ Advances("VGA_clear", "GDT_init") \/ Advances("KBD_init", "SER_init")
              \/ Advances("SER_init", "MMU_init_pf") \/ Advances("MMU_init_pf", "MMU_init_vp")
              \/ Advances("kmalloc_init", "IRQ_start") \/ main' = main
           /\ UNCHANGED <<cpu, err>>
  BY <1>4 DEF MachineInv
<1> QED
  BY <1>1, <1>2, <1>3, <1>4, Steps

KernelInv == MachineInv /\ TablesInv /\ MemoryInv

LEMMA KernelInvariance == KernelSpec => []KernelInv
<1>1. KernelInit => KernelInv
  BY MachineInit, TablesInit, MemoryInit DEF KernelInit, KernelInv
<1>2. KernelInv /\ [KernelNext]_kernel_vars => KernelInv'
  BY MachineStep, TablesStep, MemorySteps, MemoryStep DEF KernelInv
<1> QED
  BY <1>1, <1>2, PTL DEF KernelSpec

\* A machine boot.asm cannot run the kernel on is told so and left alone, and
\* of the others those whose memory pf_alloc.c supports are started.
THEOREM StartsOnlyWhereSupported == KernelSpec => []StartsWhereSupported
<1>1. ASSUME KernelInv PROVE StartsWhereSupported
  <2>1. OnlySupportedMachines
    BY <1>1, SupportedOnly DEF KernelInv
  <2>2. err # "" <=> main = "hlt"
    BY <1>1 DEF KernelInv, MachineInv
  <2> DEFINE missing == {"multiboot", "cpuid", "long_mode"} \ cpu
  <2>3. main = "hlt" =>
          \/ err = "0" /\ "multiboot" \in missing
          \/ err = "1" /\ "multiboot" \notin missing /\ "cpuid" \in missing
          \/ err = "2" /\ missing = {"long_mode"}
    BY <1>1 DEF KernelInv, MachineInv
  <2>4. cr3 # "none" => missing = {}
    BY <1>1 DEF KernelInv, MachineInv, TablesInv, Checking, Paging
  <2> QED
    BY <2>1, <2>2, <2>3, <2>4 DEF StartsWhereSupported
<1> QED
  BY <1>1, KernelInvariance, PTL

\* What MMU_init_pf hands over is the free memory, page by page, on whichever
\* machine the kernel starts.
THEOREM HandsOverAlways == KernelSpec => []HandsOverFreeMemory
<1>1. KernelInv => HandsOverFreeMemory
  BY FreeMemory DEF KernelInv
<1> QED
  BY <1>1, KernelInvariance, PTL

-----------------------------------------------------------------------------
(* The string functions.  A loop is a recursive function: it exists, has one *)
(* value, and that is told by counting its turns.                            *)

LEMMA LeastNumber ==
  ASSUME NEW T, T \subseteq Nat, T # {}
  PROVE  \E x \in T : \A y \in T : x <= y
<1>1. PICK x \in T : \A y \in T : ~ (<<y, x>> \in OpToRel(<, Nat))
  BY WFMin, NatLessThanWellFounded
<1>2. \A y \in T : ~ (y < x)
  BY <1>1 DEF OpToRel
<1> QED
  BY <1>2

LEMMA Counting ==
  ASSUME NEW T, 0 \in T, \A k \in Nat : k \in T => k + 1 \in T
  PROVE  Nat \subseteq T
<1> SUFFICES ASSUME ~(Nat \subseteq T) PROVE FALSE
  OBVIOUS
<1>1. PICK x \in Nat \ T : \A y \in Nat \ T : x <= y
  <2>1. Nat \ T # {} /\ Nat \ T \subseteq Nat
    OBVIOUS
  <2> QED
    BY <2>1, LeastNumber, Zenon
<1>2. x - 1 \in Nat /\ x - 1 \in T
  BY <1>1
<1> QED
  BY <1>1, <1>2

\* A loop from k upwards that returns val[k] at the first k of stop.
Search(g, stop, val) ==
  /\ g = [k \in Nat |-> g[k]]
  /\ \A k \in Nat : g[k] = IF k \in stop THEN val[k] ELSE g[k + 1]

LEMMA SearchEnds ==
  ASSUME NEW stop, NEW val,
         NEW g, Search(g, stop, val),
         NEW a \in Nat, NEW e \in Nat, a <= e, e \in stop, \A j \in a .. e - 1 : j \notin stop
  PROVE  g[a] = val[e]
<1> DEFINE T == {k \in Nat : e - k >= a => g[e - k] = val[e]}
<1>1. 0 \in T
  BY DEF Search
<1>2. ASSUME NEW k \in Nat, k \in T PROVE k + 1 \in T
  <2> SUFFICES ASSUME e - (k + 1) >= a PROVE g[e - (k + 1)] = val[e]
    OBVIOUS
  <2>1. e - (k + 1) \in a .. e - 1 /\ e - (k + 1) \in Nat /\ e - (k + 1) + 1 = e - k /\ e - k >= a
    OBVIOUS
  <2>2. g[e - (k + 1)] = g[e - k]
    BY <2>1 DEF Search
  <2> QED
    BY <1>2, <2>1, <2>2
<1> HIDE DEF T
<1>3. e - a \in T
  BY <1>1, <1>2, Counting
<1> QED
  BY <1>3 DEF T

LEMMA SearchDefined ==
  ASSUME NEW stop, NEW val
  PROVE  \E g : Search(g, stop, val)
<1> DEFINE From(k) == {j \in Nat : j >= k /\ j \in stop}
           First(k) == CHOOSE j \in From(k) : \A a \in From(k) : j <= a
           G == [k \in Nat |-> IF From(k) = {} THEN 0 ELSE val[First(k)]]
<1>1. ASSUME NEW k \in Nat, From(k) # {}
      PROVE  First(k) \in From(k) /\ \A a \in From(k) : First(k) <= a
  <2>1. From(k) \subseteq Nat
    OBVIOUS
  <2> HIDE DEF From
  <2> QED
    BY <1>1, <2>1, LeastNumber
<1>2. ASSUME NEW k \in Nat PROVE G[k] = IF k \in stop THEN val[k] ELSE G[k + 1]
  <2>1. CASE k \in stop
    <3>1. k \in From(k)
      BY <2>1
    <3>2. First(k) = k
      <4>1. First(k) \in From(k) /\ First(k) <= k
        BY <1>1, <3>1
      <4>2. First(k) \in Nat /\ First(k) >= k
        BY <4>1
      <4> HIDE DEF First
      <4> QED
        BY <4>1, <4>2
    <3> QED
      BY <2>1, <3>1, <3>2
  <2>2. CASE k \notin stop
    <3>1. From(k) = From(k + 1)
      BY <2>2
    <3> HIDE DEF From
    <3>2. First(k) = First(k + 1)
      BY <3>1
    <3> QED
      BY <2>2, <3>1, <3>2
  <2> QED
    BY <2>1, <2>2
<1> HIDE DEF G
<1>3. G = [k \in Nat |-> G[k]]
  BY DEF G
<1> QED
  BY <1>2, <1>3 DEF Search

\* A loop of n turns from x, each a step on a state in S.
Turns(f, S, x, n, step) ==
  f \in [0 .. n -> S] /\ f[0] = x /\ \A k \in 1 .. n : f[k] = step[k][f[k - 1]]

LEMMA LoopDefined ==
  ASSUME NEW S, NEW x \in S, NEW n \in Nat, NEW step \in [1 .. n -> [S -> S]]
  PROVE  \E f : Turns(f, S, x, n, step)
<1> DEFINE Runs(f, j) == f[0] = x /\ \A k \in 1 .. j : f[k] = step[k][f[k - 1]]
           T == {j \in Nat : j <= n => \E f \in [0 .. j -> S] : Runs(f, j)}
<1>1. 0 \in T
  <2>1. [k \in 0 .. 0 |-> x] \in [0 .. 0 -> S] /\ Runs([k \in 0 .. 0 |-> x], 0)
    OBVIOUS
  <2> QED
    BY <2>1, Zenon
<1>2. ASSUME NEW j \in Nat, j \in T PROVE j + 1 \in T
  <2> SUFFICES ASSUME j + 1 <= n PROVE \E f \in [0 .. j + 1 -> S] : Runs(f, j + 1)
    OBVIOUS
  <2>1. PICK f \in [0 .. j -> S] : Runs(f, j)
    BY <1>2
  <2> DEFINE g == [k \in 0 .. j + 1 |-> IF k <= j THEN f[k] ELSE step[k][f[k - 1]]]
  <2>2. j + 1 \in 1 .. n /\ f[j] \in S /\ step[j + 1] \in [S -> S]
    OBVIOUS
  <2>3. g \in [0 .. j + 1 -> S]
    BY <2>2
  <2>4. Runs(g, j + 1)
    BY <2>1
  <2> QED
    BY <2>3, <2>4
<1> HIDE DEF T
<1>3. n \in T
  BY <1>1, <1>2, Counting
<1> QED
  BY <1>3 DEF T, Turns

\* Two loops of n turns that do the same to the same state.
Alike(f, g, n) ==
  f[0] = g[0] /\ \A k \in 1 .. n : f[k - 1] = g[k - 1] => f[k] = g[k]

LEMMA LoopsAgree ==
  ASSUME NEW n \in Nat, NEW f, NEW g, Alike(f, g, n)
  PROVE  \A k \in 0 .. n : f[k] = g[k]
<1> DEFINE T == {k \in Nat : k <= n => f[k] = g[k]}
<1>1. 0 \in T
  BY DEF Alike
<1>2. ASSUME NEW k \in Nat, k \in T PROVE k + 1 \in T
  <2> SUFFICES ASSUME k + 1 <= n PROVE f[k + 1] = g[k + 1]
    OBVIOUS
  <2>1. k + 1 \in 1 .. n /\ (k + 1) - 1 = k /\ f[k] = g[k]
    BY <1>2
  <2> QED
    BY <2>1 DEF Alike
<1> HIDE DEF T
<1>3. Nat \subseteq T
  BY <1>1, <1>2, Counting
<1> QED
  BY <1>3 DEF T

LEMMA MemsetIs ==
  ASSUME NEW m, DOMAIN m \subseteq Nat, m = [a \in DOMAIN m |-> m[a]],
         NEW s \in Nat, NEW n \in Nat, NEW c, ~(c >= BYTE)
  PROVE  memset(m, s, c, n)
           = [a \in DOMAIN m |-> IF a \in s .. s + n - 1 THEN c % BYTE ELSE m[a]]
<1> DEFINE F(f) == f = [k \in 0 .. n |->
                         IF k = 0 THEN m ELSE [f[k - 1] EXCEPT ![s + k - 1] = c % BYTE]]
           Part(k) == [a \in DOMAIN m |-> IF a \in s .. s + k - 1 THEN c % BYTE ELSE m[a]]
           parts == [k \in 0 .. n |-> Part(k)]
<1>2. Part(0) = m
  OBVIOUS
<1>3. ASSUME NEW k \in 1 .. n PROVE Part(k) = [Part(k - 1) EXCEPT ![s + k - 1] = c % BYTE]
  <2>1. k \in Nat /\ k - 1 \in Nat /\ s + k - 1 \in Nat
    OBVIOUS
  <2>2. ASSUME NEW a \in DOMAIN m
        PROVE  Part(k)[a] = [Part(k - 1) EXCEPT ![s + k - 1] = c % BYTE][a]
    <3>1. a \in Nat
      OBVIOUS
    <3> QED
      BY <2>1, <3>1
  <2> QED
    BY <2>2
<1>4. F(parts)
  <2> HIDE DEF Part
  <2>1. ASSUME NEW k \in 0 .. n
        PROVE  parts[k] = IF k = 0 THEN m ELSE [parts[k - 1] EXCEPT ![s + k - 1] = c % BYTE]
    BY <1>2, <1>3
  <2> QED
    BY <2>1
<1> DEFINE f == CHOOSE f : F(f)
<1>5. memset(m, s, c, n) = f[n]
  BY Zenon DEF memset
<1> HIDE DEF Part
<1>6. F(f)
  <2> HIDE DEF F
  <2> QED
    BY <1>4
<1> HIDE DEF f
<1>7. Alike(f, parts, n)
  <2> DEFINE Turn(x, k) == [x EXCEPT ![s + k - 1] = c % BYTE]
  <2>1. f[0] = m /\ parts[0] = m
    BY <1>4, <1>6, <1>2
  <2>2. ASSUME NEW k \in 1 .. n PROVE f[k] = Turn(f[k - 1], k) /\ parts[k] = Turn(parts[k - 1], k)
    <3>1. k \in 0 .. n /\ k # 0
      OBVIOUS
    <3>2. parts[k] = IF k = 0 THEN m ELSE Turn(parts[k - 1], k)
      <4> HIDE DEF parts
      <4> QED
        BY <1>4, <3>1
    <3>3. f[k] = IF k = 0 THEN m ELSE Turn(f[k - 1], k)
      <4> HIDE DEF parts
      <4> QED
        BY <1>6, <3>1
    <3> HIDE DEF Turn
    <3> QED
      BY <3>1, <3>2, <3>3
  <2> HIDE DEF parts, F, Turn
  <2> QED
    BY <2>1, <2>2, Zenon DEF Alike
<1>8. f[n] = parts[n]
  <2> HIDE DEF parts, F
  <2> QED
    BY <1>7, LoopsAgree
<1> QED
  BY <1>5, <1>8 DEF Part

LEMMA MemcpyIs ==
  ASSUME NEW m, DOMAIN m \subseteq Nat, m = [a \in DOMAIN m |-> m[a]],
         NEW t \in Nat, NEW s \in Nat, NEW n \in Nat, InMemory(m, s, n), t <= s \/ t >= s + n
  PROVE  memcpy(m, t, s, n)
           = [a \in DOMAIN m |-> IF a \in t .. t + n - 1 THEN m[s + a - t] ELSE m[a]]
<1> DEFINE F(f) == f = [k \in 0 .. n |->
                         IF k = 0 THEN m
                           ELSE [f[k - 1] EXCEPT ![t + k - 1] = f[k - 1][s + k - 1]]]
           Part(k) == [a \in DOMAIN m |-> IF a \in t .. t + k - 1 THEN m[s + a - t] ELSE m[a]]
           parts == [k \in 0 .. n |-> Part(k)]
<1>2. Part(0) = m
  OBVIOUS
<1>3. ASSUME NEW k \in 1 .. n
      PROVE  Part(k) = [Part(k - 1) EXCEPT ![t + k - 1] = Part(k - 1)[s + k - 1]]
  <2>1. k \in Nat /\ k - 1 \in Nat /\ s + k - 1 \in Nat /\ t + k - 1 \in Nat
    OBVIOUS
  <2>2. s + k - 1 \in DOMAIN m
    BY <2>1 DEF InMemory
  <2>3. s + k - 1 \notin t .. t + k - 2
    OBVIOUS
  <2>4. Part(k - 1)[s + k - 1] = m[s + k - 1]
    BY <2>1, <2>2, <2>3
  <2> DEFINE x == Part(k - 1)[s + k - 1]
  <2>5. ASSUME NEW a \in DOMAIN m
        PROVE  Part(k)[a] = [Part(k - 1) EXCEPT ![t + k - 1] = x][a]
    <3>1. a \in Nat
      OBVIOUS
    <3>2. CASE a = t + k - 1
      <4>1. s + a - t = s + k - 1
        BY <3>2
      <4>2. Part(k)[a] = m[s + k - 1]
        BY <2>1, <3>1, <3>2, <4>1
      <4>3. [Part(k - 1) EXCEPT ![t + k - 1] = x][a] = x
        <5> HIDE DEF x
        <5> QED
          BY <3>2
      <4> QED
        BY <4>2, <4>3, <2>4
    <3>3. CASE a # t + k - 1
      <4>1. Part(k)[a] = Part(k - 1)[a]
        BY <2>1, <3>1, <3>3
      <4>2. [Part(k - 1) EXCEPT ![t + k - 1] = x][a] = Part(k - 1)[a]
        <5> HIDE DEF x
        <5> QED
          BY <3>3
      <4> QED
        BY <4>1, <4>2
    <3> QED
      BY <3>2, <3>3
  <2> HIDE DEF x
  <2>6. Part(k) = [Part(k - 1) EXCEPT ![t + k - 1] = x]
    BY <2>5
  <2> QED
    BY <2>6 DEF x
<1>4. F(parts)
  <2> HIDE DEF Part
  <2>1. ASSUME NEW k \in 0 .. n
        PROVE  parts[k] = IF k = 0 THEN m ELSE [parts[k - 1] EXCEPT ![t + k - 1] = parts[k - 1][s + k - 1]]
    BY <1>2, <1>3
  <2> QED
    BY <2>1
<1> DEFINE f == CHOOSE f : F(f)
<1>5. memcpy(m, t, s, n) = f[n]
  BY Zenon DEF memcpy
<1> HIDE DEF Part
<1>6. F(f)
  <2> HIDE DEF F
  <2> QED
    BY <1>4
<1> HIDE DEF f
<1>7. Alike(f, parts, n)
  <2> DEFINE Turn(x, k) == [x EXCEPT ![t + k - 1] = x[s + k - 1]]
  <2>1. f[0] = m /\ parts[0] = m
    BY <1>4, <1>6, <1>2
  <2>2. ASSUME NEW k \in 1 .. n PROVE f[k] = Turn(f[k - 1], k) /\ parts[k] = Turn(parts[k - 1], k)
    <3>1. k \in 0 .. n /\ k # 0
      OBVIOUS
    <3>2. parts[k] = IF k = 0 THEN m ELSE Turn(parts[k - 1], k)
      <4> HIDE DEF parts
      <4> QED
        BY <1>4, <3>1
    <3>3. f[k] = IF k = 0 THEN m ELSE Turn(f[k - 1], k)
      <4> HIDE DEF parts
      <4> QED
        BY <1>6, <3>1
    <3> HIDE DEF Turn
    <3> QED
      BY <3>1, <3>2, <3>3
  <2> HIDE DEF parts, F, Turn
  <2> QED
    BY <2>1, <2>2, Zenon DEF Alike
<1>8. f[n] = parts[n]
  <2> HIDE DEF parts, F
  <2> QED
    BY <1>7, LoopsAgree
<1> QED
  BY <1>5, <1>8 DEF Part

LEMMA StrlenIs ==
  ASSUME NEW m, NEW s \in Nat, NEW e \in Nat, m[s + e] = 0, \A j \in 0 .. e - 1 : m[s + j] # 0
  PROVE  strlen(m, s) = e
<1> DEFINE F(f) == f = [k \in Nat |-> IF m[s + k] = 0 THEN k ELSE f[k + 1]]
           stop == {k \in Nat : m[s + k] = 0}
           val == [k \in Nat |-> k]
           G(f) == Search(f, stop, val)
           found == CHOOSE f : F(f)
<1>1. strlen(m, s) = found[0]
  BY Zenon DEF strlen
<1>2. ASSUME NEW g PROVE F(g) <=> G(g)
  <2>1. \A k \in Nat : (m[s + k] = 0 <=> k \in stop) /\ val[k] = k
    OBVIOUS
  <2> HIDE DEF stop, val
  <2>2. ASSUME F(g) PROVE G(g)
    BY <2>1, <2>2 DEF Search
  <2>3. ASSUME G(g) PROVE F(g)
    <3>1. \A k \in Nat : g[k] = IF m[s + k] = 0 THEN k ELSE g[k + 1]
      BY <2>1, <2>3 DEF Search
    <3>2. g = [k \in Nat |-> g[k]]
      BY <2>3 DEF Search
    <3> HIDE DEF G
    <3> QED
      BY <3>1, <3>2
  <2> QED
    BY <2>2, <2>3
<1>3. \E g : G(g)
  <2> HIDE DEF stop, val
  <2> QED
    BY SearchDefined, Zenon
<1>4. F(found)
  <2> HIDE DEF F, G
  <2> QED
    BY <1>2, <1>3
<1>5. G(found)
  <2> HIDE DEF F, G, found
  <2> QED
    BY <1>2, <1>4
<1>6. 0 <= e /\ e \in stop /\ \A j \in 0 .. e - 1 : j \notin stop
  OBVIOUS
<1>7. found[0] = val[e]
  <2> HIDE DEF found, stop, val, F
  <2> QED
    BY <1>5, <1>6, SearchEnds
<1> QED
  BY <1>1, <1>7

\* e is the first place at or after s where the string ends, or has a c.
LEMMA StrchrIs ==
  ASSUME NEW m, NEW s \in Nat, NEW c, c # 0, NEW e \in Nat,
         m[s + e] = 0 \/ Char(m[s + e]) = c,
         \A j \in 0 .. e - 1 : m[s + j] # 0 /\ Char(m[s + j]) # c
  PROVE  strchr(m, s, c) = IF m[s + e] = 0 THEN NULL ELSE s + e
<1> DEFINE F(f) == f = [k \in Nat |->
                          IF m[s + k] = 0 THEN IF c = 0 THEN s + k + 1 ELSE NULL
                          ELSE IF Char(m[s + k]) = c THEN s + k
                          ELSE f[k + 1]]
           stop == {k \in Nat : m[s + k] = 0 \/ Char(m[s + k]) = c}
           val == [k \in Nat |-> IF m[s + k] = 0 THEN NULL ELSE s + k]
           G(f) == Search(f, stop, val)
           found == CHOOSE f : F(f)
<1>1. strchr(m, s, c) = found[0]
  BY Zenon DEF strchr
<1>2. ASSUME NEW g PROVE F(g) <=> G(g)
  <2>1. \A k \in Nat : /\ m[s + k] = 0 \/ Char(m[s + k]) = c <=> k \in stop
                       /\ val[k] = IF m[s + k] = 0 THEN NULL ELSE s + k
    OBVIOUS
  <2> HIDE DEF stop, val
  <2>2. ASSUME F(g) PROVE G(g)
    <3>1. ASSUME NEW k \in Nat PROVE g[k] = IF k \in stop THEN val[k] ELSE g[k + 1]
      BY <2>1, <2>2
    <3>2. g = [k \in Nat |-> g[k]]
      BY <2>2
    <3> QED
      BY <3>1, <3>2 DEF Search
  <2>3. ASSUME G(g) PROVE F(g)
    <3>1. ASSUME NEW k \in Nat
          PROVE  g[k] = IF m[s + k] = 0 THEN IF c = 0 THEN s + k + 1 ELSE NULL
                        ELSE IF Char(m[s + k]) = c THEN s + k
                        ELSE g[k + 1]
      BY <2>1, <2>3 DEF Search
    <3>2. g = [k \in Nat |-> g[k]]
      BY <2>3 DEF Search
    <3> HIDE DEF G
    <3> QED
      BY <3>1, <3>2
  <2> QED
    BY <2>2, <2>3
<1>3. \E g : G(g)
  <2> HIDE DEF stop, val
  <2> QED
    BY SearchDefined, Zenon
<1>4. F(found)
  <2> HIDE DEF F, G
  <2> QED
    BY <1>2, <1>3
<1>5. G(found)
  <2> HIDE DEF F, G, found
  <2> QED
    BY <1>2, <1>4
<1>6. 0 <= e /\ e \in stop /\ \A j \in 0 .. e - 1 : j \notin stop
  OBVIOUS
<1>7. found[0] = val[e]
  <2> HIDE DEF found, stop, val, F
  <2> QED
    BY <1>5, <1>6, SearchEnds
<1> HIDE DEF found
<1> QED
  BY <1>1, <1>7

LEMMA EndFacts ==
  ASSUME NEW m, DOMAIN m \subseteq Nat, NEW s \in Nat, IsString(m, s)
  PROVE  /\ End(m, s) \in DOMAIN m /\ End(m, s) >= s /\ m[End(m, s)] = 0
         /\ \A a \in DOMAIN m : a >= s /\ a < End(m, s) => m[a] # 0
<1> DEFINE T == {e \in DOMAIN m : e >= s /\ m[e] = 0}
<1>1. T \subseteq Nat /\ T # {}
  BY DEF IsString
<1>2. PICK e \in T : \A y \in T : e <= y
  <2> HIDE DEF T
  <2> QED
    BY <1>1, LeastNumber
<1>3. e \in DOMAIN m /\ e >= s /\ m[e] = 0 /\ \A a \in DOMAIN m : a >= s /\ a < e => m[a] # 0
  <2>1. ASSUME NEW a \in DOMAIN m, a >= s, a < e, m[a] = 0 PROVE FALSE
    BY <1>1, <1>2, <2>1
  <2> QED
    BY <1>2, <2>1
<1> QED
  BY <1>3, Zenon DEF End

\* A memory of the assumption.
IsMemory(m) ==
  \E size \in 0 .. UINT : m \in [0 .. size - 1 -> 0 .. BYTE - 1] /\ size * BYTE <= UINT \div 2

LEMMA MemoryFacts ==
  ASSUME NEW m, IsMemory(m)
  PROVE  /\ DOMAIN m \subseteq Nat /\ m = [a \in DOMAIN m |-> m[a]]
         /\ \A a \in DOMAIN m : m[a] \in 0 .. BYTE - 1 /\ 0 .. a \subseteq DOMAIN m
BY StringsAssumption DEF IsMemory

LEMMA StringFacts ==
  ASSUME NEW m, IsMemory(m), NEW s \in Nat, IsString(m, s)
  PROVE  /\ strlen(m, s) = End(m, s) - s /\ strlen(m, s) \in Nat
         /\ End(m, s) \in DOMAIN m /\ m[End(m, s)] = 0
         /\ \A j \in 0 .. strlen(m, s) - 1 : s + j \in DOMAIN m /\ m[s + j] # 0
<1> DEFINE e == End(m, s)
           n == e - s
<1>1. e \in DOMAIN m /\ e >= s /\ m[e] = 0 /\ \A a \in DOMAIN m : a >= s /\ a < e => m[a] # 0
  BY EndFacts, MemoryFacts
<1> HIDE DEF e
<1>2. e \in Nat /\ 0 .. e \subseteq DOMAIN m
  BY <1>1, MemoryFacts
<1>3. n \in Nat /\ s + n = e
  BY <1>1, <1>2
<1>4. \A j \in 0 .. n - 1 : s + j \in DOMAIN m /\ m[s + j] # 0
  <2>1. ASSUME NEW j \in 0 .. n - 1 PROVE s + j \in DOMAIN m /\ m[s + j] # 0
    <3>1. s + j \in 0 .. e /\ s + j >= s /\ s + j < e
      BY <1>2, <1>3
    <3> QED
      BY <1>1, <1>2, <3>1
  <2> QED
    BY <2>1
<1> HIDE DEF n
<1>5. strlen(m, s) = n
  BY <1>1, <1>3, <1>4, StrlenIs
<1> QED
  BY <1>1, <1>3, <1>4, <1>5 DEF n, e

\* f[k] is the sum of the first k bytes at s.
Sums(f, m, s, n) ==
  f \in [0 .. n -> Nat] /\ f[0] = 0 /\ \A k \in 1 .. n : f[k] = f[k - 1] + m[s + k - 1]

LEMMA WordFacts ==
  /\ UINT \in Nat /\ SIZE \in Nat /\ BYTE \in Nat /\ UINT > 0 /\ SIZE > 0 /\ BYTE > 0
  /\ UINT \div 2 \in Nat /\ UINT = 2 * (UINT \div 2)
  /\ SIZE >= UINT /\ \E q \in Nat : SIZE = q * UINT + UINT
<1>1. UINT \in Nat /\ SIZE \in Nat /\ BYTE \in Nat /\ UINT > 0 /\ SIZE > 0 /\ BYTE > 0
  BY StringsAssumption
<1>2. UINT \div 2 \in Nat /\ UINT = 2 * (UINT \div 2)
  BY <1>1, StringsAssumption
<1>3. SIZE \div UINT \in Nat /\ SIZE = (SIZE \div UINT) * UINT
  BY <1>1, StringsAssumption, FactorOf
<1> DEFINE q == SIZE \div UINT
<1>4. q # 0
  BY <1>1, <1>3
<1>5. q - 1 \in Nat /\ q * UINT = (q - 1) * UINT + UINT
  <2> HIDE DEF q
  <2> QED
    BY <1>1, <1>3, <1>4 DEF q
<1>6. (q - 1) * UINT \in Nat
  BY <1>1, <1>5, Products
<1>7. SIZE = (q - 1) * UINT + UINT
  BY <1>3, <1>5
<1> HIDE DEF q
<1>8. SIZE >= UINT
  <2> DEFINE p == (q - 1) * UINT
  <2> HIDE DEF p
  <2> QED
    BY <1>1, <1>6, <1>7 DEF p
<1> QED
  BY <1>1, <1>2, <1>5, <1>7, <1>8, Zenon

\* The sums of a string do not overflow.
LEMMA StrvalIs ==
  ASSUME NEW m, IsMemory(m), NEW s \in Nat, IsString(m, s)
  PROVE  \E f : /\ Sums(f, m, s, strlen(m, s)) /\ strval(m, s) = f[strlen(m, s)]
                /\ strval(m, s) < UINT \div 2
<1> DEFINE n == strlen(m, s)
<1>1. PICK size \in 0 .. UINT :
        m \in [0 .. size - 1 -> 0 .. BYTE - 1] /\ size * BYTE <= UINT \div 2
  BY DEF IsMemory
<1>2. n \in Nat /\ s + n \in DOMAIN m /\ \A j \in 0 .. n - 1 : s + j \in DOMAIN m
  <2>1. End(m, s) = s + n /\ n \in Nat
    <3>1. End(m, s) \in Nat
      BY StringFacts, MemoryFacts
    <3> QED
      BY <3>1, StringFacts
  <2> QED
    BY <2>1, StringFacts
<1> HIDE DEF n
<1>3. n + 1 <= size /\ size \in Nat
  BY <1>1, <1>2
<1> DEFINE step == [k \in 1 .. n |-> [x \in Nat |-> x + m[s + k - 1]]]
<1>4. ASSUME NEW k \in 1 .. n PROVE m[s + k - 1] \in 0 .. BYTE - 1
  <2>1. k - 1 \in 0 .. n - 1 /\ s + (k - 1) = s + k - 1
    BY <1>2
  <2> QED
    BY <1>1, <1>2, <2>1
<1>5. step \in [1 .. n -> [Nat -> Nat]]
  BY <1>4, WordFacts
<1>6. PICK f \in [0 .. n -> Nat] : f[0] = 0 /\ \A k \in 1 .. n : f[k] = step[k][f[k - 1]]
  <2> HIDE DEF step
  <2>1. 0 \in Nat /\ n \in Nat
    BY <1>2
  <2>2. \E f : Turns(f, Nat, 0, n, step)
    BY <1>5, <2>1, LoopDefined
  <2> QED
    BY <2>2 DEF Turns
<1>7. Sums(f, m, s, n)
  <2>1. ASSUME NEW k \in 1 .. n PROVE f[k] = f[k - 1] + m[s + k - 1]
    <3>1. f[k - 1] \in Nat
      BY <1>2, <1>6
    <3> QED
      BY <1>6, <3>1
  <2> QED
    BY <1>6, <2>1 DEF Sums
<1> HIDE DEF step
<1>8. ASSUME NEW k \in 0 .. n PROVE f[k] <= k * BYTE /\ k * BYTE < UINT \div 2
  <2> DEFINE T == {j \in Nat : j <= n => f[j] <= j * BYTE}
  <2>1. 0 \in T
    BY <1>6, WordFacts
  <2>2. ASSUME NEW j \in Nat, j \in T PROVE j + 1 \in T
    <3> SUFFICES ASSUME j + 1 <= n PROVE f[j + 1] <= (j + 1) * BYTE
      OBVIOUS
    <3>1. j + 1 \in 1 .. n /\ (j + 1) - 1 = j /\ s + (j + 1) - 1 = s + j /\ j <= n
      BY <1>2
    <3>2. f[j + 1] = f[j] + m[s + j] /\ f[j] <= j * BYTE /\ f[j] \in Nat
      BY <1>7, <2>2, <3>1, SMTT(30) DEF Sums
    <3>3. m[s + j] \in 0 .. BYTE - 1
      BY <1>4, <3>1
    <3>4. (j + 1) * BYTE = j * BYTE + BYTE /\ j * BYTE \in Nat
      BY WordFacts
    <3> QED
      BY <3>2, <3>3, <3>4, WordFacts
  <2> HIDE DEF T
  <2>3. k \in T
    <3>1. Nat \subseteq T
      BY <2>1, <2>2, Counting
    <3> QED
      BY <1>2, <3>1
  <2>4. (k + 1) * BYTE <= size * BYTE /\ (k + 1) * BYTE = k * BYTE + BYTE /\ k * BYTE \in Nat
        /\ size * BYTE \in Nat
    <3>1. k \in Nat /\ k + 1 \in Nat /\ k + 1 <= size
      BY <1>2, <1>3
    <3>2. (k + 1) * BYTE <= size * BYTE
      BY <1>3, <3>1, Products, WordFacts
    <3> QED
      BY <1>3, <3>1, <3>2, WordFacts
  <2>5. f[k] <= k * BYTE
    BY <2>3 DEF T
  <2> QED
    BY <1>1, <2>4, <2>5, WordFacts
<1> DEFINE F(g) == g = [k \in 0 .. strlen(m, s) |->
                         IF k = 0 THEN 0 ELSE (g[k - 1] + m[s + k - 1]) % SIZE]
           sum == CHOOSE g : F(g)
<1>9. strval(m, s) = sum[strlen(m, s)]
  BY Zenon DEF strval
<1>10. F(f)
  <2>1. ASSUME NEW k \in 1 .. n PROVE f[k] = (f[k - 1] + m[s + k - 1]) % SIZE
    <3>1. k \in 0 .. n /\ f[k] \in Nat
      BY <1>2, <1>6
    <3>2. f[k] < UINT \div 2
      BY <1>8, <1>2, <3>1, WordFacts
    <3>3. f[k] < SIZE
      BY <3>1, <3>2, WordFacts
    <3>4. f[k] % SIZE = f[k]
      BY <3>1, <3>3, WordFacts
    <3> QED
      BY <1>7, <3>4 DEF Sums
  <2> QED
    BY <1>6, <1>2, <2>1 DEF n
<1>11. F(sum)
  <2> HIDE DEF F
  <2> QED
    BY <1>10
<1> HIDE DEF sum
<1>12. sum[n] = f[n]
  <2> DEFINE Turn(x, k) == (x + m[s + k - 1]) % SIZE
  <2>1. f[0] = 0 /\ sum[0] = 0
    BY <1>2, <1>6, <1>11 DEF n
  <2>2. ASSUME NEW k \in 1 .. n PROVE f[k] = Turn(f[k - 1], k) /\ sum[k] = Turn(sum[k - 1], k)
    <3>1. k \in 0 .. n /\ k # 0
      BY <1>2
    <3>2. f[k] = Turn(f[k - 1], k)
      BY <1>10, <3>1 DEF n
    <3>3. sum[k] = Turn(sum[k - 1], k)
      BY <1>11, <3>1 DEF n
    <3> QED
      BY <3>2, <3>3
  <2> HIDE DEF Turn, F
  <2>3. \A k \in 1 .. n : sum[k - 1] = f[k - 1] => sum[k] = f[k]
    BY <2>2, Zenon
  <2>5. sum[0] = f[0]
    BY <2>1
  <2>4. \A k \in 0 .. n : sum[k] = f[k]
    <3>1. Alike(sum, f, n) /\ n \in Nat
      BY <1>2, <2>3, <2>5 DEF Alike
    <3> QED
      BY <3>1, LoopsAgree
  <2> QED
    BY <1>2, <2>4
<1>13. f[n] < UINT \div 2
  <2>1. n \in 0 .. n
    BY <1>2
  <2>2. f[n] \in Nat /\ n * BYTE \in Nat
    BY <1>2, <1>6, <2>1, Products, WordFacts
  <2> QED
    BY <1>8, <2>1, <2>2, WordFacts
<1> QED
  BY <1>7, <1>9, <1>12, <1>13 DEF n

LEMMA Remainder ==
  ASSUME NEW p \in Nat, p > 0, NEW q \in Nat, NEW r \in 0 .. p - 1
  PROVE  (q * p + r) % p = r
OBVIOUS

\* The difference of two sums survives the way through size_t and int.
LEMMA Difference ==
  ASSUME NEW x \in Nat, NEW y \in Nat, x < UINT \div 2, y < UINT \div 2
  PROVE  AsInt((x - y) % SIZE) = x - y
<1> DEFINE H == UINT \div 2
<1>1. H \in Nat /\ UINT = 2 * H /\ x - y \in Int /\ x - y < H /\ y - x < H
  BY WordFacts
<1> HIDE DEF H
<1>2. CASE x >= y
  <2>1. (x - y) % SIZE = x - y
    BY <1>1, <1>2, WordFacts
  <2>2. (x - y) % UINT = x - y
    BY <1>1, <1>2, WordFacts
  <2> QED
    BY <1>1, <2>1, <2>2 DEF AsInt, H
<1>3. CASE x < y
  <2> DEFINE d == x - y
  <2>1. d \in Int /\ d < 0 /\ -d < H
    BY <1>1, <1>3
  <2> HIDE DEF d
  <2>2. d % SIZE = SIZE + d
    <3>1. SIZE + d \in 0 .. SIZE - 1
      BY <1>1, <2>1, WordFacts
    <3> QED
      BY <2>1, <3>1, WordFacts
  <2>3. PICK q \in Nat : SIZE = q * UINT + UINT
    BY WordFacts
  <2>4. UINT + d \in 0 .. UINT - 1 /\ UINT + d >= H /\ UINT + d # H
    BY <1>1, <2>1
  <2>5. (SIZE + d) % UINT = UINT + d
    <3>1. q * UINT \in Nat
      BY WordFacts
    <3>2. SIZE + d = q * UINT + (UINT + d)
      BY <2>1, <2>3, <3>1, WordFacts
    <3>3. (q * UINT + (UINT + d)) % UINT = UINT + d
      BY <2>4, Remainder, WordFacts
    <3> QED
      BY <3>2, <3>3
  <2>6. AsInt(d % SIZE) = (UINT + d) - UINT
    BY <1>1, <2>2, <2>4, <2>5 DEF AsInt, H
  <2>7. (UINT + d) - UINT = d
    BY <2>1, WordFacts
  <2> QED
    BY <2>6, <2>7 DEF d
<1> QED
  BY <1>2, <1>3

SameBytes(m, s, t, n) == \A k \in 0 .. n - 1 : m[s + k] = m[t + k]

\* Equal strings have equal sums, and the end of a string has a part of its sum.
LEMMA SumsEqual ==
  ASSUME NEW m, NEW s \in Nat, NEW t \in Nat, NEW n \in Nat, NEW f, NEW g,
         Sums(f, m, s, n), Sums(g, m, t, n), SameBytes(m, s, t, n)
  PROVE  f[n] = g[n]
<1>1. Alike(f, g, n)
  <2>1. ASSUME NEW k \in 1 .. n PROVE m[s + k - 1] = m[t + k - 1]
    <3>1. k - 1 \in 0 .. n - 1 /\ s + (k - 1) = s + k - 1 /\ t + (k - 1) = t + k - 1
      OBVIOUS
    <3> QED
      BY <3>1 DEF SameBytes
  <2> QED
    BY <2>1 DEF Sums, Alike
<1>2. \A k \in 0 .. n : f[k] = g[k]
  BY <1>1, LoopsAgree
<1> QED
  BY <1>2

LEMMA SumsGrow ==
  ASSUME NEW m, NEW s \in Nat, NEW d \in Nat, NEW n \in Nat, d > 0, NEW f, NEW g,
         Sums(f, m, s, d + n), Sums(g, m, s + d, n),
         \A k \in 0 .. d + n - 1 : m[s + k] \in Nat \ {0}
  PROVE  f[d + n] > g[n]
<1> DEFINE T == {k \in Nat : k < d => f[k + 1] > 0}
           U == {k \in Nat : k <= n => f[d + k] = f[d] + g[k]}
<1>1. \A k \in 0 .. d + n : f[k] \in Nat
  BY DEF Sums
<1>2. \A k \in 0 .. n : g[k] \in Nat
  BY DEF Sums
<1>3. \A k \in 0 .. d + n - 1 : f[k + 1] = f[k] + m[s + k]
  <2>1. ASSUME NEW k \in 0 .. d + n - 1 PROVE f[k + 1] = f[k] + m[s + k]
    <3>1. k + 1 \in 1 .. d + n /\ (k + 1) - 1 = k /\ s + (k + 1) - 1 = s + k
      OBVIOUS
    <3> QED
      BY <3>1 DEF Sums
  <2> QED
    BY <2>1
<1>4. \A k \in 0 .. n - 1 : g[k + 1] = g[k] + m[s + (d + k)]
  <2>1. ASSUME NEW k \in 0 .. n - 1 PROVE g[k + 1] = g[k] + m[s + (d + k)]
    <3>1. k + 1 \in 1 .. n /\ (k + 1) - 1 = k /\ s + d + (k + 1) - 1 = s + (d + k)
      OBVIOUS
    <3> QED
      BY <3>1 DEF Sums
  <2> QED
    BY <2>1
<1>5. Nat \subseteq T
  <2>1. 0 \in T
    <3>1. 0 \in 0 .. d + n - 1 /\ 0 \in 0 .. d + n
      OBVIOUS
    <3>2. f[0 + 1] = f[0] + m[s + 0] /\ f[0] \in Nat /\ m[s + 0] \in Nat \ {0}
      BY <1>1, <1>3, <3>1
    <3> QED
      BY <3>2
  <2>2. ASSUME NEW k \in Nat, k \in T PROVE k + 1 \in T
    <3> SUFFICES ASSUME k + 1 < d PROVE f[(k + 1) + 1] > 0
      OBVIOUS
    <3>1. k + 1 \in 0 .. d + n - 1 /\ k + 1 \in 0 .. d + n /\ k < d
      OBVIOUS
    <3>2. f[(k + 1) + 1] = f[k + 1] + m[s + (k + 1)] /\ m[s + (k + 1)] \in Nat
          /\ f[k + 1] \in Nat /\ f[k + 1] > 0
      BY <1>1, <1>3, <2>2, <3>1
    <3> QED
      BY <3>2
  <2> HIDE DEF T
  <2> QED
    BY <2>1, <2>2, Counting
<1>6. Nat \subseteq U
  <2>1. 0 \in U
    <3>1. g[0] = 0 /\ d \in 0 .. d + n
      BY DEF Sums
    <3>2. f[d] \in Nat
      BY <1>1, <3>1
    <3> QED
      BY <3>1, <3>2
  <2>2. ASSUME NEW k \in Nat, k \in U PROVE k + 1 \in U
    <3> SUFFICES ASSUME k + 1 <= n PROVE f[d + (k + 1)] = f[d] + g[k + 1]
      OBVIOUS
    <3>1. k \in 0 .. n - 1 /\ k \in 0 .. n /\ d + k \in 0 .. d + n - 1 /\ d + k + 1 = d + (k + 1)
          /\ d \in 0 .. d + n
      OBVIOUS
    <3>2. f[d + k + 1] = f[d + k] + m[s + (d + k)] /\ m[s + (d + k)] \in Nat
          /\ g[k + 1] = g[k] + m[s + (d + k)] /\ g[k] \in Nat /\ f[d] \in Nat
      BY <1>1, <1>2, <1>3, <1>4, <3>1
    <3>3. f[d + k] = f[d] + g[k]
      BY <2>2, <3>1
    <3>4. f[d + (k + 1)] = f[d + k + 1]
      BY <3>1
    <3> HIDE DEF U
    <3> QED
      BY <3>2, <3>3, <3>4
  <2> HIDE DEF U
  <2> QED
    BY <2>1, <2>2, Counting
<1>7. d - 1 \in T /\ n \in U
  BY <1>5, <1>6
<1>8. f[d] > 0 /\ f[d + n] = f[d] + g[n]
  <2>1. d - 1 < d /\ (d - 1) + 1 = d
    OBVIOUS
  <2> QED
    BY <1>7, <2>1
<1>9. f[d] \in Nat /\ g[n] \in Nat
  BY <1>1, <1>2
<1> QED
  BY <1>8, <1>9

\* A character is that of one byte, and below BYTE.
LEMMA CharFacts ==
  ASSUME NEW b \in 0 .. BYTE - 1
  PROVE  /\ Char(b) \in Int /\ ~(Char(b) >= BYTE) /\ ~(b >= BYTE)
         /\ Char(b) % BYTE = b /\ b % BYTE = b
         /\ \A d \in 0 .. BYTE - 1 : Char(d) = Char(b) <=> d = b
         /\ Char(b) = 0 <=> b = 0
<1>1. BYTE \in Nat /\ BYTE > 0 /\ BYTE \div 2 \in 0 .. BYTE
  BY WordFacts
<1>2. b % BYTE = b /\ (b - BYTE) % BYTE = b
  BY <1>1, SMTT(30)
<1>3. ASSUME NEW d \in 0 .. BYTE - 1
      PROVE  /\ d < BYTE \div 2 => Char(d) = d
             /\ ~(d < BYTE \div 2) => Char(d) = d - BYTE
  BY Zenon DEF Char
<1>4. Char(b) \in {b, b - BYTE}
  BY <1>1, <1>3
<1>5. Char(b) \in Int /\ ~(Char(b) >= BYTE) /\ ~(b >= BYTE)
  BY <1>1, <1>4
<1>6. Char(b) % BYTE = b
  BY <1>2, <1>4
<1>7. ASSUME NEW d \in 0 .. BYTE - 1 PROVE Char(d) = Char(b) <=> d = b
  <2>1. d \in Int /\ b \in Int
    OBVIOUS
  <2> QED
    BY <1>1, <1>3, <2>1
<1>8. Char(b) = 0 <=> b = 0
  <2>1. 0 < BYTE \div 2 /\ b \in Int /\ b < BYTE
    BY <1>1, StringsAssumption
  <2> QED
    BY <1>1, <1>3, <2>1
<1> QED
  BY <1>2, <1>5, <1>6, <1>7, <1>8

LEMMA MemoryFunctions ==
  ASSUME NEW m, IsMemory(m), NEW s \in DOMAIN m, NEW t \in DOMAIN m, NEW n \in Nat
  PROVE  MemoryFunctionsRight(m, s, t, n)
<1>1. DOMAIN m \subseteq Nat /\ m = [a \in DOMAIN m |-> m[a]] /\ s \in Nat /\ t \in Nat
  BY MemoryFacts
<1>2. ASSUME NEW b \in 0 .. BYTE - 1, NEW c \in {b, Char(b)}
      PROVE  memset(m, t, c, n) = [a \in DOMAIN m |-> IF a \in t .. t + n - 1 THEN b ELSE m[a]]
  <2>1. ~(c >= BYTE) /\ c % BYTE = b
    BY CharFacts, WordFacts
  <2> QED
    BY <1>1, <2>1, MemsetIs
<1>4. ASSUME NEW c \in BYTE .. 2 * BYTE PROVE memset(m, t, c, n) = Halted
  <2>1. c >= BYTE
    BY WordFacts
  <2> QED
    BY <2>1, Zenon DEF memset
<1>3. ASSUME InMemory(m, s, n), t <= s \/ t >= s + n
      PROVE  memcpy(m, t, s, n)
               = [a \in DOMAIN m |-> IF a \in t .. t + n - 1 THEN m[s + a - t] ELSE m[a]]
  BY <1>1, <1>3, MemcpyIs
<1> QED
  BY <1>2, <1>3, <1>4, Zenon DEF MemoryFunctionsRight

LEMMA Copied ==
  ASSUME NEW m, IsMemory(m), NEW s \in DOMAIN m, NEW t \in DOMAIN m, IsString(m, s),
         InMemory(m, t, strlen(m, s) + 1), t <= s \/ t >= s + (strlen(m, s) + 1)
  PROVE  LET copied == strcpy(m, t, s)
             n == strlen(m, s)
         IN /\ IsMemory(copied)
            /\ \A k \in 0 .. n : copied[t + k] = m[s + k]
            /\ t + n < s \/ t > s + n => \A k \in 0 .. n : copied[s + k] = m[s + k]
            /\ t + n \in DOMAIN copied /\ s + n \in DOMAIN copied
<1> DEFINE n == strlen(m, s)
           copied == [a \in DOMAIN m |-> IF a \in t .. t + (n + 1) - 1 THEN m[s + a - t] ELSE m[a]]
<1>1. DOMAIN m \subseteq Nat /\ m = [a \in DOMAIN m |-> m[a]] /\ s \in Nat /\ t \in Nat
      /\ \A a \in DOMAIN m : m[a] \in 0 .. BYTE - 1 /\ 0 .. a \subseteq DOMAIN m
  BY MemoryFacts
<1>2. n \in Nat /\ s + n \in DOMAIN m
  <2>1. End(m, s) \in Nat /\ n = End(m, s) - s /\ n \in Nat /\ End(m, s) \in DOMAIN m
    BY <1>1, StringFacts
  <2>2. s + n = End(m, s)
    BY <1>1, <2>1
  <2> QED
    BY <2>1, <2>2
<1>3. t <= s \/ t >= s + (n + 1)
  OBVIOUS
<1>4. InMemory(m, t, n + 1)
  OBVIOUS
<1> HIDE DEF n
<1>5. \A k \in 0 .. n : s + k \in DOMAIN m /\ t + k \in DOMAIN m
  <2>1. ASSUME NEW k \in 0 .. n PROVE s + k \in DOMAIN m /\ t + k \in DOMAIN m
    <3>1. s + k \in 0 .. s + n /\ t + k \in t .. t + (n + 1) - 1
      BY <1>1, <1>2
    <3> QED
      BY <1>1, <1>2, <1>4, <3>1 DEF InMemory
  <2> QED
    BY <2>1
<1>6. InMemory(m, s, n + 1)
  <2>1. ASSUME NEW a \in s .. s + (n + 1) - 1 PROVE a \in DOMAIN m
    <3>1. a - s \in 0 .. n /\ s + (a - s) = a
      BY <1>1, <1>2
    <3> QED
      BY <1>5, <3>1
  <2> QED
    BY <2>1 DEF InMemory
<1>7. strcpy(m, t, s) = copied
  <2>1. strcpy(m, t, s) = memcpy(m, t, s, n + 1)
    BY DEF strcpy, n
  <2> DEFINE len == n + 1
  <2>2. len \in Nat
    BY <1>2
  <2> HIDE DEF len
  <2>3. InMemory(m, s, len) /\ (t <= s \/ t >= s + len)
    BY <1>3, <1>6 DEF len
  <2>4. memcpy(m, t, s, len)
          = [a \in DOMAIN m |-> IF a \in t .. t + len - 1 THEN m[s + a - t] ELSE m[a]]
    BY <1>1, <2>2, <2>3, MemcpyIs
  <2> QED
    BY <2>1, <2>4, Zenon DEF len
<1>8. IsMemory(copied)
  <2>1. PICK size \in 0 .. UINT :
          m \in [0 .. size - 1 -> 0 .. BYTE - 1] /\ size * BYTE <= UINT \div 2
    BY DEF IsMemory
  <2>2. ASSUME NEW a \in DOMAIN m PROVE copied[a] \in 0 .. BYTE - 1
    <3>1. CASE a \in t .. t + (n + 1) - 1
      <4>1. a - t \in 0 .. n /\ s + a - t = s + (a - t)
        BY <1>1, <1>2, <3>1
      <4> QED
        BY <1>1, <1>5, <3>1, <4>1
    <3>2. CASE a \notin t .. t + (n + 1) - 1
      BY <1>1, <3>2
    <3> QED
      BY <3>1, <3>2
  <2>3. copied \in [0 .. size - 1 -> 0 .. BYTE - 1]
    BY <2>1, <2>2
  <2> HIDE DEF copied
  <2> QED
    BY <2>1, <2>3 DEF IsMemory
<1>9. ASSUME NEW k \in 0 .. n
      PROVE  /\ copied[t + k] = m[s + k]
             /\ t + n < s \/ t > s + n => copied[s + k] = m[s + k]
  <2>1. t + k \in t .. t + (n + 1) - 1 /\ s + (t + k) - t = s + k
    BY <1>1, <1>2
  <2>2. t + n < s \/ t > s + n => s + k \notin t .. t + (n + 1) - 1
    BY <1>1, <1>2
  <2> QED
    BY <1>5, <2>1, <2>2
<1>10. n \in 0 .. n /\ DOMAIN copied = DOMAIN m
  BY <1>2
<1> HIDE DEF copied
<1> QED
  BY <1>5, <1>7, <1>8, <1>9, <1>10 DEF n

LEMMA StringEnds ==
  ASSUME NEW m, IsMemory(m), NEW s \in DOMAIN m, IsString(m, s)
  PROVE  LET n == strlen(m, s)
         IN n \in Nat /\ End(m, s) = s + n /\ s + n \in DOMAIN m /\ m[s + n] = 0
            /\ \A j \in 0 .. n - 1 : s + j \in DOMAIN m /\ m[s + j] # 0
<1> DEFINE n == strlen(m, s)
<1>1. s \in Nat /\ End(m, s) \in Nat
  BY StringFacts, MemoryFacts
<1>2. n \in Nat /\ n = End(m, s) - s
  BY <1>1, StringFacts
<1>3. End(m, s) = s + n
  BY <1>1, <1>2
<1> QED
  BY <1>1, <1>2, <1>3, StringFacts

LEMMA CopiedStrings ==
  ASSUME NEW m, IsMemory(m), NEW s \in DOMAIN m, NEW t \in DOMAIN m, IsString(m, s),
         InMemory(m, t, strlen(m, s) + 1), t <= s \/ t >= s + (strlen(m, s) + 1)
  PROVE  LET n == strlen(m, s) + 1
             copied == strcpy(m, t, s)
         IN /\ IsString(copied, t) /\ strlen(copied, t) = n - 1
            /\ t + n <= s \/ t >= s + n => strcmp(copied, s, t) = 0
<1> DEFINE n == strlen(m, s)
           copied == strcpy(m, t, s)
<1>1. s \in Nat /\ t \in Nat
  BY MemoryFacts
<1>2. n \in Nat /\ m[s + n] = 0 /\ \A j \in 0 .. n - 1 : m[s + j] # 0
  BY StringEnds
<1>3. /\ IsMemory(copied)
      /\ \A k \in 0 .. n : copied[t + k] = m[s + k]
      /\ t + n < s \/ t > s + n => \A k \in 0 .. n : copied[s + k] = m[s + k]
      /\ t + n \in DOMAIN copied /\ s + n \in DOMAIN copied
  BY Copied
<1> HIDE DEF n, copied
<1>4. n \in 0 .. n /\ 0 .. n - 1 \subseteq 0 .. n
  BY <1>2
<1>5. copied[t + n] = 0 /\ \A j \in 0 .. n - 1 : copied[t + j] # 0
  BY <1>2, <1>3, <1>4
<1>6. IsString(copied, t)
  <2>1. t + n >= t
    BY <1>1, <1>2
  <2> QED
    BY <1>3, <1>5, <2>1 DEF IsString
<1>7. strlen(copied, t) = n
  BY <1>1, <1>2, <1>5, StrlenIs
<1>8. ASSUME t + n < s \/ t > s + n PROVE strcmp(copied, s, t) = 0
  <2>1. copied[s + n] = 0 /\ \A j \in 0 .. n - 1 : copied[s + j] # 0
    BY <1>2, <1>3, <1>4, <1>8
  <2>2. IsString(copied, s)
    <3>1. s + n >= s
      BY <1>1, <1>2
    <3> QED
      BY <1>3, <2>1, <3>1 DEF IsString
  <2>3. strlen(copied, s) = n
    BY <1>1, <1>2, <2>1, StrlenIs
  <2>4. PICK f : /\ Sums(f, copied, s, n) /\ strval(copied, s) = f[n]
                 /\ strval(copied, s) < UINT \div 2
    BY <1>1, <1>3, <2>2, <2>3, StrvalIs
  <2>5. PICK g : /\ Sums(g, copied, t, n) /\ strval(copied, t) = g[n]
                 /\ strval(copied, t) < UINT \div 2
    BY <1>1, <1>3, <1>6, <1>7, StrvalIs
  <2>6. \A k \in 0 .. n - 1 : copied[s + k] = copied[t + k]
    BY <1>3, <1>4, <1>8
  <2>7. f[n] = g[n]
    <3>1. n \in Nat /\ Sums(f, copied, s, n) /\ Sums(g, copied, t, n)
          /\ SameBytes(copied, s, t, n)
      BY <1>2, <2>4, <2>5, <2>6 DEF SameBytes
    <3> QED
      BY <1>1, <3>1, SumsEqual
  <2>8. f[n] \in Nat /\ g[n] \in Nat
    BY <1>4, <2>4, <2>5 DEF Sums
  <2>9. AsInt((f[n] - g[n]) % SIZE) = f[n] - g[n]
    BY <2>4, <2>5, <2>8, Difference
  <2> QED
    BY <2>4, <2>5, <2>7, <2>8, <2>9 DEF strcmp
<1>9. strlen(copied, t) = (strlen(m, s) + 1) - 1
  BY <1>2, <1>7 DEF n
<1>10. t + (strlen(m, s) + 1) <= s \/ t >= s + (strlen(m, s) + 1) => t + n < s \/ t > s + n
  BY <1>1, <1>2 DEF n
<1>11. t + (strlen(m, s) + 1) <= s \/ t >= s + (strlen(m, s) + 1) => strcmp(copied, s, t) = 0
  BY <1>8, <1>10
<1> QED
  BY <1>6, <1>9, <1>11, Zenon DEF copied

LEMMA Compared ==
  ASSUME NEW m, IsMemory(m), NEW s \in DOMAIN m, NEW t \in DOMAIN m, IsString(m, s), IsString(m, t)
  PROVE  /\ strcmp(m, s, t) = -strcmp(m, t, s)
         /\ t \in s + 1 .. End(m, s) => strcmp(m, s, t) > 0
<1>1. s \in Nat /\ t \in Nat
  BY MemoryFacts
<1> DEFINE n == strlen(m, s)
           k == strlen(m, t)
<1>2. PICK f : Sums(f, m, s, n) /\ strval(m, s) = f[n] /\ strval(m, s) < UINT \div 2
  BY <1>1, StrvalIs
<1>3. PICK g : Sums(g, m, t, k) /\ strval(m, t) = g[k] /\ strval(m, t) < UINT \div 2
  BY <1>1, StrvalIs
<1>4. n \in Nat /\ End(m, s) = s + n /\ m[s + n] = 0
      /\ \A j \in 0 .. n - 1 : s + j \in DOMAIN m /\ m[s + j] # 0
  BY StringEnds
<1>5. k \in Nat
  BY StringEnds
<1> HIDE DEF n, k
<1>6. f[n] \in Nat /\ g[k] \in Nat
  <2>1. n \in 0 .. n /\ k \in 0 .. k
    BY <1>4, <1>5
  <2> QED
    BY <1>2, <1>3, <2>1 DEF Sums
<1>7. strcmp(m, s, t) = f[n] - g[k] /\ strcmp(m, t, s) = g[k] - f[n]
  BY <1>2, <1>3, <1>6, Difference DEF strcmp
<1>8. ASSUME t \in s + 1 .. End(m, s) PROVE f[n] > g[k]
  <2> DEFINE d == t - s
             r == n - d
  <2>1. d \in Nat /\ d > 0 /\ r \in Nat /\ s + d = t /\ d + r = n /\ t + r = s + n
    BY <1>1, <1>4, <1>8
  <2> HIDE DEF d, r
  <2>2. m[t + r] = 0 /\ \A j \in 0 .. r - 1 : m[t + j] # 0
    <3>1. ASSUME NEW j \in 0 .. r - 1 PROVE m[t + j] # 0
      <4>1. d + j \in 0 .. n - 1 /\ s + (d + j) = t + j
        BY <1>1, <2>1
      <4> QED
        BY <1>4, <4>1
    <3> QED
      BY <1>4, <2>1, <3>1
  <2>3. k = r
    BY <1>1, <2>1, <2>2, StrlenIs DEF k
  <2>4. \A j \in 0 .. d + r - 1 : m[s + j] \in Nat \ {0}
    BY <1>4, <2>1, MemoryFacts, WordFacts
  <2>5. Sums(f, m, s, d + r) /\ Sums(g, m, s + d, r)
    BY <1>2, <1>3, <2>1, <2>3
  <2>6. f[d + r] > g[r]
    BY <1>1, <2>1, <2>4, <2>5, SumsGrow
  <2> QED
    BY <2>1, <2>3, <2>6
<1> QED
  BY <1>6, <1>7, <1>8

LEMMA Found ==
  ASSUME NEW m, IsMemory(m), NEW s \in DOMAIN m, IsString(m, s), NEW b \in 1 .. BYTE - 1
  PROVE  LET found == {a \in s .. End(m, s) : m[a] = b}
         IN IF found = {} THEN strchr(m, s, Char(b)) = NULL
              ELSE /\ strchr(m, s, Char(b)) \in found
                   /\ \A a \in found : strchr(m, s, Char(b)) <= a
<1> DEFINE n == strlen(m, s)
           c == Char(b)
           found == {a \in s .. End(m, s) : m[a] = b}
<1>1. s \in Nat /\ c # 0 /\ b \in 0 .. BYTE - 1 /\ b # 0
  BY MemoryFacts, CharFacts, WordFacts
<1>2. n \in Nat /\ End(m, s) = s + n /\ s + n \in DOMAIN m /\ m[s + n] = 0
      /\ \A j \in 0 .. n - 1 : s + j \in DOMAIN m /\ m[s + j] # 0
  BY StringEnds
<1> HIDE DEF n
<1>3. ASSUME NEW a \in s .. s + n PROVE Char(m[a]) = c <=> m[a] = b
  <2>1. a \in DOMAIN m
    <3>1. a \in 0 .. s + n
      BY <1>1, <1>2
    <3> QED
      BY <1>2, <3>1, MemoryFacts
  <2>2. m[a] \in 0 .. BYTE - 1
    BY <2>1, MemoryFacts
  <2> QED
    BY <1>1, <2>2, CharFacts
<1> HIDE DEF c
<1>4. CASE found = {}
  <2>1. ASSUME NEW j \in 0 .. n PROVE Char(m[s + j]) # c
    <3>1. s + j \in s .. s + n
      BY <1>1, <1>2
    <3> QED
      BY <1>2, <1>3, <1>4, <3>1
  <2>2. \A j \in 0 .. n - 1 : m[s + j] # 0 /\ Char(m[s + j]) # c
    <3>1. ASSUME NEW j \in 0 .. n - 1 PROVE j \in 0 .. n
      BY <1>2
    <3> QED
      BY <1>2, <2>1, <3>1
  <2>3. strchr(m, s, c) = IF m[s + n] = 0 THEN NULL ELSE s + n
    BY <1>1, <1>2, <2>2, StrchrIs
  <2> QED
    BY <1>2, <1>4, <2>3 DEF c
<1>5. CASE found # {}
  <2>1. found \subseteq Nat
    BY <1>1
  <2>2. PICK a \in found : \A d \in found : a <= d
    <3> HIDE DEF found
    <3> QED
      BY <1>5, <2>1, LeastNumber
  <2>3. a \in s .. s + n /\ m[a] = b
    BY <1>2, <2>2
  <2> DEFINE e == a - s
  <2>4. e \in Nat /\ s + e = a /\ e <= n
    BY <1>1, <1>2, <2>3
  <2> HIDE DEF e
  <2>5. m[s + e] = b /\ Char(m[s + e]) = c
    BY <1>3, <2>3, <2>4
  <2>6. \A j \in 0 .. e - 1 : m[s + j] # 0 /\ Char(m[s + j]) # c
    <3>1. ASSUME NEW j \in 0 .. e - 1 PROVE m[s + j] # 0 /\ Char(m[s + j]) # c
      <4>1. j \in 0 .. n - 1 /\ s + j \in s .. s + n /\ s + j < a
        BY <1>1, <1>2, <2>4
      <4>2. s + j \notin found
        BY <2>2, <2>3, <4>1
      <4>3. m[s + j] # b
        BY <1>2, <4>1, <4>2
      <4> QED
        BY <1>2, <1>3, <4>1, <4>3
    <3> QED
      BY <3>1
  <2>7. strchr(m, s, c) = IF m[s + e] = 0 THEN NULL ELSE s + e
    BY <1>1, <2>4, <2>5, <2>6, StrchrIs
  <2>8. strchr(m, s, c) = a
    BY <1>1, <2>4, <2>5, <2>7
  <2> HIDE DEF found
  <2> QED
    BY <1>5, <2>2, <2>8 DEF found, c
<1> QED
  BY <1>4, <1>5 DEF c

LEMMA StringFunctions ==
  ASSUME NEW m, IsMemory(m), NEW s \in DOMAIN m, NEW t \in DOMAIN m
  PROVE  StringFunctionsRight(m, s, t)
<1> SUFFICES ASSUME IsString(m, s)
             PROVE  StringFunctionsRight(m, s, t)
  BY DEF StringFunctionsRight
<1>1. strlen(m, s) = End(m, s) - s
  BY StringFacts, MemoryFacts
<1>2. LET n == strlen(m, s) + 1
          copied == strcpy(m, t, s)
      IN InMemory(m, t, n) /\ (t <= s \/ t >= s + n) =>
           /\ IsString(copied, t) /\ strlen(copied, t) = n - 1
           /\ t + n <= s \/ t >= s + n => strcmp(copied, s, t) = 0
  BY CopiedStrings
<1>3. IsString(m, t) => /\ strcmp(m, s, t) = -strcmp(m, t, s)
                        /\ t \in s + 1 .. End(m, s) => strcmp(m, s, t) > 0
  BY Compared
<1>4. \A b \in 1 .. BYTE - 1 :
        LET found == {a \in s .. End(m, s) : m[a] = b}
        IN IF found = {} THEN strchr(m, s, Char(b)) = NULL
             ELSE /\ strchr(m, s, Char(b)) \in found
                  /\ \A a \in found : strchr(m, s, Char(b)) <= a
  BY Found
<1> QED
  BY <1>1, <1>2, <1>3, <1>4, Zenon DEF StringFunctionsRight

\* Whatever they are called with, the string functions do what their names
\* promise and string_test.c tests, string_test.c:131 excepted, which the code
\* fails; and memset asserts against an int that is no byte.
THEOREM StringsAlwaysRight == StringsSpec => []StringsRight
<1> DEFINE Called == buffer = NoBuffer \/ buffer \in Buffers
<1>1. StringsInit => Called
  BY DEF StringsInit
<1>2. Called /\ [StringsCalled]_buffer => Called'
  BY DEF StringsCalled
<1>3. Called => StringsRight
  <2> SUFFICES ASSUME buffer # NoBuffer, buffer \in Buffers PROVE StringsRight
    BY DEF StringsRight
  <2>1. IsMemory(buffer.mem) /\ buffer.s \in DOMAIN buffer.mem /\ buffer.t \in DOMAIN buffer.mem
        /\ buffer.n \in Nat
    BY StringsAssumption DEF IsMemory
  <2> QED
    BY <2>1, MemoryFunctions, StringFunctions DEF StringsRight
<1> QED
  BY <1>1, <1>2, <1>3, PTL DEF StringsSpec

-----------------------------------------------------------------------------
(* Sequences, and FlattenSeq as a loop.                                    *)

\* A sequence is its first element and the rest.
LEMMA FirstAndRest ==
  ASSUME NEW S, NEW s \in Seq(S), s # <<>>
  PROVE  /\ s[1] \in S /\ SubSeq(s, 2, Len(s)) \in Seq(S) /\ Len(s) >= 1
         /\ s = <<s[1]>> \o SubSeq(s, 2, Len(s))
<1>1. Len(s) \in Nat /\ Len(s) >= 1
  BY EmptySeq
<1>2. s[1] \in S
  BY <1>1, ElementOfSeq
<1>3. SubSeq(s, 2, Len(s)) \in Seq(S)
  <2>1. \A k \in 2 .. Len(s) : s[k] \in S
    BY <1>1, ElementOfSeq
  <2> QED
    BY <1>1, <2>1, SubSeqProperties
<1>4. s = <<s[1]>> \o SubSeq(s, 2, Len(s))
  <2>1. SubSeq(s, 1, Len(s)) = <<s[1]>> \o SubSeq(s, 1 + 1, Len(s))
    BY <1>1, SubSeqRecursiveFirst
  <2>2. SubSeq(s, 1, Len(s)) = s
    BY SubSeqFull
  <2> QED
    BY <2>1, <2>2
<1> QED
  BY <1>1, <1>2, <1>3, <1>4

LEMMA Single ==
  ASSUME NEW S, NEW x \in S
  PROVE  <<x>> \in Seq(S) /\ Len(<<x>>) = 1 /\ <<x>>[1] = x /\ <<x>> # <<>>
OBVIOUS

\* What two joined sequences hold.
LEMMA Concat ==
  ASSUME NEW S, NEW a \in Seq(S), NEW b \in Seq(S)
  PROVE  /\ a \o b \in Seq(S) /\ Len(a \o b) = Len(a) + Len(b)
         /\ Len(a) \in Nat /\ Len(b) \in Nat
         /\ \A k \in 1 .. Len(a) : (a \o b)[k] = a[k]
         /\ \A k \in 1 .. Len(b) : (a \o b)[Len(a) + k] = b[k]
<1>1. /\ a \o b \in Seq(S) /\ Len(a \o b) = Len(a) + Len(b)
      /\ Len(a) \in Nat /\ Len(b) \in Nat
      /\ \A k \in 1 .. Len(a) + Len(b) :
           (a \o b)[k] = IF k <= Len(a) THEN a[k] ELSE b[k - Len(a)]
  BY ConcatProperties, LenProperties
<1>2. ASSUME NEW k \in 1 .. Len(a) PROVE (a \o b)[k] = a[k]
  <2>1. k \in 1 .. Len(a) + Len(b) /\ k <= Len(a)
    BY <1>1
  <2> QED
    BY <1>1, <2>1
<1>3. ASSUME NEW k \in 1 .. Len(b) PROVE (a \o b)[Len(a) + k] = b[k]
  <2>1. Len(a) + k \in 1 .. Len(a) + Len(b) /\ ~(Len(a) + k <= Len(a)) /\ (Len(a) + k) - Len(a) = k
    BY <1>1
  <2> QED
    BY <1>1, <2>1
<1> QED
  BY <1>1, <1>2, <1>3

\* What is behind the first of two joined sequences.
LEMMA Behind ==
  ASSUME NEW S, NEW a \in Seq(S), NEW b \in Seq(S)
  PROVE  SubSeq(a \o b, Len(a) + 1, Len(a \o b)) = b
<1> DEFINE ab == a \o b
           c == SubSeq(ab, Len(a) + 1, Len(ab))
<1>1. ab \in Seq(S) /\ Len(ab) = Len(a) + Len(b) /\ Len(a) \in Nat /\ Len(b) \in Nat
      /\ \A k \in 1 .. Len(a) + Len(b) : ab[k] = IF k <= Len(a) THEN a[k] ELSE b[k - Len(a)]
  BY ConcatProperties, LenProperties
<1> HIDE DEF ab
<1>2. \A k \in Len(a) + 1 .. Len(ab) : ab[k] \in S
  BY <1>1, ElementOfSeq
<1>3. /\ c \in Seq(S)
      /\ Len(c) = Len(b)
      /\ \A k \in 1 .. Len(b) : c[k] = ab[Len(a) + 1 + k - 1]
  BY <1>1, <1>2, SubSeqProperties
<1>4. \A k \in 1 .. Len(b) : c[k] = b[k]
  <2>1. ASSUME NEW k \in 1 .. Len(b) PROVE c[k] = b[k]
    <3>1. Len(a) + 1 + k - 1 = Len(a) + k /\ Len(a) + k \in 1 .. Len(a) + Len(b)
          /\ ~(Len(a) + k <= Len(a)) /\ (Len(a) + k) - Len(a) = k
      BY <1>1
    <3> QED
      BY <1>1, <1>3, <3>1
  <2> QED
    BY <2>1
<1> HIDE DEF c
<1>5. c = b
  BY <1>3, <1>4, SeqEqual
<1> QED
  BY <1>5 DEF c, ab

\* The first of two joined sequences is in front.
LEMMA InFront ==
  ASSUME NEW S, NEW a \in Seq(S), NEW b \in Seq(S)
  PROVE  SubSeq(a \o b, 1, Len(a)) = a /\ IsPrefix(a, a \o b)
<1> DEFINE ab == a \o b
           c == SubSeq(ab, 1, Len(a))
<1>1. /\ ab \in Seq(S) /\ Len(ab) = Len(a) + Len(b) /\ Len(a) \in Nat /\ Len(b) \in Nat
      /\ \A k \in 1 .. Len(a) : ab[k] = a[k]
  BY Concat
<1> HIDE DEF ab
<1>2. \A k \in 1 .. Len(a) : ab[k] \in S
  BY <1>1, ElementOfSeq
<1>3. /\ c \in Seq(S) /\ Len(c) = Len(a)
      /\ \A k \in 1 .. Len(a) : c[k] = ab[1 + k - 1]
  BY <1>1, <1>2, SubSeqProperties
<1> HIDE DEF c
<1>4. \A k \in 1 .. Len(a) : c[k] = a[k]
  <2>1. ASSUME NEW k \in 1 .. Len(a) PROVE c[k] = a[k]
    <3>1. 1 + k - 1 = k
      OBVIOUS
    <3> QED
      BY <1>1, <1>3, <3>1
  <2> QED
    BY <2>1
<1>5. c = a
  BY <1>3, <1>4, SeqEqual
<1>6. SubSeq(a, 1, Len(a)) = a
  BY SubSeqFull
<1>7. IsPrefix(a, ab)
  BY <1>1, <1>5, <1>6 DEF IsPrefix, c
<1> QED
  BY <1>5, <1>7 DEF c, ab

LEMMA Regrouped ==
  ASSUME NEW S, NEW x \in Seq(S), NEW y \in Seq(S), NEW z \in Seq(S)
  PROVE  (x \o y) \o z = x \o (y \o z)
BY ConcatAssociative

\* Lists of S as elements.
Lists(S) == Seq(S)

LEMMA ListFacts ==
  \A S : /\ <<>> \in Lists(S)
         /\ \A x \in Lists(S) : <<>> \o x = x /\ x \o <<>> = x
         /\ \A x, y \in Lists(S) : x \o y \in Lists(S)
         /\ \A x, y, z \in Lists(S) : (x \o y) \o z = x \o (y \o z)
BY ConcatAssociative, ConcatProperties, ConcatEmptySeq, EmptySeq, SMTT(30) DEF Lists

\* A sequence that is one element longer.
LEMMA Grown ==
  ASSUME NEW S, NEW x \in Seq(S), NEW c \in S, NEW y \in Seq(S), Len(y) = Len(x) + 1,
         \A k \in 1 .. Len(x) : y[k] = x[k], y[Len(x) + 1] = c
  PROVE  Append(x, c) = y /\ x \o <<c>> = y
<1>1. /\ Append(x, c) \in Seq(S) /\ Len(Append(x, c)) = Len(x) + 1
      /\ (\A k \in 1 .. Len(x) : Append(x, c)[k] = x[k]) /\ Append(x, c)[Len(x) + 1] = c
  BY AppendProperties
<1>2. ASSUME NEW k \in 1 .. Len(y) PROVE Append(x, c)[k] = y[k]
  <2>1. Len(x) \in Nat /\ (k \in 1 .. Len(x) \/ k = Len(x) + 1)
    BY LenProperties
  <2> QED
    BY <1>1, <2>1
<1>3. Append(x, c) = y
  BY <1>1, <1>2, SeqEqual
<1> QED
  BY <1>3, AppendIsConcat

LEMMA Two ==
  ASSUME NEW S, NEW a \in S, NEW b \in S
  PROVE  <<a>> \o <<b>> = <<a, b>>
<1> DEFINE x == <<a>>
           y == <<a, b>>
<1>1. /\ x \in Seq(S) /\ Len(x) = 1 /\ x[1] = a
      /\ y \in Seq(S) /\ Len(y) = 2 /\ y[1] = a /\ y[2] = b
  OBVIOUS
<1> HIDE DEF x, y
<1>2. Len(y) = Len(x) + 1 /\ (\A k \in 1 .. Len(x) : y[k] = x[k]) /\ y[Len(x) + 1] = b
  BY <1>1
<1>3. x \o <<b>> = y
  BY <1>1, <1>2, Grown
<1> QED
  BY <1>3 DEF x, y

LEMMA Three ==
  ASSUME NEW S, NEW a \in S, NEW b \in S, NEW c \in S
  PROVE  /\ <<a, b>> \in Seq(S) /\ <<a>> \o <<b>> = <<a, b>>
         /\ <<a, b, c>> \in Seq(S) /\ <<a, b>> \o <<c>> = <<a, b, c>>
<1> DEFINE x == <<a>>
           y == <<a, b>>
           z == <<a, b, c>>
<1>1. /\ x \in Seq(S) /\ Len(x) = 1 /\ x[1] = a
      /\ y \in Seq(S) /\ Len(y) = 2 /\ y[1] = a /\ y[2] = b
      /\ z \in Seq(S) /\ Len(z) = 3 /\ z[1] = a /\ z[2] = b /\ z[3] = c
  OBVIOUS
<1> HIDE DEF x, y, z
<1>2. x \o <<b>> = y
  <2>1. Len(y) = Len(x) + 1 /\ (\A k \in 1 .. Len(x) : y[k] = x[k]) /\ y[Len(x) + 1] = b
    BY <1>1
  <2> QED
    BY <1>1, <2>1, Grown
<1>3. y \o <<c>> = z
  <2>1. Len(z) = Len(y) + 1 /\ (\A k \in 1 .. Len(y) : z[k] = y[k]) /\ z[Len(y) + 1] = c
    BY <1>1
  <2> QED
    BY <1>1, <2>1, Grown
<1> QED
  BY <1>1, <1>2, <1>3 DEF x, y, z

LEMMA Five ==
  ASSUME NEW S, NEW a \in S, NEW b \in S, NEW c \in S, NEW d \in S, NEW e \in S
  PROVE  /\ <<a, b, c, d>> \in Seq(S) /\ <<a, b, c>> \o <<d>> = <<a, b, c, d>>
         /\ <<a, b, c, d, e>> \in Seq(S) /\ <<a, b, c, d>> \o <<e>> = <<a, b, c, d, e>>
<1> DEFINE x == <<a, b, c>>
           y == <<a, b, c, d>>
           z == <<a, b, c, d, e>>
<1>1. /\ x \in Seq(S) /\ Len(x) = 3 /\ x[1] = a /\ x[2] = b /\ x[3] = c
      /\ y \in Seq(S) /\ Len(y) = 4 /\ y[1] = a /\ y[2] = b /\ y[3] = c /\ y[4] = d
  OBVIOUS
<1>2. z \in Seq(S) /\ Len(z) = 5 /\ z[1] = a /\ z[2] = b /\ z[3] = c /\ z[4] = d /\ z[5] = e
  OBVIOUS
<1> HIDE DEF x, y, z
<1>3. x \o <<d>> = y
  <2>1. \A k \in 1 .. 3 : k = 1 \/ k = 2 \/ k = 3
    OBVIOUS
  <2>2. Len(y) = Len(x) + 1 /\ (\A k \in 1 .. Len(x) : y[k] = x[k]) /\ y[Len(x) + 1] = d
    BY <1>1, <2>1
  <2>3. x \in Seq(S) /\ y \in Seq(S)
    BY <1>1
  <2> QED
    BY <2>2, <2>3, Grown
<1>4. y \o <<e>> = z
  <2>1. \A k \in 1 .. 4 : k = 1 \/ k = 2 \/ k = 3 \/ k = 4
    OBVIOUS
  <2>2. Len(z) = Len(y) + 1 /\ (\A k \in 1 .. Len(y) : z[k] = y[k]) /\ z[Len(y) + 1] = e
    BY <1>1, <1>2, <2>1
  <2>3. y \in Seq(S) /\ z \in Seq(S)
    BY <1>1, <1>2
  <2> QED
    BY <2>2, <2>3, Grown
<1> QED
  BY <1>1, <1>2, <1>3, <1>4 DEF x, y, z

\* A sequence used as a stack.
LEMMA Top ==
  ASSUME NEW S, NEW x \in Seq(S), NEW c \in S
  PROVE  Append(x, c) \in Seq(S) /\ Append(x, c) # <<>> /\ Last(Append(x, c)) = c /\ Front(Append(x, c)) = x
<1> DEFINE y == Append(x, c)
           z == SubSeq(y, 1, Len(y) - 1)
<1>1. /\ y \in Seq(S) /\ y # <<>> /\ Len(y) = Len(x) + 1 /\ Len(x) \in Nat
      /\ (\A k \in 1 .. Len(x) : y[k] = x[k]) /\ y[Len(x) + 1] = c
  BY AppendProperties, LenProperties
<1> HIDE DEF y
<1>2. Last(y) = c
  BY <1>1 DEF Last
<1>3. z = x
  <2>1. Len(y) - 1 = Len(x)
    BY <1>1
  <2>2. \A k \in 1 .. Len(x) : y[k] \in S
    BY <1>1, ElementOfSeq
  <2>3. /\ z \in Seq(S) /\ Len(z) = (IF 1 <= Len(x) THEN Len(x) - 1 + 1 ELSE 0)
        /\ \A k \in 1 .. Len(x) - 1 + 1 : z[k] = y[1 + k - 1]
    BY <1>1, <2>1, <2>2, SubSeqProperties
  <2>4. Len(z) = Len(x) /\ Len(x) - 1 + 1 = Len(x)
    BY <1>1, <2>3
  <2>5. ASSUME NEW k \in 1 .. Len(x) PROVE z[k] = x[k]
    <3>1. 1 + k - 1 = k
      OBVIOUS
    <3> HIDE DEF z
    <3> QED
      BY <1>1, <2>3, <2>4, <3>1
  <2> HIDE DEF z
  <2> QED
    BY <2>3, <2>4, <2>5, SeqEqual
<1> QED
  BY <1>1, <1>2, <1>3 DEF Front, y

\* FlattenSeq as a loop.
Joins(f, ss) ==
  f[0] = <<>> /\ \A k \in 1 .. Len(ss) : f[k] = f[k - 1] \o ss[k]

\* The loop runs, and FlattenSeq is what it gives: the function that defines
\* FlattenSeq is the only one of its kind.
LEMMA JoinsDefined ==
  ASSUME NEW S, NEW ss \in Seq(Lists(S))
  PROVE  \E f \in [0 .. Len(ss) -> Lists(S)] : Joins(f, ss)
<1> DEFINE n == Len(ss)
           step == [k \in 1 .. n |-> [x \in Lists(S) |-> x \o ss[k]]]
<1>1. n \in Nat /\ \A k \in 1 .. n : ss[k] \in Lists(S)
  BY LenProperties, ElementOfSeq
<1> HIDE DEF n
<1>2. step \in [1 .. n -> [Lists(S) -> Lists(S)]]
  <2>1. \A k \in 1 .. n : \A x \in Lists(S) : x \o ss[k] \in Lists(S)
    BY <1>1, ListFacts
  <2> QED
    BY <2>1
<1>3. <<>> \in Lists(S)
  BY ListFacts
<1>4. PICK f : Turns(f, Lists(S), <<>>, n, step)
  <2> HIDE DEF step
  <2> QED
    BY <1>1, <1>2, <1>3, LoopDefined
<1>5. f \in [0 .. n -> Lists(S)] /\ f[0] = <<>>
  BY <1>4 DEF Turns
<1>6. ASSUME NEW k \in 1 .. n PROVE f[k] = f[k - 1] \o ss[k]
  <2>1. k - 1 \in 0 .. n /\ f[k - 1] \in Lists(S)
    BY <1>1, <1>5
  <2>2. f[k] = step[k][f[k - 1]]
    <3> HIDE DEF step
    <3> QED
      BY <1>4 DEF Turns
  <2> QED
    BY <2>1, <2>2
<1> QED
  BY <1>5, <1>6 DEF Joins, n

LEMMA FlattenIs ==
  ASSUME NEW S, NEW ss \in Seq(Lists(S)), NEW f \in [0 .. Len(ss) -> Lists(S)], Joins(f, ss)
  PROVE  FlattenSeq(ss) = f[Len(ss)]
<1>1. Len(ss) \in Nat
  BY LenProperties
<1>2. CASE Len(ss) = 0
  <2>1. ss = <<>>
    BY <1>2, EmptySeq
  <2> QED
    BY <1>2, <2>1 DEF Joins, FlattenSeq
<1>3. CASE Len(ss) # 0
  <2> DEFINE F(g) == g = [i_1 \in 1 .. Len(ss) |->
                           IF i_1 = 1 THEN ss[i_1] ELSE g[i_1 - 1] \o ss[i_1]]
             h == [k \in 1 .. Len(ss) |-> f[k]]
             g == CHOOSE g : F(g)
  <2>1. FlattenSeq(ss) = g[Len(ss)]
    BY <1>3, Zenon DEF FlattenSeq
  <2>2. F(h)
    <3>1. ASSUME NEW k \in 1 .. Len(ss)
          PROVE  h[k] = IF k = 1 THEN ss[k] ELSE h[k - 1] \o ss[k]
      <4>1. f[k] = f[k - 1] \o ss[k]
        BY DEF Joins
      <4>2. CASE k = 1
        <5>1. ss[k] \in Lists(S) /\ f[k - 1] = <<>>
          BY <4>2, ElementOfSeq DEF Joins
        <5>2. <<>> \o ss[k] = ss[k]
          BY <5>1, ListFacts
        <5> QED
          BY <4>1, <4>2, <5>1, <5>2
      <4>3. CASE k # 1
        <5>1. k - 1 \in 1 .. Len(ss)
          BY <1>1, <4>3
        <5> QED
          BY <4>1, <4>3, <5>1
      <4> QED
        BY <4>2, <4>3
    <3> QED
      BY <3>1
  <2>3. F(g)
    <3> HIDE DEF F
    <3> QED
      BY <2>2
  <2> DEFINE e == [k \in 0 .. Len(ss) |-> IF k = 0 THEN <<>> ELSE g[k]]
  <2> HIDE DEF g
  <2>4. Alike(e, f, Len(ss))
    <3>1. e[0] = f[0]
      BY <1>1 DEF Joins
    <3>2. ASSUME NEW k \in 1 .. Len(ss), e[k - 1] = f[k - 1] PROVE e[k] = f[k]
      <4>1. k \in 0 .. Len(ss) /\ k - 1 \in 0 .. Len(ss) /\ k # 0
        BY <1>1
      <4>2. f[k] = f[k - 1] \o ss[k]
        BY DEF Joins
      <4>3. g[k] = IF k = 1 THEN ss[k] ELSE g[k - 1] \o ss[k]
        BY <2>3
      <4>4. CASE k = 1
        <5>1. ss[k] \in Lists(S) /\ f[k - 1] = <<>>
          BY <4>4, ElementOfSeq DEF Joins
        <5>2. <<>> \o ss[k] = ss[k]
          BY <5>1, ListFacts
        <5> QED
          BY <4>1, <4>2, <4>3, <4>4, <5>1, <5>2
      <4>5. CASE k # 1
        <5>1. e[k - 1] = g[k - 1]
          BY <4>1, <4>5
        <5> QED
          BY <3>2, <4>1, <4>2, <4>3, <4>5, <5>1
      <4> QED
        BY <4>4, <4>5
    <3> QED
      BY <3>1, <3>2 DEF Alike
  <2>5. \A k \in 0 .. Len(ss) : e[k] = f[k]
    BY <1>1, <2>4, LoopsAgree
  <2> QED
    BY <1>1, <1>3, <2>1, <2>5
<1> QED
  BY <1>2, <1>3

\* What is joined in two parts is joined.
LEMMA FlattenConcat ==
  ASSUME NEW S, NEW a \in Seq(Lists(S)), NEW b \in Seq(Lists(S))
  PROVE  /\ FlattenSeq(a) \in Lists(S)
         /\ FlattenSeq(a \o b) = FlattenSeq(a) \o FlattenSeq(b)
<1>a. \A x, y, z \in Lists(S) : (x \o y) \o z = x \o (y \o z)
  BY ListFacts
<1>b. Len(a) \in Nat /\ Len(b) \in Nat
  BY LenProperties
<1>1. PICK f \in [0 .. Len(a) -> Lists(S)] : Joins(f, a)
  BY JoinsDefined
<1>2. PICK g \in [0 .. Len(b) -> Lists(S)] : Joins(g, b)
  BY JoinsDefined
<1>3. /\ a \o b \in Seq(Lists(S)) /\ Len(a \o b) = Len(a) + Len(b)
      /\ Len(a) \in Nat /\ Len(b) \in Nat
      /\ \A k \in 1 .. Len(a) : (a \o b)[k] = a[k]
      /\ \A k \in 1 .. Len(b) : (a \o b)[Len(a) + k] = b[k]
  BY Concat
<1>4. FlattenSeq(a) = f[Len(a)] /\ f[Len(a)] \in Lists(S)
  <2>1. FlattenSeq(a) = f[Len(a)]
    BY <1>1, FlattenIs
  <2> QED
    BY <1>1, <1>b, <2>1
<1>5. FlattenSeq(b) = g[Len(b)] /\ g[Len(b)] \in Lists(S)
  <2>1. FlattenSeq(b) = g[Len(b)]
    BY <1>2, FlattenIs
  <2> QED
    BY <1>2, <1>b, <2>1
<1> DEFINE h == [k \in 0 .. Len(a) + Len(b) |->
                  IF k <= Len(a) THEN f[k] ELSE f[Len(a)] \o g[k - Len(a)]]
<1>6. h \in [0 .. Len(a \o b) -> Lists(S)]
  <2>1. ASSUME NEW k \in 0 .. Len(a) + Len(b) PROVE h[k] \in Lists(S)
    <3>1. CASE k <= Len(a)
      <4>1. k \in 0 .. Len(a)
        BY <1>3, <3>1
      <4>2. f[k] \in Lists(S)
        BY <4>1
      <4> QED
        BY <3>1, <4>2
    <3>2. CASE ~(k <= Len(a))
      <4>1. k - Len(a) \in 0 .. Len(b)
        BY <1>3, <3>2
      <4>2. g[k - Len(a)] \in Lists(S)
        BY <1>2, <4>1
      <4> QED
        BY <1>4, <3>2, <4>2, ListFacts
    <3> QED
      BY <3>1, <3>2
  <2> QED
    BY <1>3, <2>1
<1>7. Joins(h, a \o b)
  <2>1. h[0] = <<>>
    BY <1>1, <1>3 DEF Joins
  <2>2. ASSUME NEW k \in 1 .. Len(a) + Len(b) PROVE h[k] = h[k - 1] \o (a \o b)[k]
    <3>1. CASE k <= Len(a)
      <4>1. k \in 1 .. Len(a) /\ k - 1 \in 0 .. Len(a) + Len(b) /\ k - 1 <= Len(a)
            /\ k \in 0 .. Len(a) + Len(b)
        BY <1>3, <3>1
      <4>2. h[k] = f[k] /\ h[k - 1] = f[k - 1] /\ (a \o b)[k] = a[k]
        BY <1>3, <3>1, <4>1
      <4> HIDE DEF h
      <4> QED
        BY <1>1, <4>1, <4>2 DEF Joins
    <3>2. CASE ~(k <= Len(a))
      <4> DEFINE d == k - Len(a)
      <4>1. d \in 1 .. Len(b) /\ k = Len(a) + d /\ k - 1 \in 0 .. Len(a) + Len(b)
            /\ k \in 0 .. Len(a) + Len(b) /\ d - 1 \in 0 .. Len(b)
        BY <1>3, <3>2
      <4>2. h[k] = f[Len(a)] \o g[d]
        BY <3>2, <4>1
      <4>3. h[k - 1] = f[Len(a)] \o g[d - 1]
        <5>1. CASE d = 1
          <6>1. k - 1 = Len(a) /\ k - 1 <= Len(a) /\ d - 1 = 0
            BY <1>3, <4>1, <5>1
          <6>2. h[k - 1] = f[Len(a)] /\ g[d - 1] = <<>>
            BY <1>2, <4>1, <6>1 DEF Joins
          <6> HIDE DEF h, d
          <6> QED
            BY <1>4, <6>2, ListFacts
        <5>2. CASE d # 1
          <6>1. ~(k - 1 <= Len(a)) /\ (k - 1) - Len(a) = d - 1
            BY <1>3, <4>1, <5>2
          <6> HIDE DEF d
          <6> QED
            BY <4>1, <6>1
        <5> QED
          BY <5>1, <5>2
      <4>4. (a \o b)[k] = b[d]
        <5> HIDE DEF d
        <5> QED
          BY <1>3, <4>1
      <4>5. g[d] = g[d - 1] \o b[d]
        <5> HIDE DEF d
        <5> QED
          BY <1>2, <4>1 DEF Joins
      <4>6. g[d - 1] \in Lists(S) /\ b[d] \in Lists(S)
        <5> HIDE DEF d
        <5> QED
          BY <1>2, <4>1, ElementOfSeq
      <4> HIDE DEF d, h
      <4>7. (f[Len(a)] \o g[d - 1]) \o b[d] = f[Len(a)] \o (g[d - 1] \o b[d])
        <5> DEFINE x == f[Len(a)]
                   y == g[d - 1]
                   z == b[d]
        <5>1. x \in Lists(S) /\ y \in Lists(S) /\ z \in Lists(S)
          BY <1>4, <4>6
        <5> HIDE DEF x, y, z
        <5>2. (x \o y) \o z = x \o (y \o z)
          BY <1>a, <5>1, Zenon
        <5> QED
          BY <5>2 DEF x, y, z
      <4> QED
        BY <4>2, <4>3, <4>4, <4>5, <4>7
    <3> QED
      BY <3>1, <3>2
  <2> HIDE DEF h
  <2> QED
    BY <1>3, <2>1, <2>2 DEF Joins
<1>8. FlattenSeq(a \o b) = h[Len(a \o b)]
  <2> HIDE DEF h
  <2> QED
    BY <1>3, <1>6, <1>7, FlattenIs
<1>9. h[Len(a \o b)] = f[Len(a)] \o g[Len(b)]
  <2>1. CASE Len(b) = 0
    <3>1. h[Len(a) + Len(b)] = f[Len(a)] /\ g[Len(b)] = <<>>
      BY <1>2, <1>3, <2>1 DEF Joins
    <3> HIDE DEF h
    <3> QED
      BY <1>3, <1>4, <3>1, ListFacts
  <2>2. CASE Len(b) # 0
    <3>1. ~(Len(a) + Len(b) <= Len(a)) /\ (Len(a) + Len(b)) - Len(a) = Len(b)
          /\ Len(a) + Len(b) \in 0 .. Len(a) + Len(b)
      BY <1>3, <2>2
    <3> QED
      BY <1>3, <3>1
  <2> QED
    BY <2>1, <2>2
<1> QED
  BY <1>4, <1>5, <1>8, <1>9

LEMMA FlattenOne ==
  ASSUME NEW S, NEW x \in Lists(S)
  PROVE  FlattenSeq(<<x>>) = x
<1> DEFINE f == [k \in 0 .. 1 |-> IF k = 0 THEN <<>> ELSE x]
<1>1. <<x>> \in Seq(Lists(S)) /\ Len(<<x>>) = 1 /\ <<x>>[1] = x
  BY Single
<1>2. <<>> \in Lists(S) /\ <<>> \o x = x
  BY ListFacts
<1>3. f \in [0 .. 1 -> Lists(S)] /\ f[1] = x /\ f[0] = <<>>
  BY <1>2
<1> HIDE DEF f
<1>4. Joins(f, <<x>>)
  <2>1. ASSUME NEW k \in 1 .. 1 PROVE f[k] = f[k - 1] \o <<x>>[k]
    <3>1. k = 1 /\ k - 1 = 0
      OBVIOUS
    <3> QED
      BY <1>1, <1>2, <1>3, <3>1
  <2> QED
    BY <1>1, <1>3, <2>1 DEF Joins
<1> QED
  BY <1>1, <1>3, <1>4, FlattenIs

\* What each element of a sequence becomes, joined.
Flat(F, a) == FlattenSeq([n \in DOMAIN a |-> F[a[n]]])

LEMMA FlatEmpty == \A F : Flat(F, <<>>) = <<>>
BY DEF Flat, FlattenSeq

LEMMA FlatOne ==
  ASSUME NEW S, NEW R, NEW F \in [S -> Lists(R)], NEW x \in S
  PROVE  Flat(F, <<x>>) = F[x]
<1>1. [n \in DOMAIN <<x>> |-> F[<<x>>[n]]] = <<F[x]>>
  OBVIOUS
<1>2. F[x] \in Lists(R)
  OBVIOUS
<1> QED
  BY <1>1, <1>2, FlattenOne DEF Flat

\* It distributes over \o, and elements that become themselves stay.
LEMMA FlatConcat ==
  ASSUME NEW S, NEW R, NEW F \in [S -> Lists(R)], NEW a \in Seq(S), NEW b \in Seq(S)
  PROVE  /\ Flat(F, a) \in Lists(R)
         /\ Flat(F, a \o b) = Flat(F, a) \o Flat(F, b)
<1> DEFINE M(s) == [n \in DOMAIN s |-> F[s[n]]]
<1>1. ASSUME NEW s \in Seq(S)
      PROVE  M(s) \in Seq(Lists(R)) /\ Len(M(s)) = Len(s) /\ \A k \in 1 .. Len(s) : M(s)[k] = F[s[k]]
  <2>1. DOMAIN s = 1 .. Len(s) /\ Len(s) \in Nat /\ \A k \in 1 .. Len(s) : s[k] \in S
    BY LenProperties, ElementOfSeq
  <2>2. \A k \in 1 .. Len(s) : F[s[k]] \in Lists(R)
    BY <2>1
  <2> QED
    BY <2>1, <2>2
<1>2. M(a \o b) = M(a) \o M(b)
  <2> HIDE DEF M
  <2>1. /\ a \o b \in Seq(S) /\ Len(a \o b) = Len(a) + Len(b)
        /\ Len(a) \in Nat /\ Len(b) \in Nat
        /\ \A k \in 1 .. Len(a) : (a \o b)[k] = a[k]
        /\ \A k \in 1 .. Len(b) : (a \o b)[Len(a) + k] = b[k]
    BY Concat
  <2> DEFINE ma == M(a)
             mb == M(b)
             mm == ma \o mb
  <2>5. /\ ma \in Seq(Lists(R)) /\ Len(ma) = Len(a) /\ \A k \in 1 .. Len(a) : ma[k] = F[a[k]]
        /\ mb \in Seq(Lists(R)) /\ Len(mb) = Len(b) /\ \A k \in 1 .. Len(b) : mb[k] = F[b[k]]
    BY <1>1
  <2> HIDE DEF ma, mb
  <2>6. /\ mm \in Seq(Lists(R)) /\ Len(mm) = Len(ma) + Len(mb)
        /\ \A k \in 1 .. Len(ma) : mm[k] = ma[k]
        /\ \A k \in 1 .. Len(mb) : mm[Len(ma) + k] = mb[k]
    <3>1. ma \in Seq(Lists(R)) /\ mb \in Seq(Lists(R))
      BY <2>5
    <3> QED
      BY <3>1, Concat
  <2> HIDE DEF mm
  <2>2. /\ mm \in Seq(Lists(R)) /\ Len(mm) = Len(a) + Len(b)
        /\ \A k \in 1 .. Len(a) : mm[k] = F[a[k]]
        /\ \A k \in 1 .. Len(b) : mm[Len(a) + k] = F[b[k]]
    BY <2>5, <2>6
  <2> DEFINE mab == M(a \o b)
  <2>3. mab \in Seq(Lists(R)) /\ Len(mab) = Len(a) + Len(b)
        /\ \A k \in 1 .. Len(a) + Len(b) : mab[k] = F[(a \o b)[k]]
    BY <1>1, <2>1
  <2> HIDE DEF mab
  <2>4. ASSUME NEW k \in 1 .. Len(a) + Len(b) PROVE mab[k] = mm[k]
    <3>1. CASE k <= Len(a)
      <4>1. k \in 1 .. Len(a)
        BY <2>1, <3>1
      <4> QED
        BY <2>1, <2>2, <2>3, <4>1
    <3>2. CASE ~(k <= Len(a))
      <4>1. PICK d \in 1 .. Len(b) : k = Len(a) + d
        <5>1. k - Len(a) \in 1 .. Len(b) /\ k = Len(a) + (k - Len(a))
          BY <2>1, <3>2
        <5> QED
          BY <5>1
      <4> QED
        BY <2>1, <2>2, <2>3, <4>1
    <3> QED
      BY <3>1, <3>2
  <2>7. mab = mm
    BY <2>2, <2>3, <2>4, SeqEqual
  <2> QED
    BY <2>7 DEF mm, ma, mb, mab
<1> HIDE DEF M
<1>3. FlattenSeq(M(a)) \in Lists(R) /\ FlattenSeq(M(a) \o M(b)) = FlattenSeq(M(a)) \o FlattenSeq(M(b))
  BY <1>1, FlattenConcat
<1> QED
  BY <1>2, <1>3 DEF Flat, M

LEMMA FlatSingles ==
  ASSUME NEW S, NEW R, NEW F \in [S -> Lists(R)], NEW a \in Seq(S), NEW T, T \subseteq R,
         a \in Seq(T), \A x \in T : x \in S /\ F[x] = <<x>>
  PROVE  Flat(F, a) = a
<1> DEFINE m == [n \in DOMAIN a |-> F[a[n]]]
           f == [k \in 0 .. Len(a) |-> SubSeq(a, 1, k)]
<1>1. Len(a) \in Nat /\ DOMAIN a = 1 .. Len(a) /\ \A k \in 1 .. Len(a) : a[k] \in T /\ F[a[k]] = <<a[k]>>
  BY LenProperties, ElementOfSeq
<1>2. m \in Seq(Lists(R)) /\ Len(m) = Len(a) /\ \A k \in 1 .. Len(a) : m[k] = <<a[k]>>
  <2>1. \A k \in 1 .. Len(a) : F[a[k]] \in Lists(R)
    BY <1>1
  <2> QED
    BY <1>1, <2>1
<1>3. f \in [0 .. Len(a) -> Lists(R)]
  <2>1. ASSUME NEW k \in 0 .. Len(a) PROVE SubSeq(a, 1, k) \in Lists(R)
    <3>1. \A j \in 1 .. k : a[j] \in R
      BY <1>1
    <3> QED
      BY <3>1, SubSeqProperties DEF Lists
  <2> QED
    BY <2>1
<1>4. f[0] = <<>>
  BY <1>1, SubSeqEmpty
<1>5. ASSUME NEW k \in 1 .. Len(a) PROVE f[k] = f[k - 1] \o <<a[k]>>
  <2>1. k \in 1 .. k /\ 1 \in 1 .. Len(a) /\ k \in 1 .. Len(a) /\ k - 1 \in 0 .. Len(a) /\ k \in 0 .. Len(a)
    BY <1>1
  <2>2. SubSeq(a, 1, k) = SubSeq(a, 1, k - 1) \o <<a[k]>>
    BY <2>1, SubSeqRecursiveSecond
  <2> QED
    BY <2>1, <2>2
<1>6. f[Len(a)] = a
  BY <1>1, SubSeqFull
<1> HIDE DEF f, m
<1>7. Joins(f, m)
  BY <1>2, <1>4, <1>5 DEF Joins
<1>8. FlattenSeq(m) = f[Len(m)]
  BY <1>2, <1>3, <1>7, FlattenIs
<1> QED
  BY <1>2, <1>6, <1>8 DEF Flat, m

-----------------------------------------------------------------------------
(* Numerals: varbase, which divides, writes the digits that Numeral counts. *)

\* A power is what the loop multiplies.
LEMMA PowerIs ==
  ASSUME NEW base \in Nat, NEW n \in Nat, NEW f, f[0] = 1, \A k \in 1 .. n : f[k] = base * f[k - 1]
  PROVE  Power(base, n) = f[n]
<1> DEFINE F(g) == g = [k \in 0 .. n |-> IF k = 0 THEN 1 ELSE base * g[k - 1]]
           h == [k \in 0 .. n |-> f[k]]
           g == CHOOSE g : F(g)
<1>1. Power(base, n) = g[n]
  BY Zenon DEF Power
<1>2. F(h)
  <2>1. ASSUME NEW k \in 0 .. n PROVE h[k] = IF k = 0 THEN 1 ELSE base * h[k - 1]
    <3>1. CASE k = 0
      BY <3>1
    <3>2. CASE k # 0
      <4>1. k \in 1 .. n /\ k - 1 \in 0 .. n
        BY <3>2
      <4>2. h[k] = f[k] /\ h[k - 1] = f[k - 1]
        BY <4>1
      <4> HIDE DEF h
      <4> QED
        BY <3>2, <4>1, <4>2
    <3> QED
      BY <3>1, <3>2
  <2> QED
    BY <2>1
<1>3. F(g)
  <2> HIDE DEF F
  <2> QED
    BY <1>2
<1> HIDE DEF g
<1>4. Alike(g, f, n)
  <2>1. g[0] = f[0]
    BY <1>3
  <2>2. ASSUME NEW k \in 1 .. n, g[k - 1] = f[k - 1] PROVE g[k] = f[k]
    <3>1. k \in 0 .. n /\ k # 0
      OBVIOUS
    <3>2. g[k] = base * g[k - 1]
      BY <1>3, <3>1
    <3> QED
      BY <2>2, <3>2
  <2> QED
    BY <2>1, <2>2 DEF Alike
<1>5. \A k \in 0 .. n : g[k] = f[k]
  BY <1>4, LoopsAgree
<1> QED
  BY <1>1, <1>5

LEMMA PowerStep ==
  ASSUME NEW base \in Nat, NEW n \in Nat
  PROVE  /\ Power(base, 0) = 1 /\ Power(base, n) \in Nat
         /\ Power(base, n + 1) = base * Power(base, n)
<1> DEFINE step == [k \in 1 .. n + 1 |-> [x \in Nat |-> base * x]]
<1>1. step \in [1 .. n + 1 -> [Nat -> Nat]] /\ n + 1 \in Nat /\ 1 \in Nat
  OBVIOUS
<1>2. PICK f : Turns(f, Nat, 1, n + 1, step)
  <2> DEFINE m == n + 1
  <2>1. step \in [1 .. m -> [Nat -> Nat]] /\ m \in Nat /\ 1 \in Nat
    BY <1>1
  <2> HIDE DEF step, m
  <2>2. \E f : Turns(f, Nat, 1, m, step)
    BY <2>1, LoopDefined
  <2> QED
    BY <2>2 DEF m
<1>3. f \in [0 .. n + 1 -> Nat] /\ f[0] = 1
  BY <1>2 DEF Turns
<1>4. \A k \in 1 .. n + 1 : f[k] = base * f[k - 1]
  <2>1. ASSUME NEW k \in 1 .. n + 1 PROVE f[k] = base * f[k - 1]
    <3>1. f[k - 1] \in Nat
      BY <1>3
    <3>2. f[k] = step[k][f[k - 1]]
      <4> HIDE DEF step
      <4> QED
        BY <1>2 DEF Turns
    <3> QED
      BY <3>1, <3>2
  <2> QED
    BY <2>1
<1> HIDE DEF step
<1>5. Power(base, 0) = 1
  <2>1. \A k \in 1 .. 0 : f[k] = base * f[k - 1]
    OBVIOUS
  <2> QED
    BY <1>3, <2>1, PowerIs
<1>6. Power(base, n) = f[n]
  <2>1. \A k \in 1 .. n : f[k] = base * f[k - 1]
    BY <1>4
  <2> QED
    BY <1>3, <2>1, PowerIs
<1>7. Power(base, n + 1) = f[n + 1]
  <2> DEFINE m == n + 1
  <2>1. m \in Nat /\ \A k \in 1 .. m : f[k] = base * f[k - 1]
    BY <1>4
  <2> HIDE DEF m
  <2>2. Power(base, m) = f[m]
    BY <1>3, <2>1, PowerIs
  <2> QED
    BY <2>2 DEF m
<1>8. f[n + 1] = base * f[n]
  <2>1. n + 1 \in 1 .. n + 1 /\ (n + 1) - 1 = n
    OBVIOUS
  <2> QED
    BY <1>4, <2>1
<1> QED
  BY <1>3, <1>5, <1>6, <1>7, <1>8

LEMMA PowerFacts ==
  ASSUME NEW base \in Nat, base >= 2
  PROVE  /\ \A k \in Nat : Power(base, k) \in Nat /\ Power(base, k) > k
         /\ \A k, j \in Nat : Power(base, k) <= Power(base, k + j)
<1> DEFINE T == {k \in Nat : Power(base, k) > k}
<1>1. 0 \in T
  BY PowerStep
<1>2. ASSUME NEW k \in Nat, k \in T PROVE k + 1 \in T
  <2> DEFINE p == Power(base, k)
  <2>1. p \in Nat /\ p > k /\ Power(base, k + 1) = base * p
    BY <1>2, PowerStep
  <2> HIDE DEF p
  <2>2. base * p >= 2 * p
    BY <2>1
  <2>3. base * p \in Nat
    BY <2>1
  <2> QED
    BY <2>1, <2>2, <2>3
<1> HIDE DEF T
<1>3. Nat \subseteq T
  BY <1>1, <1>2, Counting
<1>4. \A k \in Nat : Power(base, k) \in Nat /\ Power(base, k) > k
  BY <1>3, PowerStep DEF T
<1>5. ASSUME NEW k \in Nat PROVE \A j \in Nat : Power(base, k) <= Power(base, k + j)
  <2> DEFINE U == {j \in Nat : Power(base, k) <= Power(base, k + j)}
  <2>1. 0 \in U
    BY <1>4
  <2>2. ASSUME NEW j \in Nat, j \in U PROVE j + 1 \in U
    <3> DEFINE p == Power(base, k + j)
               q == Power(base, k)
    <3>1. k + j \in Nat /\ (k + j) + 1 = k + (j + 1)
      OBVIOUS
    <3>2. p \in Nat /\ q \in Nat /\ Power(base, (k + j) + 1) = base * p
      BY <3>1, PowerStep
    <3>3. q <= p
      BY <2>2
    <3> HIDE DEF p, q
    <3>4. base * p >= p /\ base * p \in Nat
      BY <3>2
    <3>5. Power(base, k + (j + 1)) = base * p
      BY <3>1, <3>2
    <3>6. q <= Power(base, k + (j + 1))
      BY <3>2, <3>3, <3>4, <3>5
    <3> QED
      BY <3>6 DEF q
  <2> HIDE DEF U
  <2>3. Nat \subseteq U
    BY <2>1, <2>2, Counting
  <2> QED
    BY <2>3 DEF U
<1> QED
  BY <1>4, <1>5

\* Quotients are told by what they are below of.
LEMMA DivLess ==
  ASSUME NEW v \in Nat, NEW b \in Nat, b > 0, NEW c \in Nat
  PROVE  v \div b < c <=> v < b * c
<1> DEFINE q == v \div b
           r == v % b
<1>1. q \in Nat /\ v = b * q + r /\ r \in 0 .. b - 1
  BY Quotients
<1> HIDE DEF q, r
<1>2. b * q \in Nat /\ b * c \in Nat
  BY <1>1
<1>3. ASSUME q < c PROVE v < b * c
  <2>1. (q + 1) * b <= c * b /\ (q + 1) * b = b * q + b /\ c * b = b * c
    BY <1>1, <1>3, Products
  <2> QED
    BY <1>1, <1>2, <2>1
<1>4. ASSUME c <= q PROVE ~(v < b * c)
  <2>1. c * b <= q * b /\ q * b = b * q /\ c * b = b * c
    BY <1>1, <1>4, Products
  <2> QED
    BY <1>1, <1>2, <2>1
<1> QED
  BY <1>1, <1>3, <1>4 DEF q

LEMMA QuotientIs ==
  ASSUME NEW v \in Nat, NEW m \in Nat, m > 0, NEW p \in Nat, ~(v < m * p), v < m * (p + 1)
  PROVE  v \div m = p
<1>1. ~(v \div m < p) /\ v \div m < p + 1 /\ v \div m \in Nat
  BY DivLess, Quotients
<1> QED
  BY <1>1

\* Two divisions are one by the product.
LEMMA DivDiv ==
  ASSUME NEW v \in Nat, NEW b \in Nat, b > 0, NEW c \in Nat, c > 0
  PROVE  (v \div b) \div c = v \div (b * c)
<1> DEFINE q == v \div b
           p == q \div c
<1>1. q \in Nat
  BY Quotients
<1>2. ASSUME NEW k \in Nat PROVE q < k <=> v < b * k
  BY <1>2, DivLess
<1> HIDE DEF q
<1>3. p \in Nat /\ ~(q < c * p) /\ q < c * (p + 1)
  <2>1. p \in Nat
    BY <1>1, Quotients
  <2>2. \A k \in Nat : p < k <=> q < c * k
    BY <1>1, DivLess
  <2> HIDE DEF p
  <2>3. ~(p < p) /\ p < p + 1 /\ p + 1 \in Nat
    BY <2>1
  <2> QED
    BY <2>1, <2>2, <2>3
<1> HIDE DEF p
<1>4. c * p \in Nat /\ c * (p + 1) \in Nat /\ b * (c * p) = (b * c) * p
      /\ b * (c * (p + 1)) = (b * c) * (p + 1) /\ b * c \in Nat /\ b * c > 0
  BY <1>3
<1>5. ~(v < (b * c) * p) /\ v < (b * c) * (p + 1)
  BY <1>2, <1>3, <1>4
<1>6. v \div (b * c) = p
  <2> DEFINE m == b * c
  <2>1. m \in Nat /\ m > 0
    BY <1>4
  <2>2. ~(v < m * p) /\ v < m * (p + 1)
    BY <1>5
  <2> HIDE DEF m
  <2>3. v \div m = p
    BY <1>3, <2>1, <2>2, QuotientIs
  <2> QED
    BY <2>3 DEF m
<1> QED
  BY <1>6 DEF p, q

\* How many digits a number has; none, if it is zero.
Digits(v, base) == CHOOSE n \in Nat : v < Power(base, n) /\ \A k \in Nat : v < Power(base, k) => n <= k

\* Each division by the base takes a digit away.
LEMMA DigitsFacts ==
  ASSUME NEW base \in Nat, base >= 2, NEW v \in Nat
  PROVE  /\ Digits(v, base) \in Nat /\ v < Power(base, Digits(v, base))
         /\ \A k \in Nat : v < Power(base, k) <=> Digits(v, base) <= k
         /\ v = 0 <=> Digits(v, base) = 0
         /\ Digits(v, base) <= v + 1
<1> DEFINE T == {k \in Nat : v < Power(base, k)}
           n == Digits(v, base)
<1>1. v + 1 \in T
  <2>1. v + 1 \in Nat /\ Power(base, v + 1) > v + 1 /\ Power(base, v + 1) \in Nat
    BY PowerFacts
  <2> QED
    BY <2>1
<1>2. PICK x \in T : \A y \in T : x <= y
  <2>1. T # {} /\ T \subseteq Nat
    BY <1>1
  <2> HIDE DEF T
  <2> QED
    BY <2>1, LeastNumber
<1>3. n \in Nat /\ v < Power(base, n) /\ \A k \in Nat : v < Power(base, k) => n <= k
  <2>1. x \in Nat /\ v < Power(base, x) /\ \A k \in Nat : v < Power(base, k) => x <= k
    BY <1>2
  <2> QED
    BY <2>1, Zenon DEF Digits
<1> HIDE DEF n
<1>4. ASSUME NEW k \in Nat, n <= k PROVE v < Power(base, k)
  <2>1. k - n \in Nat /\ n + (k - n) = k
    BY <1>3, <1>4
  <2>2. Power(base, n) <= Power(base, n + (k - n)) /\ Power(base, n) \in Nat /\ Power(base, k) \in Nat
    BY <1>3, <2>1, PowerFacts
  <2> QED
    BY <1>3, <2>1, <2>2
<1>5. v = 0 <=> n = 0
  <2>1. Power(base, 0) = 1
    BY PowerStep
  <2> QED
    BY <1>3, <2>1
<1>6. n <= v + 1
  BY <1>1, <1>3
<1> QED
  BY <1>3, <1>4, <1>5, <1>6 DEF n

LEMMA DigitsStep ==
  ASSUME NEW base \in Nat, base >= 2, NEW v \in Nat, v > 0
  PROVE  v \div base \in Nat /\ v \div base < v /\ Digits(v, base) = Digits(v \div base, base) + 1
<1> DEFINE q == v \div base
           n == Digits(v, base)
           d == Digits(q, base)
<1>1. q \in Nat /\ \A c \in Nat : q < c <=> v < base * c
  BY Quotients, DivLess
<1>2. v < base * v
  OBVIOUS
<1>3. q < v
  BY <1>1, <1>2
<1> HIDE DEF q
<1>4. n \in Nat /\ n # 0 /\ \A k \in Nat : v < Power(base, k) <=> n <= k
  BY DigitsFacts
<1>5. d \in Nat /\ \A k \in Nat : q < Power(base, k) <=> d <= k
  BY <1>1, DigitsFacts
<1> HIDE DEF n, d
<1>6. \A k \in Nat : d <= k <=> n <= k + 1
  <2>1. ASSUME NEW k \in Nat PROVE d <= k <=> n <= k + 1
    <3>1. Power(base, k) \in Nat /\ Power(base, k + 1) = base * Power(base, k) /\ k + 1 \in Nat
      BY PowerStep
    <3>2. q < Power(base, k) <=> v < Power(base, k + 1)
      BY <1>1, <3>1
    <3> QED
      BY <1>4, <1>5, <3>1, <3>2
  <2> QED
    BY <2>1
<1>7. n = d + 1
  <2>1. n - 1 \in Nat /\ (n - 1) + 1 = n
    BY <1>4
  <2>2. d <= n - 1 /\ n <= d + 1
    BY <1>4, <1>5, <1>6, <2>1
  <2> QED
    BY <1>4, <1>5, <2>2
<1> QED
  BY <1>1, <1>3, <1>7 DEF q, n, d

\* The digits of a number, lowest first.
Lowest(v, base, cs) ==
  [k \in 1 .. Digits(v, base) |-> cs[((v \div Power(base, k - 1)) % base) + 1]]

\* The lowest digit is the remainder, the others are those of the quotient.
LEMMA LowestStep ==
  ASSUME NEW S, NEW base \in Nat, base >= 2, NEW cs \in Seq(S), Len(cs) >= base, NEW v \in Nat
  PROVE  /\ Lowest(v, base, cs) \in Seq(S) /\ Len(Lowest(v, base, cs)) = Digits(v, base)
         /\ v = 0 => Lowest(v, base, cs) = <<>>
         /\ v > 0 => Lowest(v, base, cs)
                       = <<int_to_char(v % base, cs)>> \o Lowest(v \div base, base, cs)
<1>1. ASSUME NEW w \in Nat
      PROVE  /\ Lowest(w, base, cs) \in Seq(S) /\ Len(Lowest(w, base, cs)) = Digits(w, base)
             /\ \A k \in 1 .. Digits(w, base) :
                  Lowest(w, base, cs)[k] = cs[((w \div Power(base, k - 1)) % base) + 1]
  <2> DEFINE n == Digits(w, base)
  <2>1. n \in Nat
    BY DigitsFacts
  <2>2. ASSUME NEW k \in 1 .. n PROVE cs[((w \div Power(base, k - 1)) % base) + 1] \in S
    <3>1. k - 1 \in Nat
      BY <2>1
    <3>2. Power(base, k - 1) \in Nat /\ Power(base, k - 1) > 0
      <4>1. Power(base, k - 1) \in Nat /\ Power(base, k - 1) > k - 1
        BY <3>1, PowerFacts
      <4> QED
        BY <3>1, <4>1
    <3>3. w \div Power(base, k - 1) \in Nat
      BY <3>2, Quotients
    <3>4. (w \div Power(base, k - 1)) % base \in 0 .. base - 1
      BY <3>3, Quotients
    <3>5. ((w \div Power(base, k - 1)) % base) + 1 \in 1 .. Len(cs) /\ Len(cs) \in Nat
      BY <3>4, LenProperties
    <3> QED
      BY <3>5, ElementOfSeq
  <2>3. Lowest(w, base, cs) = [k \in 1 .. n |-> cs[((w \div Power(base, k - 1)) % base) + 1]]
    BY DEF Lowest
  <2> HIDE DEF n
  <2>4. Lowest(w, base, cs) \in Seq(S) /\ Len(Lowest(w, base, cs)) = n
    BY <2>1, <2>2, <2>3
  <2>5. \A k \in 1 .. n : Lowest(w, base, cs)[k] = cs[((w \div Power(base, k - 1)) % base) + 1]
    BY <2>3
  <2> QED
    BY <2>4, <2>5 DEF n
<1>2. ASSUME v = 0 PROVE Lowest(v, base, cs) = <<>>
  <2>1. Len(Lowest(v, base, cs)) = 0
    BY <1>1, <1>2, DigitsFacts
  <2> QED
    BY <1>1, <2>1, EmptySeq
<1>3. ASSUME v > 0
      PROVE  Lowest(v, base, cs) = <<int_to_char(v % base, cs)>> \o Lowest(v \div base, base, cs)
  <2> DEFINE q == v \div base
             x == int_to_char(v % base, cs)
             a == Lowest(v, base, cs)
             b == Lowest(q, base, cs)
             n == Digits(q, base)
  <2>1. q \in Nat /\ Digits(v, base) = n + 1 /\ n \in Nat
    BY <1>3, DigitsStep, DigitsFacts
  <2>2. /\ a \in Seq(S) /\ Len(a) = n + 1
        /\ \A k \in 1 .. n + 1 : a[k] = cs[((v \div Power(base, k - 1)) % base) + 1]
    BY <1>1, <2>1
  <2>3. /\ b \in Seq(S) /\ Len(b) = n
        /\ \A k \in 1 .. n : b[k] = cs[((q \div Power(base, k - 1)) % base) + 1]
    BY <1>1, <2>1
  <2>4. x = cs[(v % base) + 1]
    BY DEF int_to_char
  <2>5. x \in S
    <3>1. v % base \in 0 .. base - 1
      BY Quotients
    <3>2. (v % base) + 1 \in 1 .. Len(cs)
      BY <3>1, LenProperties
    <3> QED
      BY <2>4, <3>2, ElementOfSeq
  <2>6. a[1] = x
    <3>1. 1 \in 1 .. n + 1 /\ 1 - 1 = 0
      BY <2>1
    <3>2. v \div Power(base, 0) = v
      BY PowerStep
    <3> HIDE DEF n, a, x
    <3> QED
      BY <2>2, <2>4, <3>1, <3>2
  <2>7. ASSUME NEW k \in 1 .. n PROVE a[1 + k] = b[k]
    <3>1. 1 + k \in 1 .. n + 1 /\ (1 + k) - 1 = k /\ k - 1 \in Nat /\ (k - 1) + 1 = k
      BY <2>1
    <3>4. Power(base, k - 1) \in Nat /\ Power(base, k - 1) > k - 1
      BY <3>1, PowerFacts
    <3>5. Power(base, (k - 1) + 1) = base * Power(base, k - 1)
      BY <3>1, PowerStep
    <3>2. Power(base, k) = base * Power(base, k - 1) /\ Power(base, k - 1) \in Nat
          /\ Power(base, k - 1) > 0
      BY <3>1, <3>4, <3>5
    <3>3. q \div Power(base, k - 1) = v \div Power(base, k)
      BY <3>2, DivDiv, SMTT(30)
    <3>6. b[k] = cs[((v \div Power(base, k)) % base) + 1]
      BY <2>3, <3>3, ZenonT(30)
    <3> DEFINE at(m) == cs[((v \div Power(base, m)) % base) + 1]
    <3>7. a[1 + k] = at((1 + k) - 1)
      BY <2>2, <3>1, ZenonT(30)
    <3>8. b[k] = at(k)
      BY <3>6, ZenonT(30)
    <3> HIDE DEF n, a, b, q, at
    <3> QED
      BY <3>1, <3>7, <3>8, ZenonT(30)
  <2> HIDE DEF x, a, b, n, q
  <2> DEFINE y == <<x>>
  <2>8. y \in Seq(S) /\ Len(y) = 1 /\ y[1] = x
    BY <2>5, Single
  <2> HIDE DEF y
  <2> DEFINE c == y \o b
  <2>12. /\ c \in Seq(S) /\ Len(c) = Len(y) + Len(b)
         /\ \A k \in 1 .. Len(y) + Len(b) : c[k] = IF k <= Len(y) THEN y[k] ELSE b[k - Len(y)]
    <3>1. y \in Seq(S) /\ b \in Seq(S)
      BY <2>3, <2>8
    <3> QED
      BY <3>1, ConcatProperties
  <2> HIDE DEF c
  <2>9. /\ c \in Seq(S) /\ Len(c) = 1 + n
        /\ \A k \in 1 .. 1 + n : c[k] = IF k <= 1 THEN y[k] ELSE b[k - 1]
    BY <2>3, <2>8, <2>12
  <2>10. ASSUME NEW k \in 1 .. n + 1 PROVE a[k] = c[k]
    <3>1. CASE k = 1
      <4>1. c[k] = x
        BY <2>1, <2>8, <2>9, <3>1
      <4> QED
        BY <2>6, <3>1, <4>1
    <3>2. CASE k # 1
      <4>1. k - 1 \in 1 .. n /\ 1 + (k - 1) = k /\ ~(k <= 1) /\ k \in 1 .. 1 + n
        BY <2>1, <3>2
      <4>2. a[1 + (k - 1)] = b[k - 1]
        BY <2>7, <4>1
      <4> QED
        BY <2>9, <4>1, <4>2
    <3> QED
      BY <3>1, <3>2
  <2>11. a = c
    <3>1. Len(a) = Len(c)
      BY <2>1, <2>2, <2>9
    <3> QED
      BY <2>2, <2>9, <2>10, <3>1, SeqEqual
  <2> QED
    BY <2>11 DEF a, c, y, x, b, q
<1> QED
  BY <1>1, <1>2, <1>3

\* The numeral has that many digits, and one for zero.
LEMMA NumeralIs ==
  ASSUME NEW base \in Nat, base >= 2, NEW cs, NEW v \in Nat
  PROVE  LET n == IF v = 0 THEN 1 ELSE Digits(v, base)
         IN Numeral(v, base, cs) = [k \in 1 .. n |-> cs[((v \div Power(base, n - k)) % base) + 1]]
<1> DEFINE n == IF v = 0 THEN 1 ELSE Digits(v, base)
           Fits(k) == v < Power(base, k) /\ (k = 1 \/ Power(base, k - 1) <= v)
<1>1. n \in 1 .. v + 1 /\ Fits(n)
  <2>1. CASE v = 0
    BY <2>1, PowerFacts
  <2>2. CASE v # 0
    <3> DEFINE d == Digits(v, base)
    <3>1. d \in Nat /\ v < Power(base, d) /\ d # 0 /\ d <= v + 1
          /\ \A k \in Nat : v < Power(base, k) <=> d <= k
      BY <2>2, DigitsFacts
    <3>2. n = d
      BY <2>2
    <3> HIDE DEF d, n
    <3>3. d - 1 \in Nat /\ ~(d <= d - 1)
      BY <3>1
    <3>4. ~(v < Power(base, d - 1)) /\ Power(base, d - 1) \in Nat
      BY <3>1, <3>3, PowerFacts
    <3> QED
      BY <3>1, <3>2, <3>4
  <2> QED
    BY <2>1, <2>2
<1>2. ASSUME NEW k \in 1 .. v + 1, Fits(k) PROVE k = n
  <2>1. CASE v = 0
    BY <2>1
  <2>2. CASE v # 0
    <3> DEFINE d == Digits(v, base)
    <3>1. d \in Nat /\ d # 0 /\ \A j \in Nat : v < Power(base, j) <=> d <= j
      BY <2>2, DigitsFacts
    <3>2. n = d
      BY <2>2
    <3> HIDE DEF d, n
    <3>3. d <= k
      BY <1>2, <3>1
    <3>4. CASE k = 1
      BY <3>1, <3>2, <3>3, <3>4
    <3>5. CASE k # 1
      <4>1. k - 1 \in Nat /\ Power(base, k - 1) \in Nat /\ Power(base, k - 1) <= v
        BY <1>2, <3>5, PowerFacts
      <4>2. ~(d <= k - 1)
        BY <3>1, <4>1
      <4> QED
        BY <3>1, <3>2, <3>3, <4>1, <4>2
    <3> QED
      BY <3>4, <3>5
  <2> QED
    BY <2>1, <2>2
<1> HIDE DEF n
<1>3. (CHOOSE k \in 1 .. v + 1 : Fits(k)) = n
  <2> HIDE DEF Fits
  <2> QED
    BY <1>1, <1>2
<1>4. Numeral(v, base, cs) = [k \in 1 .. n |-> cs[((v \div Power(base, n - k)) % base) + 1]]
  <2> DEFINE c == CHOOSE k \in 1 .. v + 1 :
                    /\ v < Power(base, k)
                    /\ k = 1 \/ Power(base, k - 1) <= v
  <2>1. Numeral(v, base, cs) = [k \in 1 .. c |-> cs[((v \div Power(base, c - k)) % base) + 1]]
    BY Zenon DEF Numeral
  <2>2. c = n
    BY <1>3
  <2> HIDE DEF c
  <2> QED
    BY <2>1, <2>2
<1> QED
  BY <1>4 DEF n

\* The digits in the order of the text.
LEMMA VarbaseIs ==
  ASSUME NEW S, NEW base \in Nat, base >= 2, NEW cs \in Seq(S), Len(cs) >= base, cs[1] = "0",
         NEW val \in Nat
  PROVE  varbase(val, base, cs) \in Seq(S) /\ varbase(val, base, cs) = Numeral(val, base, cs)
<1> DEFINE F(f) == f = [v \in Nat |->
                         IF v = 0 THEN <<>> ELSE <<int_to_char(v % base, cs)>> \o f[v \div base]]
           L(v) == Lowest(v, base, cs)
           low == [v \in Nat |-> L(v)]
           tmp_buff == CHOOSE f : F(f)
<1>1. varbase(val, base, cs) = IF val = 0 THEN <<"0">> ELSE Reverse(tmp_buff[val])
  BY Zenon DEF varbase
<1>2. F(low)
  <2>1. ASSUME NEW v \in Nat
        PROVE  L(v) = IF v = 0 THEN <<>> ELSE <<int_to_char(v % base, cs)>> \o L(v \div base)
    <3>1. /\ v = 0 => L(v) = <<>>
          /\ v > 0 => L(v) = <<int_to_char(v % base, cs)>> \o L(v \div base)
      BY LowestStep, ZenonT(30)
    <3> HIDE DEF L
    <3> QED
      BY <3>1
  <2>2. \A v \in Nat : v \div base \in Nat
    BY Quotients
  <2> HIDE DEF L
  <2>3. ASSUME NEW v \in Nat
        PROVE  low[v] = IF v = 0 THEN <<>> ELSE <<int_to_char(v % base, cs)>> \o low[v \div base]
    BY <2>1, <2>2
  <2> QED
    BY <2>3
<1>3. F(tmp_buff)
  <2> HIDE DEF F
  <2> QED
    BY <1>2
<1> HIDE DEF tmp_buff
<1>4. tmp_buff[val] = L(val)
  <2> DEFINE T == {k \in Nat : \A v \in Nat : v < k => tmp_buff[v] = low[v]}
  <2>1. 0 \in T
    OBVIOUS
  <2>2. ASSUME NEW k \in Nat, k \in T PROVE k + 1 \in T
    <3> SUFFICES ASSUME NEW v \in Nat, v < k + 1 PROVE tmp_buff[v] = low[v]
      OBVIOUS
    <3>1. CASE v = 0
      <4>1. tmp_buff[v] = <<>>
        BY <1>3, <3>1
      <4>2. low[v] = <<>>
        <5> HIDE DEF low
        <5> QED
          BY <1>2, <3>1
      <4> QED
        BY <4>1, <4>2
    <3>2. CASE v # 0
      <4>a. v > 0
        BY <3>2
      <4>1. v \div base \in Nat /\ v \div base < v
        BY <4>a, DigitsStep
      <4>2. tmp_buff[v \div base] = low[v \div base]
        BY <2>2, <4>1
      <4>3. tmp_buff[v] = <<int_to_char(v % base, cs)>> \o tmp_buff[v \div base]
        BY <1>3, <3>2
      <4>4. low[v] = <<int_to_char(v % base, cs)>> \o low[v \div base]
        <5> HIDE DEF low
        <5> QED
          BY <1>2, <3>2
      <4> HIDE DEF low
      <4> QED
        BY <4>2, <4>3, <4>4
    <3> QED
      BY <3>1, <3>2
  <2> HIDE DEF T
  <2>3. val + 1 \in T
    <3>1. Nat \subseteq T
      BY <2>1, <2>2, Counting
    <3> QED
      BY <3>1
  <2>4. tmp_buff[val] = low[val]
    <3>1. val < val + 1
      OBVIOUS
    <3> HIDE DEF low
    <3> QED
      BY <2>3, <3>1 DEF T
  <2> QED
    BY <2>4
<1> HIDE DEF F, low
<1>5. CASE val = 0
  <2> DEFINE n == IF val = 0 THEN 1 ELSE Digits(val, base)
  <2>a. Numeral(val, base, cs) = [k \in 1 .. n |-> cs[((val \div Power(base, n - k)) % base) + 1]]
    BY NumeralIs
  <2>b. n = 1
    BY <1>5
  <2> HIDE DEF n
  <2>1. Numeral(val, base, cs) = [k \in 1 .. 1 |-> cs[((val \div Power(base, 1 - k)) % base) + 1]]
    BY <2>a, <2>b
  <2>2. (val \div Power(base, 1 - 1)) % base = 0
    <3>1. Power(base, 0) = 1
      BY PowerStep
    <3> QED
      BY <1>5, <3>1
  <2>3. Numeral(val, base, cs) = <<"0">>
    <3>1. ASSUME NEW k \in 1 .. 1
          PROVE  cs[((val \div Power(base, 1 - k)) % base) + 1] = "0"
      <4>1. k = 1
        OBVIOUS
      <4> QED
        BY <2>2, <4>1
    <3>2. Numeral(val, base, cs) = [k \in 1 .. 1 |-> "0"]
      BY <2>1, <3>1
    <3> QED
      BY <3>2
  <2>4. "0" \in S
    <3>1. 1 \in 1 .. Len(cs)
      BY LenProperties
    <3> QED
      BY <3>1, ElementOfSeq
  <2> QED
    BY <1>1, <1>5, <2>3, <2>4, Single
<1>6. CASE val # 0
  <2> DEFINE n == Digits(val, base)
             a == L(val)
  <2>1. n \in Nat /\ a \in Seq(S) /\ Len(a) = n
        /\ \A k \in 1 .. n : a[k] = cs[((val \div Power(base, k - 1)) % base) + 1]
    <3>1. n \in Nat
      BY DigitsFacts
    <3>2. a \in Seq(S) /\ Len(a) = n
      BY LowestStep
    <3>3. a = [k \in 1 .. n |-> cs[((val \div Power(base, k - 1)) % base) + 1]]
      BY DEF Lowest
    <3> HIDE DEF a, n
    <3> QED
      BY <3>1, <3>2, <3>3
  <2>2. varbase(val, base, cs) = Reverse(a)
    BY <1>1, <1>4, <1>6
  <2>3. Numeral(val, base, cs) = [k \in 1 .. n |-> cs[((val \div Power(base, n - k)) % base) + 1]]
    BY <1>6, NumeralIs
  <2> HIDE DEF a, n
  <2>4. Reverse(a) = [k \in 1 .. n |-> a[(n - k) + 1]]
    BY <2>1 DEF Reverse
  <2>5. ASSUME NEW k \in 1 .. n
        PROVE  a[(n - k) + 1] \in S /\ a[(n - k) + 1] = cs[((val \div Power(base, n - k)) % base) + 1]
    <3>1. (n - k) + 1 \in 1 .. n /\ ((n - k) + 1) - 1 = n - k
      BY <2>1
    <3>2. a[(n - k) + 1] \in S
      BY <2>1, <3>1, ElementOfSeq
    <3>3. a[(n - k) + 1] = cs[((val \div Power(base, ((n - k) + 1) - 1)) % base) + 1]
      BY <2>1, <3>1
    <3> QED
      BY <3>1, <3>2, <3>3
  <2>6. Reverse(a) \in Seq(S)
    BY <2>1, <2>4, <2>5
  <2>7. Reverse(a) = Numeral(val, base, cs)
    BY <2>3, <2>4, <2>5
  <2> QED
    BY <2>2, <2>6, <2>7
<1> QED
  BY <1>5, <1>6

-----------------------------------------------------------------------------
(* Values in a type with w values.                                         *)

\* Remainders of integers, negative ones too, modulo the width of a type.
LEMMA IntQuotients ==
  ASSUME NEW x \in Int, NEW w \in Nat, w > 0
  PROVE  /\ x \div w \in Int /\ x % w \in 0 .. w - 1
         /\ x = w * (x \div w) + (x % w)
<1>1. x \div w \in Int
  OBVIOUS
<1>2. x % w \in 0 .. w - 1
  OBVIOUS
<1>3. x = w * (x \div w) + (x % w)
  OBVIOUS
<1> QED
  BY <1>1, <1>2, <1>3

LEMMA Multiples ==
  ASSUME NEW k \in Int, NEW w \in Nat, w > 0, -w < w * k, w * k < w
  PROVE  k = 0
<1>1. k >= 1 => w * k >= w
  OBVIOUS
<1>2. k <= -1 => w * k <= -w
  OBVIOUS
<1> QED
  BY <1>1, <1>2

LEMMA MultipleRemainder ==
  ASSUME NEW k \in Int, NEW w \in Nat, w > 0
  PROVE  (w * k) % w = 0
OBVIOUS

\* A number below w, and one in either half around zero, is given by its
\* remainder.
LEMMA Congruent ==
  ASSUME NEW w \in Nat, w > 0, NEW a \in Int, NEW u \in Int, NEW v \in Int,
         (u - a) % w = 0, (v - a) % w = 0, u - v < w, v - u < w
  PROVE  u = v
<1> DEFINE p == (u - a) \div w
           q == (v - a) \div w
<1>1. u - a \in Int /\ v - a \in Int
  OBVIOUS
<1>2. p \in Int /\ q \in Int /\ u - a = w * p + ((u - a) % w) /\ v - a = w * q + ((v - a) % w)
  BY <1>1, IntQuotients
<1> HIDE DEF p, q
<1>3. w * p \in Int /\ w * q \in Int /\ w * (p - q) = w * p - w * q /\ p - q \in Int
  BY <1>2
<1>4. u - v = w * (p - q)
  BY <1>2, <1>3
<1>5. p - q = 0
  <2> DEFINE d == p - q
  <2>1. d \in Int /\ -w < w * d /\ w * d < w
    BY <1>3, <1>4
  <2> HIDE DEF d
  <2>2. d = 0
    BY <2>1, Multiples
  <2> QED
    BY <2>2 DEF d
<1> QED
  BY <1>3, <1>4, <1>5

\* The conversions of C and the value in the type are the same number.
LEMMA ValueIs ==
  ASSUME NEW w \in Nat, w > 0, NEW arg \in Int
  PROVE  /\ Value(arg, w, FALSE) = arg % w /\ arg % w \in 0 .. w - 1
         /\ w % 2 = 0 => /\ Value(arg, w, TRUE) = Signed(arg, w)
                         /\ Signed(arg, w) \in -(w \div 2) .. (w \div 2) - 1
<1> DEFINE r == arg % w
           q == arg \div w
           h == w \div 2
<1>1. r \in 0 .. w - 1 /\ q \in Int /\ arg = w * q + r
  BY IntQuotients
<1>2. h \in Nat
  OBVIOUS
<1>3. w % 2 = 0 => w = h + h
  OBVIOUS
<1> HIDE DEF q, h
<1>4. (r - arg) % w = 0 /\ ((r - w) - arg) % w = 0
  <2> HIDE DEF r
  <2>1. w * (-q) \in Int /\ w * (-q) = -(w * q) /\ w * ((-q) - 1) = w * (-q) - w /\ w * q \in Int
    BY <1>1
  <2>2. r - arg = w * (-q) /\ (r - w) - arg = w * ((-q) - 1)
    BY <1>1, <2>1
  <2>3. -q \in Int /\ (-q) - 1 \in Int
    BY <1>1
  <2> QED
    BY <2>2, <2>3, MultipleRemainder
<1>5. ASSUME NEW s \in BOOLEAN, NEW d \in Int,
             d \in (IF s THEN -(w \div 2) .. (w \div 2) - 1 ELSE 0 .. w - 1), (d - arg) % w = 0,
             s => w = h + h
      PROVE  Value(arg, w, s) = d
  <2> DEFINE R == IF s THEN -(w \div 2) .. (w \div 2) - 1 ELSE 0 .. w - 1
  <2>1. Value(arg, w, s) = CHOOSE v \in R : (v - arg) % w = 0
    BY Zenon DEF Value
  <2>2. R \subseteq Int
    BY <1>2 DEF h
  <2>3. ASSUME NEW v \in R, (v - arg) % w = 0 PROVE v = d
    <3>1. v \in Int /\ v - d < w /\ d - v < w
      BY <1>2, <1>5 DEF h
    <3> HIDE DEF R
    <3> QED
      BY <1>5, <2>3, <3>1, Congruent
  <2> HIDE DEF R
  <2>4. d \in R
    BY <1>5 DEF R
  <2> QED
    BY <1>5, <2>1, <2>3, <2>4
<1>6. Value(arg, w, FALSE) = r
  <2>1. r \in Int /\ r \in 0 .. w - 1
    BY <1>1
  <2> HIDE DEF r
  <2> QED
    BY <2>1, <1>4, <1>5
<1>7. ASSUME w % 2 = 0
      PROVE  /\ Value(arg, w, TRUE) = Signed(arg, w)
             /\ Signed(arg, w) \in -(w \div 2) .. (w \div 2) - 1
  <2> DEFINE s == Signed(arg, w)
  <2>1. s = IF r < h THEN r ELSE r - w
    BY DEF Signed, h
  <2> HIDE DEF s, r
  <2>2. s \in Int /\ s \in -h .. h - 1 /\ (s - arg) % w = 0
    BY <1>1, <1>2, <1>3, <1>4, <1>7, <2>1
  <2>3. Value(arg, w, TRUE) = s
    BY <1>3, <1>5, <1>7, <2>2 DEF h
  <2> QED
    BY <2>2, <2>3 DEF s, h
<1> QED
  BY <1>1, <1>6, <1>7 DEF r

-----------------------------------------------------------------------------
(* Characters, and numbers in them.                                        *)

\* The strings there are, and those that printk and the kernel name: the
\* provers do not know that these are strings.
Literals ==
  {"0", "1", "2", "3", "4", "5", "6", "7", "8", "9", "a", "b", "c", "d", "e", "f",
   "A", "B", "C", "D", "E", "F", "-", "x", "%", "h", "l", "q", "u", "s", "p", ":", "\n",
   "Assert failed: ", "core/src/printk.c",
   "\n\nWELCOME TO SKIPOS\n\n", "GDT inititialized.\n", "Interrupt system initialized.\n",
   "Keyboard initialized.\n", "Serial output initialized.\n",
   "Physical memory system initialized, physical size: 0x", ".\n",
   "Virtual memory system initialized.\n", "Kernel heap allocator initialized.\n"}

\* The characters.
Letter == STRING \cup Literals \cup {NUL}

\* What a text is made of.
Glyph == Letter \ {NUL}

LEMMA GlyphFacts == Literals \subseteq Glyph /\ Glyph \subseteq Letter /\ STRING \subseteq Letter
BY ZenonT(30) DEF Literals, Letter, Glyph, NUL

\* Numbers in characters.
LEMMA DigitFacts ==
  /\ LOWERCASE \in Seq(Glyph) /\ Len(LOWERCASE) = 16 /\ LOWERCASE[1] = "0"
  /\ UPPERCASE \in Seq(Glyph) /\ Len(UPPERCASE) = 16 /\ UPPERCASE[1] = "0"
<1>1. LOWERCASE \in Seq(Literals) /\ UPPERCASE \in Seq(Literals)
  BY DEF LOWERCASE, UPPERCASE, Literals
<1>2. Len(LOWERCASE) = 16 /\ LOWERCASE[1] = "0" /\ Len(UPPERCASE) = 16 /\ UPPERCASE[1] = "0"
  BY DEF LOWERCASE, UPPERCASE
<1>3. Seq(Literals) \subseteq Seq(Glyph)
  BY GlyphFacts
<1> QED
  BY <1>1, <1>2, <1>3

LEMMA NumeralText ==
  ASSUME NEW base \in {10, 16}, NEW cs \in {LOWERCASE, UPPERCASE}, NEW v \in Nat
  PROVE  varbase(v, base, cs) \in Seq(Glyph) /\ varbase(v, base, cs) = Numeral(v, base, cs)
<1>1. cs \in Seq(Glyph) /\ Len(cs) = 16 /\ cs[1] = "0"
  BY DigitFacts
<1>2. base \in Nat /\ base >= 2 /\ Len(cs) >= base
  BY <1>1
<1> QED
  BY <1>1, <1>2, VarbaseIs

LEMMA WidthFacts ==
  /\ \A w \in {SHORT, INT, LONG, LLONG} : w \in Nat /\ w > 0 /\ w <= LLONG /\ w % 2 = 0
  /\ LLONG >= 2
<1>1. \A w \in {SHORT, INT, LONG, LLONG} : w \in Nat \ {0}
  BY PrintkAssumption
<1>2. \A w \in {SHORT, INT, LONG, LLONG} : w <= LLONG /\ w % 2 = 0
  BY <1>1, PrintkAssumption
<1>3. LLONG >= 2
  <2>1. LLONG % 2 = 0 /\ LLONG \in Nat \ {0}
    BY <1>1, PrintkAssumption
  <2> QED
    BY <2>1
<1>4. \A w \in {SHORT, INT, LONG, LLONG} : w \in Nat /\ w > 0
  BY <1>1
<1> QED
  BY <1>2, <1>3, <1>4, Zenon

\* val * -1, of the least number too, is the number of its digits.
LEMMA SignedText ==
  ASSUME NEW v \in Int, v >= -(LLONG \div 2), v < LLONG
  PROVE  /\ print_long_long(v) \in Seq(Glyph)
         /\ print_long_long(v) = IF v < 0 THEN <<"-">> \o Numeral(-v, 10, LOWERCASE)
                                 ELSE Numeral(v, 10, LOWERCASE)
<1>1. CASE v < 0
  <2>1. (-v) \in Nat /\ (-v) % LLONG = -v
    BY <1>1, WidthFacts
  <2>2. varbase(-v, 10, LOWERCASE) \in Seq(Glyph)
        /\ varbase(-v, 10, LOWERCASE) = Numeral(-v, 10, LOWERCASE)
    BY <2>1, NumeralText
  <2>3. print_long_long(v) = <<"-">> \o varbase(-v, 10, LOWERCASE)
    BY <1>1, <2>1 DEF print_long_long
  <2>4. <<"-">> \in Seq(Glyph)
    <3>1. "-" \in Glyph
      BY GlyphFacts DEF Literals
    <3> QED
      BY <3>1
  <2> QED
    BY <1>1, <2>2, <2>3, <2>4, ConcatProperties
<1>2. CASE ~(v < 0)
  <2>1. varbase(v, 10, LOWERCASE) \in Seq(Glyph)
        /\ varbase(v, 10, LOWERCASE) = Numeral(v, 10, LOWERCASE)
    BY <1>2, NumeralText
  <2> QED
    BY <1>2, <2>1 DEF print_long_long
<1> QED
  BY <1>1, <1>2

\* Every number conversion has a width and a base, and prints the numeral of
\* the value in its type.
LEMMA NumberConversions ==
  ASSUME NEW conv \in Numbers
  PROVE  /\ conv \in Seq(Letter) /\ conv # <<>>
         /\ Last(conv) \in {"d", "u", "x"} /\ Width(conv) \in {SHORT, INT, LONG, LLONG}
<1>a. "d" \in Letter /\ "u" \in Letter /\ "x" \in Letter /\ "h" \in Letter /\ "l" \in Letter
      /\ "q" \in Letter
  BY DEF Letter, Literals
<1>1. CASE conv \in {<<"d">>, <<"u">>, <<"x">>}
  <2>1. PICK k \in {"d", "u", "x"} : conv = <<k>>
    BY <1>1
  <2>2. conv \in Seq(Letter) /\ conv # <<>> /\ Len(conv) = 1 /\ conv[1] = k
    BY <1>a, <2>1
  <2> QED
    BY <2>2 DEF Last, Width
<1>2. CASE conv \in {<<l, k>> : l \in {"h", "l", "q"}, k \in {"d", "u", "x"}}
  <2>1. PICK l \in {"h", "l", "q"}, k \in {"d", "u", "x"} : conv = <<l, k>>
    BY <1>2
  <2>2. conv \in Seq(Letter) /\ conv # <<>> /\ Len(conv) = 2 /\ conv[1] = l /\ conv[2] = k
    BY <1>a, <2>1
  <2> QED
    BY <2>2 DEF Last, Width
<1> QED
  BY <1>1, <1>2 DEF Numbers

LEMMA NumberIs ==
  ASSUME NEW conv \in Numbers, NEW arg \in Int
  PROVE  Number(conv, arg) \in Seq(Glyph) /\ Number(conv, arg) = NumberText(conv, arg)
<1> DEFINE w == Width(conv)
           c == Last(conv)
<1>1. c \in {"d", "u", "x"} /\ w \in Nat /\ w > 0 /\ w <= LLONG /\ w % 2 = 0
  BY NumberConversions, WidthFacts
<1>2. NumberText(conv, arg) =
        LET v == Value(arg, w, c = "d")
        IN IF c = "x" THEN Numeral(v, 16, LOWERCASE)
           ELSE IF v < 0 THEN <<"-">> \o Numeral(-v, 10, LOWERCASE)
           ELSE Numeral(v, 10, LOWERCASE)
  BY DEF NumberText
<1>3. Number(conv, arg) =
        CASE c = "d" -> print_long_long(Signed(arg, w))
          [] c = "u" -> varbase(arg % w, 10, LOWERCASE)
          [] c = "x" -> varbase(arg % w, 16, LOWERCASE)
  BY DEF Number
<1> HIDE DEF w, c
<1>4. CASE c = "d"
  <2> DEFINE v == Signed(arg, w)
  <2>1. v \in -(w \div 2) .. (w \div 2) - 1 /\ Value(arg, w, TRUE) = v
    BY <1>1, ValueIs
  <2>2. (c = "d") = TRUE
    BY <1>4
  <2> HIDE DEF v
  <2>3. v \in Int /\ v >= -(LLONG \div 2) /\ v < LLONG
    BY <1>1, <2>1, WidthFacts
  <2>4. Number(conv, arg) = print_long_long(v)
    BY <1>3, <1>4 DEF v
  <2>5. NumberText(conv, arg) = IF v < 0 THEN <<"-">> \o Numeral(-v, 10, LOWERCASE)
                                ELSE Numeral(v, 10, LOWERCASE)
    BY <1>2, <1>4, <2>1, <2>2
  <2> QED
    BY <2>3, <2>4, <2>5, SignedText
<1>5. CASE c # "d"
  <2> DEFINE v == arg % w
  <2>1. v \in 0 .. w - 1 /\ Value(arg, w, FALSE) = v
    BY <1>1, ValueIs
  <2>2. (c = "d") = FALSE
    BY <1>5
  <2> HIDE DEF v
  <2>3. v \in Nat /\ ~(v < 0)
    BY <1>1, <2>1
  <2>4. Number(conv, arg) = IF c = "x" THEN varbase(v, 16, LOWERCASE) ELSE varbase(v, 10, LOWERCASE)
    BY <1>1, <1>3, <1>5 DEF v
  <2>5. NumberText(conv, arg) = IF c = "x" THEN Numeral(v, 16, LOWERCASE) ELSE Numeral(v, 10, LOWERCASE)
    BY <1>2, <2>1, <2>2, <2>3
  <2> QED
    BY <2>3, <2>4, <2>5, NumeralText
<1> QED
  BY <1>4, <1>5

-----------------------------------------------------------------------------
(* The pieces of a call: in its format, in its arguments and in the text.  *)

\* An argument of a conversion, and a piece that has its argument.
Args == Int \cup Lists(Glyph)

\* The pieces printk may be called for, and those that are well-formed.
Pieces ==
  {p \in [conv : Lists(Letter), arg : Glyph \cup Args] :
     IF p.conv = <<>> THEN p.arg \in Glyph
     ELSE IF p.conv = <<"s">> THEN p.arg \in Lists(Glyph) ELSE p.arg \in Int}
Good == {p \in Pieces : WellFormed(p)}

\* What a piece is in the format, in the arguments, in the text; and what is
\* left of a character.
FormatOf == [p \in Pieces |-> IF p.conv = <<>> THEN <<p.arg>> ELSE <<"%">> \o p.conv]
ArgumentsOf == [p \in Pieces |-> IF p.conv \in {<<>>, <<"%">>} THEN <<>> ELSE <<p.arg>>]
TextOf(nul) == [p \in Good |-> Text(p, nul)]
Kept == [c \in Letter |-> IF c = NUL THEN <<>> ELSE <<c>>]

\* An active call that has these pieces before it.
Frames == [fmt : Lists(Letter), args : Lists(Args)]
Frame(a) == [fmt |-> Format(a), args |-> Arguments(a)]

\* A conversion is a letter, or a length and a letter.
LEMMA ConversionFacts ==
  ASSUME NEW conv \in Conversions
  PROVE  /\ conv \in Seq(Letter) /\ conv # <<>>
         /\ \/ Len(conv) = 1 /\ conv[1] \notin {"h", "l", "q"}
            \/ Len(conv) = 2 /\ conv[1] \in {"h", "l", "q"}
         /\ conv \in Numbers => conv \notin {<<"%">>, <<"c">>, <<"s">>, <<"p">>}
<1>1. /\ "d" \in Letter /\ "u" \in Letter /\ "x" \in Letter /\ "h" \in Letter /\ "l" \in Letter
      /\ "q" \in Letter /\ "%" \in Letter /\ "c" \in Letter /\ "s" \in Letter /\ "p" \in Letter
  BY DEF Letter, Literals
<1>2. CASE conv \in {<<"d">>, <<"u">>, <<"x">>, <<"%">>, <<"c">>, <<"s">>, <<"p">>}
  <2>1. PICK k \in {"d", "u", "x", "%", "c", "s", "p"} : conv = <<k>>
    BY <1>2
  <2>2. conv \in Seq(Letter) /\ conv # <<>> /\ Len(conv) = 1 /\ conv[1] = k
    BY <1>1, <2>1
  <2>3. conv \in Numbers => k \in {"d", "u", "x"}
    <3>1. ASSUME NEW l \in {"h", "l", "q"}, NEW m \in {"d", "u", "x"} PROVE conv # <<l, m>>
      BY <2>1
    <3>2. ASSUME NEW m \in {"d", "u", "x"}, conv = <<m>> PROVE k = m
      BY <2>1, <3>2
    <3> QED
      BY <3>1, <3>2 DEF Numbers
  <2>4. \A m \in {"%", "c", "s", "p"} : conv = <<m>> => k = m
    BY <2>1
  <2> QED
    BY <2>2, <2>3, <2>4
<1>3. CASE conv \in {<<l, k>> : l \in {"h", "l", "q"}, k \in {"d", "u", "x"}}
  <2>1. PICK l \in {"h", "l", "q"}, k \in {"d", "u", "x"} : conv = <<l, k>>
    BY <1>3
  <2>2. conv \in Seq(Letter) /\ conv # <<>> /\ Len(conv) = 2 /\ conv[1] = l
    BY <1>1, <2>1
  <2>3. \A m \in {"%", "c", "s", "p"} : conv # <<m>>
    BY <2>1
  <2> QED
    BY <2>2, <2>3
<1> QED
  BY <1>2, <1>3 DEF Conversions, Numbers

\* printk reads the conversion that was written.
LEMMA ConversionIs ==
  ASSUME NEW conv \in Conversions, NEW behind \in Seq(Letter),
         NEW fmt, fmt = (<<"%">> \o conv) \o behind
  PROVE  /\ fmt \in Seq(Letter) /\ fmt # <<>> /\ fmt[1] = "%" /\ Conversion(fmt) = conv
         /\ SubSeq(fmt, (1 + Len(conv)) + 1, Len(fmt)) = behind
<1> DEFINE per == <<"%">>
           a == per \o conv
<1>1. conv \in Seq(Letter) /\ conv # <<>> /\ Len(conv) \in {1, 2} /\ (Len(conv) = 2 <=> conv[1] \in {"h", "l", "q"})
  <2>1. /\ conv \in Seq(Letter) /\ conv # <<>>
        /\ \/ Len(conv) = 1 /\ conv[1] \notin {"h", "l", "q"}
           \/ Len(conv) = 2 /\ conv[1] \in {"h", "l", "q"}
    BY ConversionFacts
  <2>2. Len(conv) = 2 => conv[1] \in {"h", "l", "q"}
    BY <2>1
  <2>3. conv[1] \in {"h", "l", "q"} => Len(conv) = 2
    BY <2>1
  <2> QED
    BY <2>1, <2>2, <2>3
<1>2. per \in Seq(Letter) /\ Len(per) = 1 /\ per[1] = "%"
  <2>1. "%" \in Letter
    BY DEF Letter, Literals
  <2> QED
    BY <2>1, Single
<1> HIDE DEF per
<1>3. /\ a \in Seq(Letter) /\ Len(a) = 1 + Len(conv) /\ a[1] = "%"
      /\ \A k \in 1 .. Len(conv) : a[1 + k] = conv[k]
  <2>1. /\ a \in Seq(Letter) /\ Len(a) = Len(per) + Len(conv)
        /\ \A k \in 1 .. Len(per) : a[k] = per[k]
        /\ \A k \in 1 .. Len(conv) : a[Len(per) + k] = conv[k]
    BY <1>1, <1>2, Concat, SMTT(30)
  <2> HIDE DEF a
  <2>2. 1 \in 1 .. Len(per)
    BY <1>2
  <2>3. a[1] = per[1]
    BY <2>1, <2>2
  <2>4. \A k \in 1 .. Len(conv) : a[1 + k] = conv[k]
    BY <1>2, <2>1
  <2> QED
    BY <1>2, <2>1, <2>3, <2>4
<1>4. fmt = a \o behind
  BY DEF per
<1> HIDE DEF a
<1>5. /\ fmt \in Seq(Letter) /\ Len(fmt) = (1 + Len(conv)) + Len(behind) /\ Len(behind) \in Nat
      /\ \A k \in 1 .. 1 + Len(conv) : fmt[k] = a[k]
  <2>1. /\ fmt \in Seq(Letter) /\ Len(fmt) = Len(a) + Len(behind) /\ Len(behind) \in Nat
        /\ \A k \in 1 .. Len(a) : fmt[k] = a[k]
    <3>1. /\ a \o behind \in Seq(Letter) /\ Len(a \o behind) = Len(a) + Len(behind)
          /\ Len(behind) \in Nat /\ \A k \in 1 .. Len(a) : (a \o behind)[k] = a[k]
      <4>1. a \in Seq(Letter)
        BY <1>3
      <4> QED
        BY <4>1, Concat
    <3> QED
      BY <1>4, <3>1
  <2> QED
    BY <1>3, <2>1
<1>6. fmt[1] = "%" /\ \A k \in 1 .. Len(conv) : fmt[1 + k] = conv[k]
  <2>1. Len(conv) \in Nat
    BY <1>1
  <2>2. 1 \in 1 .. 1 + Len(conv) /\ \A k \in 1 .. Len(conv) : 1 + k \in 1 .. 1 + Len(conv)
    BY <2>1
  <2> QED
    BY <1>3, <1>5, <2>2
<1>7. SubSeq(fmt, (1 + Len(conv)) + 1, Len(fmt)) = behind
  <2>1. SubSeq(a \o behind, Len(a) + 1, Len(a \o behind)) = behind
    BY <1>3, Behind
  <2> QED
    BY <1>3, <1>4, <2>1
<1>8. Conversion(fmt) = SubSeq(fmt, 2, 1 + Len(conv))
  <2> DEFINE wanted == IF Len(fmt) > 1 /\ fmt[2] \in {"h", "l", "q"} THEN 3 ELSE 2
  <2>1. fmt[2] = conv[1]
    <3>1. 1 \in 1 .. Len(conv) /\ 1 + 1 = 2
      BY <1>1
    <3>2. fmt[1 + 1] = conv[1]
      BY <1>6, <3>1
    <3> QED
      BY <3>1, <3>2
  <2>2. Len(fmt) > 1 /\ Len(fmt) \in Nat
    BY <1>1, <1>5
  <2>3. wanted = 1 + Len(conv)
    <3>1. CASE Len(conv) = 2
      <4>1. conv[1] \in {"h", "l", "q"}
        BY <1>1, <3>1
      <4> QED
        BY <2>1, <2>2, <3>1, <4>1
    <3>2. CASE Len(conv) # 2
      <4>1. conv[1] \notin {"h", "l", "q"} /\ Len(conv) = 1
        BY <1>1, <3>2
      <4> QED
        BY <2>1, <2>2, <4>1
    <3> QED
      BY <3>1, <3>2
  <2>4. ~(Len(fmt) < 1 + Len(conv))
    BY <1>1, <1>5
  <2>5. Conversion(fmt) = SubSeq(fmt, 2, IF Len(fmt) < wanted THEN Len(fmt) ELSE wanted)
    BY DEF Conversion
  <2> HIDE DEF wanted
  <2> QED
    BY <2>3, <2>4, <2>5
<1>9. SubSeq(fmt, 2, 1 + Len(conv)) = conv
  <2> DEFINE c == SubSeq(fmt, 2, 1 + Len(conv))
  <2>1. Len(conv) \in Nat /\ 2 <= 1 + Len(conv) /\ \A k \in 2 .. 1 + Len(conv) : k \in 1 .. Len(fmt)
    BY <1>1, <1>5
  <2>2. \A k \in 2 .. 1 + Len(conv) : fmt[k] \in Letter
    BY <1>5, <2>1, ElementOfSeq
  <2>3. /\ c \in Seq(Letter)
        /\ Len(c) = IF 2 <= 1 + Len(conv) THEN (1 + Len(conv)) - 2 + 1 ELSE 0
        /\ \A k \in 1 .. (1 + Len(conv)) - 2 + 1 : c[k] = fmt[2 + k - 1]
    BY <2>1, <2>2, SubSeqProperties
  <2>4. Len(c) = Len(conv)
    BY <2>1, <2>3
  <2>5. ASSUME NEW k \in 1 .. Len(conv) PROVE c[k] = conv[k]
    <3>1. 2 + k - 1 = 1 + k /\ k \in 1 .. (1 + Len(conv)) - 2 + 1
      BY <2>1
    <3> HIDE DEF c
    <3> QED
      BY <1>6, <2>3, <3>1
  <2> HIDE DEF c
  <2>6. c = conv
    BY <1>1, <2>3, <2>4, <2>5, SeqEqual
  <2> QED
    BY <2>6 DEF c
<1>10. fmt # <<>>
  <2>1. Len(fmt) # 0
    BY <1>1, <1>5
  <2> QED
    BY <1>5, <2>1, EmptySeq
<1> QED
  BY <1>5, <1>6, <1>7, <1>8, <1>9, <1>10

LEMMA FunctionFacts ==
  /\ FormatOf \in [Pieces -> Lists(Letter)] /\ ArgumentsOf \in [Pieces -> Lists(Args)]
  /\ Kept \in [Letter -> Lists(Letter)]
<1>1. ASSUME NEW p \in Pieces
      PROVE  (IF p.conv = <<>> THEN <<p.arg>> ELSE <<"%">> \o p.conv) \in Lists(Letter)
  <2>1. CASE p.conv = <<>>
    <3>1. p.arg \in Letter
      BY <2>1 DEF Pieces, Glyph
    <3> QED
      BY <2>1, <3>1 DEF Lists
  <2>2. CASE p.conv # <<>>
    <3>1. p.conv \in Lists(Letter)
      BY DEF Pieces
    <3>2. <<"%">> \in Lists(Letter)
      BY DEF Lists, Letter, Literals
    <3> QED
      BY <2>2, <3>1, <3>2, ListFacts
  <2> QED
    BY <2>1, <2>2
<1>2. ASSUME NEW p \in Pieces
      PROVE  (IF p.conv \in {<<>>, <<"%">>} THEN <<>> ELSE <<p.arg>>) \in Lists(Args)
  <2>1. CASE p.conv \in {<<>>, <<"%">>}
    BY <2>1, ListFacts
  <2>2. CASE p.conv \notin {<<>>, <<"%">>}
    <3>1. p.arg \in Args
      BY <2>2 DEF Pieces, Args
    <3> QED
      BY <2>2, <3>1 DEF Lists
  <2> QED
    BY <2>1, <2>2
<1>3. ASSUME NEW c \in Letter PROVE (IF c = NUL THEN <<>> ELSE <<c>>) \in Lists(Letter)
  BY DEF Lists
<1> QED
  BY <1>1, <1>2, <1>3 DEF FormatOf, ArgumentsOf, Kept

\* Formats and arguments are made piece by piece.
LEMMA FormatFacts ==
  ASSUME NEW a \in Seq(Pieces)
  PROVE  /\ Format(a) = Flat(FormatOf, a) /\ Format(a) \in Seq(Letter)
         /\ Arguments(a) = Flat(ArgumentsOf, a) /\ Arguments(a) \in Seq(Args)
<1>1. \A n \in DOMAIN a : a[n] \in Pieces
  BY ElementOfSeq, LenProperties
<1>2. Format(a) = Flat(FormatOf, a)
  <2>1. [n \in DOMAIN a |-> FormatOf[a[n]]]
          = [n \in DOMAIN a |-> IF a[n].conv = <<>> THEN <<a[n].arg>> ELSE <<"%">> \o a[n].conv]
    BY <1>1 DEF FormatOf
  <2> QED
    BY <2>1 DEF Format, Flat
<1>3. Arguments(a) = Flat(ArgumentsOf, a)
  <2>1. [n \in DOMAIN a |-> ArgumentsOf[a[n]]]
          = [n \in DOMAIN a |-> IF a[n].conv \in {<<>>, <<"%">>} THEN <<>> ELSE <<a[n].arg>>]
    BY <1>1 DEF ArgumentsOf
  <2> QED
    BY <2>1 DEF Arguments, Flat
<1>4. Flat(FormatOf, a) \in Lists(Letter) /\ Flat(ArgumentsOf, a) \in Lists(Args)
  BY FunctionFacts, FlatConcat
<1> QED
  BY <1>2, <1>3, <1>4 DEF Lists

\* The format and the arguments begin with those of the first piece.
LEMMA FirstPiece ==
  ASSUME NEW p \in Pieces, NEW r \in Seq(Pieces)
  PROVE  /\ <<p>> \o r \in Seq(Pieces) /\ FormatOf[p] \in Seq(Letter) /\ ArgumentsOf[p] \in Seq(Args)
         /\ Format(<<p>> \o r) = FormatOf[p] \o Format(r)
         /\ Arguments(<<p>> \o r) = ArgumentsOf[p] \o Arguments(r)
<1>1. <<p>> \in Seq(Pieces)
  BY Single
<1>2. <<p>> \o r \in Seq(Pieces)
  BY <1>1, Concat
<1>3. Flat(FormatOf, <<p>> \o r) = Flat(FormatOf, <<p>>) \o Flat(FormatOf, r)
      /\ Flat(ArgumentsOf, <<p>> \o r) = Flat(ArgumentsOf, <<p>>) \o Flat(ArgumentsOf, r)
  <2> DEFINE y == <<p>>
  <2>1. y \in Seq(Pieces)
    BY <1>1
  <2> HIDE DEF y
  <2>2. Flat(FormatOf, y \o r) = Flat(FormatOf, y) \o Flat(FormatOf, r)
    BY <2>1, FunctionFacts, FlatConcat
  <2>3. Flat(ArgumentsOf, y \o r) = Flat(ArgumentsOf, y) \o Flat(ArgumentsOf, r)
    BY <2>1, FunctionFacts, FlatConcat
  <2> QED
    BY <2>2, <2>3 DEF y
<1>4. Flat(FormatOf, <<p>>) = FormatOf[p] /\ Flat(ArgumentsOf, <<p>>) = ArgumentsOf[p]
  BY FunctionFacts, FlatOne
<1>5. FormatOf[p] \in Lists(Letter) /\ ArgumentsOf[p] \in Lists(Args)
  BY FunctionFacts
<1> QED
  BY <1>2, <1>3, <1>4, <1>5, FormatFacts DEF Lists

\* Taking the terminators out of a text.
LEMMA WithoutFacts ==
  /\ Without(<<>>, NUL) = <<>> /\ Without(<<NUL>>, NUL) = <<>>
  /\ \A a, b \in Lists(Letter) : Without(a \o b, NUL) = Without(a, NUL) \o Without(b, NUL)
  /\ \A a \in Lists(Glyph) : Without(a, NUL) = a
<1>1. ASSUME NEW a \in Lists(Letter) PROVE Without(a, NUL) = Flat(Kept, a)
  <2>1. \A n \in DOMAIN a : a[n] \in Letter
    BY ElementOfSeq, LenProperties DEF Lists
  <2>2. [n \in DOMAIN a |-> Kept[a[n]]] = [n \in DOMAIN a |-> IF a[n] = NUL THEN <<>> ELSE <<a[n]>>]
    BY <2>1 DEF Kept
  <2> QED
    BY <2>2 DEF Without, Flat
<1>2. NUL \in Letter /\ Kept[NUL] = <<>>
  BY DEF Letter, Kept
<1>3. Without(<<NUL>>, NUL) = <<>>
  <2>1. <<NUL>> \in Lists(Letter)
    BY <1>2 DEF Lists
  <2>2. Flat(Kept, <<NUL>>) = <<>>
    BY <1>2, FunctionFacts, FlatOne
  <2> QED
    BY <1>1, <2>1, <2>2
<1>4. ASSUME NEW a \in Lists(Letter), NEW b \in Lists(Letter)
      PROVE  Without(a \o b, NUL) = Without(a, NUL) \o Without(b, NUL)
  <2>1. a \in Seq(Letter) /\ b \in Seq(Letter) /\ a \o b \in Lists(Letter)
    BY ListFacts DEF Lists
  <2>2. Flat(Kept, a \o b) = Flat(Kept, a) \o Flat(Kept, b)
    BY <2>1, FunctionFacts, FlatConcat
  <2> QED
    BY <1>1, <2>1, <2>2
<1>5. ASSUME NEW a \in Lists(Glyph) PROVE Without(a, NUL) = a
  <2>1. a \in Seq(Glyph) /\ a \in Seq(Letter) /\ Glyph \subseteq Letter
    BY GlyphFacts DEF Lists
  <2>2. \A c \in Glyph : c \in Letter /\ Kept[c] = <<c>>
    BY DEF Glyph, Kept
  <2>3. Flat(Kept, a) = a
    BY <2>1, <2>2, FunctionFacts, FlatSingles
  <2> QED
    BY <1>1, <2>1, <2>3 DEF Lists
<1>6. Without(<<>>, NUL) = <<>>
  BY <1>1, ListFacts, FlatEmpty
<1> QED
  BY <1>3, <1>4, <1>5, <1>6

\* The text of a piece, by its conversion.
LEMMA TextIs ==
  ASSUME NEW p, NEW nul
  PROVE  /\ p.conv = <<>> => Text(p, nul) = <<p.arg>>
         /\ p.conv = <<"%">> => Text(p, nul) = <<"%">>
         /\ p.conv = <<"c">> => Text(p, nul) = <<CharSet[(p.arg % Len(CharSet)) + 1]>>
         /\ p.conv = <<"s">> => Text(p, nul) = p.arg \o nul
         /\ p.conv = <<"p">> =>
              Text(p, nul) = <<"0", "x">> \o nul \o Numeral(Value(p.arg, LONG, FALSE), 16, UPPERCASE)
         /\ p.conv \in Numbers => Text(p, nul) = NumberText(p.conv, p.arg)
<1>1. /\ <<"%">> # <<>> /\ <<"c">> # <<>> /\ <<"s">> # <<>> /\ <<"p">> # <<>>
      /\ <<"c">> # <<"%">> /\ <<"s">> # <<"%">> /\ <<"p">> # <<"%">>
      /\ <<"s">> # <<"c">> /\ <<"p">> # <<"c">> /\ <<"p">> # <<"s">>
  OBVIOUS
<1>2. p.conv \in Numbers => p.conv \notin {<<>>, <<"%">>, <<"c">>, <<"s">>, <<"p">>}
  BY ConversionFacts DEF Conversions
<1>3. CASE p.conv = <<>>
  BY <1>1, <1>2, <1>3 DEF Text
<1>4. CASE p.conv = <<"%">>
  BY <1>1, <1>2, <1>4 DEF Text
<1>5. CASE p.conv = <<"c">>
  BY <1>1, <1>2, <1>5 DEF Text
<1>6. CASE p.conv = <<"s">>
  BY <1>1, <1>2, <1>6 DEF Text
<1>7. CASE p.conv = <<"p">>
  BY <1>1, <1>2, <1>7 DEF Text
<1>8. CASE p.conv \notin {<<>>, <<"%">>, <<"c">>, <<"s">>, <<"p">>}
  BY <1>8 DEF Text
<1> QED
  BY <1>3, <1>4, <1>5, <1>6, <1>7, <1>8

\* A well-formed piece has the argument that its conversion takes.
LEMMA GoodFacts ==
  ASSUME NEW p \in Good
  PROVE  /\ p \in Pieces
         /\ \/ p.conv = <<>> /\ p.arg \in Glyph /\ p.arg # "%"
            \/ p.conv \in Conversions /\ p.conv # <<>> /\ p.conv = <<"s">> /\ p.arg \in Lists(Glyph) /\ p.arg # NullString
            \/ p.conv \in Numbers \cup {<<"%">>, <<"c">>, <<"p">>} /\ p.conv \in Conversions
               /\ p.conv # <<>> /\ p.conv # <<"s">> /\ p.arg \in Int
<1>1. p \in Pieces /\ p.conv \in Conversions \cup {<<>>}
      /\ (p.conv = <<>> => p.arg # "%") /\ (p.conv = <<"s">> => p.arg # NullString)
  BY DEF Good, WellFormed
<1>2. p.conv \in Conversions => p.conv # <<>>
  BY ConversionFacts
<1>3. CASE p.conv = <<>>
  BY <1>1, <1>3 DEF Pieces
<1>4. CASE p.conv = <<"s">>
  BY <1>1, <1>2, <1>4 DEF Pieces, Conversions
<1>5. CASE p.conv # <<>> /\ p.conv # <<"s">>
  <2>1. p.arg \in Int
    BY <1>1, <1>5 DEF Pieces
  <2> QED
    BY <1>1, <1>5, <2>1 DEF Conversions
<1> QED
  BY <1>3, <1>4, <1>5

LEMMA CharacterIs ==
  ASSUME NEW arg \in Int
  PROVE  CharSet[(arg % Len(CharSet)) + 1] \in Glyph
<1> DEFINE n == Len(CharSet)
           k == (arg % n) + 1
<1>1. CharSet \in Seq(STRING) /\ CharSet # <<>> /\ NUL \notin Range(CharSet)
  BY PrintkAssumption
<1>2. n \in Nat /\ n > 0 /\ DOMAIN CharSet = 1 .. n
  <2>1. n \in Nat /\ n # 0 /\ DOMAIN CharSet = 1 .. n
    BY <1>1, EmptySeq, LenProperties
  <2> QED
    BY <2>1
<1> HIDE DEF n
<1>3. arg % n \in 0 .. n - 1
  BY <1>2, IntQuotients
<1>4. k \in 1 .. n
  BY <1>2, <1>3
<1> HIDE DEF k
<1>5. CharSet[k] \in STRING
  BY <1>1, <1>4, ElementOfSeq DEF n
<1>6. CharSet[k] # NUL
  BY <1>1, <1>2, <1>4 DEF Range
<1> QED
  BY <1>5, <1>6 DEF k, n, Glyph, Letter

\* Both texts of a piece differ in the terminators.
LEMMA TextFacts ==
  ASSUME NEW p \in Good
  PROVE  /\ Text(p, <<>>) \in Seq(Glyph) /\ Text(p, <<NUL>>) \in Seq(Letter)
         /\ Without(Text(p, <<NUL>>), NUL) = Text(p, <<>>)
<1>1. ASSUME NEW x \in Lists(Glyph), Text(p, <<>>) = x, Text(p, <<NUL>>) = x
      PROVE  /\ Text(p, <<>>) \in Seq(Glyph) /\ Text(p, <<NUL>>) \in Seq(Letter)
             /\ Without(Text(p, <<NUL>>), NUL) = Text(p, <<>>)
  BY <1>1, WithoutFacts, GlyphFacts DEF Lists
<1>2. <<NUL>> \in Lists(Letter)
  BY DEF Lists, Letter
<1>3. Lists(Glyph) \subseteq Lists(Letter)
  BY GlyphFacts DEF Lists
<1>4. CASE p.conv = <<>>
  <2>1. <<p.arg>> \in Lists(Glyph)
    BY <1>4, GoodFacts DEF Lists
  <2> QED
    BY <1>1, <1>4, <2>1, TextIs
<1>5. CASE p.conv = <<"s">>
  <2> DEFINE s == p.arg
  <2>1. s \in Lists(Glyph) /\ s \in Lists(Letter)
    BY <1>3, <1>5, GoodFacts
  <2>2. Text(p, <<>>) = s \o <<>> /\ Text(p, <<NUL>>) = s \o <<NUL>>
    BY <1>5, TextIs
  <2> HIDE DEF s
  <2>3. s \o <<>> = s /\ s \o <<NUL>> \in Lists(Letter)
    BY <1>2, <2>1, ListFacts
  <2>4. Without(s \o <<NUL>>, NUL) = Without(s, NUL) \o Without(<<NUL>>, NUL)
    BY <1>2, <2>1, WithoutFacts
  <2>5. Without(s, NUL) = s /\ Without(<<NUL>>, NUL) = <<>>
    BY <2>1, WithoutFacts
  <2> QED
    BY <2>1, <2>2, <2>3, <2>4, <2>5 DEF Lists
<1>6. CASE p.conv = <<"%">>
  <2>1. <<"%">> \in Lists(Glyph)
    <3>1. "%" \in Glyph
      BY GlyphFacts DEF Literals
    <3> QED
      BY <3>1 DEF Lists
  <2> QED
    BY <1>1, <1>6, <2>1, TextIs
<1>7. CASE p.conv = <<"c">>
  <2> DEFINE x == <<CharSet[(p.arg % Len(CharSet)) + 1]>>
  <2>1. p.arg \in Int
    BY <1>7, GoodFacts
  <2>2. x \in Lists(Glyph)
    BY <2>1, CharacterIs DEF Lists
  <2>3. Text(p, <<>>) = x /\ Text(p, <<NUL>>) = x
    BY <1>7, TextIs
  <2> HIDE DEF x
  <2> QED
    BY <1>1, <2>2, <2>3
<1>8. CASE p.conv = <<"p">>
  <2> DEFINE o == <<"0", "x">>
             x == Numeral(Value(p.arg, LONG, FALSE), 16, UPPERCASE)
  <2>1. p.arg \in Int
    BY <1>8, GoodFacts
  <2>2. Value(p.arg, LONG, FALSE) \in Nat
    <3>1. LONG \in Nat /\ LONG > 0
      BY WidthFacts
    <3> DEFINE v == Value(p.arg, LONG, FALSE)
    <3>2. v \in 0 .. LONG - 1
      BY <2>1, <3>1, ValueIs
    <3> HIDE DEF v
    <3>3. v \in Nat
      BY <3>1, <3>2
    <3> QED
      BY <3>3 DEF v
  <2>3. x \in Lists(Glyph)
    BY <2>2, NumeralText DEF Lists
  <2>4. o \in Lists(Glyph)
    <3>1. "0" \in Glyph /\ "x" \in Glyph
      BY GlyphFacts DEF Literals
    <3> QED
      BY <3>1 DEF Lists
  <2>5. Text(p, <<>>) = (o \o <<>>) \o x /\ Text(p, <<NUL>>) = (o \o <<NUL>>) \o x
    BY <1>8, TextIs
  <2> HIDE DEF x, o
  <2>6. o \in Lists(Letter) /\ x \in Lists(Letter) /\ o \o <<NUL>> \in Lists(Letter) /\ o \o <<>> = o
        /\ o \o x \in Lists(Glyph) /\ (o \o <<NUL>>) \o x \in Lists(Letter)
    BY <1>2, <1>3, <2>3, <2>4, ListFacts
  <2>7. Without((o \o <<NUL>>) \o x, NUL) = (Without(o, NUL) \o Without(<<NUL>>, NUL)) \o Without(x, NUL)
    BY <1>2, <2>6, WithoutFacts, ZenonT(30)
  <2>8. Without(o, NUL) = o /\ Without(<<NUL>>, NUL) = <<>> /\ Without(x, NUL) = x
    BY <2>3, <2>4, WithoutFacts
  <2> QED
    BY <2>5, <2>6, <2>7, <2>8 DEF Lists
<1>9. CASE p.conv \in Numbers
  <2>1. p.arg \in Int
    <3>1. p.conv \in Conversions
      BY <1>9 DEF Conversions
    <3>2. p.conv # <<>> /\ p.conv # <<"s">>
      BY <1>9, <3>1, ConversionFacts
    <3> QED
      BY <3>2, GoodFacts
  <2>2. NumberText(p.conv, p.arg) \in Lists(Glyph)
    BY <1>9, <2>1, NumberIs DEF Lists
  <2> QED
    BY <1>1, <1>9, <2>2, TextIs
<1> QED
  BY <1>4, <1>5, <1>6, <1>7, <1>8, <1>9, GoodFacts

\* The text of some pieces.
Texts(nul, a) == Flat(TextOf(nul), a)
Nuls == {<<>>, <<NUL>>}

LEMMA TextsFacts ==
  ASSUME NEW nul \in Nuls
  PROVE  /\ TextOf(nul) \in [Good -> Lists(Letter)]
         /\ Texts(nul, <<>>) = <<>>
         /\ \A p \in Good : Texts(nul, <<p>>) = Text(p, nul)
         /\ \A a \in Seq(Good) : Texts(nul, a) \in Lists(Letter)
         /\ \A a, b \in Seq(Good) : Texts(nul, a \o b) = Texts(nul, a) \o Texts(nul, b)
<1>1. TextOf(nul) \in [Good -> Lists(Letter)]
  <2>1. ASSUME NEW p \in Good PROVE Text(p, nul) \in Lists(Letter)
    BY TextFacts, GlyphFacts DEF Nuls, Lists
  <2> QED
    BY <2>1 DEF TextOf
<1> DEFINE F == TextOf(nul)
<1>2. \A p \in Good : F[p] = Text(p, nul)
  BY DEF TextOf
<1>a. F \in [Good -> Lists(Letter)]
  BY <1>1
<1> HIDE DEF F
<1>3. \A p \in Good : Flat(F, <<p>>) = Text(p, nul)
  BY <1>a, <1>2, FlatOne
<1>4. ASSUME NEW a \in Seq(Good), NEW b \in Seq(Good)
      PROVE  Flat(F, a) \in Lists(Letter) /\ Flat(F, a \o b) = Flat(F, a) \o Flat(F, b)
  BY <1>a, FlatConcat
<1> QED
  BY <1>1, <1>3, <1>4, FlatEmpty DEF Texts, F

LEMMA EmptyFacts ==
  /\ <<>> \in Seq(Good) /\ <<>> \in Seq(Pieces) /\ <<>> \in Seq(Frames) /\ <<>> \in Nuls /\ <<NUL>> \in Nuls
  /\ \A a \in Seq(Pieces) : <<>> \o a = a /\ a \o <<>> = a
  /\ \A a \in Seq(Good) : <<>> \o a = a /\ a \o <<>> = a
BY EmptySeq, ConcatEmptySeq DEF Nuls

\* The text of one more piece is behind the text of the others.
LEMMA OneMore ==
  ASSUME NEW nul \in Nuls, NEW a \in Seq(Good), NEW p \in Good
  PROVE  a \o <<p>> \in Seq(Good) /\ Texts(nul, a \o <<p>>) = Texts(nul, a) \o Text(p, nul)
<1> DEFINE y == <<p>>
<1>1. y \in Seq(Good)
  BY Single
<1>2. Texts(nul, y) = Text(p, nul)
  BY TextsFacts
<1> HIDE DEF y
<1>3. a \o y \in Seq(Good)
  BY <1>1, Concat
<1>4. Texts(nul, a \o y) = Texts(nul, a) \o Texts(nul, y)
  BY <1>1, TextsFacts
<1> QED
  BY <1>2, <1>3, <1>4 DEF y

-----------------------------------------------------------------------------
(* The steps of printk.                                                    *)

LEMMA FrameFacts == \A a \in Seq(Pieces) : Frame(a) \in Frames
BY FormatFacts DEF Frame, Frames, Lists

\* What printk reads in the innermost call, and what it leaves of it.
LEMMA Reads ==
  ASSUME NEW x \in Seq(Frames), NEW f \in Lists(Letter), NEW g \in Lists(Args),
         calls = Append(x, [fmt |-> f, args |-> g])
  PROVE  /\ calls # <<>> /\ calls \in Seq(Frames) /\ fmt_ = f /\ args_ = g /\ Front(calls) = x
         /\ \A n, k \in Nat : Advance(n, k) =>
              calls' = Append(x, [fmt |-> SubSeq(f, n + 1, Len(f)), args |-> SubSeq(g, k + 1, Len(g))])
<1> DEFINE c == [fmt |-> f, args |-> g]
<1>1. c \in Frames /\ c.fmt = f /\ c.args = g
  BY DEF Frames
<1>2. calls = Append(x, c)
  OBVIOUS
<1> HIDE DEF c
<1>3. calls # <<>> /\ calls \in Seq(Frames) /\ Last(calls) = c /\ Front(calls) = x
  BY <1>1, <1>2, Top
<1>4. fmt_ = f /\ args_ = g
  BY <1>1, <1>3 DEF fmt_, args_
<1> QED
  BY <1>3, <1>4 DEF Advance

\* What comes next in the format decides what a step is.
LEMMA StepKinds ==
  ASSUME PrintkStep
  PROVE  /\ ~halted /\ calls # <<>>
         /\ fmt_ = <<>> => Return
         /\ fmt_ # <<>> /\ fmt_[1] # "%" => Literal
         /\ fmt_ # <<>> /\ fmt_[1] = "%" =>
              \/ Conversion(fmt_) = <<"%">> /\ Percent
              \/ Conversion(fmt_) = <<"c">> /\ print_char
              \/ Conversion(fmt_) \in Numbers /\ print_number
              \/ Conversion(fmt_) = <<"p">> /\ print_ptr
              \/ Conversion(fmt_) = <<"s">> /\ (print_str \/ AssertFails)
              \/ Conversion(fmt_) \notin Conversions /\ UnknownConversion
<1>1. CASE Literal
  BY <1>1 DEF Literal, Active
<1>2. CASE Percent
  BY <1>2 DEF Percent, Converting, Active
<1>3. CASE print_char
  BY <1>3 DEF print_char, Converting, Active
<1>4. CASE print_number
  BY <1>4 DEF print_number, Converting, Active
<1>5. CASE print_ptr
  BY <1>5 DEF print_ptr, Converting, Active
<1>6. CASE print_str \/ AssertFails
  BY <1>6 DEF print_str, AssertFails, Converting, Active
<1>7. CASE UnknownConversion
  BY <1>7 DEF UnknownConversion, Active
<1>8. CASE Return
  BY <1>8 DEF Return, Active
<1> QED
  BY <1>1, <1>2, <1>3, <1>4, <1>5, <1>6, <1>7, <1>8 DEF PrintkStep

\* A step prints a piece that is well-formed, and takes its argument.
Prints(p) ==
  /\ shown' = shown \o Text(p, <<>>) /\ sent' = sent \o Text(p, <<NUL>>)
  /\ UNCHANGED <<asked, failing, halted>>

\* A character that stands for itself is printed.
LEMMA PlainStep ==
  ASSUME NEW x \in Seq(Frames), NEW p \in Good, p.conv = <<>>, NEW r \in Seq(Pieces),
         calls = Append(x, Frame(<<p>> \o r)), PrintkStep
  PROVE  ~halted /\ Prints(p) /\ calls' = Append(x, Frame(r))
<1> DEFINE f == Format(<<p>> \o r)
           g == Arguments(<<p>> \o r)
<1>1. p \in Pieces /\ p.arg \in Letter /\ p.arg # "%"
  <2>1. p.conv \notin Conversions
    BY ConversionFacts
  <2>2. p \in Pieces /\ p.arg \in Glyph /\ p.arg # "%"
    BY <2>1, GoodFacts
  <2> QED
    BY <2>2 DEF Glyph
<1>2. FormatOf[p] = <<p.arg>> /\ ArgumentsOf[p] = <<>>
  BY <1>1 DEF FormatOf, ArgumentsOf
<1>3. f = <<p.arg>> \o Format(r) /\ g = <<>> \o Arguments(r)
  BY <1>1, <1>2, FirstPiece
<1>4. Format(r) \in Seq(Letter) /\ Arguments(r) \in Lists(Args)
  BY FormatFacts DEF Lists
<1>5. f \in Seq(Letter) /\ f # <<>> /\ f[1] = p.arg /\ SubSeq(f, 2, Len(f)) = Format(r)
  <2> DEFINE y == <<p.arg>>
             F == Format(r)
  <2>1. y \in Seq(Letter) /\ Len(y) = 1 /\ y[1] = p.arg
    BY <1>1, Single
  <2>2. f = y \o F /\ F \in Seq(Letter)
    BY <1>3, <1>4
  <2> HIDE DEF y, F, f
  <2>3. /\ y \o F \in Seq(Letter) /\ Len(y \o F) = Len(y) + Len(F) /\ Len(F) \in Nat
        /\ \A k \in 1 .. Len(y) : (y \o F)[k] = y[k]
    BY <2>1, <2>2, Concat, ZenonT(30)
  <2>4. SubSeq(y \o F, Len(y) + 1, Len(y \o F)) = F
    BY <2>1, <2>2, Behind
  <2>5. f # <<>>
    BY <2>1, <2>2, <2>3, EmptySeq
  <2> QED
    BY <2>1, <2>2, <2>3, <2>4, <2>5 DEF F
<1>6. g \in Lists(Args) /\ g = Arguments(r) /\ SubSeq(g, 1, Len(g)) = g
  <2>1. g = Arguments(r)
    BY <1>3, <1>4, ListFacts
  <2> QED
    BY <1>4, <2>1, SubSeqFull DEF Lists
<1>7. calls = Append(x, [fmt |-> f, args |-> g])
  BY DEF Frame
<1> HIDE DEF f, g
<1>8. /\ fmt_ = f
      /\ \A n, k \in Nat : Advance(n, k) =>
           calls' = Append(x, [fmt |-> SubSeq(f, n + 1, Len(f)), args |-> SubSeq(g, k + 1, Len(g))])
  <2>1. f \in Lists(Letter)
    BY <1>5 DEF Lists
  <2> QED
    BY <1>6, <1>7, <2>1, Reads
<1>9. Literal /\ ~halted
  BY <1>1, <1>5, <1>8, StepKinds
<1>10. Advance(1, 0)
  BY <1>9 DEF Literal
<1>11. calls' = Append(x, Frame(r))
  <2>1. calls' = Append(x, [fmt |-> SubSeq(f, 1 + 1, Len(f)), args |-> SubSeq(g, 0 + 1, Len(g))])
    BY <1>8, <1>10
  <2>2. 1 + 1 = 2 /\ 0 + 1 = 1
    OBVIOUS
  <2> QED
    BY <1>5, <1>6, <2>1, <2>2 DEF Frame
<1>12. Prints(p)
  <2>1. Text(p, <<>>) = <<p.arg>> /\ Text(p, <<NUL>>) = <<p.arg>>
    BY TextIs
  <2> QED
    BY <1>5, <1>8, <1>9, <2>1 DEF Literal, display_chars, Prints
<1> QED
  BY <1>9, <1>11, <1>12

\* The loop reads the conversion, and its argument if it takes one.
LEMMA ReadConversion ==
  ASSUME NEW x \in Seq(Frames), NEW p \in Pieces, p.conv \in Conversions, NEW r \in Seq(Pieces),
         calls = Append(x, Frame(<<p>> \o r))
  PROVE  /\ fmt_ # <<>> /\ fmt_[1] = "%" /\ Conversion(fmt_) = p.conv
         /\ p.conv = <<"%">> /\ Advance(2, 0) => calls' = Append(x, Frame(r))
         /\ p.conv # <<"%">> => args_[1] = p.arg
         /\ p.conv # <<"%">> /\ AfterConversion => calls' = Append(x, Frame(r))
<1> DEFINE f == Format(<<p>> \o r)
           g == Arguments(<<p>> \o r)
<1>1. p.conv # <<>>
  BY ConversionFacts
<1>2. FormatOf[p] = <<"%">> \o p.conv /\ ArgumentsOf[p] = IF p.conv = <<"%">> THEN <<>> ELSE <<p.arg>>
  BY <1>1 DEF FormatOf, ArgumentsOf
<1>3. f = (<<"%">> \o p.conv) \o Format(r) /\ g = ArgumentsOf[p] \o Arguments(r)
  BY <1>2, FirstPiece
<1>4. Format(r) \in Seq(Letter) /\ Arguments(r) \in Lists(Args)
  BY FormatFacts DEF Lists
<1>5. calls = Append(x, [fmt |-> f, args |-> g])
  BY DEF Frame
<1>6. g \in Lists(Args)
  <2>1. ArgumentsOf[p] \in Lists(Args)
    BY FunctionFacts
  <2> QED
    <3> DEFINE y == ArgumentsOf[p]
               z == Arguments(r)
    <3>1. y \in Lists(Args) /\ z \in Lists(Args) /\ g = y \o z
      BY <1>3, <1>4, <2>1
    <3> HIDE DEF y, z, g
    <3> QED
      BY <3>1, ListFacts
<1> HIDE DEF f, g
<1>7. /\ f \in Seq(Letter) /\ f # <<>> /\ f[1] = "%" /\ Conversion(f) = p.conv
      /\ SubSeq(f, (1 + Len(p.conv)) + 1, Len(f)) = Format(r)
  BY <1>3, <1>4, ConversionIs
<1>8. /\ fmt_ = f /\ args_ = g
      /\ \A n, k \in Nat : Advance(n, k) =>
           calls' = Append(x, [fmt |-> SubSeq(f, n + 1, Len(f)), args |-> SubSeq(g, k + 1, Len(g))])
  <2>1. f \in Lists(Letter)
    BY <1>7 DEF Lists
  <2> QED
    BY <1>5, <1>6, <2>1, Reads
<1>9. p.conv = <<"%">> /\ Advance(2, 0) => calls' = Append(x, Frame(r))
  <2> SUFFICES ASSUME p.conv = <<"%">>, Advance(2, 0) PROVE calls' = Append(x, Frame(r))
    OBVIOUS
  <2>1. calls' = Append(x, [fmt |-> SubSeq(f, 2 + 1, Len(f)), args |-> SubSeq(g, 0 + 1, Len(g))])
    BY <1>8
  <2>2. Len(p.conv) = 1 /\ (1 + Len(p.conv)) + 1 = 2 + 1 /\ 0 + 1 = 1
    OBVIOUS
  <2>3. g = Arguments(r)
    BY <1>2, <1>3, <1>4, ListFacts
  <2>4. SubSeq(g, 1, Len(g)) = g
    BY <1>6, SubSeqFull DEF Lists
  <2> QED
    BY <1>7, <2>1, <2>2, <2>3, <2>4 DEF Frame
<1>10. p.conv # <<"%">> => g[1] = p.arg /\ SubSeq(g, 2, Len(g)) = Arguments(r)
  <2> SUFFICES ASSUME p.conv # <<"%">> PROVE g[1] = p.arg /\ SubSeq(g, 2, Len(g)) = Arguments(r)
    OBVIOUS
  <2> DEFINE y == <<p.arg>>
             F == Arguments(r)
  <2>1. y \in Seq(Args) /\ Len(y) = 1 /\ y[1] = p.arg
    <3>1. p.arg \in Args
      BY <1>1 DEF Pieces, Args
    <3> QED
      BY <3>1, Single
  <2>2. g = y \o F /\ F \in Seq(Args)
    BY <1>2, <1>3, <1>4 DEF Lists
  <2> HIDE DEF y, F
  <2>3. \A k \in 1 .. Len(y) : (y \o F)[k] = y[k]
    BY <2>1, <2>2, Concat
  <2>4. SubSeq(y \o F, Len(y) + 1, Len(y \o F)) = F
    BY <2>1, <2>2, Behind
  <2>5. 1 \in 1 .. Len(y) /\ Len(y) + 1 = 2
    BY <2>1
  <2>6. g[1] = p.arg
    BY <2>1, <2>2, <2>3, <2>5
  <2> QED
    BY <2>2, <2>4, <2>5, <2>6 DEF F
<1>11. p.conv # <<"%">> /\ AfterConversion => calls' = Append(x, Frame(r))
  <2> SUFFICES ASSUME p.conv # <<"%">>, AfterConversion PROVE calls' = Append(x, Frame(r))
    OBVIOUS
  <2> DEFINE n == 1 + Len(p.conv)
  <2>1. n \in Nat /\ 1 + 1 = 2
    BY ConversionFacts
  <2>2. Advance(n, 1)
    BY <1>7, <1>8 DEF AfterConversion
  <2> HIDE DEF n
  <2>3. calls' = Append(x, [fmt |-> SubSeq(f, n + 1, Len(f)), args |-> SubSeq(g, 1 + 1, Len(g))])
    BY <1>8, <2>1, <2>2
  <2> QED
    BY <1>7, <1>10, <2>1, <2>3 DEF Frame, n
<1> QED
  BY <1>7, <1>8, <1>9, <1>10, <1>11

\* A conversion is printed with its own argument.
LEMMA ConversionStep ==
  ASSUME shown \in Lists(Letter), sent \in Lists(Letter),
         NEW x \in Seq(Frames), NEW p \in Good, p.conv # <<>>, NEW r \in Seq(Pieces),
         calls = Append(x, Frame(<<p>> \o r)), PrintkStep
  PROVE  ~halted /\ Prints(p) /\ calls' = Append(x, Frame(r))
<1>1. p \in Pieces /\ p.conv \in Conversions /\ (p.conv = <<"s">> => p.arg # NullString)
      /\ (p.conv # <<"s">> => p.arg \in Int)
  BY GoodFacts
<1>2. /\ fmt_ # <<>> /\ fmt_[1] = "%" /\ Conversion(fmt_) = p.conv
      /\ p.conv = <<"%">> /\ Advance(2, 0) => calls' = Append(x, Frame(r))
      /\ p.conv # <<"%">> => args_[1] = p.arg
      /\ p.conv # <<"%">> /\ AfterConversion => calls' = Append(x, Frame(r))
  BY <1>1, ReadConversion
<1>3. ~halted
  BY StepKinds
<1>4. \/ p.conv = <<"%">> /\ Percent
      \/ p.conv = <<"c">> /\ print_char
      \/ p.conv \in Numbers /\ print_number
      \/ p.conv = <<"p">> /\ print_ptr
      \/ p.conv = <<"s">> /\ (print_str \/ AssertFails)
  BY <1>1, <1>2, StepKinds
<1>5. CASE p.conv = <<"%">> /\ Percent
  <2>1. Text(p, <<>>) = <<"%">> /\ Text(p, <<NUL>>) = <<"%">>
    BY <1>5, TextIs
  <2> QED
    BY <1>2, <1>3, <1>5, <2>1 DEF Percent, display_chars, Prints
<1>6. CASE p.conv = <<"c">> /\ print_char
  <2> DEFINE y == <<CharSet[(p.arg % Len(CharSet)) + 1]>>
  <2>1. Text(p, <<>>) = y /\ Text(p, <<NUL>>) = y
    BY <1>6, TextIs
  <2>2. p.conv # <<"%">>
    BY <1>6
  <2>3. AfterConversion /\ display_chars(y) /\ UNCHANGED <<asked, failing, halted>>
    BY <1>2, <1>6, <2>2 DEF print_char
  <2> HIDE DEF y
  <2> QED
    BY <1>2, <1>3, <2>1, <2>2, <2>3 DEF display_chars, Prints
<1>7. CASE p.conv \in Numbers /\ print_number
  <2> DEFINE y == Number(p.conv, p.arg)
  <2>1. p.conv \notin {<<"%">>, <<"s">>}
    BY <1>1, <1>7, ConversionFacts
  <2>2. Text(p, <<>>) = y /\ Text(p, <<NUL>>) = y
    <3>1. Text(p, <<>>) = NumberText(p.conv, p.arg) /\ Text(p, <<NUL>>) = NumberText(p.conv, p.arg)
      BY <1>7, TextIs
    <3>2. y = NumberText(p.conv, p.arg)
      BY <1>1, <1>7, <2>1, NumberIs
    <3> QED
      BY <3>1, <3>2
  <2>3. AfterConversion /\ display_chars(y) /\ UNCHANGED <<asked, failing, halted>>
    BY <1>2, <1>7, <2>1 DEF print_number
  <2> HIDE DEF y
  <2> QED
    BY <1>2, <1>3, <2>1, <2>2, <2>3 DEF display_chars, Prints
<1>8. CASE p.conv = <<"p">> /\ print_ptr
  <2> DEFINE digits == varbase(p.arg % LONG, 16, UPPERCASE)
  <2>1. p.conv # <<"%">> /\ p.conv # <<"s">>
    BY <1>8
  <2>2. digits = Numeral(Value(p.arg, LONG, FALSE), 16, UPPERCASE) /\ digits \in Lists(Glyph)
    <3> DEFINE v == p.arg % LONG
    <3>1. LONG \in Nat /\ LONG > 0
      BY WidthFacts
    <3>2. Value(p.arg, LONG, FALSE) = v /\ v \in 0 .. LONG - 1
      BY <1>1, <2>1, <3>1, ValueIs
    <3> HIDE DEF v
    <3>3. v \in Nat
      BY <3>1, <3>2
    <3>4. varbase(v, 16, UPPERCASE) \in Seq(Glyph) /\ varbase(v, 16, UPPERCASE) = Numeral(v, 16, UPPERCASE)
      BY <3>3, NumeralText
    <3> QED
      BY <3>2, <3>4 DEF v, Lists
  <2>3. /\ Text(p, <<>>) = (<<"0", "x">> \o <<>>) \o digits
        /\ Text(p, <<NUL>>) = (<<"0", "x">> \o <<NUL>>) \o digits
    BY <1>8, <2>2, TextIs
  <2>4. /\ AfterConversion /\ UNCHANGED <<asked, failing, halted>>
        /\ shown' = (shown \o <<"0", "x">>) \o digits /\ sent' = (sent \o <<"0", "x", NUL>>) \o digits
    BY <1>2, <1>8, <2>1 DEF print_ptr
  <2> DEFINE o == <<"0", "x">>
             z == <<NUL>>
  <2>5. o \in Lists(Letter) /\ z \in Lists(Letter) /\ digits \in Lists(Letter)
    <3>1. "0" \in Letter /\ "x" \in Letter /\ NUL \in Letter
      BY DEF Letter, Literals
    <3> QED
      BY <2>2, <3>1, GlyphFacts DEF Lists
  <2>6. o \o z = <<"0", "x", NUL>>
    <3>1. "0" \in Letter /\ "x" \in Letter /\ NUL \in Letter
      BY DEF Letter, Literals
    <3> QED
      BY <3>1, Three
  <2>7. /\ shown' = (shown \o o) \o digits /\ sent' = (sent \o (o \o z)) \o digits
        /\ Text(p, <<>>) = (o \o <<>>) \o digits /\ Text(p, <<NUL>>) = (o \o z) \o digits
    BY <2>3, <2>4, <2>6
  <2> HIDE DEF o, z, digits
  <2>8. o \o z \in Lists(Letter) /\ o \o <<>> = o
    BY <2>5, ListFacts
  <2>9. (shown \o o) \o digits = shown \o (o \o digits)
        /\ (sent \o (o \o z)) \o digits = sent \o ((o \o z) \o digits)
    <3> DEFINE oz == o \o z
    <3>1. \A l, m, n \in Lists(Letter) : (l \o m) \o n = l \o (m \o n)
      BY ListFacts
    <3>2. oz \in Lists(Letter)
      BY <2>8
    <3> HIDE DEF oz
    <3>3. (shown \o o) \o digits = shown \o (o \o digits) /\ (sent \o oz) \o digits = sent \o (oz \o digits)
      <4>1. (shown \o o) \o digits = shown \o (o \o digits)
        BY <2>5, <3>1, ZenonT(30)
      <4>2. (sent \o oz) \o digits = sent \o (oz \o digits)
        BY <2>5, <3>1, <3>2, ZenonT(30)
      <4> QED
        BY <4>1, <4>2
    <3> QED
      BY <3>3 DEF oz
  <2>10. Prints(p)
    BY <2>4, <2>7, <2>8, <2>9 DEF Prints
  <2> QED
    BY <1>2, <1>3, <2>1, <2>4, <2>10
<1>9. CASE p.conv = <<"s">> /\ (print_str \/ AssertFails)
  <2>1. p.conv # <<"%">>
    BY <1>9
  <2>2. print_str
    BY <1>1, <1>2, <1>9, <2>1 DEF AssertFails
  <2>3. Text(p, <<>>) = p.arg \o <<>> /\ Text(p, <<NUL>>) = p.arg \o <<NUL>>
    BY <1>9, TextIs
  <2> DEFINE s == p.arg
             z == <<NUL>>
  <2>4. s \in Lists(Letter) /\ z \in Lists(Letter)
    <3>1. s \in Lists(Glyph)
      BY <1>9, GoodFacts
    <3>2. NUL \in Letter
      BY DEF Letter
    <3> QED
      BY <3>1, <3>2, GlyphFacts DEF Lists
  <2>5. /\ AfterConversion /\ UNCHANGED <<asked, failing, halted>>
        /\ shown' = shown \o s /\ sent' = (sent \o s) \o z
    BY <1>2, <2>1, <2>2 DEF print_str, display_str
  <2>6. Text(p, <<>>) = s \o <<>> /\ Text(p, <<NUL>>) = s \o z
    BY <2>3
  <2> HIDE DEF s, z
  <2>7. s \o <<>> = s /\ (sent \o s) \o z = sent \o (s \o z)
    <3>1. \A l, m, n \in Lists(Letter) : (l \o m) \o n = l \o (m \o n)
      BY ListFacts
    <3>2. (sent \o s) \o z = sent \o (s \o z)
      BY <2>4, <3>1, Zenon
    <3> QED
      BY <2>4, <3>2, ListFacts
  <2>8. Prints(p)
    BY <2>5, <2>6, <2>7 DEF Prints
  <2> QED
    BY <1>2, <1>3, <2>1, <2>5, <2>8
<1> QED
  BY <1>4, <1>5, <1>6, <1>7, <1>8, <1>9

\* A step at a well-formed piece prints it.
LEMMA PieceStep ==
  ASSUME shown \in Lists(Letter), sent \in Lists(Letter),
         NEW x \in Seq(Frames), NEW p \in Good, NEW r \in Seq(Pieces),
         calls = Append(x, Frame(<<p>> \o r)), PrintkStep
  PROVE  ~halted /\ Prints(p) /\ calls' = Append(x, Frame(r))
BY PlainStep, ConversionStep

LEMMA EmptyFrame == <<>> \in Seq(Pieces) /\ Format(<<>>) = <<>> /\ Arguments(<<>>) = <<>>
<1>1. <<>> \in Seq(Pieces)
  BY EmptySeq
<1> QED
  BY <1>1, FormatFacts, FlatEmpty

\* The end of a format: a return, or the halt after the message of an assert.
LEMMA EndStep ==
  ASSUME NEW x \in Seq(Frames), calls = Append(x, Frame(<<>>)), PrintkStep
  PROVE  /\ ~halted /\ UNCHANGED <<shown, sent, asked, failing>>
         /\ failing => halted' = TRUE /\ calls' = calls
         /\ ~failing => calls' = x /\ halted' = halted
<1>1. <<>> \in Lists(Letter) /\ <<>> \in Lists(Args)
  BY ListFacts
<1>2. calls = Append(x, [fmt |-> <<>>, args |-> <<>>])
  BY EmptyFrame DEF Frame
<1>3. fmt_ = <<>> /\ Front(calls) = x
  BY <1>1, <1>2, Reads
<1>4. ~halted /\ Return
  BY <1>3, StepKinds
<1> QED
  BY <1>3, <1>4 DEF Return

\* What is no conversion halts the kernel.
LEMMA BadStep ==
  ASSUME NEW x \in Seq(Frames), NEW p \in Pieces, ~WellFormed(p), p.conv # <<"s">>,
         NEW r \in Seq(Pieces), Conversion(Format(<<p>> \o r)) \notin Conversions,
         calls = Append(x, Frame(<<p>> \o r)), PrintkStep
  PROVE  ~halted /\ halted' = TRUE /\ UNCHANGED <<calls, shown, sent, asked, failing>>
<1> DEFINE f == Format(<<p>> \o r)
           g == Arguments(<<p>> \o r)
           h == FormatOf[p]
           F == Format(r)
<1>1. f \in Lists(Letter) /\ g \in Lists(Args)
  BY FirstPiece, FormatFacts DEF Lists
<1>2. f = h \o F /\ h \in Seq(Letter) /\ F \in Seq(Letter)
  BY FirstPiece, FormatFacts
<1>3. Len(h) >= 1 /\ h[1] = "%"
  <2>1. CASE p.conv = <<>>
    <3>1. p.arg = "%"
      BY <2>1 DEF WellFormed
    <3>2. h = <<"%">>
      BY <2>1, <3>1 DEF FormatOf
    <3> HIDE DEF h
    <3> QED
      BY <3>2
  <2>2. CASE p.conv # <<>>
    <3> DEFINE y == <<"%">>
               c == p.conv
    <3>1. h = y \o c /\ c \in Seq(Letter)
      BY <2>2 DEF FormatOf, Pieces, Lists
    <3>2. y \in Seq(Letter) /\ Len(y) = 1 /\ y[1] = "%"
      BY Single DEF Letter, Literals
    <3> HIDE DEF h, y, c
    <3>3. Len(y \o c) = Len(y) + Len(c) /\ Len(c) \in Nat /\ \A k \in 1 .. Len(y) : (y \o c)[k] = y[k]
      BY <3>1, <3>2, Concat, ZenonT(30)
    <3>4. 1 \in 1 .. Len(y)
      BY <3>2
    <3> QED
      BY <3>1, <3>2, <3>3, <3>4
  <2> QED
    BY <2>1, <2>2
<1>4. calls = Append(x, [fmt |-> f, args |-> g])
  BY DEF Frame
<1>5. Conversion(f) \notin Conversions
  OBVIOUS
<1> HIDE DEF f, g, h, F
<1>6. f # <<>> /\ f[1] = "%"
  <2>1. /\ h \o F \in Seq(Letter) /\ Len(h \o F) = Len(h) + Len(F) /\ Len(h) \in Nat /\ Len(F) \in Nat
        /\ \A k \in 1 .. Len(h) : (h \o F)[k] = h[k]
    BY <1>2, Concat
  <2>2. 1 \in 1 .. Len(h)
    BY <1>3, <2>1
  <2>3. Len(f) # 0
    BY <1>2, <1>3, <2>1
  <2>4. f # <<>>
    BY <2>3
  <2> QED
    BY <1>2, <1>3, <2>1, <2>2, <2>4
<1>7. fmt_ = f
  BY <1>1, <1>4, Reads
<1>8. UnknownConversion /\ ~halted
  <2>1. <<"%">> \in Conversions /\ <<"c">> \in Conversions /\ <<"p">> \in Conversions
        /\ <<"s">> \in Conversions /\ Numbers \subseteq Conversions
    BY DEF Conversions
  <2> QED
    BY <1>5, <1>6, <1>7, <2>1, StepKinds
<1> QED
  BY <1>8 DEF UnknownConversion

\* A NULL string is an assert.
LEMMA NullStep ==
  ASSUME NEW x \in Seq(Frames), NEW p \in Pieces, p.conv = <<"s">>, p.arg = NullString,
         NEW r \in Seq(Pieces), calls = Append(x, Frame(<<p>> \o r)), PrintkStep
  PROVE  /\ ~halted /\ calls' = Append(calls, Frame(AssertMessage)) /\ failing' = TRUE
         /\ UNCHANGED <<shown, sent, asked, halted>>
<1>1. p.conv \in Conversions /\ p.conv # <<"%">>
  BY DEF Conversions
<1>2. fmt_ # <<>> /\ fmt_[1] = "%" /\ Conversion(fmt_) = p.conv /\ args_[1] = p.arg
  BY <1>1, ReadConversion
<1>3. p.conv # <<"c">> /\ p.conv # <<"p">> /\ p.conv \notin Numbers
  BY <1>1, ConversionFacts
<1>4. ~halted /\ (print_str \/ AssertFails)
  BY <1>1, <1>2, <1>3, StepKinds
<1>5. AssertFails
  BY <1>2, <1>4 DEF print_str
<1> QED
  BY <1>4, <1>5 DEF AssertFails, Enter, Frame

-----------------------------------------------------------------------------
(* The message of print_str's assert.                                      *)

\* The number of the line in that message.
LEMMA LineText == NumberText(<<"u">>, Line) = <<"3", "0", "5">>
<1> DEFINE D == Digits(305, 10)
           cs == LOWERCASE
<1>1. Value(305, INT, FALSE) = 305
  <2>1. INT \in Nat /\ INT > 305
    BY PrintkAssumption DEF Line
  <2>2. 305 % INT = 305 /\ INT > 0 /\ 305 \in Int
    BY <2>1
  <2>3. Value(305, INT, FALSE) = 305 % INT
    BY <2>1, <2>2, ValueIs, ZenonT(30)
  <2> QED
    BY <2>2, <2>3
<1>2. NumberText(<<"u">>, Line) = Numeral(305, 10, LOWERCASE)
  <2> DEFINE u == <<"u">>
  <2>1. Last(u) = "u" /\ Len(u) = 1 /\ u[1] = "u"
    BY DEF Last
  <2> HIDE DEF u
  <2>2. Width(u) = INT /\ (Last(u) = "d") = FALSE /\ Last(u) # "x"
    <3>1. Width(u) = INT
      BY <2>1 DEF Width
    <3>2. (Last(u) = "d") = FALSE
      BY <2>1
    <3>3. Last(u) # "x"
      BY <2>1
    <3> QED
      BY <3>1, <3>2, <3>3
  <2> DEFINE v == Value(Line, Width(u), Last(u) = "d")
  <2>3. NumberText(u, Line) = IF Last(u) = "x" THEN Numeral(v, 16, LOWERCASE)
           ELSE IF v < 0 THEN <<"-">> \o Numeral(-v, 10, LOWERCASE)
           ELSE Numeral(v, 10, LOWERCASE)
    BY DEF NumberText
  <2>4. v = 305
    BY <1>1, <2>2 DEF Line
  <2> HIDE DEF v
  <2> QED
    BY <2>2, <2>3, <2>4 DEF u
<1>3. /\ Power(10, 0) = 1 /\ Power(10, 1) = 10 /\ Power(10, 2) = 100 /\ Power(10, 3) = 1000
  <2>1. \A n \in Nat : Power(10, n + 1) = 10 * Power(10, n)
    BY PowerStep
  <2>2. Power(10, 0) = 1
    BY PowerStep
  <2>3. Power(10, 0 + 1) = 10 * Power(10, 0) /\ Power(10, 1 + 1) = 10 * Power(10, 1)
        /\ Power(10, 2 + 1) = 10 * Power(10, 2)
    BY <2>1
  <2>4. 0 + 1 = 1 /\ 1 + 1 = 2 /\ 2 + 1 = 3
    OBVIOUS
  <2> QED
    BY <2>2, <2>3, <2>4
<1>4. D = 3
  <2>1. D \in Nat /\ \A k \in Nat : 305 < Power(10, k) <=> D <= k
    BY DigitsFacts
  <2> HIDE DEF D
  <2>2. D <= 3 /\ ~(D <= 2)
    BY <1>3, <2>1
  <2> QED
    BY <2>1, <2>2
<1>5. Numeral(305, 10, cs) = [k \in 1 .. 3 |-> cs[((305 \div Power(10, 3 - k)) % 10) + 1]]
  <2> DEFINE n == IF 305 = 0 THEN 1 ELSE D
  <2>1. Numeral(305, 10, cs) = [k \in 1 .. n |-> cs[((305 \div Power(10, n - k)) % 10) + 1]]
    BY NumeralIs
  <2>2. n = 3
    BY <1>4
  <2> HIDE DEF n
  <2> QED
    BY <2>1, <2>2
<1>6. cs[4] = "3" /\ cs[1] = "0" /\ cs[6] = "5"
  BY DEF LOWERCASE
<1> HIDE DEF cs
<1> DEFINE s == [k \in 1 .. 3 |-> cs[((305 \div Power(10, 3 - k)) % 10) + 1]]
<1>7. s[1] = "3" /\ s[2] = "0" /\ s[3] = "5"
  <2>1. 3 - 1 = 2 /\ 3 - 2 = 1 /\ 3 - 3 = 0
    OBVIOUS
  <2>2. (305 \div 100) % 10 = 3 /\ (305 \div 10) % 10 = 0 /\ (305 \div 1) % 10 = 5
    OBVIOUS
  <2>3. s[1] = cs[((305 \div Power(10, 2)) % 10) + 1] /\ s[2] = cs[((305 \div Power(10, 1)) % 10) + 1]
        /\ s[3] = cs[((305 \div Power(10, 0)) % 10) + 1]
    BY <2>1
  <2>4. s[1] = cs[3 + 1] /\ s[2] = cs[0 + 1] /\ s[3] = cs[5 + 1]
    BY <1>3, <2>2, <2>3
  <2>5. 3 + 1 = 4 /\ 0 + 1 = 1 /\ 5 + 1 = 6
    OBVIOUS
  <2> QED
    BY <1>6, <2>4, <2>5
<1>8. s = <<"3", "0", "5">>
  <2>1. \A k \in 1 .. 3 : k = 1 \/ k = 2 \/ k = 3
    OBVIOUS
  <2>2. s = [k \in 1 .. 3 |-> IF k = 1 THEN "3" ELSE IF k = 2 THEN "0" ELSE "5"]
    <3>1. s = [k \in 1 .. 3 |-> s[k]]
      OBVIOUS
    <3> HIDE DEF s
    <3> QED
      BY <1>7, <2>1, <3>1
  <2> HIDE DEF s
  <2> QED
    BY <2>1, <2>2
<1> QED
  BY <1>2, <1>5, <1>8 DEF cs

\* The text of an assert's message.
AssertText(nul) ==
  <<"Assert failed: ", "core/src/printk.c">> \o nul \o <<":", "3", "0", "5", "\n">>

\* The operator \o without what the provers know of it.
Cat(x, y) == x \o y

LEMMA CatFacts ==
  ASSUME NEW S, NEW x \in Lists(S), NEW y \in Lists(S)
  PROVE  /\ Cat(x, y) \in Lists(S)
         /\ \A z \in Lists(S) : Cat(Cat(x, y), z) = Cat(x, Cat(y, z))
BY ListFacts, SMTT(30) DEF Cat

\* However a text is grouped.
LEMMA Regroup ==
  ASSUME NEW S, NEW a \in Lists(S), NEW c \in Lists(S), NEW n \in Lists(S), NEW d \in Lists(S),
         NEW e \in Lists(S), NEW h \in Lists(S)
  PROVE  Cat(Cat(Cat(Cat(a, Cat(c, n)), d), e), h) = Cat(Cat(Cat(a, c), n), Cat(d, Cat(e, h)))
<1>1. Cat(a, Cat(c, n)) = Cat(Cat(a, c), n) /\ Cat(a, Cat(c, n)) \in Lists(S)
  BY CatFacts
<1> DEFINE g == Cat(a, Cat(c, n))
<1>2. g \in Lists(S)
  BY <1>1
<1> HIDE DEF g
<1>3. Cat(g, d) \in Lists(S) /\ Cat(e, h) \in Lists(S)
  BY <1>2, CatFacts
<1>4. Cat(Cat(Cat(g, d), e), h) = Cat(Cat(g, d), Cat(e, h))
  BY <1>3, CatFacts
<1>5. Cat(Cat(g, d), Cat(e, h)) = Cat(g, Cat(d, Cat(e, h)))
  BY <1>2, <1>3, CatFacts
<1> QED
  BY <1>1, <1>4, <1>5 DEF g

\* The message is well-formed, and its text is the one that was asked for.
LEMMA MessageFacts ==
  /\ AssertMessage \in Seq(Good)
  /\ \A nul \in Nuls : Texts(nul, AssertMessage) = AssertText(nul) /\ AssertText(nul) \in Lists(Letter)
<1> DEFINE p1 == Plain("Assert failed: ")
           p2 == Piece(<<"s">>, <<"core/src/printk.c">>)
           p3 == Plain(":")
           p4 == Piece(<<"u">>, Line)
           p5 == Plain("\n")
<1>1. ASSUME NEW c \in Literals, c # "%"
      PROVE  Plain(c) \in Good /\ Plain(c).conv = <<>> /\ Plain(c).arg = c
  <2>1. c \in Glyph /\ <<>> \in Lists(Letter)
    BY GlyphFacts, ListFacts
  <2>2. <<>> # <<"s">>
    OBVIOUS
  <2> QED
    BY <1>1, <2>1, <2>2 DEF Good, Pieces, WellFormed, Plain
<1>2. p1 \in Good /\ p3 \in Good /\ p5 \in Good
      /\ p1.conv = <<>> /\ p3.conv = <<>> /\ p5.conv = <<>>
      /\ p1.arg = "Assert failed: " /\ p3.arg = ":" /\ p5.arg = "\n"
  <2>1. "Assert failed: " \in Literals /\ ":" \in Literals /\ "\n" \in Literals
    BY DEF Literals
  <2> QED
    BY <1>1, <2>1
<1>3. p2 \in Good /\ p2.conv = <<"s">> /\ p2.arg = <<"core/src/printk.c">> /\ p2.arg \in Lists(Letter)
  <2> DEFINE s == <<"core/src/printk.c">>
             c == <<"s">>
  <2>1. s \in Lists(Glyph) /\ s \in Lists(Letter)
    <3>1. "core/src/printk.c" \in Glyph /\ "core/src/printk.c" \in Letter
      BY GlyphFacts DEF Literals
    <3> QED
      BY <3>1 DEF Lists
  <2>2. s # NullString
    BY DEF NullString
  <2>3. c \in Conversions /\ c \in Lists(Letter) /\ c # <<>> /\ c = <<"s">>
    <3>1. c \in Conversions
      BY DEF Conversions
    <3> QED
      BY <3>1, ConversionFacts DEF Lists
  <2> HIDE DEF s, c
  <2>4. Piece(c, s) \in Good /\ Piece(c, s).conv = c /\ Piece(c, s).arg = s
    BY <2>1, <2>2, <2>3 DEF Good, Pieces, WellFormed, Piece, Args
  <2> QED
    BY <2>1, <2>3, <2>4 DEF s, c
<1>4. p4 \in Good /\ p4.conv = <<"u">> /\ p4.arg = Line
  <2> DEFINE c == <<"u">>
  <2>1. c \in Conversions /\ c \in Lists(Letter) /\ c # <<>> /\ c # <<"s">>
    <3>1. c \in Conversions
      BY DEF Conversions, Numbers
    <3>2. c # <<"s">>
      OBVIOUS
    <3> QED
      BY <3>1, <3>2, ConversionFacts DEF Lists
  <2>2. Line \in Int
    BY DEF Line
  <2> HIDE DEF c
  <2>3. Piece(c, Line) \in Good /\ Piece(c, Line).conv = c /\ Piece(c, Line).arg = Line
    BY <2>1, <2>2 DEF Good, Pieces, WellFormed, Piece, Args
  <2> QED
    BY <2>3 DEF c
<1>5. AssertMessage = <<p1, p2, p3, p4, p5>>
  BY DEF AssertMessage
<1> HIDE DEF p1, p2, p3, p4, p5
<1>6. /\ <<p1>> \in Seq(Good) /\ <<p1, p2>> \in Seq(Good) /\ <<p1, p2, p3>> \in Seq(Good)
      /\ <<p1, p2, p3, p4>> \in Seq(Good) /\ AssertMessage \in Seq(Good)
      /\ <<p2>> \in Seq(Good) /\ <<p3>> \in Seq(Good) /\ <<p4>> \in Seq(Good) /\ <<p5>> \in Seq(Good)
      /\ <<p1, p2>> = <<p1>> \o <<p2>> /\ <<p1, p2, p3>> = <<p1, p2>> \o <<p3>>
      /\ <<p1, p2, p3, p4>> = <<p1, p2, p3>> \o <<p4>>
      /\ AssertMessage = <<p1, p2, p3, p4>> \o <<p5>>
  <2>1. <<p1, p2, p3, p4>> \in Seq(Good) /\ <<p1, p2, p3>> \o <<p4>> = <<p1, p2, p3, p4>>
        /\ AssertMessage \in Seq(Good) /\ <<p1, p2, p3, p4>> \o <<p5>> = AssertMessage
    <3>1. p1 \in Good /\ p2 \in Good /\ p3 \in Good /\ p4 \in Good /\ p5 \in Good
      BY <1>2, <1>3, <1>4
    <3>2. /\ <<p1, p2, p3, p4>> \in Seq(Good) /\ <<p1, p2, p3>> \o <<p4>> = <<p1, p2, p3, p4>>
          /\ <<p1, p2, p3, p4, p5>> \in Seq(Good)
          /\ <<p1, p2, p3, p4>> \o <<p5>> = <<p1, p2, p3, p4, p5>>
      BY <3>1, Five
    <3> QED
      BY <1>5, <3>2, Zenon
  <2>2. <<p1, p2>> \in Seq(Good) /\ <<p1>> \o <<p2>> = <<p1, p2>>
        /\ <<p1, p2, p3>> \in Seq(Good) /\ <<p1, p2>> \o <<p3>> = <<p1, p2, p3>>
    <3>1. p1 \in Good /\ p2 \in Good /\ p3 \in Good
      BY <1>2, <1>3
    <3> QED
      BY <3>1, Three
  <2>3. \A p \in Good : <<p>> \in Seq(Good)
    OBVIOUS
  <2> QED
    BY <1>2, <1>3, <1>4, <2>1, <2>2, <2>3, Zenon
<1>7. ASSUME NEW nul \in Nuls
      PROVE  Texts(nul, AssertMessage) = AssertText(nul) /\ AssertText(nul) \in Lists(Letter)
  <2> DEFINE a == <<"Assert failed: ">>
             c == <<"core/src/printk.c">>
             d == <<":">>
             e == <<"3", "0", "5">>
             h == <<"\n">>
  <2>1. /\ Texts(nul, <<p1>>) = a /\ Texts(nul, <<p2>>) = c \o nul /\ Texts(nul, <<p3>>) = d
        /\ Texts(nul, <<p4>>) = e /\ Texts(nul, <<p5>>) = h
    <3>1. \A p \in Good : Texts(nul, <<p>>) = Text(p, nul)
      BY TextsFacts
    <3>2. Text(p1, nul) = a /\ Text(p3, nul) = d /\ Text(p5, nul) = h
      BY <1>2, TextIs
    <3>3. Text(p2, nul) = c \o nul
      BY <1>3, TextIs
    <3>4. Text(p4, nul) = e
      <4>1. <<"u">> \in Numbers
        BY DEF Numbers
      <4>2. Text(p4, nul) = NumberText(p4.conv, p4.arg)
        BY <1>4, <4>1, TextIs
      <4> QED
        BY <1>4, <4>2, LineText
    <3> HIDE DEF a, c, d, e, h
    <3> QED
      BY <1>2, <1>3, <1>4, <3>1, <3>2, <3>3, <3>4, Zenon
  <2>2. a \in Lists(Letter) /\ c \in Lists(Letter) /\ d \in Lists(Letter) /\ h \in Lists(Letter)
        /\ nul \in Lists(Letter)
    <3>1. "Assert failed: " \in Letter /\ "core/src/printk.c" \in Letter /\ ":" \in Letter
          /\ "\n" \in Letter /\ NUL \in Letter
      BY DEF Letter, Literals
    <3>2. \A x \in Letter : <<x>> \in Lists(Letter)
      BY DEF Lists
    <3>3. <<>> \in Lists(Letter)
      BY ListFacts
    <3>4. nul \in Lists(Letter)
      <4>1. <<NUL>> \in Lists(Letter)
        BY <3>1, <3>2, Zenon
      <4> QED
        BY <3>3, <4>1 DEF Nuls
    <3> QED
      BY <3>1, <3>2, <3>4, Zenon
  <2>3. a \o c = <<"Assert failed: ", "core/src/printk.c">>
    <3>1. "Assert failed: " \in Letter /\ "core/src/printk.c" \in Letter
      BY DEF Letter, Literals
    <3> QED
      BY <3>1, Two, Zenon
  <2>4. e \in Lists(Letter) /\ d \o (e \o h) = <<":", "3", "0", "5", "\n">>
    <3> DEFINE x == <<"3">>
               y == <<"0">>
               z == <<"5">>
    <3>1. /\ ":" \in Letter /\ "3" \in Letter /\ "0" \in Letter /\ "5" \in Letter /\ "\n" \in Letter
      BY DEF Letter, Literals
    <3>2. x \in Lists(Letter) /\ y \in Lists(Letter) /\ z \in Lists(Letter)
      <4>1. \A k \in Letter : <<k>> \in Lists(Letter)
        BY DEF Lists
      <4> QED
        BY <3>1, <4>1, Zenon
    <3>3. e \in Lists(Letter) /\ e = (x \o y) \o z
      BY <3>1, Three DEF Lists
    <3>4. <<":", "3", "0", "5", "\n">> = (((d \o x) \o y) \o z) \o h
      <4>1. d \o x = <<":", "3">> /\ <<":", "3">> \o y = <<":", "3", "0">>
        BY <3>1, Three
      <4>2. <<":", "3", "0">> \o z = <<":", "3", "0", "5">>
            /\ <<":", "3", "0", "5">> \o h = <<":", "3", "0", "5", "\n">>
        BY <3>1, Five
      <4> QED
        BY <4>1, <4>2
    <3> HIDE DEF x, y, z, e, d, h
    <3> HIDE DEF a, c, d, e, h, x, y, z
    <3>5. Cat(Cat(Cat(Cat(d, x), y), z), h) = Cat(d, Cat(Cat(Cat(x, y), z), h))
      <4>1. Cat(x, y) \in Lists(Letter) /\ Cat(d, x) \in Lists(Letter)
            /\ Cat(Cat(d, x), y) = Cat(d, Cat(x, y))
        BY <2>2, <3>2, CatFacts
      <4> DEFINE xy == Cat(x, y)
      <4>2. xy \in Lists(Letter)
        BY <4>1
      <4> HIDE DEF xy
      <4>3. Cat(Cat(d, xy), z) = Cat(d, Cat(xy, z)) /\ Cat(xy, z) \in Lists(Letter)
        BY <2>2, <3>2, <4>2, CatFacts
      <4>4. Cat(Cat(d, Cat(xy, z)), h) = Cat(d, Cat(Cat(xy, z), h))
        BY <2>2, <4>3, CatFacts
      <4> QED
        BY <4>1, <4>3, <4>4 DEF xy
    <3> QED
      BY <3>3, <3>4, <3>5 DEF Cat
  <2> HIDE DEF a, c, d, e, h
  <2>5. AssertText(nul) = ((a \o c) \o nul) \o (d \o (e \o h))
    BY <2>3, <2>4 DEF AssertText
  <2>6. \A x, y \in Seq(Good) : Texts(nul, x \o y) = Texts(nul, x) \o Texts(nul, y)
    BY TextsFacts
  <2>7. /\ Texts(nul, <<p1, p2>>) = a \o (c \o nul)
        /\ Texts(nul, <<p1, p2, p3>>) = (a \o (c \o nul)) \o d
        /\ Texts(nul, <<p1, p2, p3, p4>>) = ((a \o (c \o nul)) \o d) \o e
        /\ Texts(nul, AssertMessage) = (((a \o (c \o nul)) \o d) \o e) \o h
    <3> DEFINE q2 == <<p1, p2>>
               q3 == <<p1, p2, p3>>
               q4 == <<p1, p2, p3, p4>>
               s1 == <<p1>>
               s2 == <<p2>>
               s3 == <<p3>>
               s4 == <<p4>>
               s5 == <<p5>>
    <3>1. /\ s1 \in Seq(Good) /\ s2 \in Seq(Good) /\ s3 \in Seq(Good) /\ s4 \in Seq(Good) /\ s5 \in Seq(Good)
          /\ q2 \in Seq(Good) /\ q3 \in Seq(Good) /\ q4 \in Seq(Good)
      BY <1>6
    <3>2. q2 = s1 \o s2 /\ q3 = q2 \o s3 /\ q4 = q3 \o s4 /\ AssertMessage = q4 \o s5
      BY <1>6
    <3>3. Texts(nul, s1) = a /\ Texts(nul, s2) = c \o nul /\ Texts(nul, s3) = d /\ Texts(nul, s4) = e /\ Texts(nul, s5) = h
      BY <2>1
    <3> HIDE DEF q2, q3, q4, s1, s2, s3, s4, s5
    <3>4. /\ Texts(nul, s1 \o s2) = Texts(nul, s1) \o Texts(nul, s2)
          /\ Texts(nul, q2 \o s3) = Texts(nul, q2) \o Texts(nul, s3)
          /\ Texts(nul, q3 \o s4) = Texts(nul, q3) \o Texts(nul, s4)
          /\ Texts(nul, q4 \o s5) = Texts(nul, q4) \o Texts(nul, s5)
      BY <2>6, <3>1
    <3>5. /\ Texts(nul, q2) = a \o (c \o nul)
          /\ Texts(nul, q3) = (a \o (c \o nul)) \o d
          /\ Texts(nul, q4) = ((a \o (c \o nul)) \o d) \o e
          /\ Texts(nul, AssertMessage) = (((a \o (c \o nul)) \o d) \o e) \o h
      BY <3>2, <3>3, <3>4
    <3> QED
      BY <3>5 DEF q2, q3, q4
  <2>8. Texts(nul, AssertMessage) = ((a \o c) \o nul) \o (d \o (e \o h))
    <3>1. Cat(Cat(Cat(Cat(a, Cat(c, nul)), d), e), h) = Cat(Cat(Cat(a, c), nul), Cat(d, Cat(e, h)))
      <4>1. e \in Lists(Letter)
        BY <2>4, Zenon
      <4> QED
        BY <2>2, <4>1, Regroup
    <3> QED
      BY <2>7, <3>1 DEF Cat
  <2>9. Texts(nul, AssertMessage) \in Lists(Letter)
    BY <1>6, TextsFacts
  <2> QED
    BY <2>5, <2>8, <2>9
<1> QED
  BY <1>6, <1>7

-----------------------------------------------------------------------------
(* The invariant of printk: what it was asked for is what it has done and what *)
(* it has still to do, and the text shown is that of what it has done.     *)

\* Where printk stops, it is not at a conversion it knows.
Cut(rest) ==
  \A a, b \in Seq(Pieces) : rest = a \o b /\ b # <<>> =>
    \/ WellFormed(b[1]) \/ b[1].conv = <<"s">>
    \/ Conversion(Format(b)) \notin Conversions

\* What is cut there is cut there behind its first piece, and well-formed
\* pieces are.
LEMMA CutHead ==
  ASSUME NEW p \in Pieces, NEW r \in Seq(Pieces), Cut(<<p>> \o r)
  PROVE  /\ Cut(r)
         /\ WellFormed(p) \/ p.conv = <<"s">> \/ Conversion(Format(<<p>> \o r)) \notin Conversions
<1> DEFINE y == <<p>>
           b == y \o r
<1>1. y \in Seq(Pieces) /\ Len(y) = 1 /\ y[1] = p
  BY Single
<1>2. Cut(b)
  OBVIOUS
<1> HIDE DEF y
<1>3. b \in Seq(Pieces) /\ b # <<>> /\ b[1] = p
  <2>1. /\ b \in Seq(Pieces) /\ Len(b) = Len(y) + Len(r) /\ Len(r) \in Nat
        /\ \A k \in 1 .. Len(y) : b[k] = y[k]
    BY <1>1, Concat
  <2> HIDE DEF b
  <2>2. Len(b) # 0 /\ 1 \in 1 .. Len(y)
    BY <1>1, <2>1
  <2>3. b # <<>>
    BY <2>2
  <2> QED
    BY <1>1, <2>1, <2>2, <2>3
<1>4. Cut(r)
  <2> SUFFICES ASSUME NEW a \in Seq(Pieces), NEW c \in Seq(Pieces), r = a \o c, c # <<>>
               PROVE  WellFormed(c[1]) \/ c[1].conv = <<"s">> \/ Conversion(Format(c)) \notin Conversions
    BY DEF Cut
  <2> DEFINE ya == y \o a
  <2>1. ya \in Seq(Pieces) /\ b = ya \o c
    BY <1>1, ConcatAssociative, Concat, SMTT(30)
  <2> HIDE DEF ya, b
  <2> QED
    BY <1>2, <2>1 DEF Cut
<1>5. WellFormed(p) \/ p.conv = <<"s">> \/ Conversion(Format(b)) \notin Conversions
  <2>1. b = <<>> \o b /\ <<>> \in Seq(Pieces)
    BY <1>3, ConcatEmptySeq, EmptySeq
  <2> HIDE DEF b
  <2>2. WellFormed(b[1]) \/ b[1].conv = <<"s">> \/ Conversion(Format(b)) \notin Conversions
    BY <1>2, <1>3, <2>1 DEF Cut
  <2> QED
    BY <1>3, <2>2
<1> QED
  BY <1>4, <1>5 DEF b, y

LEMMA GoodCut ==
  ASSUME NEW a \in Seq(Good)
  PROVE  a \in Seq(Pieces) /\ Cut(a)
<1>1. a \in Seq(Pieces)
  <2>1. Good \subseteq Pieces
    BY DEF Good
  <2> QED
    BY <2>1
<1>2. ASSUME NEW x \in Seq(Pieces), NEW b \in Seq(Pieces), a = x \o b, b # <<>>
      PROVE  WellFormed(b[1])
  <2>1. /\ Len(x \o b) = Len(x) + Len(b) /\ Len(x) \in Nat /\ Len(b) \in Nat
        /\ \A k \in 1 .. Len(b) : (x \o b)[Len(x) + k] = b[k]
    BY Concat
  <2>2. Len(b) # 0
    BY <1>2, EmptySeq
  <2>3. 1 \in 1 .. Len(b) /\ Len(x) + 1 \in 1 .. Len(a)
    BY <1>2, <2>1, <2>2
  <2>4. a[Len(x) + 1] \in Good
    BY <2>3, ElementOfSeq
  <2>5. a[Len(x) + 1] = b[1]
    BY <1>2, <2>1, <2>3
  <2> QED
    BY <2>4, <2>5 DEF Good
<1> QED
  BY <1>1, <1>2 DEF Cut

\* printk has shown the text of what is done, and the call has the rest before it.
Printing(done, rest) ==
  /\ done \in Seq(Good) /\ rest \in Seq(Pieces) /\ Cut(rest)
  /\ asked = done \o rest /\ ~failing
  /\ shown = Texts(<<>>, done) /\ sent = Texts(<<NUL>>, done)
  /\ \/ calls = <<>> /\ rest = <<>> /\ ~halted
     \/ /\ calls = Append(<<>>, Frame(rest))
        /\ halted => rest # <<>> /\ ~WellFormed(rest[1]) /\ rest[1].conv # <<"s">>

\* An assert has shown a part of its message, and the call that it interrupts is
\* at a NULL string.
Asserting(done, rest, said, unsaid, c) ==
  /\ done \in Seq(Good) /\ rest \in Seq(Pieces) /\ rest # <<>>
  /\ rest[1].conv = <<"s">> /\ rest[1].arg = NullString
  /\ asked = done \o rest /\ failing
  /\ said \in Seq(Good) /\ unsaid \in Seq(Good) /\ AssertMessage = said \o unsaid
  /\ shown = Texts(<<>>, done) \o Texts(<<>>, said)
  /\ sent = Texts(<<NUL>>, done) \o Texts(<<NUL>>, said)
  /\ c \in Frames /\ calls = Append(Append(<<>>, c), Frame(unsaid))
  /\ halted => unsaid = <<>>

\* printk is between two pieces, or an assert in it is.
PrintkInv ==
  /\ shown \in Lists(Letter) /\ sent \in Lists(Letter) /\ shown = Without(sent, NUL)
  /\ \/ \E done \in Seq(Good), rest \in Seq(Pieces) : Printing(done, rest)
     \/ \E done, said, unsaid \in Seq(Good), rest \in Seq(Pieces), c \in Frames :
          Asserting(done, rest, said, unsaid, c)

LEMMA PrintkInvInit == ASSUME PrintkInit PROVE PrintkInv
<1>1. shown = <<>> /\ sent = <<>> /\ asked = <<>> /\ calls = <<>> /\ ~failing /\ ~halted
  BY DEF PrintkInit
<1>2. Texts(<<>>, <<>>) = <<>> /\ Texts(<<NUL>>, <<>>) = <<>>
  BY EmptyFacts, TextsFacts
<1>3. Printing(<<>>, <<>>)
  <2>1. Cut(<<>>)
    BY EmptyFacts, GoodCut
  <2>2. <<>> \o <<>> = <<>>
    BY EmptyFacts
  <2> QED
    BY <1>1, <1>2, <2>1, <2>2, EmptyFacts DEF Printing
<1> QED
  BY <1>1, <1>3, EmptyFacts, ListFacts, WithoutFacts DEF PrintkInv

\* The screen shows what the serial port was sent, without the terminators.
LEMMA PrintsFacts ==
  ASSUME PrintkInv, NEW p \in Good, Prints(p)
  PROVE  shown' \in Lists(Letter) /\ sent' \in Lists(Letter) /\ shown' = Without(sent', NUL)
<1> DEFINE s == Text(p, <<>>)
           t == Text(p, <<NUL>>)
<1>1. s \in Lists(Letter) /\ t \in Lists(Letter) /\ Without(t, NUL) = s
  BY TextFacts, GlyphFacts DEF Lists
<1>2. shown' = shown \o s /\ sent' = sent \o t
  BY DEF Prints
<1> HIDE DEF s, t
<1>3. shown \in Lists(Letter) /\ sent \in Lists(Letter) /\ shown = Without(sent, NUL)
  BY DEF PrintkInv
<1>4. Without(sent \o t, NUL) = Without(sent, NUL) \o Without(t, NUL)
  BY <1>1, <1>3, WithoutFacts
<1>5. shown \o s \in Lists(Letter) /\ sent \o t \in Lists(Letter)
  BY <1>1, <1>3, ListFacts
<1> QED
  BY <1>1, <1>2, <1>3, <1>4, <1>5

\* A piece that printk prints.
LEMMA PrintingPiece ==
  ASSUME PrintkInv, NEW done \in Seq(Good), NEW p \in Good, NEW r \in Seq(Pieces),
         Printing(done, <<p>> \o r), calls = Append(<<>>, Frame(<<p>> \o r)), PrintkStep
  PROVE  PrintkInv'
<1>1. shown \in Lists(Letter) /\ sent \in Lists(Letter)
  BY DEF PrintkInv
<1>2. ~halted /\ Prints(p) /\ calls' = Append(<<>>, Frame(r))
  <2>1. <<>> \in Seq(Frames)
    BY EmptyFacts
  <2> QED
    BY <1>1, <2>1, PieceStep
<1>3. shown' \in Lists(Letter) /\ sent' \in Lists(Letter) /\ shown' = Without(sent', NUL)
  BY <1>2, PrintsFacts
<1>4. p \in Pieces
  BY DEF Good
<1>5. Cut(r)
  BY <1>4, CutHead DEF Printing
<1>6. asked = (done \o <<p>>) \o r
  <2> DEFINE y == <<p>>
  <2>1. done \in Seq(Pieces) /\ y \in Seq(Pieces)
    BY <1>4, GoodCut, Single
  <2>2. asked = done \o (y \o r)
    BY DEF Printing
  <2> HIDE DEF y
  <2>3. (done \o y) \o r = done \o (y \o r)
    BY <2>1, Regrouped
  <2> QED
    BY <2>2, <2>3 DEF y
<1>7. <<>> \in Nuls /\ <<NUL>> \in Nuls
  BY EmptyFacts
<1>8. done \o <<p>> \in Seq(Good) /\ shown' = Texts(<<>>, done \o <<p>>)
      /\ sent' = Texts(<<NUL>>, done \o <<p>>)
  BY <1>2, <1>7, OneMore DEF Prints, Printing
<1>9. Printing(done \o <<p>>, r)'
  BY <1>2, <1>5, <1>6, <1>8 DEF Printing, Prints
<1> QED
  BY <1>3, <1>8, <1>9 DEF PrintkInv

\* A step of a call whose pieces so far were well-formed.
LEMMA PrintingStep ==
  ASSUME PrintkInv, NEW done \in Seq(Good), NEW rest \in Seq(Pieces), Printing(done, rest), PrintkStep
  PROVE  PrintkInv'
<1>1. shown \in Lists(Letter) /\ sent \in Lists(Letter) /\ shown = Without(sent, NUL)
  BY DEF PrintkInv
<1>2. ~halted /\ calls = Append(<<>>, Frame(rest)) /\ <<>> \in Seq(Frames)
  BY StepKinds, EmptyFacts DEF Printing
<1>3. CASE rest = <<>>
  <2>1. UNCHANGED <<shown, sent, asked, failing, halted>> /\ calls' = <<>>
    BY <1>2, <1>3, EndStep DEF Printing
  <2>2. Printing(done, rest)'
    BY <1>2, <1>3, <2>1 DEF Printing
  <2> QED
    BY <1>1, <2>1, <2>2 DEF PrintkInv
<1>4. CASE rest # <<>>
  <2> DEFINE p == rest[1]
             r == SubSeq(rest, 2, Len(rest))
  <2>1. p \in Pieces /\ r \in Seq(Pieces) /\ rest = <<p>> \o r
    BY <1>4, FirstAndRest
  <2>2. rest[1] = p
    OBVIOUS
  <2> HIDE DEF p, r
  <2>3. WellFormed(p) \/ p.conv = <<"s">> \/ Conversion(Format(<<p>> \o r)) \notin Conversions
    BY <2>1, CutHead DEF Printing
  <2>4. CASE WellFormed(p)
    <3>1. p \in Good
      BY <2>1, <2>4 DEF Good
    <3> QED
      BY <1>2, <2>1, <3>1, PrintingPiece
  <2>5. CASE ~WellFormed(p) /\ p.conv # <<"s">>
    <3>1. halted' = TRUE /\ UNCHANGED <<calls, shown, sent, asked, failing>>
      BY <1>2, <2>1, <2>3, <2>5, BadStep
    <3>2. Printing(done, rest)'
      BY <1>2, <1>4, <2>2, <2>5, <3>1 DEF Printing
    <3> QED
      BY <1>1, <3>1, <3>2 DEF PrintkInv
  <2>6. CASE ~WellFormed(p) /\ p.conv = <<"s">>
    <3>1. p.arg = NullString
      <4>1. p.conv # <<>> /\ p.conv \in Conversions
        BY <2>6 DEF Conversions
      <4> QED
        BY <2>6, <4>1 DEF WellFormed
    <3>2. calls' = Append(calls, Frame(AssertMessage)) /\ failing' = TRUE
          /\ UNCHANGED <<shown, sent, asked, halted>>
      BY <1>2, <2>1, <2>6, <3>1, NullStep
    <3>3. AssertMessage \in Seq(Good) /\ AssertMessage = <<>> \o AssertMessage /\ <<>> \in Seq(Good)
      BY MessageFacts, EmptyFacts
    <3>4. /\ Texts(<<>>, <<>>) = <<>> /\ Texts(<<NUL>>, <<>>) = <<>>
          /\ Texts(<<>>, done) \o <<>> = Texts(<<>>, done) /\ Texts(<<NUL>>, done) \o <<>> = Texts(<<NUL>>, done)
      BY EmptyFacts, TextsFacts, ListFacts
    <3>5. Frame(rest) \in Frames
      BY FrameFacts
    <3>6. Asserting(done, rest, <<>>, AssertMessage, Frame(rest))'
      <4>1. /\ rest # <<>> /\ rest[1].conv = <<"s">> /\ rest[1].arg = NullString
            /\ asked' = done \o rest /\ failing' /\ ~halted'
        BY <1>2, <1>4, <2>2, <2>6, <3>1, <3>2 DEF Printing
      <4>2. calls' = Append(Append(<<>>, Frame(rest)), Frame(AssertMessage))
        BY <1>2, <3>2
      <4>3. /\ shown' = Texts(<<>>, done) \o Texts(<<>>, <<>>)
            /\ sent' = Texts(<<NUL>>, done) \o Texts(<<NUL>>, <<>>)
        BY <3>2, <3>4 DEF Printing
      <4> QED
        BY <3>3, <3>5, <4>1, <4>2, <4>3 DEF Asserting
    <3>7. AssertMessage' = AssertMessage
      OBVIOUS
    <3> QED
      BY <1>1, <3>2, <3>3, <3>5, <3>6 DEF PrintkInv
  <2> QED
    BY <2>4, <2>5, <2>6
<1> QED
  BY <1>3, <1>4

\* A step of the message of an assert.
LEMMA AssertingStep ==
  ASSUME PrintkInv, NEW done \in Seq(Good), NEW rest \in Seq(Pieces), NEW said \in Seq(Good),
         NEW unsaid \in Seq(Good), NEW c \in Frames, Asserting(done, rest, said, unsaid, c), PrintkStep
  PROVE  PrintkInv'
<1> DEFINE x == Append(<<>>, c)
<1>1. shown \in Lists(Letter) /\ sent \in Lists(Letter) /\ shown = Without(sent, NUL)
  BY DEF PrintkInv
<1>2. calls = Append(x, Frame(unsaid)) /\ failing
  BY DEF Asserting
<1>3. x \in Seq(Frames)
  BY EmptyFacts, Top
<1>4. x = Append(<<>>, c)
  OBVIOUS
<1> HIDE DEF x
<1>5. CASE unsaid = <<>>
  <2>1. halted' = TRUE /\ UNCHANGED <<calls, shown, sent, asked, failing>>
    BY <1>2, <1>3, <1>5, EndStep
  <2>2. Asserting(done, rest, said, unsaid, c)'
    BY <1>5, <2>1 DEF Asserting
  <2> QED
    BY <1>1, <2>1, <2>2 DEF PrintkInv
<1>6. CASE unsaid # <<>>
  <2> DEFINE q == unsaid[1]
             r == SubSeq(unsaid, 2, Len(unsaid))
  <2>1. q \in Good /\ r \in Seq(Good) /\ unsaid = <<q>> \o r
    BY <1>6, FirstAndRest
  <2> HIDE DEF q, r
  <2>2. r \in Seq(Pieces)
    BY <2>1, GoodCut
  <2>3. ~halted /\ Prints(q) /\ calls' = Append(x, Frame(r))
    BY <1>1, <1>2, <1>3, <2>1, <2>2, PieceStep
  <2>4. shown' \in Lists(Letter) /\ sent' \in Lists(Letter) /\ shown' = Without(sent', NUL)
    BY <2>1, <2>3, PrintsFacts
  <2> DEFINE s == said \o <<q>>
  <2>5. s \in Seq(Good) /\ \A nul \in Nuls : Texts(nul, s) = Texts(nul, said) \o Text(q, nul)
    <3>1. ASSUME NEW nul \in Nuls
          PROVE  said \o <<q>> \in Seq(Good) /\ Texts(nul, said \o <<q>>) = Texts(nul, said) \o Text(q, nul)
      BY <2>1, OneMore
    <3>2. <<>> \in Nuls
      BY EmptyFacts
    <3> QED
      BY <3>1, <3>2
  <2>6. AssertMessage = s \o r
    <3> DEFINE y == <<q>>
    <3>1. y \in Seq(Good)
      BY <2>1, Single
    <3>2. AssertMessage = said \o (y \o r) /\ s = said \o y
      BY <2>1 DEF Asserting
    <3> HIDE DEF y, s
    <3>3. (said \o y) \o r = said \o (y \o r)
      BY <2>1, <3>1, Regrouped, SMTT(30)
    <3> QED
      BY <3>2, <3>3
  <2> HIDE DEF s
  <2>7. ASSUME NEW nul \in Nuls, NEW t, NEW u,
               t = Texts(nul, done) \o Texts(nul, said), u = t \o Text(q, nul)
        PROVE  u = Texts(nul, done) \o Texts(nul, s)
    <3> DEFINE D == Texts(nul, done)
               A == Texts(nul, said)
               B == Text(q, nul)
    <3>1. D \in Lists(Letter) /\ A \in Lists(Letter) /\ B \in Lists(Letter)
      <4>1. D \in Lists(Letter) /\ A \in Lists(Letter)
        BY TextsFacts
      <4>2. B \in Lists(Letter)
        <5>1. q \in Good
          BY <2>1
        <5>2. TextOf(nul) \in [Good -> Lists(Letter)]
          BY TextsFacts
        <5>3. TextOf(nul)[q] = Text(q, nul)
          BY <5>1 DEF TextOf
        <5> QED
          BY <5>1, <5>2, <5>3
      <4> QED
        BY <4>1, <4>2
    <3>2. u = (D \o A) \o B /\ Texts(nul, s) = A \o B
      BY <2>5, <2>7
    <3> HIDE DEF D, A, B
    <3>3. \A l, m, n \in Lists(Letter) : (l \o m) \o n = l \o (m \o n)
      BY ListFacts
    <3>4. (D \o A) \o B = D \o (A \o B)
      BY <3>1, <3>3, Zenon
    <3> QED
      BY <3>2, <3>4 DEF D
  <2>8. shown' = Texts(<<>>, done) \o Texts(<<>>, s) /\ sent' = Texts(<<NUL>>, done) \o Texts(<<NUL>>, s)
    <3>1. <<>> \in Nuls /\ <<NUL>> \in Nuls
      BY EmptyFacts
    <3>2. shown = Texts(<<>>, done) \o Texts(<<>>, said) /\ sent = Texts(<<NUL>>, done) \o Texts(<<NUL>>, said)
      BY DEF Asserting
    <3>3. shown' = shown \o Text(q, <<>>) /\ sent' = sent \o Text(q, <<NUL>>)
      BY <2>3 DEF Prints
    <3> QED
      BY <2>7, <3>1, <3>2, <3>3
  <2>9. Asserting(done, rest, s, r, c)'
    BY <1>4, <2>1, <2>3, <2>5, <2>6, <2>8 DEF Asserting, Prints
  <2> QED
    BY <2>1, <2>4, <2>5, <2>9, ZenonT(30) DEF PrintkInv, Asserting
<1> QED
  BY <1>5, <1>6

LEMMA PrintkInvStep == ASSUME PrintkInv, PrintkStep PROVE PrintkInv'
<1>1. CASE \E done \in Seq(Good), rest \in Seq(Pieces) : Printing(done, rest)
  BY <1>1, PrintingStep
<1>2. CASE \E done, said, unsaid \in Seq(Good), rest \in Seq(Pieces), c \in Frames :
             Asserting(done, rest, said, unsaid, c)
  BY <1>2, AssertingStep
<1> QED
  BY <1>1, <1>2 DEF PrintkInv

LEMMA PrintkInvKept == ASSUME PrintkInv, UNCHANGED printk PROVE PrintkInv'
<1>1. UNCHANGED <<calls, shown, sent, asked, failing, halted>>
  BY DEF printk
<1>2. ASSUME NEW done, NEW rest, Printing(done, rest) PROVE Printing(done, rest)'
  BY <1>1, <1>2 DEF Printing
<1>3. ASSUME NEW done, NEW rest, NEW said, NEW unsaid, NEW c, Asserting(done, rest, said, unsaid, c)
      PROVE  Asserting(done, rest, said, unsaid, c)'
  BY <1>1, <1>3 DEF Asserting
<1> QED
  BY <1>1, <1>2, <1>3 DEF PrintkInv

\* A call of printk.
LEMMA PrintkInvCall ==
  ASSUME PrintkInv, NEW pieces \in Seq(Pieces), Cut(pieces), calls = <<>>, ~halted, Printk(pieces)
  PROVE  PrintkInv'
<1>1. shown \in Lists(Letter) /\ sent \in Lists(Letter) /\ shown = Without(sent, NUL)
  BY DEF PrintkInv
<1>2. ASSUME NEW x \in Seq(Frames), NEW c \in Frames, calls = Append(x, c) PROVE FALSE
  BY <1>2, Top
<1>3. ~\E done, said, unsaid \in Seq(Good), rest \in Seq(Pieces), c \in Frames :
         Asserting(done, rest, said, unsaid, c)
  <2> SUFFICES ASSUME NEW done, NEW said, NEW unsaid \in Seq(Good), NEW rest, NEW c \in Frames,
                      Asserting(done, rest, said, unsaid, c)
               PROVE  FALSE
    OBVIOUS
  <2>1. unsaid \in Seq(Pieces)
    BY GoodCut
  <2>2. Frame(unsaid) \in Frames /\ Append(<<>>, c) \in Seq(Frames)
    BY <2>1, FrameFacts, EmptyFacts, Top
  <2> QED
    BY <1>2, <2>2 DEF Asserting
<1>4. PICK done \in Seq(Good), rest \in Seq(Pieces) : Printing(done, rest)
  BY <1>3 DEF PrintkInv
<1>5. rest = <<>>
  BY <1>2, <1>4, FrameFacts, EmptyFacts DEF Printing
<1>6. asked = done
  <2>1. done \in Seq(Pieces)
    BY <1>4, GoodCut
  <2> QED
    BY <1>4, <1>5, <2>1, EmptyFacts DEF Printing
<1>7. /\ calls' = Append(<<>>, Frame(pieces)) /\ asked' = done \o pieces
      /\ UNCHANGED <<shown, sent, failing, halted>>
  BY <1>6 DEF Printk, Enter, Frame
<1>8. Printing(done, pieces)'
  BY <1>4, <1>7 DEF Printing
<1> QED
  BY <1>1, <1>4, <1>7, <1>8 DEF PrintkInv

-----------------------------------------------------------------------------
(* The calls of printk by the kernel and by printk_test.                   *)

\* printk is called for pieces that it can take apart.
LEMMA ProperPieces ==
  ASSUME NEW pieces, ProperCall(pieces)
  PROVE  pieces \in Seq(Pieces) /\ Cut(pieces)
<1>1. pieces \in Seq(Range(pieces))
  BY DEF ProperCall
<1>2. ASSUME NEW n \in DOMAIN pieces
      PROVE  /\ pieces[n] \in Pieces
             /\ WellFormed(pieces[n]) \/ pieces[n].conv = <<"s">>
                  \/ Conversion(Format(SubSeq(pieces, n, Len(pieces)))) \notin Conversions
  <2> DEFINE p == pieces[n]
  <2>1. /\ p = Piece(p.conv, p.arg) /\ p.conv \in Seq(STRING)
        /\ p.conv = <<>> => p.arg \in STRING /\ p.arg # NUL
        /\ p.conv # <<>> /\ p.conv = <<"s">> => p.arg \in Seq(STRING) /\ NUL \notin Range(p.arg)
        /\ p.conv # <<>> /\ p.conv # <<"s">> => p.arg \in Int
        /\ WellFormed(p) \/ p.conv = <<"s">>
             \/ Conversion(Format(SubSeq(pieces, n, Len(pieces)))) \notin Conversions
    BY DEF ProperCall
  <2> HIDE DEF p
  <2> DEFINE conv == p.conv
             arg == p.arg
  <2>2. p = [conv |-> conv, arg |-> arg]
    BY <2>1 DEF Piece
  <2>3. conv \in Lists(Letter)
    <3>1. conv \in Seq(STRING)
      BY <2>1
    <3> HIDE DEF conv
    <3>2. \A k \in 1 .. Len(conv) : conv[k] \in STRING
      BY <3>1, ElementOfSeq
    <3>3. \A k \in 1 .. Len(conv) : conv[k] \in Letter
      BY <3>2, GlyphFacts
    <3>4. Len(conv) \in Nat /\ DOMAIN conv = 1 .. Len(conv)
      BY <3>1, LenProperties
    <3> QED
      BY <3>1, <3>3, <3>4 DEF Lists
  <2>4. /\ conv = <<>> => arg \in Glyph
        /\ conv # <<>> /\ conv = <<"s">> => arg \in Lists(Glyph)
        /\ conv # <<>> /\ conv # <<"s">> => arg \in Int
    <3>1. ASSUME arg \in Seq(STRING), NUL \notin Range(arg) PROVE arg \in Lists(Glyph)
      <4>1. Len(arg) \in Nat /\ DOMAIN arg = 1 .. Len(arg)
        BY <3>1, LenProperties
      <4>2. ASSUME NEW k \in 1 .. Len(arg) PROVE arg[k] \in Glyph
        <5>1. arg[k] \in STRING
          BY <3>1, ElementOfSeq
        <5>2. arg[k] # NUL
          BY <3>1, <4>1 DEF Range
        <5> QED
          BY <5>1, <5>2, GlyphFacts DEF Glyph
      <4> QED
        BY <3>1, <4>1, <4>2 DEF Lists
    <3> QED
      BY <2>1, <3>1, GlyphFacts DEF Glyph
  <2> HIDE DEF conv, arg
  <2>5. p.conv = conv /\ p.arg = arg
    BY <2>2
  <2>6. p \in [conv : Lists(Letter), arg : Glyph \cup Args]
    <3>1. arg \in Glyph \cup Args
      BY <2>4 DEF Args
    <3> QED
      BY <2>2, <2>3, <3>1
  <2>7. p \in Pieces
    <3>1. <<>> # <<"s">>
      OBVIOUS
    <3> QED
      BY <2>4, <2>5, <2>6, <3>1 DEF Pieces
  <2> QED
    BY <2>1, <2>7 DEF p
<1>3. Range(pieces) \subseteq Pieces
  BY <1>2 DEF Range
<1>4. pieces \in Seq(Pieces)
  BY <1>1, <1>3
<1>5. ASSUME NEW a \in Seq(Pieces), NEW b \in Seq(Pieces), pieces = a \o b, b # <<>>
      PROVE  WellFormed(b[1]) \/ b[1].conv = <<"s">> \/ Conversion(Format(b)) \notin Conversions
  <2> DEFINE n == Len(a) + 1
  <2>1. /\ Len(a \o b) = Len(a) + Len(b) /\ Len(a) \in Nat /\ Len(b) \in Nat
        /\ \A k \in 1 .. Len(b) : (a \o b)[Len(a) + k] = b[k]
    BY Concat
  <2>2. Len(b) # 0
    BY <1>5, EmptySeq
  <2>3. 1 \in 1 .. Len(b) /\ n \in 1 .. Len(pieces)
    BY <1>5, <2>1, <2>2
  <2>4. n \in DOMAIN pieces
    BY <1>4, <2>3, LenProperties
  <2>5. pieces[n] = b[1]
    BY <1>5, <2>1, <2>3
  <2>6. SubSeq(pieces, n, Len(pieces)) = b
    BY <1>5, Behind
  <2> HIDE DEF n
  <2> QED
    BY <1>2, <2>4, <2>5, <2>6
<1> QED
  BY <1>4, <1>5 DEF Cut

Announcing == {"VGA_clear", "GDT_init", "IRQ_init", "KBD_init", "SER_init", "MMU_init_pf",
               "MMU_init_vp", "kmalloc_init"}

\* So are the messages of kernel_main.
LEMMA MessagesAreGood ==
  ASSUME NEW step \in Announcing, mem_size \in Nat
  PROVE  Message(step) \in Seq(Good)
<1>1. ASSUME NEW c \in Literals, c # "%" PROVE Plain(c) \in Good
  <2>1. c \in Glyph /\ <<>> \in Lists(Letter)
    BY GlyphFacts, ListFacts
  <2>2. <<>> # <<"s">>
    OBVIOUS
  <2> QED
    BY <1>1, <2>1, <2>2 DEF Good, Pieces, WellFormed, Plain
<1>2. ASSUME NEW c \in Literals, c # "%" PROVE <<Plain(c)>> \in Seq(Good)
  BY <1>1, <1>2, Single
<1>3. CASE step = "VGA_clear"
  <2> DEFINE c == "\n\nWELCOME TO SKIPOS\n\n"
  <2>1. Message(step) = <<Plain(c)>>
    BY <1>3, Zenon DEF Message
  <2>2. c \in Literals /\ c # "%"
    BY Zenon DEF Literals
  <2> HIDE DEF c
  <2> QED
    BY <1>2, <2>1, <2>2
<1>4. CASE step = "GDT_init"
  <2> DEFINE c == "GDT inititialized.\n"
  <2>1. Message(step) = <<Plain(c)>>
    BY <1>4, Zenon DEF Message
  <2>2. c \in Literals /\ c # "%"
    BY Zenon DEF Literals
  <2> HIDE DEF c
  <2> QED
    BY <1>2, <2>1, <2>2
<1>5. CASE step = "IRQ_init"
  <2> DEFINE c == "Interrupt system initialized.\n"
  <2>1. Message(step) = <<Plain(c)>>
    BY <1>5, Zenon DEF Message
  <2>2. c \in Literals /\ c # "%"
    BY Zenon DEF Literals
  <2> HIDE DEF c
  <2> QED
    BY <1>2, <2>1, <2>2
<1>6. CASE step = "KBD_init"
  <2> DEFINE c == "Keyboard initialized.\n"
  <2>1. Message(step) = <<Plain(c)>>
    BY <1>6, Zenon DEF Message
  <2>2. c \in Literals /\ c # "%"
    BY Zenon DEF Literals
  <2> HIDE DEF c
  <2> QED
    BY <1>2, <2>1, <2>2
<1>7. CASE step = "SER_init"
  <2> DEFINE c == "Serial output initialized.\n"
  <2>1. Message(step) = <<Plain(c)>>
    BY <1>7, Zenon DEF Message
  <2>2. c \in Literals /\ c # "%"
    BY Zenon DEF Literals
  <2> HIDE DEF c
  <2> QED
    BY <1>2, <2>1, <2>2
<1>8. CASE step = "MMU_init_vp"
  <2> DEFINE c == "Virtual memory system initialized.\n"
  <2>1. Message(step) = <<Plain(c)>>
    BY <1>8, Zenon DEF Message
  <2>2. c \in Literals /\ c # "%"
    BY Zenon DEF Literals
  <2> HIDE DEF c
  <2> QED
    BY <1>2, <2>1, <2>2
<1>9. CASE step = "kmalloc_init"
  <2> DEFINE c == "Kernel heap allocator initialized.\n"
  <2>1. Message(step) = <<Plain(c)>>
    BY <1>9, Zenon DEF Message
  <2>2. c \in Literals /\ c # "%"
    BY Zenon DEF Literals
  <2> HIDE DEF c
  <2> QED
    BY <1>2, <2>1, <2>2
<1>10. CASE step = "MMU_init_pf"
  <2> DEFINE c == "Physical memory system initialized, physical size: 0x"
             d == ".\n"
             v == <<"l", "x">>
             p == Piece(v, mem_size)
             m == <<Plain(c), p, Plain(d)>>
  <2>1. Message(step) = m
    BY <1>10, Zenon DEF Message
  <2>2. c \in Literals /\ c # "%" /\ d \in Literals /\ d # "%"
    BY Zenon DEF Literals
  <2>3. v \in Conversions /\ v # <<>> /\ v # <<"s">>
    <3>1. v \in Numbers
      BY DEF Numbers
    <3>2. v # <<>> /\ v # <<"s">>
      OBVIOUS
    <3> QED
      BY <3>1, <3>2 DEF Conversions
  <2>4. v \in Lists(Letter)
    BY <2>3, ConversionFacts DEF Lists
  <2> HIDE DEF c, d, v
  <2>5. p \in Good
    <3>1. p = [conv |-> v, arg |-> mem_size] /\ mem_size \in Int
      BY DEF Piece
    <3> HIDE DEF p
    <3>2. p \in [conv : Lists(Letter), arg : Glyph \cup Args] /\ p.conv = v /\ p.arg \in Int
      BY <2>4, <3>1 DEF Args
    <3>3. p \in Pieces
      BY <2>3, <3>2 DEF Pieces
    <3> QED
      BY <2>3, <3>2, <3>3 DEF Good, WellFormed
  <2>6. Plain(c) \in Good /\ Plain(d) \in Good
    BY <1>1, <2>2
  <2> HIDE DEF p
  <2>7. m \in Seq(Good)
    BY <2>5, <2>6
  <2> QED
    BY <2>1, <2>7
<1> QED
  BY <1>3, <1>4, <1>5, <1>6, <1>7, <1>8, <1>9, <1>10 DEF Announcing

\* What a step of the kernel is for printk: a step of a call, a call, or nothing.
LEMMA PrintkSteps ==
  ASSUME [KernelNext]_kernel_vars
  PROVE  \/ PrintkStep
         \/ UNCHANGED printk
         \/ calls = <<>> /\ ~halted /\ \E step \in Announcing : Printk(Message(step))
         \/ calls = <<>> /\ ~halted /\ \E pieces \in TestCalls : Printk(pieces)
<1>1. CASE check_multiboot \/ check_cpuid \/ check_long_mode
  BY <1>1 DEF check_multiboot, check_cpuid, check_long_mode, Check
<1>2. CASE SetUpPageTables \/ EnablePaging \/ Lgdt \/ MMU_init_pf
  BY <1>2 DEF SetUpPageTables, EnablePaging, Lgdt, MMU_init_pf
<1>3. CASE InitGdt \/ IRQ_init \/ InitDriver \/ AfterInitPf \/ MMU_init_vp
  <2>1. \E step \in Announcing : Calls(step) /\ Announce(step)
    <3>1. /\ "GDT_init" \in Announcing /\ "IRQ_init" \in Announcing /\ "MMU_init_pf" \in Announcing
          /\ "MMU_init_vp" \in Announcing
          /\ {"VGA_clear", "KBD_init", "SER_init", "kmalloc_init"} \subseteq Announcing
      BY DEF Announcing
    <3> QED
      BY <1>3, <3>1 DEF InitGdt, IRQ_init, InitDriver, AfterInitPf, MMU_init_vp
  <2> QED
    BY <2>1 DEF Calls, Announce
<1>4. CASE PrintsMessage \/ RunPrintkTest
  BY <1>4 DEF PrintsMessage, RunPrintkTest, Calls
<1>5. CASE UNCHANGED kernel_vars
  BY <1>5 DEF kernel_vars
<1> QED
  BY <1>1, <1>2, <1>3, <1>4, <1>5 DEF KernelNext

\* The size that kernel_main prints is a number.
LEMMA MemorySize == ASSUME MemoryInv, mem_size \in Nat, [Next]_vars PROVE mem_size' \in Nat
<1>1. CASE get_sys_mem_size_byte
  <2>1. /\ W \in Nat /\ Len(mem_info) \in Nat /\ DOMAIN mem_info = 1 .. Len(mem_info)
        /\ \A n \in DOMAIN mem_info :
             /\ mem_info[n].base_addr \in Nat /\ mem_info[n].length \in Nat
             /\ mem_info[n].base_addr + mem_info[n].length < W
        /\ \E n \in 1 .. Len(mem_info) : TRUE
    <3>1. (\E n \in Regions : mem_info[n].base_addr = 0) /\ Regions \subseteq 1 .. Len(mem_info)
      BY LoaderFacts
    <3> QED
      BY <3>1, LoaderFacts
  <2>2. Last(mem_info) = mem_info[Len(mem_info)] /\ Len(mem_info) \in DOMAIN mem_info
    BY <2>1 DEF Last
  <2> DEFINE v == mem_info[Len(mem_info)].base_addr + mem_info[Len(mem_info)].length
  <2>3. v \in Nat /\ v < W
    BY <2>1, <2>2
  <2>4. mem_size' = v % W
    BY <1>1, <2>2 DEF get_sys_mem_size_byte
  <2> HIDE DEF v
  <2> QED
    BY <2>1, <2>3, <2>4
<1>2. CASE ~get_sys_mem_size_byte
  <2>1. mem_size' = mem_size
    BY <1>2 DEF Next, FindTags, ScanEntry, ScanEnds, AddLowerPage, AddLowerEnds, InitHeadInfo, vars
  <2> QED
    BY <2>1
<1> QED
  BY <1>1, <1>2

PrintsInv == mem_size \in Nat /\ PrintkInv

LEMMA PrintsInvariance == KernelSpec => []PrintsInv
<1>1. KernelInit => PrintsInv
  <2> SUFFICES ASSUME KernelInit PROVE PrintsInv
    OBVIOUS
  <2>1. mem_size = 0 /\ PrintkInit
    BY DEF KernelInit, Init
  <2> QED
    BY <2>1, PrintkInvInit DEF PrintsInv
<1>2. KernelInv /\ PrintsInv /\ [KernelNext]_kernel_vars => PrintsInv'
  <2> SUFFICES ASSUME KernelInv, PrintsInv, [KernelNext]_kernel_vars PROVE PrintsInv'
    OBVIOUS
  <2>1. mem_size \in Nat /\ PrintkInv
    BY DEF PrintsInv
  <2>2. mem_size' \in Nat
    BY <2>1, MemorySteps, MemorySize DEF KernelInv
  <2>3. ASSUME NEW step \in Announcing, calls = <<>>, ~halted, Printk(Message(step)) PROVE PrintkInv'
    <3>1. Message(step) \in Seq(Good)
      BY <2>1, MessagesAreGood
    <3>2. Message(step) \in Seq(Pieces) /\ Cut(Message(step))
      BY <3>1, GoodCut
    <3> QED
      BY <2>1, <2>3, <3>2, PrintkInvCall
  <2>4. ASSUME NEW pieces \in TestCalls, calls = <<>>, ~halted, Printk(pieces) PROVE PrintkInv'
    <3>1. pieces \in Seq(Pieces) /\ Cut(pieces)
      BY KernelMainAssumption, ProperPieces
    <3> QED
      BY <2>1, <2>4, <3>1, PrintkInvCall
  <2>5. PrintkInv'
    BY <2>1, <2>3, <2>4, PrintkSteps, PrintkInvStep, PrintkInvKept
  <2> QED
    BY <2>2, <2>5 DEF PrintsInv
<1> QED
  BY <1>1, <1>2, KernelInvariance, PTL DEF KernelSpec

-----------------------------------------------------------------------------
(* What was asked for is shown.                                            *)

\* A call is the pieces that are printed, and then the first that is not.
LEMMA Splits ==
  ASSUME NEW a \in Seq(Pieces)
  PROVE  \E g \in Seq(Good), b \in Seq(Pieces) : a = g \o b /\ (b = <<>> \/ ~WellFormed(b[1]))
<1> DEFINE T == {n \in 1 .. Len(a) : ~WellFormed(a[n])}
<1>1. Len(a) \in Nat /\ DOMAIN a = 1 .. Len(a) /\ \A n \in 1 .. Len(a) : a[n] \in Pieces
  BY LenProperties, ElementOfSeq
<1>2. CASE T = {}
  <2>1. \A n \in 1 .. Len(a) : a[n] \in Good
    BY <1>1, <1>2 DEF Good
  <2>2. a \in Seq(Good)
    BY <1>1, <2>1
  <2> QED
    BY <2>2, EmptyFacts
<1>3. CASE T # {}
  <2>1. T \subseteq Nat
    BY <1>1
  <2>2. PICK n \in T : \A y \in T : n <= y
    BY <1>3, <2>1, LeastNumber
  <2>3. n \in 1 .. Len(a) /\ ~WellFormed(a[n]) /\ \A k \in 1 .. n - 1 : k \in 1 .. Len(a) /\ WellFormed(a[k])
    BY <1>1, <2>2
  <2> HIDE DEF T
  <2> DEFINE m == n - 1
             g == SubSeq(a, 1, m)
             b == SubSeq(a, m + 1, Len(a))
  <2>4. m \in Nat /\ m + 1 = n /\ m < Len(a) /\ n \in Nat
    BY <1>1, <2>3
  <2>5. \A k \in 1 .. m : a[k] \in Good
    BY <1>1, <2>3 DEF Good
  <2>6. g \in Seq(Good)
    BY <2>4, <2>5, SubSeqProperties
  <2>7. /\ b \in Seq(Pieces) /\ Len(b) = (IF m + 1 <= Len(a) THEN Len(a) - (m + 1) + 1 ELSE 0)
        /\ \A k \in 1 .. Len(a) - (m + 1) + 1 : b[k] = a[(m + 1) + k - 1]
    <3>1. \A k \in m + 1 .. Len(a) : a[k] \in Pieces
      BY <1>1, <2>4
    <3>2. m + 1 \in Int /\ Len(a) \in Int
      BY <1>1, <2>4
    <3> QED
      BY <3>1, <3>2, SubSeqProperties
  <2>8. a = g \o b
    <3>1. SubSeq(a, 1, m) \o SubSeq(a, m + 1, Len(a)) = SubSeq(a, 1, Len(a))
      <4>1. 1 \in 1 .. Len(a) + 1 /\ m \in 1 - 1 .. Len(a) /\ Len(a) \in m .. Len(a)
        BY <1>1, <2>4
      <4> QED
        BY <4>1, ConcatAdjacentSubSeq
    <3>2. SubSeq(a, 1, Len(a)) = a
      BY SubSeqFull
    <3> QED
      BY <3>1, <3>2
  <2> HIDE DEF g, b, m
  <2>9. b[1] = a[n]
    <3>1. 1 \in 1 .. Len(a) - (m + 1) + 1 /\ (m + 1) + 1 - 1 = n
      BY <1>1, <2>4
    <3>2. b[1] = a[(m + 1) + 1 - 1]
      BY <2>7, <3>1
    <3> QED
      BY <3>1, <3>2
  <2> QED
    BY <2>3, <2>6, <2>7, <2>8, <2>9
<1> QED
  BY <1>2, <1>3

\* The message of an assert, if printk is stopped by one.
Complaint(nul, b) == IF b = <<>> \/ b[1].conv # <<"s">> THEN <<>> ELSE AssertText(nul)

LEMMA ExpectedIs ==
  ASSUME NEW nul, NEW g \in Seq(Good), NEW b \in Seq(Pieces), asked = g \o b,
         b = <<>> \/ ~WellFormed(b[1])
  PROVE  Expected(nul) = Texts(nul, g) \o Complaint(nul, b)
<1> DEFINE I == {n \in 1 .. Len(asked) : ~WellFormed(asked[n])}
           bad == SelectInSeq(asked, LAMBDA p : ~WellFormed(p))
           good == IF bad = 0 THEN asked ELSE SubSeq(asked, 1, bad - 1)
           tail == IF bad = 0 \/ asked[bad].conv # <<"s">> THEN <<>> ELSE AssertText(nul)
<1>1. Expected(nul) = FlattenSeq([n \in DOMAIN good |-> Text(good[n], nul)]) \o tail
  BY Zenon DEF Expected, AssertText
<1>2. bad = IF I # {} THEN CHOOSE x \in I : \A y \in I : x <= y ELSE 0
  BY DEF SelectInSeq, Min
<1>3. /\ Len(asked) = Len(g) + Len(b) /\ Len(g) \in Nat /\ Len(b) \in Nat
      /\ \A k \in 1 .. Len(g) : asked[k] = g[k]
      /\ \A k \in 1 .. Len(b) : asked[Len(g) + k] = b[k]
  BY GoodCut, Concat
<1>4. \A k \in 1 .. Len(g) : WellFormed(asked[k])
  BY <1>3, ElementOfSeq DEF Good
<1>5. good = g /\ tail = Complaint(nul, b)
  <2>1. CASE b = <<>>
    <3>1. Len(b) = 0
      BY <2>1
    <3>2. I = {}
      BY <1>3, <1>4, <3>1
    <3> HIDE DEF I
    <3>3. bad = 0
      BY <1>2, <3>2
    <3>4. asked = g
      BY <2>1, EmptyFacts
    <3> HIDE DEF bad
    <3> QED
      BY <2>1, <3>3, <3>4 DEF Complaint
  <2>2. CASE b # <<>>
    <3> DEFINE m == Len(g) + 1
    <3>1. Len(b) # 0 /\ 1 \in 1 .. Len(b)
      <4>1. Len(b) # 0
        BY <2>2, EmptySeq
      <4> QED
        BY <1>3, <4>1
    <3>2. asked[m] = b[1] /\ m \in 1 .. Len(asked) /\ m \in Nat /\ m # 0 /\ m - 1 = Len(g)
      BY <1>3, <3>1
    <3>3. m \in I /\ \A y \in I : m <= y
      <4>1. m \in I
        BY <2>2, <3>2
      <4>2. ASSUME NEW y \in I, y < m PROVE FALSE
        <5>1. y \in 1 .. Len(g)
          BY <1>3, <4>2
        <5> QED
          BY <1>4, <5>1
      <4> QED
        BY <1>3, <3>2, <4>1, <4>2
    <3> HIDE DEF m
    <3>4. \A y \in I : y \in Nat
      BY <1>3
    <3> HIDE DEF I
    <3>5. (CHOOSE x \in I : \A y \in I : x <= y) = m
      <4>1. ASSUME NEW x \in I, \A y \in I : x <= y PROVE x = m
        <5>1. x <= m /\ m <= x /\ x \in Nat
          BY <3>3, <3>4, <4>1
        <5> QED
          BY <3>2, <5>1
      <4> QED
        BY <3>3, <4>1
    <3>6. bad = m
      <4>1. I # {}
        BY <3>3
      <4> QED
        BY <1>2, <3>5, <4>1
    <3> HIDE DEF bad
    <3>7. SubSeq(asked, 1, Len(g)) = g
      <4>1. g \in Seq(Pieces)
        BY GoodCut
      <4> QED
        BY <4>1, InFront
    <3>8. good = g
      BY <3>2, <3>6, <3>7
    <3>9. tail = Complaint(nul, b)
      BY <2>2, <3>2, <3>6 DEF Complaint
    <3> QED
      BY <3>8, <3>9
  <2> QED
    BY <2>1, <2>2
<1> HIDE DEF good, tail, bad
<1>6. FlattenSeq([n \in DOMAIN g |-> Text(g[n], nul)]) = Texts(nul, g)
  <2>1. \A n \in DOMAIN g : g[n] \in Good
    BY ElementOfSeq, LenProperties
  <2>2. [n \in DOMAIN g |-> TextOf(nul)[g[n]]] = [n \in DOMAIN g |-> Text(g[n], nul)]
    BY <2>1 DEF TextOf
  <2> QED
    BY <2>2 DEF Texts, Flat
<1> QED
  BY <1>1, <1>5, <1>6

\* Whether there is a piece that is not printed.
LEMMA HasBad ==
  /\ \A g \in Seq(Good) : \A n \in DOMAIN g : WellFormed(g[n])
  /\ \A g, b \in Seq(Pieces) : b # <<>> /\ ~WellFormed(b[1]) => \E n \in DOMAIN (g \o b) : ~WellFormed((g \o b)[n])
<1>1. ASSUME NEW g \in Seq(Good), NEW n \in DOMAIN g PROVE WellFormed(g[n])
  BY <1>1, ElementOfSeq, LenProperties DEF Good
<1>2. ASSUME NEW g \in Seq(Pieces), NEW b \in Seq(Pieces), b # <<>>, ~WellFormed(b[1])
      PROVE  \E n \in DOMAIN (g \o b) : ~WellFormed((g \o b)[n])
  <2>1. /\ g \o b \in Seq(Pieces) /\ Len(g \o b) = Len(g) + Len(b) /\ Len(g) \in Nat /\ Len(b) \in Nat
        /\ \A k \in 1 .. Len(b) : (g \o b)[Len(g) + k] = b[k]
    BY Concat
  <2>2. Len(b) # 0
    BY <1>2, EmptySeq
  <2> DEFINE gb == g \o b
  <2>3. gb \in Seq(Pieces) /\ Len(g) + 1 \in 1 .. Len(gb) /\ gb[Len(g) + 1] = b[1]
    BY <2>1, <2>2
  <2> HIDE DEF gb
  <2>4. Len(g) + 1 \in DOMAIN gb /\ ~WellFormed(gb[Len(g) + 1])
    BY <1>2, <2>3, LenProperties
  <2> QED
    BY <2>4 DEF gb
<1> QED
  BY <1>1, <1>2

\* Between the pieces of a call.
LEMMA PrintingAsAsked ==
  ASSUME PrintkInv, NEW done \in Seq(Good), NEW rest \in Seq(Pieces), Printing(done, rest)
  PROVE  PrintsWhatWasAsked
<1>1. shown = Texts(<<>>, done) /\ sent = Texts(<<NUL>>, done) /\ asked = done \o rest
  BY DEF Printing
<1>2. done \in Seq(Pieces)
  BY GoodCut
<1>3. <<>> \in Nuls /\ <<NUL>> \in Nuls
  BY EmptyFacts
<1>4. IsPrefix(shown, Expected(<<>>)) /\ IsPrefix(sent, Expected(<<NUL>>))
  <2>1. PICK e \in Seq(Good), b \in Seq(Pieces) : rest = e \o b /\ (b = <<>> \/ ~WellFormed(b[1]))
    BY Splits
  <2> DEFINE g == done \o e
  <2>2. g \in Seq(Good)
    BY Concat
  <2>3. asked = g \o b
    <3>1. e \in Seq(Pieces)
      BY GoodCut
    <3>2. (done \o e) \o b = done \o (e \o b)
      BY <1>2, <3>1, Regrouped
    <3> QED
      BY <1>1, <2>1, <3>2
  <2>4. ASSUME NEW nul \in Nuls PROVE IsPrefix(Texts(nul, done), Expected(nul))
    <3> DEFINE D == Texts(nul, done)
               E == Texts(nul, e)
               C == Complaint(nul, b)
    <3>1. D \in Seq(Letter) /\ E \in Seq(Letter) /\ Texts(nul, g) = D \o E
      BY TextsFacts DEF Lists
    <3>2. C \in Seq(Letter)
      BY MessageFacts, ListFacts DEF Complaint, Lists
    <3> HIDE DEF g
    <3>3. Expected(nul) = Texts(nul, g) \o C
      BY <2>1, <2>2, <2>3, ExpectedIs
    <3> HIDE DEF D, E, C
    <3>4. (D \o E) \o C = D \o (E \o C) /\ E \o C \in Seq(Letter)
      <4>1. (D \o E) \o C = D \o (E \o C)
        BY <3>1, <3>2, Regrouped, SMTT(30)
      <4>2. E \o C \in Seq(Letter)
        BY <3>1, <3>2, Concat
      <4> QED
        BY <4>1, <4>2
    <3> DEFINE EC == E \o C
    <3>5. EC \in Seq(Letter) /\ Expected(nul) = D \o EC
      BY <3>1, <3>3, <3>4
    <3> HIDE DEF EC
    <3>6. IsPrefix(D, D \o EC)
      BY <3>1, <3>5, InFront
    <3> QED
      BY <3>5, <3>6 DEF D
  <2> QED
    BY <1>1, <1>3, <2>4
<1>5. ASSUME rest = <<>> \/ ~WellFormed(rest[1]), Complaint(<<>>, rest) = <<>>, Complaint(<<NUL>>, rest) = <<>>
      PROVE  shown = Expected(<<>>) /\ sent = Expected(<<NUL>>)
  <2>1. ASSUME NEW nul \in Nuls, Complaint(nul, rest) = <<>> PROVE Expected(nul) = Texts(nul, done)
    <3>1. Expected(nul) = Texts(nul, done) \o <<>>
      BY <1>1, <1>5, <2>1, ExpectedIs
    <3>2. Texts(nul, done) \in Lists(Letter)
      BY TextsFacts
    <3> QED
      BY <3>1, <3>2, ListFacts
  <2> QED
    BY <1>1, <1>3, <1>5, <2>1
<1>6. calls = <<>> => rest = <<>>
  <2>1. calls = Append(<<>>, Frame(rest)) => calls # <<>>
    BY FrameFacts, EmptyFacts, Top
  <2> QED
    BY <2>1 DEF Printing
<1>7. halted => rest # <<>> /\ ~WellFormed(rest[1]) /\ rest[1].conv # <<"s">>
  BY DEF Printing
<1>8. calls = <<>> \/ halted => shown = Expected(<<>>) /\ sent = Expected(<<NUL>>)
  BY <1>5, <1>6, <1>7 DEF Complaint
<1>9. halted => \E n \in DOMAIN asked : ~WellFormed(asked[n])
  <2>1. rest # <<>> /\ ~WellFormed(rest[1]) =>
          \E n \in DOMAIN (done \o rest) : ~WellFormed((done \o rest)[n])
    BY <1>2, HasBad
  <2> QED
    BY <1>1, <1>7, <2>1
<1>10. calls = <<>> => \A n \in DOMAIN asked : WellFormed(asked[n])
  <2>1. rest = <<>> => asked = done
    BY <1>1, EmptyFacts
  <2> QED
    BY <1>6, <2>1, HasBad
<1>11. shown = Without(sent, NUL)
  BY DEF PrintkInv
<1> QED
  BY <1>4, <1>8, <1>9, <1>10, <1>11 DEF PrintsWhatWasAsked

\* In the message of an assert.
LEMMA AssertingAsAsked ==
  ASSUME PrintkInv, NEW done \in Seq(Good), NEW rest \in Seq(Pieces), NEW said \in Seq(Good),
         NEW unsaid \in Seq(Good), NEW c \in Frames, Asserting(done, rest, said, unsaid, c)
  PROVE  PrintsWhatWasAsked
<1>1. /\ shown = Texts(<<>>, done) \o Texts(<<>>, said) /\ sent = Texts(<<NUL>>, done) \o Texts(<<NUL>>, said)
      /\ asked = done \o rest /\ rest # <<>> /\ rest[1].conv = <<"s">> /\ rest[1].arg = NullString
      /\ AssertMessage = said \o unsaid /\ (halted => unsaid = <<>>)
  BY DEF Asserting
<1>2. ~WellFormed(rest[1])
  BY <1>1 DEF WellFormed
<1>3. <<>> \in Nuls /\ <<NUL>> \in Nuls
  BY EmptyFacts
<1>4. ASSUME NEW nul \in Nuls
      PROVE  /\ IsPrefix(Texts(nul, done) \o Texts(nul, said), Expected(nul))
             /\ unsaid = <<>> => Texts(nul, done) \o Texts(nul, said) = Expected(nul)
  <2> DEFINE D == Texts(nul, done)
             A == Texts(nul, said)
             B == Texts(nul, unsaid)
  <2>1. D \in Seq(Letter) /\ A \in Seq(Letter) /\ B \in Seq(Letter)
    BY TextsFacts DEF Lists
  <2>2. AssertText(nul) = A \o B
    BY <1>1, MessageFacts, TextsFacts
  <2>3. Expected(nul) = D \o AssertText(nul)
    <3>1. Complaint(nul, rest) = AssertText(nul)
      BY <1>1 DEF Complaint
    <3> QED
      BY <1>1, <1>2, <3>1, ExpectedIs
  <2>4. unsaid = <<>> => B = <<>>
    BY TextsFacts
  <2> HIDE DEF D, A, B
  <2>5. (D \o A) \o B = D \o (A \o B)
    BY <2>1, Regrouped, SMTT(30)
  <2> DEFINE DA == D \o A
  <2>6. DA \in Seq(Letter)
    BY <2>1, Concat
  <2>7. Expected(nul) = DA \o B
    BY <2>2, <2>3, <2>5
  <2> HIDE DEF DA
  <2>8. IsPrefix(DA, DA \o B)
    BY <2>1, <2>6, InFront
  <2>9. DA \o <<>> = DA
    BY <2>6, ListFacts DEF Lists
  <2> QED
    BY <2>4, <2>7, <2>8, <2>9 DEF DA, D, A
<1>5. calls # <<>>
  <2>1. unsaid \in Seq(Pieces)
    BY GoodCut
  <2>2. Frame(unsaid) \in Frames /\ Append(<<>>, c) \in Seq(Frames)
    BY <2>1, FrameFacts, EmptyFacts, Top
  <2>3. Append(Append(<<>>, c), Frame(unsaid)) # <<>>
    BY <2>2, Top
  <2> QED
    BY <2>3 DEF Asserting
<1>6. IsPrefix(shown, Expected(<<>>)) /\ IsPrefix(sent, Expected(<<NUL>>))
  BY <1>1, <1>3, <1>4
<1>7. halted => shown = Expected(<<>>) /\ sent = Expected(<<NUL>>)
  BY <1>1, <1>3, <1>4
<1>8. \E n \in DOMAIN asked : ~WellFormed(asked[n])
  <2>1. done \in Seq(Pieces)
    BY GoodCut
  <2>2. \E n \in DOMAIN (done \o rest) : ~WellFormed((done \o rest)[n])
    BY <1>1, <1>2, <2>1, HasBad
  <2> QED
    BY <1>1, <2>2
<1>9. shown = Without(sent, NUL)
  BY DEF PrintkInv
<1> QED
  BY <1>5, <1>6, <1>7, <1>8, <1>9 DEF PrintsWhatWasAsked

\* What printk puts on the screen and sends to the serial port is what it was
\* called for, whatever the calls and the widths of the types are.
THEOREM PrintsAlwaysAsAsked == KernelSpec => []PrintsWhatWasAsked
<1>1. ASSUME PrintkInv PROVE PrintsWhatWasAsked
  <2>1. CASE \E done \in Seq(Good), rest \in Seq(Pieces) : Printing(done, rest)
    BY <1>1, <2>1, PrintingAsAsked
  <2>2. CASE \E done, said, unsaid \in Seq(Good), rest \in Seq(Pieces), c \in Frames :
               Asserting(done, rest, said, unsaid, c)
    BY <1>1, <2>2, AssertingAsAsked
  <2> QED
    BY <1>1, <2>1, <2>2 DEF PrintkInv
<1>2. PrintsInv => PrintsWhatWasAsked
  BY <1>1 DEF PrintsInv
<1> QED
  BY <1>2, PrintsInvariance, PTL
=============================================================================
