---------------------------- MODULE Descriptors ----------------------------
(***************************************************************************)
(* The segment and interrupt descriptors: the GDT and TSS of               *)
(* core/src/gdt.c, the IDT of core/src/interrupt.c, the GDT of             *)
(* core/boot/boot.asm, and how the processor reads them.                   *)
(*                                                                         *)
(* An address and a limit are split over fields of a descriptor.  A number *)
(* of the model has one bit where the code has four: a u64 is below 2^16,  *)
(* and a shift by 16 moves by four bits.                                   *)
(***************************************************************************)
EXTENDS Integers, Sequences

CONSTANT Layouts   \* where the linker may put tss, the stacks and the stubs

\* Values of a field of four bits, and of u8, u16, u32 and u64.
U4 == 2
U8 == 4
U16 == 16
U32 == 256
U64 == 65536

\* Vectors stand for all: no stack of their own, and ist 1 to 3.
Vectors == {0, 8, 13, 14}

ASSUME DescriptorsAssumption ==
  \A l \in Layouts :
    /\ {l.tss, l.gp_stack_base, l.df_stack_base, l.pf_stack_base} \subseteq 0 .. U64 - 1
    /\ l.isr_table \in [Vectors -> 0 .. U64 - 1]

VARIABLES
  layout,     \* as chosen initially
  gdt, tss,   \* the descriptors by their index; ist1 to ist3
  idt,        \* the entries by vector
  gdtr, tr, idtr   \* the tables in use; tr is an index into the GDT

descriptors == <<layout, gdt, tss, idt, gdtr, tr, idtr>>

\* Nothing is loaded; static data is zero.
Zero == [kind |-> "none"]
DescriptorsInit ==
  /\ layout \in Layouts
  /\ gdt = [n \in 0 .. 3 |-> Zero] /\ tss = <<0, 0, 0>>
  /\ idt = [v \in Vectors |-> Zero]
  /\ gdtr = "none" /\ tr = 0 /\ idtr = "none"

-----------------------------------------------------------------------------
\* A code segment by the bits of its access byte and flags.
Code(access, flags) == [kind |-> "code", access |-> access, flags |-> flags]

\* boot.asm: executable, code or data, present; long.
gdt64 == [n \in 0 .. 1 |->
  IF n = 0 THEN Zero ELSE Code({"executable", "not_system", "present"}, {"long"})]

set_gdt_usr_desc(access_byte, flags) == Code(access_byte, flags)

KCODE_DESC_ACCESS ==
  {"accessed", "readable", "conforming", "executable", "not_system", "present"}
KCODE_DESC_FLAGS == {"long"}
TSS_DESC_ACCESS == {"accessed", "executable", "present"}   \* type 9: TSS, available
TSS_DESC_FLAGS == {"long"}

sizeof_tss == 7   \* asserted to be 104: more than a u8, in the model too

\* Mutant: the third part of the base starts where the second does.
set_gdt_sys_desc_shifted(access_byte, flags, base, limit) ==
  [kind |-> "system", access |-> access_byte, flags |-> flags,
   limit_low |-> limit % U16, limit_high |-> (limit \div U16) % U4,
   base_low |-> base % U16,
   base_mid |-> (base \div U16) % U8,
   base_high |-> (base \div U16) % U8,
   base_super_high |-> (base \div U32) % U32]

\* limit & 0xFFFF, limit >> 16; base & 0xFFFF, base >> 16, base >> 24, base >> 32.
set_gdt_sys_desc(access_byte, flags, base, limit) ==
  [kind |-> "system", access |-> access_byte, flags |-> flags,
   limit_low |-> limit % U16, limit_high |-> (limit \div U16) % U4,
   base_low |-> base % U16,
   base_mid |-> (base \div U16) % U8,
   base_high |-> (base \div (U16 * U8)) % U8,
   base_super_high |-> (base \div U32) % U32]

\* boot.asm: lgdt before the jump to 64-bit code, whose selector is kept.
LoadGdt64 == gdtr' = "gdt64" /\ UNCHANGED <<layout, gdt, tss, idt, tr, idtr>>

GDT_init ==
  /\ gdt' = [gdt EXCEPT ![1] = set_gdt_usr_desc(KCODE_DESC_ACCESS, KCODE_DESC_FLAGS),
                        ![2] = set_gdt_sys_desc(TSS_DESC_ACCESS, TSS_DESC_FLAGS, layout.tss, sizeof_tss)]
  /\ tss' = <<layout.gp_stack_base, layout.df_stack_base, layout.pf_stack_base>>
  /\ gdtr' = "gdt" /\ tr' = 2
  /\ UNCHANGED <<layout, idt, idtr>>

GDT_OFFSET_KERNEL_CODE == 1   \* the selector 8, as an index

idt_set_descriptor(isr, attributes, ist) ==
  [isr_low |-> isr % U16, isr_mid |-> (isr \div U16) % U16, isr_high |-> (isr \div U32) % U32,
   kernel_cs |-> GDT_OFFSET_KERNEL_CODE, ist |-> ist, attributes |-> attributes]

\* All entries have no stack of their own, then three get one.
idt_populate ==
  [v \in Vectors |->
     idt_set_descriptor(layout.isr_table[v], {"present", "interrupt_gate"},
       CASE v = 13 -> 1 [] v = 8 -> 2 [] v = 14 -> 3 [] OTHER -> 0)]

\* idt_populate and idt_load_idtr; the rest of IRQ_init is in Interrupts.
LoadIdt ==
  /\ idt' = idt_populate /\ idtr' = "idt"
  /\ UNCHANGED <<layout, gdt, tss, gdtr, tr>>

-----------------------------------------------------------------------------
(* The processor.                                                          *)

\* The descriptor of an index of the table in use.
Descriptor(n) == IF gdtr = "gdt64" THEN gdt64[n] ELSE gdt[n]

RunsLongCode(d) ==
  /\ d.kind = "code"
  /\ {"executable", "not_system", "present"} \subseteq d.access /\ d.flags = {"long"}

SystemBase(d) ==
  d.base_low + U16 * d.base_mid + U16 * U8 * d.base_high + U32 * d.base_super_high
SystemLimit(d) == d.limit_low + U16 * d.limit_high

\* ltr takes an available TSS that is present; its limit, in bytes unless the
\* flags say pages, is the last byte's offset.
TssFound ==
  LET d == Descriptor(tr)
  IN /\ d.kind = "system" /\ SystemBase(d) = layout.tss
     /\ d.access = {"accessed", "executable", "present"}
     /\ "granularity" \notin d.flags /\ SystemLimit(d) >= sizeof_tss - 1

HandlerOf(v) == idt[v].isr_low + U16 * idt[v].isr_mid + U32 * idt[v].isr_high

\* Once there is an IDT, every interrupt leads through it, the GDT and the TSS
\* to the stub of its vector, in a code segment of long mode, and the three
\* exceptions to their own stacks, wherever the linker puts all this; and the
\* selector the kernel runs with names such a segment in either GDT.
SegmentsFound ==
  /\ gdtr # "none" => RunsLongCode(Descriptor(GDT_OFFSET_KERNEL_CODE))
  /\ idtr # "none" =>
       \A v \in Vectors :
         /\ HandlerOf(v) = layout.isr_table[v]
         /\ RunsLongCode(Descriptor(idt[v].kernel_cs))
         /\ idt[v].attributes = {"present", "interrupt_gate"}
         /\ idt[v].ist # 0 => TssFound
         /\ v = 13 => tss[idt[v].ist] = layout.gp_stack_base
         /\ v = 8 => tss[idt[v].ist] = layout.df_stack_base
         /\ v = 14 => tss[idt[v].ist] = layout.pf_stack_base
=============================================================================
