---------------------------- MODULE IdentityMap ----------------------------
(***************************************************************************)
(* The page tables of core/boot/boot.asm and the ones setup_identity_paging *)
(* (core/src/vp_alloc.c) replaces them with, for the addresses of the      *)
(* first entry of the highest table, which the kernel uses as if they were *)
(* physical.  Addresses have the units of BootMemory.                      *)
(***************************************************************************)
EXTENDS Integers

CONSTANTS
  GIB,        \* what an entry of a level 3 table maps
  ENTRIES     \* entries of a table: 512

\* 2 MiB: what an entry of a level 2 table maps.
ASSUME IdentityMapAssumption == {GIB, ENTRIES} \subseteq Nat \ {0} /\ GIB % ENTRIES = 0
MIB2 == GIB \div ENTRIES

VARIABLES
  p3_table, p2_table,    \* of boot.asm: p4_table[0] leads to p3_table
  l3_identity_table,     \* of vp_alloc.c
  cr3                    \* the tables in use

tables == <<p3_table, p2_table, l3_identity_table, cr3>>

Absent == [kind |-> "absent"]
Table(t) == [kind |-> "table", table |-> t]
Huge(addr) == [kind |-> "huge", addr |-> addr]
Index == 0 .. ENTRIES - 1

IdentityMapInit ==
  /\ p3_table = [n \in Index |-> Absent] /\ p2_table = [n \in Index |-> Absent]
  /\ l3_identity_table = [n \in Index |-> Absent]
  /\ cr3 = "none"

set_up_page_tables ==
  /\ p3_table' = [p3_table EXCEPT ![0] = Table("p2_table")]
  /\ p2_table' = [ecx \in Index |-> Huge(MIB2 * ecx)]
  /\ UNCHANGED <<l3_identity_table, cr3>>

enable_paging == cr3' = "p4_table" /\ UNCHANGED <<p3_table, p2_table, l3_identity_table>>

\* Mutant: the entries name the second gigabyte.
setup_identity_paging_at_1GB == [i \in Index |-> Huge(GIB)]

\* PRESENT_MASK | WRITEABLE_MASK | PAGE_SIZE_1GB_MSK: the address stays 0.
setup_identity_paging == [i \in Index |-> Huge(0)]

\* The part of MMU_init_vp before the page fault handler is set.
SwitchTables ==
  /\ l3_identity_table' = setup_identity_paging
  /\ cr3' = "l4_table"
  /\ UNCHANGED <<p3_table, p2_table>>

-----------------------------------------------------------------------------
(* The processor's walk.                                                   *)

Unmapped == -1

Translate(a) ==
  LET in_gib == a % GIB
      entry3 == IF a \div GIB \notin Index THEN Absent
                ELSE CASE cr3 = "p4_table" -> p3_table[a \div GIB]
                       [] cr3 = "l4_table" -> l3_identity_table[a \div GIB]
                       [] OTHER -> Absent
      entry2 == p2_table[in_gib \div MIB2]
  IN CASE entry3.kind = "huge" -> entry3.addr + in_gib
       [] entry3.kind = "table" /\ entry2.kind = "huge" -> entry2.addr + (in_gib % MIB2)
       [] OTHER -> Unmapped

\* From the moment paging is on, through the switch from boot.asm's tables to
\* the kernel's while it runs on them, every address of the first gigabyte is
\* where it was: the kernel, its stack, the screen, the tables themselves.
FirstGigabyteKept ==
  cr3 # "none" => \A a \in 0 .. GIB - 1 : Translate(a) = a
=============================================================================
