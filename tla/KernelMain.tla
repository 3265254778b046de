---------------------------- MODULE KernelMain ----------------------------
(***************************************************************************)
(* From the boot loader's jump to the idle loop: core/boot/boot.asm and    *)
(* core/src/kernel_main.c, with the tables, the memory map and the messages. *)
(* The drivers have modules of their own; here they are the messages that  *)
(* follow them.                                                            *)
(***************************************************************************)
EXTENDS BootMemory, Printk, Descriptors, IdentityMap

CONSTANTS
  Cpus,        \* which checks of boot.asm a machine passes
  TestCalls,   \* what printk_test calls printk for
  MaxTests     \* bound: calls of printk by the tests

ASSUME KernelMainAssumption ==
  /\ Cpus \subseteq SUBSET {"multiboot", "cpuid", "long_mode"}
  /\ MaxTests \in Nat /\ W <= LONG
  /\ \A call \in TestCalls : ProperCall(call)

VARIABLES
  cpu, build, \* as chosen initially; build: with the tests
  main,       \* what boot.asm or kernel_main executes
  err,        \* the code error displays, or ""
  tests       \* calls of printk by the tests so far

kernel == <<cpu, build, main, err, tests>>
pf == <<loader, pc, i, usable, list, head_info, mem_size>>

KernelInit ==
  /\ Init /\ PrintkInit /\ DescriptorsInit /\ IdentityMapInit
  /\ cpu \in Cpus /\ build \in BOOLEAN /\ main = "check_multiboot" /\ err = ""
  /\ tests = 0

-----------------------------------------------------------------------------
(* boot.asm.                                                               *)

\* A check, or error with its code.
Check(step, feature, code, next) ==
  /\ main = step
  /\ IF feature \in cpu THEN main' = next /\ UNCHANGED err
       ELSE main' = "hlt" /\ err' = code
  /\ UNCHANGED <<cpu, build, tests, pf, printk, descriptors, tables>>

check_multiboot == Check("check_multiboot", "multiboot", "0", "check_cpuid")
check_cpuid == Check("check_cpuid", "cpuid", "1", "check_long_mode")
check_long_mode == Check("check_long_mode", "long_mode", "2", "set_up_page_tables")

SetUpPageTables ==
  /\ main = "set_up_page_tables" /\ set_up_page_tables
  /\ main' = "enable_paging"
  /\ UNCHANGED <<cpu, build, err, tests, pf, printk, descriptors>>

EnablePaging ==
  /\ main = "enable_paging" /\ enable_paging
  /\ main' = "lgdt"
  /\ UNCHANGED <<cpu, build, err, tests, pf, printk, descriptors>>

\* lgdt, the jump to long_mode_start, and the call of kernel_main.
Lgdt ==
  /\ main = "lgdt" /\ LoadGdt64
  /\ main' = "VGA_clear"
  /\ UNCHANGED <<cpu, build, err, tests, pf, printk, tables>>

-----------------------------------------------------------------------------
(* kernel_main.                                                            *)

Order == <<"VGA_clear", "GDT_init", "IRQ_init", "KBD_init", "SER_init", "MMU_init_pf",
           "MMU_init_vp", "kmalloc_init", "IRQ_start">>
Following(step) == Order[SelectInSeq(Order, LAMBDA s : s = step) + 1]

\* A call returns when printk is done and no assert has halted.
Calls(step) == main = step /\ calls = <<>> /\ ~halted

\* The message after a call, then the next call.
Message(step) ==
  CASE step = "VGA_clear" -> <<Plain("\n\nWELCOME TO SKIPOS\n\n")>>
    [] step = "GDT_init" -> <<Plain("GDT inititialized.\n")>>
    [] step = "IRQ_init" -> <<Plain("Interrupt system initialized.\n")>>
    [] step = "KBD_init" -> <<Plain("Keyboard initialized.\n")>>
    [] step = "SER_init" -> <<Plain("Serial output initialized.\n")>>
    [] step = "MMU_init_pf" ->
         <<Plain("Physical memory system initialized, physical size: 0x"),
           Piece(<<"l", "x">>, mem_size), Plain(".\n")>>
    [] step = "MMU_init_vp" -> <<Plain("Virtual memory system initialized.\n")>>
    [] step = "kmalloc_init" -> <<Plain("Kernel heap allocator initialized.\n")>>

Announce(step) ==
  /\ Printk(Message(step)) /\ main' = Following(step)
  /\ UNCHANGED <<cpu, build, err, tests>>

InitGdt == Calls("GDT_init") /\ GDT_init /\ Announce("GDT_init") /\ UNCHANGED <<pf, tables>>
IRQ_init == Calls("IRQ_init") /\ LoadIdt /\ Announce("IRQ_init") /\ UNCHANGED <<pf, tables>>

InitDriver ==
  \E step \in {"VGA_clear", "KBD_init", "SER_init", "kmalloc_init"} :
    Calls(step) /\ Announce(step) /\ UNCHANGED <<pf, descriptors, tables>>

\* A step of MMU_init_pf, which halts in an assertion of its own.
MMU_init_pf ==
  /\ Calls("MMU_init_pf") /\ Next
  /\ UNCHANGED <<kernel, printk, descriptors, tables>>
AfterInitPf ==
  /\ Calls("MMU_init_pf") /\ pc = "done" /\ Announce("MMU_init_pf")
  /\ UNCHANGED <<pf, descriptors, tables>>

MMU_init_vp ==
  /\ Calls("MMU_init_vp") /\ SwitchTables /\ Announce("MMU_init_vp")
  /\ UNCHANGED <<pf, descriptors>>

\* A step of the printk called last.
PrintsMessage ==
  /\ PrintkStep
  /\ UNCHANGED <<kernel, pf, descriptors, tables>>

\* After IRQ_start, printk_test, if the kernel is built with it.
RunPrintkTest ==
  /\ Calls("IRQ_start") /\ build /\ tests < MaxTests
  /\ \E pieces \in TestCalls : Printk(pieces)
  /\ tests' = tests + 1
  /\ UNCHANGED <<cpu, build, main, err, pf, descriptors, tables>>

KernelNext ==
  \/ check_multiboot \/ check_cpuid \/ check_long_mode
  \/ SetUpPageTables \/ EnablePaging \/ Lgdt
  \/ InitGdt \/ IRQ_init \/ InitDriver
  \/ MMU_init_pf \/ AfterInitPf \/ MMU_init_vp
  \/ PrintsMessage
  \/ RunPrintkTest

kernel_vars == <<kernel, pf, printk, descriptors, tables>>
KernelSpec == KernelInit /\ [][KernelNext]_kernel_vars

-----------------------------------------------------------------------------
(* Properties.                                                             *)

\* A machine boot.asm cannot run the kernel on is told so, by the code of the
\* first check it does not pass, and nothing is changed in it; and of the
\* others the kernel starts on those whose memory is as pf_alloc.c expects.
StartsWhereSupported ==
  LET missing == {"multiboot", "cpuid", "long_mode"} \ cpu
  IN /\ OnlySupportedMachines
     /\ err # "" <=> main = "hlt"
     /\ main = "hlt" =>
          \/ err = "0" /\ "multiboot" \in missing
          \/ err = "1" /\ "multiboot" \notin missing /\ "cpuid" \in missing
          \/ err = "2" /\ missing = {"long_mode"}
     /\ cr3 # "none" => missing = {}

\* setup_identity_paging, and get_lowest_present_page (vp_alloc.c:237), which
\* takes "1GB pages" for physical addresses: what the frame allocator hands out
\* is memory that is there.
IdentityMapped ==
  cr3 = "l4_table" => \A a \in pages \cup UpperPages : Translate(a) = a
=============================================================================
