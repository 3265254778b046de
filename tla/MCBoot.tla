------------------------------- MODULE MCBoot -------------------------------
(* Two units a page, eighteen a gigabyte.                                    *)
EXTENDS KernelMain, Strings, FiniteSetsExt

Entry(b, l, t) == [base_addr |-> b, length |-> l, type |-> t]
Tag(t) == [type |-> t, known |-> TRUE]
Section(a, s) == [addr |-> a, size |-> s]

\* A usable region at 0, a hole, in which some machines have usable memory too,
\* the region of the kernel, perhaps one behind it, and the BIOS at the top.
\* The kernel is loaded at 10; its region may also begin elsewhere.
Holes == {<<Entry(8, 2, 2)>>, <<Entry(8, 1, 2), Entry(9, 1, 1)>>}

Maps ==
  {<<Entry(0, low, 1), Entry(low, 8 - low, 2)>> \o hole \o <<Entry(start, high, 1)>> \o more
     \o <<Entry(28, 3, 2)>> :
     low \in {1, 2, 3, 6, 7}, hole \in Holes, start \in {10, 11}, high \in 8 .. 11,
     more \in {<<>>, <<Entry(24, 3, 1)>>}}

\* Kernels end at 16 .. 18, with a gap before the last section or none.
Kernels ==
  {<<Section(0, 0), Section(10, 3), Section(13, text), Section(15, size)>> :
     text \in {1, 2}, size \in 1 .. 3}

TagOrders ==
  {<<Tag("mmap"), Tag("elf")>>, <<Tag("name"), Tag("elf"), Tag("name"), Tag("mmap")>>,
   <<Tag("elf"), Tag("name")>>, <<Tag("mmap")>>,
   <<Tag("mmap"), [type |-> "elf", known |-> FALSE]>>}

AllCpus == SUBSET {"multiboot", "cpuid", "long_mode"}
Able == {"multiboot", "cpuid", "long_mode"}

Layout(tss_, gp, df, pf_, isr) ==
  [tss |-> tss_, gp_stack_base |-> gp, df_stack_base |-> df, pf_stack_base |-> pf_,
   isr_table |-> [v \in Vectors |-> (isr + v) % U64]]
\* Addresses with bits in every field, and in only one.
SomeLayouts ==
  {Layout(a, (a + 16) % U64, (a + 32) % U64, (a + 48) % U64, (a + b) % U64) :
     a \in {0, 1, 16, 64, 256, 21845, 43690, 65535}, b \in {4096, 51401}}

\* Numbers at and around the ends of every type, and with several digits.
Ends == {-2048, -2047, -257, -256, -33, -32, -1, 0, 1, 9, 10, 15, 16, 31, 32, 63, 64, 100,
         255, 256, 511, 512, 2047, 2048, 4095}
Letters == <<"a", "Q", "9", "z">>
Taking(conv, S) == {<<Plain("<"), Piece(conv, v), Plain(">")>> : v \in S}
\* printk_test.c's forms with these arguments, several in a call, and formats
\* that are none, NULL among them.
Tests ==
  UNION {Taking(conv, Ends) : conv \in Numbers \cup {<<"p">>, <<"c">>}}
  \cup Taking(<<"s">>, {<<>>, <<"t">>, <<"t", "s", "t">>, NullString})
  \cup {<<Piece(<<"%">>, 0), Plain("s"), Plain("d")>>,
        <<Piece(<<"d">>, -5), Piece(<<"%">>, 0), Piece(<<"s">>, <<"b">>), Piece(<<"h", "u">>, 70)>>,
        <<Piece(<<"l", "d">>, 7), Piece(<<"q", "x">>, 300), Piece(<<"c">>, 6)>>}
  \cup {<<Plain("a"), Plain("%")>>, NullFormat}
  \cup {<<Plain("a"), Piece(conv, 1)>> : conv \in {<<"h">>, <<"l">>, <<"q">>}}
  \cup {<<Piece(conv, 1), Piece(<<"d">>, 1)>> : conv \in {<<"z">>, <<"h", "s">>, <<"l", "l">>}}

\* Memories of five bytes; 5 is negative as a character.
Memories == {m \in [0 .. 4 -> {0, 1, 2, 5}] : m[4] = 0 /\ m[3] # 2}
StringBuffers == [mem : Memories, s : 0 .. 4, t : 0 .. 4, n : 0 .. 3]

\* All memory maps, kernels and tags on one machine; all machines and layouts
\* with one memory map; the tests on one machine with that.
OneMap ==
  <<Entry(0, 7, 1), Entry(7, 1, 2), Entry(8, 2, 2), Entry(10, 11, 1), Entry(28, 3, 2)>>
OneKernel == <<Section(0, 0), Section(10, 3), Section(13, 2), Section(15, 2)>>
MCInit ==
  /\ KernelInit /\ StringsInit
  /\ LET map == mem_info = OneMap /\ sec_head = OneKernel /\ tags = <<Tag("mmap"), Tag("elf")>>
         machine == cpu = Able /\ layout = Layout(21845, 21861, 21877, 21893, 25941)
     IN (map \/ machine) /\ (build => map /\ machine)

\* The string functions are called with every buffer once, beside the boot.
MCNext ==
  \/ KernelNext /\ buffer = NoBuffer /\ UNCHANGED buffer
  \/ main = "check_multiboot" /\ build /\ StringsCalled /\ UNCHANGED kernel_vars
MCSpec == MCInit /\ [][MCNext]_<<kernel_vars, buffer>>
=============================================================================
