# A TLA+ model of the SkipOS kernel

SkipOS is a small 64-bit kernel for a PC: it boots from GRUB, drives the text
screen, the PS/2 keyboard and the first serial port, takes interrupts through
the 8259 pair, and manages memory in three layers (page frames, virtual pages,
`kmalloc`). This directory holds a specification of its parts, the
configurations that model-check them with TLC, and proofs checked with TLAPS.
Paths are relative to the repository; `x.c` is `core/src/x.c`.

Checking something: `tlc -config MCSerial.cfg MCSerial`; proofs:
`tlapm SerialProofs.tla`, and so for the other `*Proofs` modules
(`BootProofs`, the longest, takes some ten minutes).

- [Parts of the system](#parts-of-the-system)
- [How the parts interact, and what is hard](#how-the-parts-interact-and-what-is-hard)
- [Modules](#modules)
- [Runs and bounds](#runs-and-bounds)
- [Disagreements between the code and what is said of it](#disagreements-between-the-code-and-what-is-said-of-it)
- [Proofs](#proofs)
- [Assumptions](#assumptions)
- [What is not modelled](#what-is-not-modelled)
- [Plan](#plan)

## Parts of the system

| Part (code) | State | Operations | Correct when |
|---|---|---|---|
| Memory map (`pf_alloc.c`, `MMU_init_pf` and below) | the loader's tags, the bounds found | `find_tag`, `get_usable_mem_info_ptrs`, `init_pool`, `init_ll_head_info`, `get_sys_mem_size_byte` | the allocator gets every free whole page and no other |
| Page frame allocator (`pf_alloc.c`) | a circular list threaded through the free frames, with its head at address 0; bounds of memory not yet listed | `MMU_pf_alloc`, `MMU_pf_free`, `add_lower_pages`, `add_new_upper_pages` | the list is a ring of exactly the free frames, no frame is handed out twice or lost, the last freed is the next handed out, no assertion fails |
| Virtual pages (`vp_alloc.c`) | four levels of page tables, `kern_heap_top`, the TLB | `MMU_alloc_pages`, `MMU_free_pages`, page fault handler | each frame is referenced once; tables and calls agree; no stale translation reaches a page in use; a double free halts |
| Kernel heap (`kmalloc.c`) | pools of chunks on free lists in the heap, headers before blocks | `kmalloc_init`, `kmalloc`, `kfree` | lists, headers and blocks never overlap or disturb each other |
| Serial port (`serial.c`) | ring buffer, `busy`, the UART's register and interrupt | `SER_init`, `SER_write`, `SER_flush`, `ser_irq_handler` | what is put in the buffer is sent, once, in order |
| Interrupt entry (`isr_entry.asm`, `isr_common.asm`, IDT, TSS) | registers, four stacks | 256 stubs, `isr_error`, `isr_nonerror`, `isr_general` | stacks balance; the interrupted code goes on as if nothing had happened |
| Interrupt system (`interrupt.c`) | handler table, interrupt flag | `IRQ_init`, `IRQ_set_handler`, `IRQ_enable_index`, `IRQ_disable_index`, `IRQ_start`, `isr_helper`, `IRQ_end_of_interrupt` | every request on an enabled line is served, nothing unregistered is delivered |
| Interrupt controllers (`pic.c`) | requests, lines in service, masks | `PIC_remap`, masks, end of interrupt | what is in service is what has a running handler |
| Keyboard (`keyboard.c`, `scan_code.c`) | shift state, last code; the controller's and the keyboard's state | `KBD_init` (polled handshake), `kbd_isr_handler`, `char_from_scode` | the handshake ends and is clean; what is typed is shown once, in order, in the right case |
| Screen (`vga.c`) | cells, position, cursor | `VGA_clear`, `VGA_display_char`, `VGA_backspace_char` | cells, position and cursor agree at every edge |
| printk, assert (`printk.c`, `assert.h`) | the format and arguments of the call | formats to screen and serial port; a failed assert prints and halts | what comes out is what was asked for, at the ends of every type |
| Segments (`gdt.c`, `idt_populate`) | GDT, TSS, IDT | `GDT_init`, `idt_set_descriptor` | the processor finds every stub, segment and interrupt stack, wherever they are linked |
| Identity map (`boot.asm`, `vp_alloc.c`) | the tables of the start and the kernel's | `set_up_page_tables`, `setup_identity_paging` | addresses in use stay where they are when the tables change |
| Boot (`core/boot/`), `kernel_main.c` | what has been done so far | one fixed sequence with checks | the kernel starts on exactly the machines it can run on |
| Strings (`string.c`) | none | pure functions | each does what its name and its unit test say |
| Ports (`port_io.c`) | none | two instructions | (part of their callers' actions) |
| Tests, build, scripts | none | | the tests are read for what they promise |

## How the parts interact, and what is hard

`kernel_main` initializes screen, GDT, interrupts, keyboard, serial port, page
frames, virtual pages and heap in this order with interrupts off, then calls
`IRQ_start` and halts in a loop: from then on everything happens in interrupt
handlers (and, when the system tests are built in, in the thread that runs
them). There is one processor. Concurrency is between the thread and
handlers, between handlers and page faults inside them, and between the
processor and the devices.

- `kmalloc` calls `MMU_alloc_pages`; its first write to a new page faults, and
  the page fault handler calls `MMU_pf_alloc`, in the middle of `kmalloc`.
- Free lists live in the memory that was freed: an allocator's data and its
  users' data take turns in the same words.
- A failed assert clears the interrupt flag, prints, flushes the serial port
  and halts for ever. Handlers end in the same way for faults they do not
  expect. In the models this is `pc = "halted"`, reached inside the action in
  which the assertion fails.
- Devices run on their own: the UART sends while the driver fills its buffer,
  the keyboard sends bytes and the controllers latch interrupts while the
  driver polls with interrupts off.
- Interrupt entry mixes what the processor pushes (with an error code or
  without), what a stub pushes and what the common code pushes, and switches
  stacks for three vectors.

`PROJECT.json` lists the hazards this leads to, each at its line, with the
properties that cover it or a note why none does.

## Modules

Each code module has a specification (`X.tla`), an instance for TLC
(`MCX.tla`, `MCX.cfg`), and for the allocators and the screen an abstract
specification it is checked to implement; the modules of the boot share the
instance `MCBoot`. What is proved about `X` is in `XProofs.tla` (`BootProofs`
for the modules of the boot, `KeyboardProofs` for keyboard and screen). Operators have the names of the C
functions, fields and macros they stand for. Mutants (`\* Mutant: ...`) are
wrong variants of single definitions; each property has one that must violate
it, so that no property holds only by the shape of the model.

**`FrameAllocator`** is the promise of the page frame allocator: a frame is
free or has one owner, and NULL is answered only when at most one frame is
free (the code keeps the last one, see below). **`PageFrames`** models the
list: `next` and `prev` are the words in each frame, `base_addr`, `length`,
`unpooled_page_cnt` the rest of the head at address 0. An iteration of a loop
is a step; `OwnerWrites` overwrites the links of a frame somebody holds. The
history variable `pool` is the list as a sequence. Addresses are page numbers.

**`BootMemory`** models what happens before: the search for the tags, the
choice of the two usable regions, the rounding and the unsigned differences
that give the bounds `PageFrames` has for constants.

**`KernelMain`** is the boot from the loader's jump to the idle loop. It
composes `BootMemory` and three more parts, each with variables of its own:
**`Descriptors`** (the GDT of `boot.asm`, GDT, TSS and IDT, with addresses split
over fields as the C code splits them and put together as the processor does,
with the limits and flags; one bit of the model stands for four), **`IdentityMap`** (the page tables of
`boot.asm` and of `setup_identity_paging`, with the processor's walk) and
**`Printk`** (the loop over a format, the conversions, and the calls nested by
a failed assert; `shown` and `sent` record what goes to the screen and to the
serial port). Each check of `boot.asm` and each call of `kernel_main` with the
message after it is an action; `MMU_init_pf` takes the steps of `BootMemory`,
and the size it returns is an argument of the next message. The drivers have
modules of their own and are only their messages here. `RunPrintkTest` stands
for the kernel built with `RUN_PRINTK_TESTS`.

**`Strings`** has the functions of `string.c` as operators on a memory, a loop
being a recursive function of its iterations, and a memory of no bytes standing
for a failed assertion. `MCBoot` calls them with every
memory of five bytes, beside the boot.

**`PageHeap`** is the promise of the virtual pages: pages are handed out once,
get a frame of their own at the first touch, and give it back.
**`VirtualPages`** models the page tables as the contents of frames taken from
`FrameAllocator`, walks them as `get_lowest_present_page` does, and keeps the
TLB as a set of remembered translations that may be forgotten any time.
`Translate`, `Fault...` and `Evict` are the processor's; `FaultOnDemand` is the
page fault handler. Callers may free any range of the heap, so double frees
and frees of pages never allocated occur.

**`HeapBlocks`** is the promise of the heap: blocks in use are disjoint and
long enough. **`Kmalloc`** has the heap's memory word by word, where one word
is as long as a header; a free chunk's word holds its next pointer, a block's
word its header, and owners write `Junk` in theirs. History variables say
which chunks are free and which blocks are in use. Callers free only blocks in
use, each once.

**`Serial`** splits a write into the steps between which the interrupt handler
can run, with the local variables of `produce`, `consume` and `init_hw_write`.
The read of the line status and the store of `busy` after it are two steps.
The UART is the register `thr`, its interrupt condition `thre`, and the latch
`irq` in the interrupt controller. Bytes are numbered, so that loss,
repetition and reordering can be told apart. `c` and `p` are addresses, and
`mem` is the memory they point into, because printk is called before
`SER_init`, when they are NULL; `SER_init` resets them, and sends the byte it
means for the divisor latch as data.

**`IsrEntry`** has the assembly as data, one record an instruction, and
executes it on four stacks and the nine caller-saved registers. C code is any
code that keeps the calling convention: the program and each handler may be
interrupted with anything in these registers and leave anything in them. The
stubs, the IDT and the TSS are functions. The history variable `interrupted`
keeps what each unfinished interrupt found. `MCInterrupts` instantiates it
beside `Interrupts`: a behaviour is of one or of the other, they share no
variable.

**`Interrupts`** models boot (from `IRQ_init` to `IRQ_start`), the masks, the
priorities and the cascade of the two controllers, and `isr_helper` in two
phases, the handler and the end of interrupt, so that requests arrive in
between. Handlers may take one page fault.

**`Screen`** is a screen as lines of cells; **`Vga`** is `vga.c` with the
cells in one array and `cursor` as an offset. **`Keyboard`** extends `Vga`
with the driver, the PS/2 controller (output buffer, configuration byte),
the keyboard (commands, parameter mode, replies, scan codes) and the latched
IRQ 1. `Key` is the person typing, at any moment from power-on. The history
variable `typed` is what the keys mean at the moment they are pressed; shift
(`shifting`) is on from a press of a shift key to the next release of one. With
at most one shift key held this is the same as "held". With two it is what the
driver's one flag can say: one let go turns shift off until a shift key is
pressed, or repeats. The repository says nothing else of two shift keys.

## Runs and bounds

| Run | Bounds | States | Shows |
|---|---|---|---|
| `page_frames` | 3 lower and 3 upper frames, batches of 2 | 5 578 | ring, accounting, counters, assertions, last-in first-out; implements `FrameAllocator` |
| `boot` | pages of 2 units, 160 memory maps, 6 kernels, 5 tag sequences; all 8 kinds of machine; 16 layouts of the tables; one test call of 25 values by each conversion; 9-bit `int`, 12-bit `long`; memories of 5 bytes with 6 values | 149 408 | the pool is exactly the free whole pages; only supported machines start; addresses stay through the change of tables; descriptors lead where they should; messages and strings are right |
| `virtual_pages` | 2 entries a table, 3 pages, ranges of 2, 6 frames | 8 977 (with symmetry) | tables, frames, TLB and calls agree; double frees halt; implements `PageHeap` |
| `kmalloc` | pools of 2 and 1 chunks a page, 4 pages, requests 0, 1, 3, 4 | 51 404 | lists, headers and blocks stay apart; implements `HeapBlocks` |
| `serial` | buffer of 3, writes of up to 3, 6 bytes | 30 164 | accepted bytes are kept in order and sent (liveness) |
| `interrupts` | 4 devices on both controllers, 2 requests each, 3 lines switched; entry: 2 device vectors, 3 exceptions, stacks of 40 words | 24 992 | in service = being served; nothing unknown; requests are served (liveness); frames on top at every `iretq`; device interrupts leave no trace |
| `keyboard` | 2 by 2 screen, 1 key, 2 shift keys, backspace, 4 key events, 1 message | 1 079 464 | clean handshake that ends and leaves one harmless interrupt; what is typed is shown once, in order and case, and reaches the screen (liveness); implements `Screen` |
| `virtual_pages_null`, `serial_open`, `isr_fault`, `identity_map`, `strings_nul` | as above | | the disagreements below |

Why the bounds are enough to be interesting:

- `page_frames`: the second batch is smaller than the first, so the refill
  meets both branches and the end of the region; all six frames can be held at
  once but for the one that stays. The proofs remove the bound.
- `boot`: regions and sections begin and end inside pages and at their
  edges, the pool can be empty, a third usable region comes before or after
  the kernel's, and tags are missing, unknown or in any order. Memory reaches
  over the end of the gigabyte the identity map really maps. The layouts put
  bits in every field of a descriptor and in single ones. The values printed
  are the ends of every type and their neighbours, zero, and the numbers where
  a digit is added in base 10 or 16; there are calls with several conversions
  and every form `printk` asserts against. The machine, memory and test
  parts are varied one at a time, the others fixed: they share no state.
- The memories for the string functions contain strings of every length up to
  four, ranges that overlap in both directions, and a negative character. The
  bytes of a memory add up to no more than an `int` holds: `strcmp` returns
  the difference of two sums as one.
- `virtual_pages`: three pages need two lowest-level tables, so one allocation
  needs three, one or no new tables. Six frames are one fewer than always
  suffice, so both kinds of exhaustion occur. Frames are interchangeable: the
  order of the allocator is left open (`FrameAllocator`), which makes symmetry
  sound.
- `kmalloc`: one pool has a list of several chunks, the other of one;
  requests meet both pools, the boundary to whole pages, two pages, and 0. A
  `size_t` has 32 values, more than the heap has words.
- `serial`: six bytes take `c` and `p` around the buffer more than twice and
  fill it, or are written in part before `SER_init`; the buffer's address lies
  above what can be written before, as the kernel's above 1 MB does.
- `interrupts`, the entry: the stacks have room for the four interrupts that can nest,
  device, page fault, general protection and double fault, of ten words each. Vectors with and without an error code and with each interrupt stack
  occur.
- `interrupts`, the controllers: lines 0 (a device without a driver, masked), 1, 9 and 12;
  `IRQ_enable_index` and `IRQ_disable_index` are also called on the cascade
  line, which the code must refuse.
- `keyboard`: four events are enough for press, repeat and release, shift and
  key, key and backspace, in the handshake and after it, and to press both shift
  keys, let one go and type; the screen wraps and scrolls within four
  characters and a message.

`CHECK_DEADLOCK FALSE` stands where the system really stops: a failed
assertion or an unexpected fault halts the processor, and at a bound the
devices and callers have nothing more to do. `page_frames` never stops, and
deadlock is checked there.

**Fairness.** `Serial`: the thread, `SER_init`, `IRQ_start`, the transmitter and the
handler are each weakly fair: `kernel_main` reaches both calls, the processor
executes, the UART transmits, and a latched interrupt is taken while the flag
is set (`SER_write` never clears it: by the finding `serial_open` its test of
the flag always reads "clear"). `Interrupts`: serving is weakly fair, and
delivery strongly, because the thread's page faults clear the flag between two instructions again and again,
while a processor takes a pending interrupt before the next instruction.
`Keyboard`: the boot sequence, the transfer of bytes, delivery and the handler
are weakly fair: none of them is disabled by a person typing. Nothing is
assumed of the person, of callers or of devices that ask for service.

## Disagreements between the code and what is said of it

Each is a run in which TLC finds the violation.

- **`virtual_pages_null`** `vp_alloc.c:208` and `:317` use the NULL that
  `MMU_pf_alloc` answers as a frame: frame 0, which holds the frame
  allocator's head (`pf_alloc.c:93`), is cleared and linked as a page table, or
  mapped into the heap. `pf_alloc.c:196` calls that address invalid.
- **`serial_open`** `IRQ_are_interrupts_enabled` (`interrupt.c:124`) stores
  rflags in a `u8` and tests bit 9, so it always answers no. The guard in
  `SER_write` never clears the flag, and the assertions of `serial.c:163, 170,
  177, 196`, which should notice, pass. A thread that prints after `IRQ_start`
  (as the system tests do) shares the buffer with the handler: it may run
  between an increment of `p` and its wrap.
- **`isr_fault`** `isr_error` (`isr_common.asm:11-17`) is off by one word: it
  reads the saved `rdi` as the error code and overwrites that word with `rsi`,
  so the code interrupted by a page fault goes on with the error code in
  `rdi`, and handlers get the old `rdi` as error code. The stack still
  balances, which is why it goes unnoticed (`FrameOnTop`).
- **`strings_nul`** `strchr(s, '\0')` (`string.c:84`) answers one byte past
  the terminator, where `string_test.c:131` expects the terminator
  (`TerminatorFound`). The unit tests run only if `RUN_UNIT_TESTS` is defined,
  which `kernel_main.c:25` has commented out.
- **`identity_map`** `setup_identity_paging` (`vp_alloc.c:163`) writes the same
  entry 512 times: "1GB pages, present, writeable", all at physical address 0.
  `get_lowest_present_page` (`:237`) takes any address below 512 GB for a
  physical one. On a machine with memory above 1 GB the frames there alias the
  first gigabyte (with the list head at 0, the kernel and the screen).

README.md:15 asks for the reason of an "eroneous keyboard IRQ right after
enabling IRQs". The model answers it: the handshake polls the keyboard's
answers with the port's interrupt already on, so IRQ 1 is latched although its
byte has been read, and is delivered after `IRQ_start`. `ErroneousIrqOnce`
states what there is to know of it: it comes once, before any key's, and the
handler reads the last answer again, which it ignores.

One more was met and has no run of its own: `SER_init` sets bit 6, the
break, where the comment says DLAB (`serial.c:63`), so the rate is never set and
the divisor is sent as a byte.

The comment at `system_test/src/kmalloc_test.c:20-27` remembers a general
protection fault "when i == 0xFF2", that "Looks like some kind of overflow
issue", and works "until you have to allocate more memory than avaliable in the
block groups". The model of the present `kmalloc.c` shows no overflow there:
requests on both sides of the boundary from the pools to whole pages, and of one
page to two (with the header of 16 bytes, a request of 0xFF0 is the last that
fits one), keep headers, lists and blocks apart (`HeadersIntact`,
`NothingOverlaps`, also proved). What such a request does differently is to
touch new pages, each of which faults, and two faults of that path are known:
`isr_error` loses `rdi` (`isr_fault`), and the page fault handler prints on a
stack that the screen's scrolling overruns (see "What is not modelled"). Which
of them the comment saw cannot be told from the code.

Met while modelling, and not contradicted by anything written: the frame
allocator never hands out its last frame, because `is_empty` is true of a list
of one (`CountersAgree`; this is what makes its own assertion hold);
`kfree` does not count the chunk it takes back, so pools only grow
(`AvailCovered` shows it errs on the safe side); freeing a range invalidates
only its first page, harmless only because addresses are never used again
(`LiveTranslationsTrue`; its mutant reuses them); releasing one shift key while
holding the other turns shift off; every device interrupt also sends an end of
interrupt to the second controller, harmless while handlers do not nest
(`InServiceIsActive`); the size `MMU_init_pf` returns is the end of the last
entry of the map, not the size of memory. They are listed with the hazards.

## Proofs

Every theorem holds for all values of the constants that meet the named
assumptions of the model, and for behaviours of any length. Most properties
are not inductive alone; the table names the invariant that is. TLC finds
these invariants to hold on the components' instances, too, but for
`MemoryInv`, `PrintsInv` and `TypedInv`, which contain sets it cannot
enumerate. Every invariant that a passing run checks is stated by a theorem.

| Module, inductive invariant | Theorem | Property |
|---|---|---|
| `PageFramesProofs`, `Inv` | `TypeCorrect` | `TypeOK` |
| | `RingWellFormed` | `RingMatchesPool` |
| | `Accounting` | `FramesPartitioned` |
| | `CountersCorrect` | `CountersAgree` |
| | `AssertionsHold` | `NoAssertFails` |
| | `LastInFirstOut` | `FreedFrameIsNext` |
| | `Implements` | `ImplementsPromise` (`FrameAllocator`) |
| `BootProofs`, `KernelInv`, `SegmentsInv` | `HandsOverAlways` | `HandsOverFreeMemory` |
| | `StartsOnlyWhereSupported` | `StartsWhereSupported` |
| | `FirstGigabyteStays` | `FirstGigabyteKept` |
| | `SegmentsAlwaysFound` | `SegmentsFound` |
| `BootProofs`, `PrintsInv` | `PrintsAlwaysAsAsked` | `PrintsWhatWasAsked` |
| `BootProofs` | `StringsAlwaysRight` | `StringsRight` |
| `VirtualPagesProofs`, `IInv` | `FramesOnce` | `FramesReferencedOnce` |
| | `TablesMatch` | `TablesMatchCalls` |
| | `TranslationsTrue` | `LiveTranslationsTrue` |
| | `DoubleFreesHalt` | `DoubleFreeHalts` |
| | `ImplementsHeap` | `ImplementsPromise` (`PageHeap`) |
| `KmallocProofs`, `HeapInv` | `TypeCorrect` | `TypeOK` |
| | `ListsCorrect` | `ListsMatchMemory` |
| | `AvailCorrect` | `AvailCovered` |
| | `NothingOverlapsEver` | `NothingOverlaps` |
| | `HeadersCorrect` | `HeadersIntact` |
| | `HeapPromised` | `ImplementsPromise` (`HeapBlocks`) |
| `SerialProofs`, `SerInv` | `TypeCorrect` | `TypeOK` |
| | `BytesKept` | `AcceptedBytesKept` |
| | `OrderKept` | `NeverReordered` |
| `IsrEntryProofs`, `IInv` | `FrameAlwaysOnTop` | `FrameOnTop` |
| | `AlwaysTransparent` | `Transparent` |
| `InterruptsProofs`, `Inv` | `InServiceCorrect` | `InServiceIsActive` |
| | `OnlyKnownInterrupts` | `NoUnknownInterrupt` |
| | `NoNesting` | `OneAtATime` (of the proof module) |
| `KeyboardProofs`, `VgaInv`, `HandshakeInv`, `TypedInv` | `CursorCorrect` | `CursorAtPosition` |
| | `ScreenImplemented` | `ImplementsScreen` (`Screen`) |
| | `HandshakeCorrect` | `HandshakeClean` |
| | `ErroneousIrqExplained` | `ErroneousIrqOnce` |
| | `ShownCorrect` | `ShownAsTyped` |

### The arguments

**Page frames.** The ring survives `add_elem`
only if the frame added is not already on the list (`NoDoubleHandout`), this
holds in a refill only if `base_addr` is where the counters say
(`CountersAgree`), the counters stay right only if no assertion stops the
refill half way (`NoAssertFails`), and the assertion of `pop_elem` holds only
because the ring has two frames when `is_empty` says it is not empty. So the
inductive invariant is their conjunction. The lemmas are in three
layers: what `add_elem` and `pop_elem` do to a list (the four stores may hit the same frame, and the case of
the empty list is separate), how they move a frame between the parts of
memory, and one lemma for each action. `Implements` maps the free frames to
the usable ones without owner: adding frames to the list maps to a stutter, a
refill's end to an allocation.

**Boot.** `SegmentsInv` says which of the three tables is loaded and that its
fields are those of the layout; the theorem is then that a number is the sum of
its fields, and the address read back is the one split. `TablesInv` keeps the
entries of both page tables, and the two walks are shown to be the identity on
the gigabyte. `MemoryInv` follows `MMU_init_pf` through its loops: `Scanned`
says that the entries seen so far hold no region with the kernel other than
the one found, `PagesBelow` that the pages added are those below `curr_addr`.
What needs the entries to be disjoint is that no free page lies outside the
two regions chosen, and what needs the sections to leave no gap as long as a
page is that no page between them is free. `StartsOnlyWhereSupported` adds
`MachineInv`, the checks of `boot.asm` passed so far, and shows that a map on
which `MMU_init_pf` asserts is one of those `Supported` leaves out.

**Loops and induction.** The string functions and `printk` are loops over
data of any length. The library's induction theorems take a predicate as a
parameter, so `BootProofs` has them for sets: `LeastNumber` (a set of numbers
that is not empty has a least one, from the well-foundedness of the order) and `Counting` (a set that has 0
and is closed under the successor has all numbers); a proof by induction
defines the set of the numbers for which its claim holds. A loop written as a
recursive function is first shown to exist, by writing it down in another way,
and to be the only one of its kind (`LoopDefined`, `LoopsAgree`,
`SearchDefined`, `SearchEnds`); then what it returns follows. `FlattenSeq` is such a loop, too
(`JoinsDefined`, `FlattenIs`), and its use here is that it distributes
over `\o` (`FlattenConcat`).

**Strings.** `MemsetIs`, `MemcpyIs`, `StrlenIs`, `StrchrIs` and `StrvalIs` say
of each loop what it leaves in memory or returns; `MemcpyIs` has the
assumption about overlapping ranges, because a byte is read after others were
written. Comparing needs that the sums do not wrap (`SumsEqual`, `SumsGrow`):
a proper end of a string has a smaller sum because the bytes before it are not 0.

**printk.** The invariant `PrintkInv` cuts what was asked for into pieces that
are done and pieces that are left: the innermost call has exactly the format
and the arguments of those left (`Frame`), and what was shown is the text of those
done. So each conversion must take its own argument. Within an assert, its
message is cut in the same way into what is said and unsaid, and the call
beneath waits at its NULL string. `ConversionIs` says that `printk` reads the
conversion that was written, which needs that what follows a piece that is no
conversion does not make it one (`Cut`). `NumberIs` says that the digits of
`varbase`, found by dividing, lowest first, and then reversed, are those of
`Numeral`, which counts powers of the base, and that the C conversions (also
of the least `long long`, `SignedText`) are the value congruent to the
argument in the type. `ExpectedIs` then puts the text of the pieces together.
`PrintsInv` adds that the kernel calls `printk` only when the last call has
returned.

**Virtual pages.** `WalkInv` says that a walk stays in the page tables until
its last step and then leaves them, `OnceInv` that no two entries name one
frame. Together they give `OneWay` and `Meets`: a table is reached by one path
only, so two walks that meet have used the same digits so far, and an entry
written on behalf of one address changes the walk of no other. `Digits` and
`SameAddress` say that an address is its four digits. `UseInv` ties what is
present or demanded to `kern_heap_top` and the pages freed, and the TLB to
pages handed out; without the second part a translation remembered could
become one of a page allocated later.

**Heap.** `HeapInv` is about the chunks on the lists and the blocks in use.
`ListsApart`, `BlocksApart` and `ListsAndBlocksApart` say that they do not
overlap, `Within` that they are in allocated pages below `kern_heap_top`,
`Linked` and `Headed` what is in their first word, and `Located` what the
steps of a request have found out about its pool. Writing an owner's word, a
header or a link disturbs nothing else, because the word is in one of them
only, and chunks cut from new pages are apart from everything because nothing
reached above `kern_heap_top` before. The refinement maps the blocks in use to those of `HeapBlocks`.
The theorems assume `SizesFit`: a request and its header fit a `size_t`. One
that does not wraps around, and the block is too small (a hazard, at
`kmalloc.c:64`).

**Serial port.** `Place` says where `c` and `p` can be: in the ring, or below
the buffer before `SER_init`. `PointersAgree` has it of the pointers as they
are after the wrap, and so allows for the step between an increment and its
wrap, from which `FlagMeans` excludes the handler. `Count` is the number of
bytes between them; one place stays empty, so that full and empty differ.
`BusyMeans` says when the UART holds a byte and when it may be given one:
without it a byte would be overwritten. `QueueSorted` (the bytes accepted are in ascending order) turns
`AcceptedBytesKept` into `NeverReordered`. The theorems assume
`CallersMasked`, interrupts off in every caller of `SER_write`: handlers, and
`kernel_main` before `IRQ_start`. For other callers `serial_open` shows that
the interrupts are on inside the buffer, and nothing is proved.

**Interrupt entry.** The position in a stub gives the number of words above
the interrupt's frame (`Depth`) and the register each holds (`Order`).
Interrupts nested in one another share stacks, so the invariant is about all
levels at once: each has its frame and saved words where they were pushed
(`AllSaved`), below the frame of the next on the same stack (`Room`), and all
but the innermost wait inside `isr_helper` (`Waiting`). A level's depth is bounded by the rank of its
vector, which is what makes the room suffice.

**Interrupt system.** A line is in service exactly when its handler runs,
which needs that handlers do not nest (`OneAtATime`: one non-specific end of
interrupt would otherwise end another's service), that an interrupt delivered
has a driver (`UnmaskedIsRegistered`) and keeps it (`ServedIsKnown`).

**Screen and keyboard.** `VgaInv` is enough for the screen: a cell's offset
determines its line and column, so `vga_buff` read by lines moves as `Screen`
does, scrolling included. `Handshake` says for each step of `KBD_init` which
replies are on the way, `EachHasAByte` that afterwards an interrupt latched
has a byte to read but for the one left over. `ShownAsTyped` is proved by
reading: the handler and the person typing are two readers of the same bytes,
and the handler, given the bytes still on the way, gets where the typist is
(`Reads`), whatever the number of shift keys.

### What the proofs rest on

The `ASSUME`s of the models, which TLC evaluates on each instance:

- `LayoutAssumption` (`PageFrames`): two lower frames at least, the upper
  region behind the lower one, owners' data not taken for an address.
- `BootMemoryAssumption`: entries of the memory map do not overlap or wrap,
  memory at 0 is usable, the sections begin with the first and end with the
  last, leave no gap as long as a page, and the kernel's region reaches the end of its last page;
  one tag of each kind at most. `DescriptorsAssumption`: addresses have 64
  bits. `IdentityMapAssumption`: a gigabyte is a whole number of pages.
  `KernelMainAssumption`: a size of memory fits a `long`; the calls of the
  tests give each conversion the argument its type has, and a piece that
  `printk` asserts against does not become a conversion with what follows it
  (`ProperCall`).
- `PrintkAssumption`: integer types have an even number of values, a
  `long long` as many as the widest, and the number of the assert's line is an
  `int`; `%c` is not asked to print NUL, which would be on the screen, too.
  `StringsAssumption`: a `char` has a sign; the bytes of a memory add up to no
  more than an `int` holds; the width of a `size_t` is a multiple of an `int`'s.
- `HeapAssumption` (`VirtualPages`): the heap begins where an entry of the top
  table does, above the identity map, and ends with a largest range to spare before the
  end of the address space.
- `PoolAssumption` (`Kmalloc`): the pools' sizes divide a page and ascend, the
  heap has a page for each pool, an address is no wider than a `size_t`.
- `SerialAssumption`: a buffer of two bytes at least, at an address above what
  is printed before `SER_init`. `KeyboardAssumption`: scan codes are told
  apart. `InterruptsAssumption`: the controllers have equally many lines,
  and no device or driver is on the cascade. `VgaAssumption`: the screen has a cell.
- `IsrEntryAssumption`: exceptions nest by rank, that is, handling one does
  not raise it again, and the stacks have ten words for each rank. The code
  does not bound this by itself: before `MMU_init_vp` a page fault recurses
  (`interrupt.c:346`, a hazard).

Of these, the bounds on the map of memory, the heap's alignment, the width of
a `size_t`, the rank of exceptions, the sums of a string's bytes and where a
bad conversion is cut were made explicit because a proof did not go through
without them.

### What stays with TLC

Liveness (`EveryByteSent`, `RequestsServed`, `TypedIsShown`, `KBD_initEnds`)
rests on fairness and ENABLED, which the prover does not have. The
disagreements are counterexamples and need no proof.

## Assumptions

- One processor; memory operations happen in program order; one instruction,
  or one C step between two points where an interrupt makes a difference, is
  atomic.
- Code outside the repository is modelled as it is used: the processor's
  interrupt delivery, page walk and TLB; the 8259 pair in fully nested mode
  with non-specific end of interrupt; the 16550's transmitter; the 8042
  controller and a keyboard that answers a command before the driver's next
  read, as QEMU's does (`recv_kbd_byte` does not wait, so against a slower
  keyboard it would read an old byte).
- `Vga` has each function as one action: in the kernel as built, what prints
  after `IRQ_start` is a handler. The system tests print from the thread;
  there the broken guard of `serial_open` applies to the screen, too.
- Memory at address 0 is usable and the kernel's last section is its highest,
  as the comment at `pf_alloc.c:84-93` says. The loader leaves its tags where
  `add_lower_pages` does not write.
- Handlers do not raise the exception they handle: page fault handlers do not
  fault on pages again. A device handler takes one page fault in the model of
  the controllers.
- The processor has pages of 1 GB; `boot.asm` does not check for them.
- The handlers and the thread do not print at the same time as
  `RunPrintkTest`: the words `printk` gives to the screen and the serial port
  are checked for one caller.
- In the build (no optimization), `val * -1` of the least `long long` is
  itself.
- Of two shift keys held, the release of one turns shift off (see
  `Keyboard` above): `ShownAsTyped` is stated for that meaning of shift.
- Keys touched before the interrupt left over from the handshake has been
  served are outside `ShownAsTyped`, `TypedIsShown` and `HandshakeClean`: the
  handshake takes their bytes for answers, which is the hazard at
  `keyboard.c:445`, and of `ErroneousIrqOnce`. `KBD_initEnds` and `ImplementsScreen` hold for them too.

## What is not modelled

- `port_io.c` and the loader's configuration: each port access is part of the
  action that makes it, and what the loader does is an initial state.
- The rate and the line of the UART: only that the divisor's byte is sent.
- The C frames on the interrupt stacks of `IsrEntry`: `scroll` (`vga.c:145`)
  puts 4000 bytes on a stack of 4096 when a handler prints in the last line.
  This is not confined to the handlers that halt: `page_fault_handler` prints on
  every demand fault it serves (`vp_alloc.c:296`), on the page fault stack, and
  returns, so once the screen is full the overrun happens on ordinary faults.
- `MMU_free_pages` of an address below 512 GB, the identity map: the walk ends
  before it sets `prev_entry_ptr`, and `vp_alloc.c:122` writes through it as it
  is. Callers are modelled with heap addresses (and with those the assertions
  refuse).
- `get_physical_addr`, `virt_test`, `run_controller_self_test` and the
  debugging printers: nothing calls them.

## Plan

Done, in this order: page frames with their promise and proofs (everything
else stands on them), virtual pages, heap, serial port, interrupt entry,
interrupt system, screen and keyboard, memory map; then the boot with its
tables, messages and checks, the strings, and the serial port before
`SER_init`.

Then the proofs of everything above but what is named under "What stays with
TLC"; the strings and `printk` came last, because they need induction over
their data.

Next:

1. Extend: printing from a thread, with `vga.c` split at the points where the
   keyboard handler can run, composed with the serial buffer (`Console`).
2. Prove: of `Interrupts` that a request is never lost without being served;
   that the boot's steps come in their order and nothing is printed before the
   screen is cleared.
