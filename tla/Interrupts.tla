----------------------------- MODULE Interrupts -----------------------------
(***************************************************************************)
(* The interrupt system, core/src/interrupt.c and core/src/pic.c: the two  *)
(* cascaded interrupt controllers, the table of handlers and isr_helper.   *)
(*                                                                         *)
(* IRQ_init runs with interrupts off; drivers then register and enable     *)
(* their lines, and IRQ_start sets the interrupt flag.  Interrupts are     *)
(* named by vector, lines of the controllers by number, 0 to 15.           *)
(***************************************************************************)
EXTENDS Integers, Sequences, FiniteSets, SequencesExt

CONSTANTS
  EXTERNAL_INT_BASE, EXTERNAL_INT_CNT, LINES_PER_PIC, PIC1_CASCADE_LINE,
  Drivers,      \* the lines whose drivers are initialized, in that order
  Devices,      \* lines on which a device may ask for service
  Calls,        \* lines passed to IRQ_enable_index and IRQ_disable_index
  MaxRequests,  \* bound: requests of each device in a behaviour
  PF_INT_NUM

ASSUME InterruptsAssumption ==
  /\ {EXTERNAL_INT_BASE, EXTERNAL_INT_CNT, LINES_PER_PIC, PF_INT_NUM, MaxRequests} \subseteq Nat
  /\ EXTERNAL_INT_CNT = 2 * LINES_PER_PIC
  /\ PIC1_CASCADE_LINE \in 0 .. LINES_PER_PIC - 1
  /\ PF_INT_NUM < EXTERNAL_INT_BASE
  /\ Drivers \in Seq(0 .. EXTERNAL_INT_CNT - 1)
  /\ Devices \cup Calls \subseteq 0 .. EXTERNAL_INT_CNT - 1
  /\ PIC1_CASCADE_LINE \notin Devices \cup Range(Drivers)

Lines == 0 .. EXTERNAL_INT_CNT - 1
Pic1 == 0 .. LINES_PER_PIC - 1
Pic2 == Lines \ Pic1
Vector(line) == EXTERNAL_INT_BASE + line
EXTERNAL_INT_MAX == EXTERNAL_INT_BASE + EXTERNAL_INT_CNT - 1

VARIABLES
  irr, isr, mask,   \* the controllers: requests, lines in service, masked lines
  irq_table,        \* the handler of each vector in use
  rflags_IF,              \* the interrupt flag
  pc,               \* the next step of the boot sequence
  active,           \* vectors being served, innermost last, with their phase
  requests          \* history variable: requests made on each line

pic == <<irr, isr, mask>>
vars == <<pic, irq_table, rflags_IF, pc, active, requests>>

Vectors == {PF_INT_NUM} \cup {Vector(l) : l \in Lines}
First(S) == CHOOSE l \in S : \A m \in S : l <= m

\* Before IRQ_init the controllers are as the firmware left them.
Init ==
  /\ irr = {} /\ isr = {} /\ mask \in {{}, Lines}
  /\ irq_table = [v \in Vectors |-> "none"]
  /\ rflags_IF = 0
  /\ pc = "populate"
  /\ active = <<>>
  /\ requests = [l \in Devices |-> 0]

Boot(from, to) == pc = from /\ active = <<>> /\ pc' = to

-----------------------------------------------------------------------------
(* IRQ_init.                                                               *)

PopulateTable ==
  /\ Boot("populate", "handlers")
  /\ irq_table' = [v \in Vectors |-> "def_irq_handler"]
  /\ UNCHANGED <<pic, rflags_IF, active, requests>>

SetHandlers ==
  /\ Boot("handlers", "remap")
  /\ irq_table' = [irq_table EXCEPT ![PF_INT_NUM] = "page_fault_handler"]
  /\ UNCHANGED <<pic, rflags_IF, active, requests>>

\* The initialization words reset a controller; then both are unmasked.
PIC_remap ==
  /\ Boot("remap", "disable")
  /\ irr' = {} /\ isr' = {} /\ mask' = {}
  /\ UNCHANGED <<irq_table, rflags_IF, active, requests>>

\* Mutant: only the first controller.
PIC_disable_first ==
  /\ Boot("disable", "cascade")
  /\ mask' = Pic1
  /\ UNCHANGED <<irr, isr, irq_table, rflags_IF, active, requests>>

PIC_disable_all_pic_irqs ==
  /\ Boot("disable", "cascade")
  /\ mask' = Lines
  /\ UNCHANGED <<irr, isr, irq_table, rflags_IF, active, requests>>

\* Mutant: the cascade line stays masked.
enable_cascade_not ==
  /\ Boot("cascade", "drivers")
  /\ UNCHANGED <<pic, irq_table, rflags_IF, active, requests>>

enable_cascade ==
  /\ Boot("cascade", "drivers")
  /\ mask' = mask \ {PIC1_CASCADE_LINE}
  /\ UNCHANGED <<irr, isr, irq_table, rflags_IF, active, requests>>

-----------------------------------------------------------------------------
(* What drivers call.                                                      *)

\* The assertions that hold when set_irq_line_state gets to the write; its own
\* check of the cascade line is made before pic_line_index has its value.
line_valid(line) == line \in Lines \ {PIC1_CASCADE_LINE}

set_irq_line_state(line, enable) ==
  IF line_valid(line)
    THEN mask' = (IF enable THEN mask \ {line} ELSE mask \cup {line}) /\ UNCHANGED pc
    ELSE pc' = "halted" /\ UNCHANGED mask

\* The driver of the next line: IRQ_set_handler, then IRQ_enable_index.
Registered == {n \in DOMAIN Drivers : irq_table[Vector(Drivers[n])] = "driver"}

InitDriver ==
  LET line == Drivers[Cardinality(Registered) + 1]
  IN /\ pc = "drivers" /\ Registered # DOMAIN Drivers
     /\ irq_table' = [irq_table EXCEPT ![Vector(line)] = "driver"]
     /\ set_irq_line_state(line, TRUE)
     /\ UNCHANGED <<irr, isr, rflags_IF, active, requests>>

IRQ_start ==
  /\ Registered = DOMAIN Drivers /\ Boot("drivers", "run")
  /\ rflags_IF' = 1
  /\ UNCHANGED <<pic, irq_table, active, requests>>

\* Later changes, by the thread: a driver's lines only are enabled.
IRQ_enable_index(line) ==
  /\ pc = "run" /\ active = <<>>
  /\ line \in Range(Drivers) \cup {PIC1_CASCADE_LINE}
  /\ set_irq_line_state(line, TRUE)
  /\ UNCHANGED <<irr, isr, irq_table, rflags_IF, active, requests>>

IRQ_disable_index(line) ==
  /\ pc = "run" /\ active = <<>>
  /\ set_irq_line_state(line, FALSE)
  /\ UNCHANGED <<irr, isr, irq_table, rflags_IF, active, requests>>

-----------------------------------------------------------------------------
(* The controllers.                                                        *)

Request(line) ==
  /\ requests[line] < MaxRequests
  /\ requests' = [requests EXCEPT ![line] = @ + 1]
  /\ irr' = irr \cup {line}
  /\ UNCHANGED <<isr, mask, irq_table, rflags_IF, pc, active>>

\* A controller signals its first request before the first line in service.
Signals(S, asked) ==
  LET open == (asked \cap S) \ mask
  IN {l \in open : l = First(open) /\ \A m \in isr \cap S : l < m}

\* What the first controller would deliver: a line of its own, or the second
\* controller's through the cascade.
Deliverable ==
  LET second == Signals(Pic2, irr)
      asked == irr \cup IF second = {} THEN {} ELSE {PIC1_CASCADE_LINE}
  IN UNION {IF l = PIC1_CASCADE_LINE THEN second ELSE {l} : l \in Signals(Pic1, asked)}

Deliver ==
  /\ rflags_IF = 1 /\ pc # "halted"
  /\ \E l \in Deliverable :
       /\ irr' = irr \ {l}
       /\ isr' = isr \cup {l} \cup IF l \in Pic2 THEN {PIC1_CASCADE_LINE} ELSE {}
       /\ active' = Append(active, [vector |-> Vector(l), phase |-> "handler"])
  /\ rflags_IF' = 0
  /\ UNCHANGED <<mask, irq_table, pc, requests>>

-----------------------------------------------------------------------------
(* isr_helper.                                                             *)

\* A page fault, in the thread or (bound: once) in a device's handler.
PageFault ==
  /\ pc = "run"
  /\ active # <<>> => Last(active).phase = "handler" /\ Last(active).vector # PF_INT_NUM
  /\ active' = Append(IF active = <<>> THEN <<>> ELSE [active EXCEPT ![1].phase = "faulted"],
                      [vector |-> PF_INT_NUM, phase |-> "handler"])
  /\ rflags_IF' = 0
  /\ UNCHANGED <<pic, irq_table, pc, requests>>

\* def_irq_handler prints a warning and halts, with interrupts off.
Handler ==
  /\ active # <<>> /\ Last(active).phase # "eoi" /\ pc # "halted"
  /\ IF irq_table[Last(active).vector] = "def_irq_handler"
       THEN pc' = "halted" /\ UNCHANGED active
       ELSE active' = [active EXCEPT ![Len(active)].phase = "eoi"] /\ UNCHANGED pc
  /\ UNCHANGED <<pic, irq_table, rflags_IF, requests>>

\* A non-specific end of interrupt: the first line in service is done.
EOI(S, in_service) == in_service \ {l \in in_service \cap S : l = First(in_service \cap S)}

\* Mutant: the second controller is not told.
EndOfInterruptFirst(v) ==
  IF v \in EXTERNAL_INT_BASE .. EXTERNAL_INT_MAX THEN EOI(Pic1, isr) ELSE isr
\* IRQ_end_of_interrupt compares the vector, not the line, with LINES_PER_PIC.
EndOfInterrupt(v) ==
  IF v \in EXTERNAL_INT_BASE .. EXTERNAL_INT_MAX
    THEN EOI(Pic1, IF v >= LINES_PER_PIC THEN EOI(Pic2, isr) ELSE isr)
    ELSE isr

\* isr_helper's last call, and the return with the flag as it was.
IRQ_end_of_interrupt ==
  /\ active # <<>> /\ Last(active).phase = "eoi"
  /\ isr' = EndOfInterrupt(Last(active).vector)
  /\ active' = Front(active)
  /\ rflags_IF' = IF Len(active) = 1 THEN 1 ELSE 0
  /\ UNCHANGED <<irr, mask, irq_table, pc, requests>>

Serve == Deliver \/ Handler \/ IRQ_end_of_interrupt

Next ==
  \/ PopulateTable \/ SetHandlers
  \/ PIC_remap \/ PIC_disable_all_pic_irqs \/ enable_cascade
  \/ InitDriver \/ IRQ_start
  \/ \E l \in Calls : IRQ_enable_index(l)
  \/ \E l \in Calls : IRQ_disable_index(l)
  \/ \E l \in Devices : Request(l)
  \/ PageFault
  \/ Serve

Spec == Init /\ [][Next]_vars

\* Handlers return, and the processor takes a pending interrupt before it goes
\* on with the thread, which may leave the flag clear again and again.
FairSpec == Spec /\ WF_vars(Serve) /\ SF_vars(Deliver)

-----------------------------------------------------------------------------
(* Properties.                                                             *)

BeingServed == {l \in Lines : \E n \in DOMAIN active : active[n].vector = Vector(l)}

\* The lines the controllers hold in service are those whose handlers have not
\* finished, with the cascade while one of them is on the second controller:
\* no end of interrupt is missing, sent twice or taken by another line.
InServiceIsActive ==
  isr = BeingServed \cup IF BeingServed \cap Pic2 = {} THEN {} ELSE {PIC1_CASCADE_LINE}

\* An interrupt nobody registered for is never delivered, not even if requests
\* were pending while the controllers were being set up.
NoUnknownInterrupt ==
  \A n \in DOMAIN active : irq_table[active[n].vector] # "def_irq_handler"

\* A request on an enabled line is served, whatever else is requested, or the
\* line is disabled, or an assertion stops the kernel.  So nothing masks the
\* cascade line once IRQ_init has opened it.
RequestsServed ==
  \A l \in Devices :
    l \in irr /\ pc = "run" ~> l \notin irr \/ l \in mask \/ pc = "halted"
=============================================================================
