-------------------------- MODULE InterruptsProofs --------------------------
(***************************************************************************)
(* Proofs about Interrupts, for any vectors the controllers are mapped to, *)
(* any number of lines, any order of drivers and any devices.              *)
(***************************************************************************)
EXTENDS Interrupts, FiniteSetTheorems, SequenceTheorems, TLAPS

Handlers == {"none", "def_irq_handler", "page_fault_handler", "driver"}
Phases == {"handler", "faulted", "eoi"}
Served == [vector : Vectors, phase : Phases]

Typed ==
  /\ irr \subseteq Lines \ {PIC1_CASCADE_LINE} /\ isr \subseteq Lines /\ mask \subseteq Lines
  /\ irq_table \in [Vectors -> Handlers]
  /\ rflags_IF \in {0, 1}
  /\ active \in Seq(Served)

\* Interrupts come one at a time, because the gate of each clears the flag;
\* only a page fault nests in one, and nothing in that.
OneAtATime ==
  /\ Len(active) <= 2
  /\ Len(active) = 2 => active[1].vector # PF_INT_NUM /\ active[2].vector = PF_INT_NUM
  /\ active # <<>> => rflags_IF = 0 /\ pc = "run"
  /\ rflags_IF = 1 => pc \in {"run", "halted"}

\* From PIC_disable_all_pic_irqs on a line is unmasked only after its driver
\* has set a handler, but for the cascade.
UnmaskedIsRegistered ==
  /\ pc = "cascade" => mask = Lines
  /\ pc \in {"drivers", "run"} =>
       \A l \in Lines \ mask : l = PIC1_CASCADE_LINE \/ irq_table[Vector(l)] = "driver"
  /\ pc = "run" => Registered = DOMAIN Drivers
  /\ pc \notin {"populate", "handlers"} => irq_table[PF_INT_NUM] = "page_fault_handler"

\* The handler of an interrupt being served is a driver's, or the one of page
\* faults.
ServedIsKnown ==
  \A n \in DOMAIN active :
    active[n].vector = PF_INT_NUM \/ irq_table[active[n].vector] = "driver"

Inv ==
  /\ Typed
  /\ OneAtATime
  /\ UnmaskedIsRegistered
  /\ ServedIsKnown
  /\ InServiceIsActive

-----------------------------------------------------------------------------
(* Lines and vectors.                                                      *)

\* The numbers the assumption gives, and that vectors tell lines apart.
LEMMA VectorFacts ==
  /\ PIC1_CASCADE_LINE \in Pic1 /\ Pic1 \subseteq Lines /\ Pic2 \subseteq Lines
  /\ Pic1 \cap Pic2 = {} /\ Pic1 \cup Pic2 = Lines
  /\ PF_INT_NUM \in Vectors
  /\ \A l \in Lines : Vector(l) \in Vectors /\ Vector(l) # PF_INT_NUM
  /\ \A l \in Lines : Vector(l) \in EXTERNAL_INT_BASE .. EXTERNAL_INT_MAX
  /\ \A l \in Pic2 : Vector(l) >= LINES_PER_PIC
  /\ PF_INT_NUM \notin EXTERNAL_INT_BASE .. EXTERNAL_INT_MAX
  /\ \A l, m \in Lines : Vector(l) = Vector(m) => l = m
  /\ \A v \in Vectors : v # PF_INT_NUM => \E l \in Lines : v = Vector(l)
<1>1. /\ EXTERNAL_INT_BASE \in Nat /\ EXTERNAL_INT_CNT \in Nat /\ LINES_PER_PIC \in Nat
      /\ PF_INT_NUM \in Nat
      /\ EXTERNAL_INT_CNT = 2 * LINES_PER_PIC /\ PF_INT_NUM < EXTERNAL_INT_BASE
      /\ PIC1_CASCADE_LINE \in 0 .. LINES_PER_PIC - 1
  BY InterruptsAssumption
<1> QED
  BY <1>1 DEF Lines, Pic1, Pic2, Vectors, Vector, EXTERNAL_INT_MAX

\* The first line of a set of one.
LEMMA FirstOfOne == ASSUME NEW l \in Lines PROVE First({l}) = l
BY InterruptsAssumption DEF First, Lines

LEMMA DriverLines ==
  /\ \A n \in DOMAIN Drivers : Drivers[n] \in Lines \ {PIC1_CASCADE_LINE}
  /\ Range(Drivers) \subseteq Lines \ {PIC1_CASCADE_LINE}
  /\ Devices \subseteq Lines \ {PIC1_CASCADE_LINE}
<1>1. DOMAIN Drivers = 1 .. Len(Drivers) /\ \A n \in 1 .. Len(Drivers) : Drivers[n] \in Lines
  BY InterruptsAssumption, LenProperties, ElementOfSeq DEF Lines
<1> QED
  BY <1>1, InterruptsAssumption DEF Range, Lines

\* InitDriver always has a driver to initialize.
LEMMA NextDriver ==
  ASSUME Registered # DOMAIN Drivers
  PROVE  Cardinality(Registered) + 1 \in DOMAIN Drivers
<1>1. DOMAIN Drivers = 1 .. Len(Drivers) /\ Len(Drivers) \in Nat
  BY InterruptsAssumption, LenProperties
<1>2. IsFiniteSet(DOMAIN Drivers) /\ Cardinality(DOMAIN Drivers) = Len(Drivers)
  <2>1. IsFiniteSet(1 .. Len(Drivers))
    BY <1>1, FS_Interval
  <2>2. Cardinality(1 .. Len(Drivers)) = IF 1 > Len(Drivers) THEN 0 ELSE Len(Drivers) - 1 + 1
    BY <1>1, FS_Interval
  <2> QED
    BY <2>1, <2>2, <1>1
<1>3. Registered \subseteq DOMAIN Drivers
  BY DEF Registered
<1>4. /\ Cardinality(Registered) <= Cardinality(DOMAIN Drivers)
      /\ Cardinality(Registered) # Cardinality(DOMAIN Drivers)
      /\ Cardinality(Registered) \in Nat
  BY <1>2, <1>3, FS_Subset, FS_CardinalityType
<1> QED
  BY <1>1, <1>2, <1>4

\* The controllers deliver lines that are requested and not masked.
LEMMA DeliverableOpen ==
  ASSUME irr \subseteq Lines \ {PIC1_CASCADE_LINE}
  PROVE  Deliverable \subseteq irr \ mask
<1> DEFINE second == Signals(Pic2, irr)
           asked == irr \cup IF second = {} THEN {} ELSE {PIC1_CASCADE_LINE}
<1>1. second \subseteq irr \ mask
  BY DEF Signals
<1>2. \A l \in Signals(Pic1, asked) : l = PIC1_CASCADE_LINE \/ l \in irr \ mask
  BY DEF Signals
<1> QED
  BY <1>1, <1>2 DEF Deliverable

-----------------------------------------------------------------------------
(* The steps.                                                              *)

LEMMA InitInv == Init => Inv
<1> SUFFICES ASSUME Init PROVE Inv
  OBVIOUS
<1>1. active = <<>> /\ DOMAIN active = {} /\ Len(active) = 0
  BY DEF Init
<1>2. Typed
  BY <1>1 DEF Init, Typed, Handlers
<1>3. OneAtATime /\ UnmaskedIsRegistered /\ ServedIsKnown
  BY <1>1 DEF Init, OneAtATime, UnmaskedIsRegistered, ServedIsKnown
<1>4. BeingServed = {}
  BY <1>1 DEF BeingServed
<1>5. InServiceIsActive
  BY <1>4 DEF Init, InServiceIsActive
<1> QED
  BY <1>2, <1>3, <1>5 DEF Inv

\* Nothing is served before IRQ_start.
LEMMA NothingServed ==
  ASSUME Inv, active = <<>>
  PROVE  BeingServed = {} /\ isr = {} /\ DOMAIN active = {} /\ Len(active) = 0
<1>1. DOMAIN active = {} /\ Len(active) = 0
  OBVIOUS
<1>2. BeingServed = {}
  BY <1>1 DEF BeingServed
<1> QED
  BY <1>1, <1>2 DEF Inv, InServiceIsActive

LEMMA BootInv ==
  ASSUME Inv,
         PopulateTable \/ SetHandlers \/ PIC_remap \/ PIC_disable_all_pic_irqs \/ enable_cascade
  PROVE  Inv'
<1>1. /\ active = <<>> /\ active' = active /\ rflags_IF' = rflags_IF
      /\ pc \in {"populate", "handlers", "remap", "disable", "cascade"}
      /\ pc' \in {"handlers", "remap", "disable", "cascade", "drivers"}
      /\ rflags_IF = 0
  BY DEF PopulateTable, SetHandlers, PIC_remap, PIC_disable_all_pic_irqs, enable_cascade, Boot,
         Inv, Typed, OneAtATime
<1>2. BeingServed = {} /\ isr = {} /\ DOMAIN active = {} /\ Len(active) = 0
  BY <1>1, NothingServed
<1>3. Typed'
  BY <1>1, VectorFacts DEF Inv, Typed, Handlers, PopulateTable, SetHandlers, PIC_remap,
         PIC_disable_all_pic_irqs, enable_cascade, pic
<1>4. OneAtATime' /\ ServedIsKnown'
  BY <1>1, <1>2 DEF OneAtATime, ServedIsKnown
<1>5. UnmaskedIsRegistered'
  BY <1>1, VectorFacts DEF Inv, Typed, UnmaskedIsRegistered, PopulateTable, SetHandlers, PIC_remap,
         PIC_disable_all_pic_irqs, enable_cascade, pic, Boot
<1>6. isr' = {} /\ BeingServed' = {}
  BY <1>1, <1>2 DEF BeingServed, PopulateTable, SetHandlers, PIC_remap,
         PIC_disable_all_pic_irqs, enable_cascade, pic
<1>7. InServiceIsActive'
  BY <1>6 DEF InServiceIsActive
<1> QED
  BY <1>3, <1>4, <1>5, <1>7 DEF Inv

LEMMA InitDriverInv == ASSUME Inv, InitDriver PROVE Inv'
<1> DEFINE line == Drivers[Cardinality(Registered) + 1]
<1>1. line \in Lines \ {PIC1_CASCADE_LINE}
  BY NextDriver, DriverLines DEF InitDriver
<1>2. /\ pc = "drivers" /\ active' = active /\ rflags_IF' = rflags_IF /\ isr' = isr /\ irr' = irr
      /\ irq_table' = [irq_table EXCEPT ![Vector(line)] = "driver"]
      /\ mask' = mask \ {line} /\ pc' = pc
  BY <1>1 DEF InitDriver, set_irq_line_state, line_valid
<1>3. active = <<>> /\ rflags_IF = 0
  BY <1>2 DEF Inv, Typed, OneAtATime
<1>4. BeingServed = {} /\ isr = {} /\ DOMAIN active = {} /\ Len(active) = 0
  BY <1>3, NothingServed
<1>5. Typed'
  BY <1>2, <1>1, VectorFacts DEF Inv, Typed, Handlers
<1>6. OneAtATime' /\ ServedIsKnown'
  BY <1>2, <1>3, <1>4 DEF OneAtATime, ServedIsKnown
<1>7. UnmaskedIsRegistered'
  BY <1>1, <1>2, VectorFacts DEF Inv, Typed, UnmaskedIsRegistered
<1>8. InServiceIsActive'
  <2>1. BeingServed' = {}
    BY <1>2, <1>4 DEF BeingServed
  <2> QED
    BY <2>1, <1>2, <1>4 DEF InServiceIsActive
<1> QED
  BY <1>5, <1>6, <1>7, <1>8 DEF Inv

\* IRQ_start finds every driver registered, so that the lines it opens have
\* handlers.
LEMMA IRQ_startInv == ASSUME Inv, IRQ_start PROVE Inv'
<1>1. /\ UNCHANGED <<irr, isr, mask, irq_table, active>> /\ rflags_IF' = 1
      /\ pc = "drivers" /\ pc' = "run" /\ active = <<>> /\ Registered = DOMAIN Drivers
  BY DEF IRQ_start, Boot, pic
<1>2. Registered' = Registered /\ BeingServed' = BeingServed
  BY <1>1 DEF Registered, BeingServed
<1>3. Typed' /\ InServiceIsActive'
  BY <1>1, <1>2 DEF Inv, Typed, InServiceIsActive
<1>4. OneAtATime' /\ ServedIsKnown'
  BY <1>1 DEF Inv, OneAtATime, ServedIsKnown
<1>5. UnmaskedIsRegistered'
  BY <1>1, <1>2 DEF Inv, UnmaskedIsRegistered
<1> QED
  BY <1>3, <1>4, <1>5 DEF Inv

\* A line is only enabled by its driver.
LEMMA SwitchInv ==
  ASSUME Inv, NEW l \in Calls, IRQ_enable_index(l) \/ IRQ_disable_index(l)
  PROVE  Inv'
<1>1. /\ UNCHANGED <<irr, isr, irq_table, rflags_IF, active>>
      /\ pc = "run" /\ active = <<>> /\ pc' \in {"run", "halted"}
      /\ l \in Lines
  BY InterruptsAssumption DEF IRQ_enable_index, IRQ_disable_index, set_irq_line_state, pic, Lines
<1>2. /\ mask' \subseteq Lines
      /\ \A m \in Lines \ mask' : m \in Lines \ mask \/ m \in Range(Drivers)
  BY <1>1 DEF IRQ_enable_index, IRQ_disable_index, set_irq_line_state, line_valid, Inv, Typed
<1>3. Registered' = Registered /\ BeingServed' = BeingServed
  BY <1>1 DEF Registered, BeingServed
<1>4. \A m \in Range(Drivers) : irq_table[Vector(m)] = "driver"
  BY <1>1 DEF Inv, UnmaskedIsRegistered, Registered, Range
<1>5. Typed' /\ InServiceIsActive'
  BY <1>1, <1>2, <1>3 DEF Inv, Typed, InServiceIsActive
<1>6. OneAtATime' /\ ServedIsKnown'
  BY <1>1 DEF Inv, OneAtATime, ServedIsKnown
<1>7. UnmaskedIsRegistered'
  BY <1>1, <1>2, <1>3, <1>4 DEF Inv, UnmaskedIsRegistered
<1> QED
  BY <1>5, <1>6, <1>7 DEF Inv

LEMMA RequestInv == ASSUME Inv, NEW l \in Devices, Request(l) PROVE Inv'
<1>1. UNCHANGED <<isr, mask, irq_table, rflags_IF, pc, active>> /\ irr' = irr \cup {l}
  BY DEF Request
<1>2. Registered' = Registered /\ BeingServed' = BeingServed
  BY <1>1 DEF Registered, BeingServed
<1>3. Typed'
  BY <1>1, DriverLines DEF Inv, Typed
<1> QED
  BY <1>1, <1>2, <1>3
  DEF Inv, OneAtATime, ServedIsKnown, UnmaskedIsRegistered, InServiceIsActive

\* What is being served is one interrupt, or a page fault on top of one.
LEMMA ActiveShape ==
  ASSUME Inv, active # <<>>
  PROVE  /\ active \in Seq(Served) /\ Len(active) \in {1, 2} /\ pc = "run"
         /\ DOMAIN active = 1 .. Len(active)
         /\ \A n \in DOMAIN active : active[n] \in Served /\ active[n].vector \in Vectors
<1>1. active \in Seq(Served) /\ Len(active) <= 2 /\ pc = "run"
  BY DEF Inv, Typed, OneAtATime
<1>2. Len(active) \in Nat \ {0}
  BY <1>1, EmptySeq
<1>3. DOMAIN active = 1 .. Len(active) /\ \A n \in 1 .. Len(active) : active[n] \in Served
  BY <1>1, LenProperties, ElementOfSeq
<1> QED
  BY <1>1, <1>2, <1>3 DEF Served

\* Changing the phase of one of them.
LEMMA PhaseChange ==
  ASSUME Inv, NEW k \in DOMAIN active, NEW phase \in Phases, active # <<>>
  PROVE  LET changed == [active EXCEPT ![k].phase = phase]
         IN /\ changed \in Seq(Served) /\ Len(changed) = Len(active)
            /\ DOMAIN changed = DOMAIN active
            /\ \A n \in DOMAIN active : changed[n].vector = active[n].vector
<1> DEFINE e == [active[k] EXCEPT !.phase = phase]
           changed == [active EXCEPT ![k] = e]
<1>1. active[k] \in Served
  BY ActiveShape
<1>2. e \in Served /\ e.vector = active[k].vector
  BY <1>1 DEF Served
<1>3. /\ changed \in Seq(Served) /\ Len(changed) = Len(active)
      /\ \A n \in 1 .. Len(active) : changed[n] = IF n = k THEN e ELSE active[n]
  BY <1>2, ActiveShape, ExceptSeq
<1>4. DOMAIN changed = DOMAIN active
  OBVIOUS
<1> QED
  BY <1>2, <1>3, <1>4, ActiveShape

\* Only a registered line is delivered, and only while nothing is served.
LEMMA DeliverInv == ASSUME Inv, Deliver PROVE Inv'
<1>1. PICK l \in Deliverable :
        /\ irr' = irr \ {l}
        /\ isr' = isr \cup {l} \cup IF l \in Pic2 THEN {PIC1_CASCADE_LINE} ELSE {}
        /\ active' = Append(active, [vector |-> Vector(l), phase |-> "handler"])
  BY DEF Deliver
<1>2. /\ rflags_IF = 1 /\ rflags_IF' = 0 /\ pc # "halted" /\ UNCHANGED <<mask, irq_table, pc>>
  BY DEF Deliver
<1>3. pc = "run" /\ active = <<>>
  BY <1>2 DEF Inv, OneAtATime
<1>4. BeingServed = {} /\ isr = {}
  BY <1>3, NothingServed
<1>5. l \in Lines \ {PIC1_CASCADE_LINE} /\ l \in Lines \ mask
  BY DeliverableOpen DEF Inv, Typed
<1>6. irq_table[Vector(l)] = "driver"
  BY <1>3, <1>5 DEF Inv, UnmaskedIsRegistered
<1>7. active' = <<[vector |-> Vector(l), phase |-> "handler"]>>
  BY <1>1, <1>3
<1>8. [vector |-> Vector(l), phase |-> "handler"] \in Served
  BY <1>5, VectorFacts DEF Served, Phases
<1>9. Len(active') = 1 /\ DOMAIN active' = {1} /\ active'[1].vector = Vector(l)
  BY <1>7
<1>10. Typed'
  BY <1>1, <1>2, <1>4, <1>5, <1>7, <1>8, VectorFacts DEF Inv, Typed
<1>11. OneAtATime' /\ ServedIsKnown'
  BY <1>2, <1>3, <1>6, <1>9 DEF OneAtATime, ServedIsKnown
<1>12. UnmaskedIsRegistered'
  BY <1>2 DEF Inv, UnmaskedIsRegistered, Registered
<1>13. InServiceIsActive'
  <2>1. BeingServed' = {l}
    BY <1>5, <1>9, VectorFacts DEF BeingServed
  <2> QED
    BY <2>1, <1>1, <1>4 DEF InServiceIsActive
<1> QED
  BY <1>10, <1>11, <1>12, <1>13 DEF Inv

\* A page fault comes on top of nothing or of one interrupt, whose line stays
\* in service.
LEMMA PageFaultInv == ASSUME Inv, PageFault PROVE Inv'
<1> DEFINE fault == [vector |-> PF_INT_NUM, phase |-> "handler"]
           under == IF active = <<>> THEN <<>> ELSE [active EXCEPT ![1].phase = "faulted"]
<1>1. /\ pc = "run" /\ rflags_IF' = 0 /\ active' = Append(under, fault)
      /\ UNCHANGED <<irr, isr, mask, irq_table, pc>>
  BY DEF PageFault, pic
<1>2. fault \in Served
  BY VectorFacts DEF Served, Phases
<1>3. active \in Seq(Served) /\ Len(active) \in Nat
  BY DEF Inv, Typed
<1>4. CASE active = <<>>
  <2>1. active' = <<fault>>
    BY <1>1, <1>4
  <2>2. Len(active') = 1 /\ DOMAIN active' = {1} /\ active'[1].vector = PF_INT_NUM
    BY <2>1
  <2>3. BeingServed' = {} /\ BeingServed = {}
    BY <2>2, <1>4, VectorFacts, NothingServed DEF BeingServed
  <2>4. Typed'
    BY <1>1, <1>2, <2>1 DEF Inv, Typed
  <2>5. OneAtATime' /\ ServedIsKnown'
    BY <1>1, <2>2 DEF OneAtATime, ServedIsKnown
  <2>6. UnmaskedIsRegistered'
    BY <1>1 DEF Inv, UnmaskedIsRegistered, Registered
  <2>7. InServiceIsActive'
    BY <1>1, <2>3 DEF Inv, InServiceIsActive
  <2> QED
    BY <2>4, <2>5, <2>6, <2>7 DEF Inv
<1>5. CASE active # <<>>
  <2>1. Len(active) = 1 /\ active[1].vector # PF_INT_NUM
    BY <1>5, ActiveShape DEF PageFault, Last, Inv, OneAtATime
  <2>2. under \in Seq(Served) /\ Len(under) = 1 /\ under[1].vector = active[1].vector
    <3>1. 1 \in DOMAIN active /\ "faulted" \in Phases
      BY <2>1, <1>5, ActiveShape DEF Phases
    <3> QED
      BY <3>1, <2>1, <1>5, PhaseChange
  <2>3. /\ active' \in Seq(Served) /\ Len(active') = 2 /\ DOMAIN active' = {1, 2}
        /\ active'[1].vector = active[1].vector /\ active'[2].vector = PF_INT_NUM
    BY <1>1, <1>2, <2>2
  <2>4. BeingServed' = BeingServed
    BY <2>1, <2>3, VectorFacts DEF BeingServed
  <2>5. Typed'
    BY <1>1, <2>3 DEF Inv, Typed
  <2>6. OneAtATime'
    BY <1>1, <2>1, <2>3 DEF OneAtATime
  <2>7. ServedIsKnown'
    BY <1>1, <2>1, <2>3 DEF Inv, ServedIsKnown
  <2>8. UnmaskedIsRegistered'
    BY <1>1 DEF Inv, UnmaskedIsRegistered, Registered
  <2>9. InServiceIsActive'
    BY <1>1, <2>4 DEF Inv, InServiceIsActive
  <2> QED
    BY <2>5, <2>6, <2>7, <2>8, <2>9 DEF Inv
<1> QED
  BY <1>4, <1>5

\* A handler never is def_irq_handler, so it returns.
LEMMA HandlerInv == ASSUME Inv, Handler PROVE Inv'
<1>1. /\ active # <<>> /\ UNCHANGED <<irr, isr, mask, irq_table, rflags_IF>>
      /\ active \in Seq(Served) /\ Len(active) \in Nat /\ Len(active) # 0 /\ pc = "run"
  BY DEF Handler, pic, Inv, Typed, OneAtATime
<1>2. irq_table[Last(active).vector] # "def_irq_handler"
  <2>1. Len(active) \in DOMAIN active
    BY <1>1
  <2> QED
    BY <1>1, <2>1 DEF Last, Inv, ServedIsKnown, UnmaskedIsRegistered
<1>3. active' = [active EXCEPT ![Len(active)].phase = "eoi"] /\ pc' = pc
  BY <1>2 DEF Handler
<1>4. /\ active' \in Seq(Served) /\ Len(active') = Len(active) /\ DOMAIN active' = DOMAIN active
      /\ \A n \in DOMAIN active : active'[n].vector = active[n].vector
  <2>1. Len(active) \in DOMAIN active /\ "eoi" \in Phases
    BY <1>1, ActiveShape DEF Phases
  <2> QED
    BY <2>1, <1>1, <1>3, PhaseChange
<1>5. BeingServed' = BeingServed
  BY <1>4 DEF BeingServed
<1>6. Typed'
  BY <1>1, <1>4 DEF Inv, Typed
<1>7. OneAtATime'
  BY <1>1, <1>3, <1>4 DEF Inv, OneAtATime
<1>8. ServedIsKnown'
  BY <1>1, <1>4 DEF Inv, ServedIsKnown
<1>9. UnmaskedIsRegistered'
  BY <1>1, <1>3 DEF Inv, UnmaskedIsRegistered, Registered
<1>10. InServiceIsActive'
  BY <1>1, <1>5 DEF Inv, InServiceIsActive
<1> QED
  BY <1>6, <1>7, <1>8, <1>9, <1>10 DEF Inv

\* The end of interrupt of a line empties the controllers, because it is the
\* only one in service: with the cascade, if it is on the second controller.
LEMMA EndOfInterruptClears ==
  ASSUME NEW l \in Lines,
         isr = {l} \cup IF l \in Pic2 THEN {PIC1_CASCADE_LINE} ELSE {}
  PROVE  EndOfInterrupt(Vector(l)) = {}
<1>1. Vector(l) \in EXTERNAL_INT_BASE .. EXTERNAL_INT_MAX
  BY VectorFacts
<1>2. CASE l \in Pic2
  <2>1. Vector(l) >= LINES_PER_PIC /\ isr = {l, PIC1_CASCADE_LINE} /\ isr \cap Pic2 = {l}
    BY <1>2, VectorFacts
  <2>2. EOI(Pic2, isr) = {PIC1_CASCADE_LINE}
    BY <2>1, <1>2, VectorFacts, FirstOfOne DEF EOI
  <2>3. EOI(Pic1, {PIC1_CASCADE_LINE}) = {}
    <3>1. {PIC1_CASCADE_LINE} \cap Pic1 = {PIC1_CASCADE_LINE} /\ PIC1_CASCADE_LINE \in Lines
      BY VectorFacts
    <3> QED
      BY <3>1, FirstOfOne DEF EOI
  <2> QED
    BY <1>1, <2>1, <2>2, <2>3 DEF EndOfInterrupt
<1>3. CASE l \notin Pic2
  <2>1. isr = {l} /\ isr \cap Pic2 = {} /\ isr \cap Pic1 = {l}
    BY <1>3, VectorFacts
  <2>2. EOI(Pic2, isr) = isr /\ EOI(Pic1, isr) = {}
    BY <2>1, FirstOfOne DEF EOI
  <2> QED
    BY <1>1, <2>2 DEF EndOfInterrupt
<1> QED
  BY <1>2, <1>3

LEMMA EndInv == ASSUME Inv, IRQ_end_of_interrupt PROVE Inv'
<1> DEFINE v == active[Len(active)].vector
<1>1. /\ active # <<>> /\ UNCHANGED <<irr, mask, irq_table, pc>>
      /\ active \in Seq(Served) /\ Len(active) \in {1, 2} /\ pc = "run"
      /\ isr' = EndOfInterrupt(v) /\ active' = Front(active)
      /\ rflags_IF' = IF Len(active) = 1 THEN 1 ELSE 0
  BY ActiveShape DEF IRQ_end_of_interrupt, Last
<1>2. UnmaskedIsRegistered'
  BY <1>1 DEF Inv, UnmaskedIsRegistered, Registered
<1>3. CASE Len(active) = 1
  <2>1. active' = <<>> /\ DOMAIN active' = {} /\ Len(active') = 0 /\ DOMAIN active = {1}
    BY <1>1, <1>3 DEF Front
  <2>2. BeingServed' = {}
    BY <2>1 DEF BeingServed
  <2>3. isr' = {}
    <3>1. CASE v = PF_INT_NUM
      <4>1. BeingServed = {}
        BY <3>1, <1>3, <2>1, VectorFacts DEF BeingServed
      <4>2. isr = {}
        BY <4>1 DEF Inv, InServiceIsActive
      <4> QED
        BY <4>2, <3>1, <1>1, VectorFacts DEF EndOfInterrupt
    <3>2. CASE v # PF_INT_NUM
      <4>1. v \in Vectors
        BY <1>1, <1>3, <2>1, ActiveShape
      <4>2. PICK l \in Lines : v = Vector(l)
        BY <4>1, <3>2, VectorFacts
      <4>3. BeingServed = {l}
        BY <4>2, <1>3, <2>1, VectorFacts DEF BeingServed
      <4>4. isr = {l} \cup IF l \in Pic2 THEN {PIC1_CASCADE_LINE} ELSE {}
        BY <4>3 DEF Inv, InServiceIsActive
      <4> QED
        BY <4>2, <4>4, <1>1, EndOfInterruptClears
    <3> QED
      BY <3>1, <3>2
  <2>4. Typed'
    BY <1>1, <1>3, <2>1, <2>3 DEF Inv, Typed
  <2>5. OneAtATime' /\ ServedIsKnown'
    BY <1>1, <1>3, <2>1 DEF OneAtATime, ServedIsKnown
  <2>6. InServiceIsActive'
    BY <2>2, <2>3 DEF InServiceIsActive
  <2> QED
    BY <1>2, <2>4, <2>5, <2>6 DEF Inv
<1>4. CASE Len(active) = 2
  <2>1. v = PF_INT_NUM /\ active[1].vector # PF_INT_NUM
    BY <1>4 DEF Inv, OneAtATime
  <2>2. /\ active' = <<active[1]>> /\ active[1] \in Served
    <3>1. active[1] \in Served
      BY <1>1, <1>4, ActiveShape
    <3>2. SubSeq(active, 1, 1) = <<active[1]>>
      <4>1. /\ SubSeq(active, 1, 1) \in Seq(Served) /\ Len(SubSeq(active, 1, 1)) = 1
            /\ SubSeq(active, 1, 1)[1] = active[1]
        BY <3>1, SubSeqProperties
      <4>2. /\ <<active[1]>> \in Seq(Served) /\ Len(<<active[1]>>) = 1
            /\ <<active[1]>>[1] = active[1]
        BY <3>1
      <4>3. \A i \in 1 .. Len(SubSeq(active, 1, 1)) : i = 1
        BY <4>1
      <4> DEFINE s == SubSeq(active, 1, 1)
                 t == <<active[1]>>
      <4>4. s \in Seq(Served) /\ t \in Seq(Served) /\ Len(s) = Len(t)
        BY <4>1, <4>2
      <4>5. \A i \in 1 .. Len(s) : s[i] = t[i]
        BY <4>1, <4>2, <4>3
      <4> HIDE DEF s, t
      <4>6. s = t
        BY <4>4, <4>5, SeqEqual
      <4> QED
        BY <4>6 DEF s, t
    <3> QED
      BY <3>1, <3>2, <1>1, <1>4 DEF Front
  <2>3. isr' = isr
    BY <2>1, <1>1, VectorFacts DEF EndOfInterrupt
  <2>4. /\ Len(active') = 1 /\ DOMAIN active' = {1} /\ active'[1] = active[1]
        /\ DOMAIN active = {1, 2}
    BY <2>2, <1>1, <1>4
  <2>5. BeingServed' = BeingServed
    BY <2>1, <2>4, <1>4, VectorFacts DEF BeingServed
  <2>6. Typed'
    BY <1>1, <1>4, <2>2, <2>3 DEF Inv, Typed
  <2>7. OneAtATime'
    BY <1>1, <1>4, <2>4 DEF OneAtATime
  <2>8. ServedIsKnown'
    BY <1>1, <2>4 DEF Inv, ServedIsKnown
  <2>9. InServiceIsActive'
    BY <2>3, <2>5 DEF Inv, InServiceIsActive
  <2> QED
    BY <1>2, <2>6, <2>7, <2>8, <2>9 DEF Inv
<1> QED
  BY <1>1, <1>3, <1>4

LEMMA NextInv == ASSUME Inv, [Next]_vars PROVE Inv'
<1>1. CASE UNCHANGED vars
  <2>1. UNCHANGED <<irr, isr, mask, irq_table, rflags_IF, pc, active>>
    BY <1>1 DEF vars, pic
  <2>2. BeingServed' = BeingServed /\ Registered' = Registered
    BY <2>1 DEF BeingServed, Registered
  <2> QED
    BY <2>1, <2>2
    DEF Inv, Typed, OneAtATime, UnmaskedIsRegistered, ServedIsKnown, InServiceIsActive
<1> QED
  BY <1>1, BootInv, InitDriverInv, IRQ_startInv, SwitchInv, RequestInv, DeliverInv,
     PageFaultInv, HandlerInv, EndInv
  DEF Next, Serve

-----------------------------------------------------------------------------
(* The theorems.                                                           *)

THEOREM Invariance == Spec => []Inv
<1>1. Init => Inv
  BY InitInv
<1>2. Inv /\ [Next]_vars => Inv'
  BY NextInv
<1> QED
  BY <1>1, <1>2, PTL DEF Spec

\* What the controllers hold in service is exactly what has a handler running.
THEOREM InServiceCorrect == Spec => []InServiceIsActive
<1>1. Inv => InServiceIsActive
  BY DEF Inv
<1> QED
  BY <1>1, Invariance, PTL

\* def_irq_handler is never run.
THEOREM OnlyKnownInterrupts == Spec => []NoUnknownInterrupt
<1>1. Inv => NoUnknownInterrupt
  <2> SUFFICES ASSUME Inv, NEW n \in DOMAIN active
               PROVE  irq_table[active[n].vector] # "def_irq_handler"
    BY DEF NoUnknownInterrupt
  <2>1. active # <<>>
    OBVIOUS
  <2> QED
    BY <2>1 DEF Inv, ServedIsKnown, OneAtATime, UnmaskedIsRegistered
<1> QED
  BY <1>1, Invariance, PTL

\* Handlers of devices do not nest; only a page fault comes on top of one.
THEOREM NoNesting == Spec => []OneAtATime
<1>1. Inv => OneAtATime
  BY DEF Inv
<1> QED
  BY <1>1, Invariance, PTL
=============================================================================
