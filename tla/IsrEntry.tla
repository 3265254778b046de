------------------------------ MODULE IsrEntry ------------------------------
(***************************************************************************)
(* The way from an interrupt to isr_helper and back: the 256 stubs of      *)
(* core/src/isr_entry.asm, the common code of core/src/isr_common.asm and  *)
(* the interrupt stacks chosen in core/src/interrupt.c.                    *)
(*                                                                         *)
(* The assembly is data here, one record an instruction, executed one at a *)
(* time.  A stack is an array of words, [rsp + 8 * k] the word k below the *)
(* top.  C code, of the interrupted program or of a handler, is any code   *)
(* that follows the calling convention: it may be interrupted with         *)
(* anything in its registers and returns with anything in the              *)
(* caller-saved ones, the only ones represented.                           *)
(***************************************************************************)
EXTENDS Integers, Sequences, SequencesExt

CONSTANTS
  External,     \* vectors of device interrupts
  MayRaise,     \* exceptions the code at each level can raise
  Returning,    \* exceptions whose handler returns: page faults
  StackWords    \* words of a stack

error_isrs == {8, 10, 11, 12, 13, 14, 17, 30}

\* What an interrupt in progress takes of a stack: its frame and nine words.
IsrWords == 10

Exceptions == UNION {MayRaise[v] : v \in DOMAIN MayRaise}

ASSUME IsrEntryAssumption ==
  /\ External \subseteq 32 .. 47
  /\ DOMAIN MayRaise = {0} \cup External \cup Exceptions   \* 0: the program
  /\ Exceptions \subseteq 1 .. 31
  /\ Returning \subseteq Exceptions
  /\ StackWords \in Nat
  \* Handlers do not raise what is being handled, and the stacks have room
  \* for all that nest.
  /\ \E rank \in [DOMAIN MayRaise -> 0 .. StackWords \div IsrWords] :
       /\ \A v \in External : rank[0] < rank[v]
       /\ \A u \in DOMAIN MayRaise : \A v \in MayRaise[u] : rank[u] < rank[v]

Registers == {"rax", "rcx", "rdx", "rsi", "rdi", "r8", "r9", "r10", "r11"}

VARIABLES
  regs,          \* the caller-saved registers
  mem,           \* the words of each stack
  stack, sp,     \* rsp: the stack in use, the words on it
  code,          \* rip: the instructions up to iretq; <<>> in the program
  IF_,           \* the interrupt flag
  interrupted    \* history variable: what each unfinished interrupt found

entry_vars == <<regs, mem, stack, sp, code, IF_, interrupted>>

-----------------------------------------------------------------------------
(* The instructions.                                                       *)

push(r) == [op |-> "push", reg |-> r, k |-> 0]
pop(r) == [op |-> "pop", reg |-> r, k |-> 0]
load(r, k) == [op |-> "load", reg |-> r, k |-> k]      \* mov r, [rsp + 8 * k]
store(k, r) == [op |-> "store", reg |-> r, k |-> k]    \* mov [rsp + 8 * k], r
imm(r, k) == [op |-> "imm", reg |-> r, k |-> k]        \* mov r, k
call == [op |-> "call", reg |-> "rdi", k |-> 0]
body == [op |-> "body", reg |-> "rdi", k |-> 0]        \* inside isr_helper
iretq == [op |-> "iretq", reg |-> "rdi", k |-> 0]

isr_error ==
  <<push("rax"), push("rsi"), load("rsi", 2), pop("rax"), store(1, "rax")>>

\* Mutant: the two pushes are swapped.
isr_nonerror_swapped == <<push("rax"), push("rsi")>>
isr_nonerror == <<push("rsi"), push("rax")>>

Saved == <<"rcx", "rdx", "r8", "r9", "r10", "r11">>

isr_general ==
  [n \in 1 .. 6 |-> push(Saved[n])] \o <<call>> \o
  [n \in 1 .. 6 |-> pop(Reverse(Saved)[n])] \o
  <<pop("rax"), pop("rsi"), pop("rdi"), iretq>>

\* Mutant: every stub jumps to isr_nonerror.
isr_stub_one_kind(v) ==
  <<push("rdi"), imm("rdi", v)>> \o isr_nonerror \o isr_general
isr_stub(v) ==
  <<push("rdi"), imm("rdi", v)>> \o
  (IF v \in error_isrs THEN isr_error ELSE isr_nonerror) \o isr_general

\* The entry of the TSS with the stack of a vector; 0 stays on the stack in use.
ist(v) == CASE v = 13 -> 1 [] v = 8 -> 2 [] v = 14 -> 3 [] OTHER -> 0

isr_table == [v \in 0 .. 255 |-> isr_stub(v)]

\* The entries of the IDT: all are interrupt gates, which clear the flag.
idt == [v \in 0 .. 255 |-> [isr |-> isr_table[v], ist |-> ist(v), flag |-> 0]]

\* ist1, ist2 and ist3, as GDT_init sets them.
tss == <<"gp_stack", "df_stack", "pf_stack">>
Stacks == {"stack"} \cup Range(tss)

-----------------------------------------------------------------------------
\* A word is a pair of what kind of value it is and the value.
Free == <<"free", 0>>
ErrorCode == <<"error_code", 0>>
Number(v) == <<"number", v>>

\* What C code leaves in the registers: values of its own, all different.
Scratch(level) == [r \in Registers |-> <<r, level>>]

Level == Len(interrupted)
Current == IF interrupted = <<>> THEN 0 ELSE Last(interrupted).vector

\* What the processor pushes: rip, rsp, rflags.
Frame(f) == <<"frame", f>>

EntryInit ==
  /\ regs = Scratch(0)
  /\ mem = [s \in Stacks |-> [n \in 1 .. StackWords |-> Free]]
  /\ stack = "stack" /\ sp = 0 /\ code = <<>>
  /\ IF_ = 1
  /\ interrupted = <<>>

RunsC == code # <<>> => code[1] = body

\* The processor: choose the stack, push the frame and, for the vectors that
\* have one, an error code; then the stub.
Interrupt(v) ==
  LET s == IF idt[v].ist = 0 THEN stack ELSE tss[idt[v].ist]
      top == IF idt[v].ist = 0 THEN sp ELSE 0
      frame == Frame([code |-> code, stack |-> stack, sp |-> sp, flag |-> IF_])
      pushed == IF v \in error_isrs THEN <<frame, ErrorCode>> ELSE <<frame>>
  IN /\ RunsC
     /\ IF v \in External THEN IF_ = 1 ELSE v \in MayRaise[Current]
     /\ mem' = [mem EXCEPT ![s] = [n \in 1 .. StackWords |->
                  IF n - top \in DOMAIN pushed THEN pushed[n - top] ELSE @[n]]]
     /\ stack' = s /\ sp' = top + Len(pushed)
     /\ code' = idt[v].isr /\ IF_' = idt[v].flag
     /\ interrupted' = Append(interrupted,
          [vector |-> v, regs |-> regs, code |-> code, stack |-> stack,
           sp |-> sp, flag |-> IF_, frame |-> top + 1])
     /\ UNCHANGED regs

Step(op) == code # <<>> /\ code[1].op = op /\ code' = Tail(code)
Top(k) == mem[stack][sp - k]

Push ==
  /\ Step("push")
  /\ mem' = [mem EXCEPT ![stack][sp + 1] = regs[code[1].reg]]
  /\ sp' = sp + 1
  /\ UNCHANGED <<regs, stack, IF_, interrupted>>

Pop ==
  /\ Step("pop")
  /\ regs' = [regs EXCEPT ![code[1].reg] = Top(0)]
  /\ sp' = sp - 1
  /\ UNCHANGED <<mem, stack, IF_, interrupted>>

Load ==
  /\ Step("load")
  /\ regs' = [regs EXCEPT ![code[1].reg] = Top(code[1].k)]
  /\ UNCHANGED <<mem, stack, sp, IF_, interrupted>>

Store ==
  /\ Step("store")
  /\ mem' = [mem EXCEPT ![stack][sp - code[1].k] = regs[code[1].reg]]
  /\ UNCHANGED <<regs, stack, sp, IF_, interrupted>>

Immediate ==
  /\ Step("imm")
  /\ regs' = [regs EXCEPT ![code[1].reg] = Number(code[1].k)]
  /\ UNCHANGED <<mem, stack, sp, IF_, interrupted>>

\* call isr_helper: from here on it is C code.
Call ==
  /\ code # <<>> /\ code[1] = call
  /\ code' = <<body>> \o Tail(code)
  /\ regs' = Scratch(Level)
  /\ UNCHANGED <<mem, stack, sp, IF_, interrupted>>

\* isr_helper returns; the handlers of the other exceptions end in HLT.
HelperReturns ==
  /\ Step("body")
  /\ Current \in External \cup Returning
  /\ UNCHANGED <<regs, mem, stack, sp, IF_, interrupted>>

\* iretq, which finds a frame on top of the stack or goes astray.
Iretq ==
  /\ code # <<>> /\ code[1] = iretq
  /\ sp = Last(interrupted).frame /\ Top(0)[1] = "frame"
  /\ LET f == Top(0)[2] IN
       code' = f.code /\ stack' = f.stack /\ sp' = f.sp /\ IF_' = f.flag
  /\ interrupted' = Front(interrupted)
  /\ UNCHANGED <<regs, mem>>

Instruction == Push \/ Pop \/ Load \/ Store \/ Immediate \/ Call \/ HelperReturns \/ Iretq

EntryNext == Instruction \/ \E v \in External \cup Exceptions : Interrupt(v)

EntrySpec == EntryInit /\ [][EntryNext]_entry_vars

-----------------------------------------------------------------------------
(* Properties.                                                             *)

\* At every iretq the top of the stack is the frame of the interrupt that is
\* being left, whatever nested in it: pushes and pops balance, and no other
\* interrupt's frame was pushed over it.
FrameOnTop ==
  code # <<>> /\ code[1] = iretq =>
    LET i == Last(interrupted)
    IN /\ sp = i.frame
       /\ Top(0) = Frame([code |-> i.code, stack |-> i.stack, sp |-> i.sp, flag |-> i.flag])

\* An interrupt without an error code leaves no trace: the program, or the
\* handler, goes on where it was with all its registers as they were, also if
\* handlers took page faults meanwhile.
Transparent ==
  [][Iretq /\ Current \notin error_isrs => regs' = Last(interrupted).regs]_entry_vars

\* isr_common.asm:19, "at start, has old rdi, rsi, rax on the stack, in that
\* order": an exception that returns restores them.
FaultTransparent ==
  [][Iretq /\ Current \in error_isrs => regs' = Last(interrupted).regs]_entry_vars
=============================================================================
