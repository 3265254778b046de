------------------------------- MODULE Serial -------------------------------
(***************************************************************************)
(* The serial port driver, core/src/serial.c, its transmit interrupt and   *)
(* the UART's transmitter.                                                 *)
(*                                                                         *)
(* A write is the sequence of steps between which ser_irq_handler can run  *)
(* when interrupts are on; the handler itself runs with interrupts off, so *)
(* it is one step.  The pointers c and p are addresses.  Before SER_init   *)
(* they are NULL and the bytes printed go to the memory at 0, below the    *)
(* kernel.  The bytes written are numbered, to tell them apart.            *)
(***************************************************************************)
EXTENDS Integers, Sequences, SequencesExt

CONSTANTS
  BUFF_SIZE,
  Buff,         \* the address of ser_state.buff
  MaxLen,       \* bound: len of one SER_write
  MaxBytes,     \* bound: bytes offered in a behaviour
  CallerIF,     \* what IF can be when SER_write is called
  None          \* what lies beyond the buffer

ASSUME SerialAssumption ==
  /\ BUFF_SIZE \in Nat /\ BUFF_SIZE >= 2
  /\ MaxLen \in Nat \ {0} /\ MaxBytes \in Nat
  /\ CallerIF \subseteq {0, 1}
  \* Less is printed before SER_init than there is memory below the buffer.
  /\ Buff \in Nat /\ Buff > MaxBytes
  /\ None \notin Nat

\* BAUD_DIVISOR & 0xFF: as a byte in the register, none that was written.
Divisor == 0
Written(bytes) == IF bytes = <<Divisor>> THEN <<>> ELSE bytes

VARIABLES
  mem, c, p, busy,     \* memory with ser_state.buff in it; ser_state
  out_val,             \* local of init_hw_write and SER_flush
  enable_ints, left,   \* SER_write: its local, bytes still to produce
  pc,                  \* the next step of the thread
  IF_,                 \* the interrupt flag
  ready, started,      \* SER_init, IRQ_start have run
  thr,                 \* the transmit holding register: one byte or none
  thre, irq,           \* the UART's interrupt condition; the PIC's latch
  out,                 \* bytes that left the UART, but for the divisor
  offered,             \* bytes passed to SER_write so far
  accepted             \* history variable: the bytes put in the buffer and
                       \* not forgotten by SER_init

ser_state == <<mem, c, p, busy>>
uart == <<thr, thre, irq, out>>
locals == <<out_val, enable_ints, left>>
cpu == <<IF_, ready, started>>
history == <<offered, accepted>>
vars == <<ser_state, uart, locals, cpu, pc, history>>

\* Static data is zero; the UART is idle and its interrupt off.
Init ==
  /\ mem = [k \in 0 .. Buff + BUFF_SIZE - 1 |-> 0]
  /\ c = 0 /\ p = 0 /\ busy = FALSE
  /\ out_val = 0 /\ enable_ints = FALSE /\ left = 0
  /\ pc = "idle"
  /\ IF_ = 0 /\ ready = FALSE /\ started = FALSE
  /\ thr = <<>> /\ thre = FALSE /\ irq = FALSE
  /\ out = <<>> /\ offered = 0 /\ accepted = <<>>

\* IRQ_are_interrupts_enabled puts rflags, of which the model keeps IF (bit
\* 9), into a u8.
IRQ_are_interrupts_enabled == (512 * IF_) % 256 # 0

\* Mutant: off by one.
is_buff_empty_late == c = p + 1
is_buff_empty == c = p

is_buff_full == p = c - 1 \/ p = c + BUFF_SIZE - 1

\* Mutant: off by one.
Wrap_late(k) == IF k = Buff + BUFF_SIZE + 1 THEN Buff ELSE k
Wrap(k) == IF k = Buff + BUFF_SIZE THEN Buff ELSE k

\* A read of *c; with interrupts on, c may be seen one past the end.
ByteAt(k) == IF k \in DOMAIN mem THEN mem[k] ELSE None

-----------------------------------------------------------------------------
(* SER_write.                                                              *)

\* SER_init, of which 0b01000000 sets the line's break and not the divisor
\* latch: the divisor's low byte is written to the transmit holding register.
\* Turning the interrupt on with the register empty raises it; what is in the
\* buffer is forgotten, and so is a byte the divisor takes the place of.
SER_init ==
  /\ pc = "idle" /\ ~ready
  /\ ready' = TRUE
  /\ c' = Buff /\ p' = Buff /\ busy' = FALSE
  /\ \/ thr' = <<Divisor>> /\ UNCHANGED <<out, thre, irq>>
     \* the byte leaves before the interrupt is on
     \/ thr' = <<>> /\ thre' = TRUE /\ irq' = TRUE /\ UNCHANGED out
  /\ accepted' = out
  /\ UNCHANGED <<mem, locals, pc, IF_, started, offered>>

\* IRQ_start; main then has nothing to do but HLT.
Start ==
  /\ pc = "idle" /\ ready /\ ~started
  /\ started' = TRUE /\ IF_' = 1
  /\ UNCHANGED <<ser_state, uart, locals, ready, pc, history>>

\* The call, by a thread or by an interrupt handler (flag = 0).
Write(len, flag) ==
  /\ pc = "idle" /\ flag <= IF_ /\ offered + len <= MaxBytes
  /\ enable_ints' = (IRQ_are_interrupts_enabled /\ flag = 1)
  /\ IF_' = IF enable_ints' THEN 0 ELSE flag
  /\ left' = len
  /\ pc' = "produce"
  /\ UNCHANGED <<ser_state, uart, out_val, ready, started, history>>

\* The loop's condition; produce up to the store.
Produce ==
  /\ pc = "produce" /\ left > 0 /\ ~is_buff_full
  /\ mem' = [mem EXCEPT ![p] = offered + 1]
  /\ offered' = offered + 1
  /\ pc' = "advance_p"
  /\ UNCHANGED <<c, p, busy, uart, locals, cpu, accepted>>

\* All bytes are produced, or the buffer is full and the rest is dropped.
ProduceEnds ==
  /\ pc = "produce" /\ (left = 0 \/ is_buff_full)
  /\ offered' = offered + left
  /\ pc' = "test_busy"
  /\ UNCHANGED <<ser_state, uart, locals, cpu, accepted>>

AdvanceP ==
  /\ pc = "advance_p"
  /\ p' = p + 1
  /\ accepted' = Append(accepted, offered)
  /\ pc' = "wrap_p"
  /\ UNCHANGED <<mem, c, busy, uart, locals, cpu, offered>>

WrapP ==
  /\ pc = "wrap_p"
  /\ p' = Wrap(p)
  /\ left' = left - 1
  /\ pc' = "produce"
  /\ UNCHANGED <<mem, c, busy, uart, out_val, enable_ints, cpu, history>>

\* init_hw_write; consume in the middle of it.
TestBusy ==
  /\ pc = "test_busy"
  /\ pc' = IF busy THEN "read_lsr" ELSE "test_idle"
  /\ UNCHANGED <<ser_state, uart, locals, cpu, history>>

\* Mutant: bit 5 of the line status is taken for granted.
ReadLsrReady ==
  /\ pc = "read_lsr"
  /\ pc' = "clear_busy"
  /\ UNCHANGED <<ser_state, uart, locals, cpu, history>>

ReadLsr ==
  /\ pc = "read_lsr"
  /\ pc' = IF thr = <<>> THEN "clear_busy" ELSE "test_idle"
  /\ UNCHANGED <<ser_state, uart, locals, cpu, history>>

ClearBusy ==
  /\ pc = "clear_busy"
  /\ busy' = FALSE
  /\ pc' = "test_idle"
  /\ UNCHANGED <<mem, c, p, uart, locals, cpu, history>>

TestIdle ==
  /\ pc = "test_idle"
  /\ pc' = IF busy THEN "return" ELSE "consume"
  /\ UNCHANGED <<ser_state, uart, locals, cpu, history>>

Consume ==
  /\ pc = "consume"
  /\ IF is_buff_empty
       THEN pc' = "return" /\ UNCHANGED out_val
       ELSE pc' = "advance_c" /\ out_val' = ByteAt(c)
  /\ UNCHANGED <<ser_state, uart, enable_ints, left, cpu, history>>

AdvanceC ==
  /\ pc = "advance_c"
  /\ c' = c + 1
  /\ pc' = "wrap_c"
  /\ UNCHANGED <<mem, p, busy, uart, locals, cpu, history>>

WrapC ==
  /\ pc = "wrap_c"
  /\ c' = Wrap(c)
  /\ pc' = "set_busy"
  /\ UNCHANGED <<mem, p, busy, uart, locals, cpu, history>>

SetBusy ==
  /\ pc = "set_busy"
  /\ busy' = TRUE
  /\ pc' = "write_thr"
  /\ UNCHANGED <<mem, c, p, uart, locals, cpu, history>>

\* Writing the register takes the interrupt condition away, not the latch.
WriteThr ==
  /\ pc = "write_thr"
  /\ thr' = <<out_val>> /\ thre' = FALSE
  /\ pc' = "return"
  /\ UNCHANGED <<ser_state, irq, out, locals, cpu, history>>

\* STI if it was CLI; a handler's iretq restores the flag as well.
Return ==
  /\ pc = "return"
  /\ IF_' = IF started THEN 1 ELSE 0
  /\ pc' = "idle"
  /\ UNCHANGED <<ser_state, uart, locals, ready, started, history>>

-----------------------------------------------------------------------------
(* SER_flush, called by a failed assert, which then halts.                 *)

Flush ==
  /\ pc = "idle"
  /\ IF_' = 0
  /\ pc' = "flush"
  /\ UNCHANGED <<ser_state, uart, locals, ready, started, history>>

\* One iteration: the register is written whether or not it is empty.
FlushByte ==
  /\ pc = "flush" /\ ~is_buff_empty
  /\ out_val' = ByteAt(c)
  /\ c' = Wrap(c + 1)
  /\ thr' = <<out_val'>> /\ thre' = FALSE
  /\ UNCHANGED <<mem, p, busy, irq, out, enable_ints, left, pc, cpu, history>>

FlushEnds ==
  /\ pc = "flush" /\ is_buff_empty
  /\ busy' = FALSE
  /\ pc' = "halted"
  /\ UNCHANGED <<mem, c, p, uart, locals, cpu, history>>

-----------------------------------------------------------------------------
(* The UART, and ser_irq_handler.                                          *)

Transmit ==
  /\ thr # <<>>
  /\ out' = out \o Written(thr)
  /\ thr' = <<>> /\ thre' = ready /\ irq' = ready
  /\ UNCHANGED <<ser_state, locals, cpu, pc, history>>

\* Mutant: the handler does not send the next byte.
SerIrqHandlerStops ==
  /\ irq /\ IF_ = 1
  /\ irq' = FALSE /\ thre' = FALSE
  /\ busy' = IF thre THEN FALSE ELSE busy
  /\ UNCHANGED <<mem, c, p, thr, out, locals, cpu, pc, history>>

\* The handler: IIR says what happened, and reading it clears the condition;
\* without one (the register was written meanwhile) there is nothing to do.
\* Line status interrupts are not enabled.
SerIrqHandler ==
  /\ irq /\ IF_ = 1
  /\ irq' = FALSE /\ thre' = FALSE
  /\ IF thre /\ ~is_buff_empty
       THEN c' = Wrap(c + 1) /\ busy' = TRUE /\ thr' = <<ByteAt(c)>>
       ELSE busy' = (busy /\ ~thre) /\ UNCHANGED <<c, thr>>
  /\ UNCHANGED <<mem, p, out, locals, cpu, pc, history>>

Thread ==
  \/ Produce \/ ProduceEnds \/ AdvanceP \/ WrapP
  \/ TestBusy \/ ReadLsr \/ ClearBusy \/ TestIdle
  \/ Consume \/ AdvanceC \/ WrapC
  \/ SetBusy \/ WriteThr
  \/ Return
  \/ FlushByte \/ FlushEnds

Next ==
  \/ SER_init \/ Start
  \/ \E len \in 1 .. MaxLen, flag \in CallerIF : Write(len, flag)
  \/ Thread
  \/ Flush
  \/ Transmit
  \/ SerIrqHandler

Spec == Init /\ [][Next]_vars

\* The processor executes, kernel_main reaches IRQ_start, the UART transmits,
\* and an interrupt that stays pending is delivered.
FairSpec ==
  Spec /\ WF_vars(Thread) /\ WF_vars(SER_init) /\ WF_vars(Start)
  /\ WF_vars(Transmit) /\ WF_vars(SerIrqHandler)

-----------------------------------------------------------------------------
(* Properties.                                                             *)

\* Type invariant: before SER_init c and p stay below the buffer, then in it
\* but for the step before a wrap.
TypeOK ==
  /\ mem \in [0 .. Buff + BUFF_SIZE - 1 -> 0 .. MaxBytes]
  /\ ~ready => {c, p} \subseteq 0 .. MaxBytes
  /\ ready => /\ p \in Buff .. Buff + IF pc = "wrap_p" THEN BUFF_SIZE ELSE BUFF_SIZE - 1
             /\ c \in Buff .. Buff + IF pc = "wrap_c" THEN BUFF_SIZE ELSE BUFF_SIZE - 1
  /\ {busy, enable_ints, ready, started, thre, irq} \subseteq BOOLEAN /\ IF_ \in {0, 1}
  /\ out_val \in 0 .. MaxBytes /\ left \in 0 .. MaxLen
  /\ thr \in {<<>>} \cup {<<b>> : b \in 0 .. MaxBytes}
  /\ offered \in 0 .. MaxBytes /\ accepted \in Seq(1 .. MaxBytes)

\* The bytes from c up to p, and the one init_hw_write is about to send.
Pending ==
  LET from == Wrap(c)
      n == IF from <= Wrap(p) THEN Wrap(p) - from ELSE Wrap(p) - from + BUFF_SIZE
      At(k) == IF from + k >= Buff + BUFF_SIZE THEN from + k - BUFF_SIZE ELSE from + k
  IN [k \in 1 .. n |-> mem[At(k - 1)]]
InFlight == IF pc \in {"wrap_c", "set_busy", "write_thr"} THEN <<out_val>> ELSE <<>>

\* Every byte SER_write put in the buffer is exactly once in the output, in
\* the UART, on the way to it or in the buffer, in the order of the writes,
\* whichever of init_hw_write's two callers starts the next byte; what was
\* written before SER_init too, until then.
AcceptedBytesKept ==
  pc \notin {"flush", "halted"} => accepted = out \o Written(thr) \o InFlight \o Pending

\* Neither SER_flush nor SER_init repeats a byte or sends one before an earlier
\* one (both may lose some: the former does not wait for the register to be
\* empty, the latter forgets what is in the buffer).
NeverReordered ==
  \A j, k \in DOMAIN out : j < k => out[j] < out[k]

\* Every byte put in the buffer after SER_init is sent, even if nothing is
\* written after it.
EveryByteSent ==
  \A b \in 1 .. MaxBytes :
    ready /\ Contains(accepted, b) ~> Contains(out, b) \/ pc \in {"flush", "halted"}

\* The assertions at serial.c:163, 170, 177 and 196, on the flag itself:
\* "assert_noprint(!IRQ_are_interrupts_enabled())".
InterruptsOffInBuffer ==
  pc \in {"produce", "advance_p", "wrap_p", "consume", "advance_c", "wrap_c"} => IF_ = 0
=============================================================================
