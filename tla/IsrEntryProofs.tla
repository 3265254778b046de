--------------------------- MODULE IsrEntryProofs ---------------------------
(***************************************************************************)
(* Proofs about IsrEntry: an interrupt finds its own frame under what it   *)
(* pushed, and one without an error code leaves the registers as they      *)
(* were, however interrupts nest.                                          *)
(*                                                                         *)
(* The position in a stub says how many words are above the frame (Depth)  *)
(* and which register is in each (Order).  The levels of nesting share     *)
(* stacks, but what a level has saved is below where the next one writes.  *)
(***************************************************************************)
EXTENDS IsrEntry, SequenceTheorems, TLAPS

-----------------------------------------------------------------------------
(* The stubs.                                                              *)

OpNames == {"push", "pop", "load", "store", "imm", "call", "body", "iretq"}
Ops == [op : OpNames, reg : Registers, k : Nat]

Erring(v) == v \in error_isrs
StubLen(v) == IF Erring(v) THEN 24 ELSE 21
CallAt(v) == IF Erring(v) THEN 14 ELSE 11

\* The words above the frame before the instruction at p is executed.
Depth(v, p) ==
  IF Erring(v) THEN IF p = 1 THEN 1 ELSE IF p <= 3 THEN 2
                    ELSE IF p = 4 THEN 3 ELSE IF p <= 6 THEN 4 ELSE IF p = 7 THEN 3
                    ELSE IF p <= 14 THEN p - 5 ELSE 24 - p
  ELSE IF p <= 2 THEN p - 1 ELSE IF p <= 11 THEN p - 2 ELSE 21 - p

\* The register in each of them, in a stub without an error code.
Order == <<"rdi", "rsi", "rax", "rcx", "rdx", "r8", "r9", "r10", "r11">>

\* The code from the instruction at p, and inside isr_helper.
Rest(v, p) == SubSeq(isr_stub(v), p, Len(isr_stub(v)))
InBody(v) == <<body>> \o Rest(v, CallAt(v) + 1)


\* The pushes and pops of isr_general.
Pushes == [n \in 1 .. 6 |-> push(Saved[n])]
Pops == [n \in 1 .. 6 |-> pop(Reverse(Saved)[n])]
Ending == <<pop("rax"), pop("rsi"), pop("rdi"), iretq>>

LEMMA OpsTyped ==
  /\ \A r \in Registers : push(r) \in Ops /\ pop(r) \in Ops
  /\ \A r \in Registers, n \in Nat : load(r, n) \in Ops /\ store(n, r) \in Ops /\ imm(r, n) \in Ops
  /\ call \in Ops /\ body \in Ops /\ iretq \in Ops
BY DEF Ops, OpNames, Registers, push, pop, load, store, imm, call, body, iretq

LEMMA SavedProps ==
  /\ \A n \in 1 .. 6 : Saved[n] \in Registers /\ Reverse(Saved)[n] = Saved[7 - n]
  /\ \A n \in 1 .. 6 : Saved[n] = Order[n + 3]
BY DEF Saved, Order, Reverse, Registers

LEMMA PushesTyped == Pushes \in Seq(Ops) /\ Len(Pushes) = 6
  /\ \A n \in 1 .. 6 : Pushes[n] = push(Order[n + 3])
<1>1. \A n \in 1 .. 6 : push(Saved[n]) \in Ops
  BY OpsTyped, SavedProps
<1>2. Pushes \in [1 .. 6 -> Ops]
  BY <1>1 DEF Pushes
<1>3. Pushes \in Seq(Ops)
  BY <1>2, SeqDef
<1>4. Len(Pushes) = 6
  BY <1>2, <1>3, LenProperties
<1> QED BY <1>3, <1>4, SavedProps DEF Pushes

LEMMA PopsTyped == Pops \in Seq(Ops) /\ Len(Pops) = 6
  /\ \A n \in 1 .. 6 : Pops[n] = pop(Order[10 - n])
<1>1. \A n \in 1 .. 6 : pop(Reverse(Saved)[n]) \in Ops /\ Reverse(Saved)[n] = Order[10 - n]
  <2> TAKE n \in 1 .. 6
  <2>1. Reverse(Saved)[n] = Saved[7 - n] /\ 7 - n \in 1 .. 6
    BY SavedProps
  <2>2. Saved[7 - n] = Order[10 - n] /\ Saved[7 - n] \in Registers
    BY <2>1, SavedProps
  <2> QED BY <2>1, <2>2, OpsTyped
<1>2. Pops \in [1 .. 6 -> Ops]
  BY <1>1 DEF Pops
<1>3. Pops \in Seq(Ops)
  BY <1>2, SeqDef
<1>4. Len(Pops) = 6
  BY <1>2, <1>3, LenProperties
<1> QED BY <1>3, <1>4, <1>1 DEF Pops

\* A stub is joined from short pieces.
LEMMA Pieces ==
  ASSUME NEW x \in Ops, NEW y \in Ops
  PROVE  /\ <<x>> \in Seq(Ops) /\ Len(<<x>>) = 1 /\ <<x>>[1] = x
         /\ <<x, y>> \in Seq(Ops) /\ Len(<<x, y>>) = 2
         /\ <<x, y>>[1] = x /\ <<x, y>>[2] = y
OBVIOUS

LEMMA EndingTyped == Ending \in Seq(Ops) /\ Len(Ending) = 4
  /\ Ending[1] = pop("rax") /\ Ending[2] = pop("rsi") /\ Ending[3] = pop("rdi")
  /\ Ending[4] = iretq
<1>1. pop("rax") \in Ops /\ pop("rsi") \in Ops /\ pop("rdi") \in Ops /\ iretq \in Ops
  BY OpsTyped DEF Registers
<1>2. \A x, y, z, w \in Ops : <<x, y, z, w>> \in Seq(Ops) /\ Len(<<x, y, z, w>>) = 4
  OBVIOUS
<1> QED BY <1>1, <1>2 DEF Ending

LEMMA General ==
  /\ isr_general \in Seq(Ops) /\ Len(isr_general) = 17
  /\ \A n \in 1 .. 6 : isr_general[n] = push(Order[n + 3])
  /\ isr_general[7] = call
  /\ \A n \in 8 .. 13 : isr_general[n] = pop(Order[17 - n])
  /\ isr_general[14] = pop("rax") /\ isr_general[15] = pop("rsi")
  /\ isr_general[16] = pop("rdi") /\ isr_general[17] = iretq
<1> DEFINE c == <<call>>
           a == Pushes \o c
           b == a \o Pops
           g == b \o Ending
<1>0. isr_general = g
  BY DEF isr_general, Pushes, Pops, Ending
<1>1. c \in Seq(Ops) /\ Len(c) = 1 /\ c[1] = call
  BY OpsTyped, Pieces
<1> HIDE DEF c
<1>2. a \in Seq(Ops) /\ Len(a) = 7 /\ (\A n \in 1 .. 6 : a[n] = Pushes[n]) /\ a[7] = call
  <2>1. a \in Seq(Ops) /\ Len(a) = Len(Pushes) + Len(c)
        /\ \A i \in 1 .. Len(Pushes) + Len(c) :
             a[i] = IF i <= Len(Pushes) THEN Pushes[i] ELSE c[i - Len(Pushes)]
    BY <1>1, PushesTyped, ConcatProperties, Zenon
  <2> HIDE DEF a
  <2> QED BY <2>1, <1>1, PushesTyped
<1> HIDE DEF a
<1>3. b \in Seq(Ops) /\ Len(b) = 13 /\ (\A n \in 1 .. 7 : b[n] = a[n])
      /\ (\A n \in 8 .. 13 : b[n] = Pops[n - 7])
  <2>1. b \in Seq(Ops) /\ Len(b) = Len(a) + Len(Pops)
        /\ \A i \in 1 .. Len(a) + Len(Pops) :
             b[i] = IF i <= Len(a) THEN a[i] ELSE Pops[i - Len(a)]
    BY <1>2, PopsTyped, ConcatProperties, Zenon
  <2> HIDE DEF b
  <2> QED BY <2>1, <1>2, PopsTyped
<1> HIDE DEF b
<1>4. g \in Seq(Ops) /\ Len(g) = 17 /\ (\A n \in 1 .. 13 : g[n] = b[n])
      /\ (\A n \in 14 .. 17 : g[n] = Ending[n - 13])
  <2>1. g \in Seq(Ops) /\ Len(g) = Len(b) + Len(Ending)
        /\ \A i \in 1 .. Len(b) + Len(Ending) :
             g[i] = IF i <= Len(b) THEN b[i] ELSE Ending[i - Len(b)]
    BY <1>3, EndingTyped, ConcatProperties, ZenonT(30)
  <2> HIDE DEF g
  <2> QED BY <2>1, <1>3, EndingTyped
<1> HIDE DEF g
<1>5. \A n \in 8 .. 13 : Pops[n - 7] = pop(Order[17 - n])
  <2> TAKE n \in 8 .. 13
  <2>1. n - 7 \in 1 .. 6 /\ 10 - (n - 7) = 17 - n
    OBVIOUS
  <2> QED BY <2>1, PopsTyped
<1>6. \A n \in 8 .. 13 : g[n] = pop(Order[17 - n])
  BY <1>3, <1>4, <1>5, SMTT(30)
<1>7. \A n \in 1 .. 6 : g[n] = push(Order[n + 3])
  <2> TAKE n \in 1 .. 6
  <2>1. g[n] = b[n] /\ b[n] = a[n] /\ a[n] = Pushes[n]
    BY <1>2, <1>3, <1>4, SMTT(30)
  <2> QED BY <2>1, PushesTyped
<1>8. g[7] = call
  BY <1>2, <1>3, <1>4
<1>9. g[14] = pop("rax") /\ g[15] = pop("rsi") /\ g[16] = pop("rdi") /\ g[17] = iretq
  BY <1>4, EndingTyped
<1> QED BY <1>0, <1>4, <1>6, <1>7, <1>8, <1>9

\* The vectors of the IDT.
Vectors == 0 .. 255

LEMMA PlainStub ==
  ASSUME NEW v \in Vectors, ~Erring(v)
  PROVE  /\ isr_stub(v) \in Seq(Ops) /\ Len(isr_stub(v)) = 21
         /\ isr_stub(v)[1] = push("rdi") /\ isr_stub(v)[2] = imm("rdi", v)
         /\ isr_stub(v)[3] = push("rsi") /\ isr_stub(v)[4] = push("rax")
         /\ \A n \in 5 .. 21 : isr_stub(v)[n] = isr_general[n - 4]
<1> DEFINE h == <<push("rdi"), imm("rdi", v)>>
           a == h \o isr_nonerror
           s == a \o isr_general
<1>0. isr_stub(v) = s
  BY DEF isr_stub, Erring
<1>1. h \in Seq(Ops) /\ Len(h) = 2 /\ h[1] = push("rdi") /\ h[2] = imm("rdi", v)
  <2>1. push("rdi") \in Ops /\ imm("rdi", v) \in Ops
    BY OpsTyped DEF Vectors, Registers
  <2> QED BY <2>1, Pieces
<1>2. isr_nonerror \in Seq(Ops) /\ Len(isr_nonerror) = 2
      /\ isr_nonerror[1] = push("rsi") /\ isr_nonerror[2] = push("rax")
  <2>1. push("rsi") \in Ops /\ push("rax") \in Ops
    BY OpsTyped DEF Registers
  <2> QED BY <2>1, Pieces DEF isr_nonerror
<1> HIDE DEF h
<1>3. a \in Seq(Ops) /\ Len(a) = 4 /\ a[1] = h[1] /\ a[2] = h[2]
      /\ a[3] = isr_nonerror[1] /\ a[4] = isr_nonerror[2]
  <2>1. a \in Seq(Ops) /\ Len(a) = Len(h) + Len(isr_nonerror)
        /\ \A i \in 1 .. Len(h) + Len(isr_nonerror) :
             a[i] = IF i <= Len(h) THEN h[i] ELSE isr_nonerror[i - Len(h)]
    BY <1>1, <1>2, ConcatProperties, Zenon
  <2> HIDE DEF a
  <2> QED BY <2>1, <1>1, <1>2
<1> HIDE DEF a
<1>4. s \in Seq(Ops) /\ Len(s) = 21 /\ (\A n \in 1 .. 4 : s[n] = a[n])
      /\ \A n \in 5 .. 21 : s[n] = isr_general[n - 4]
  <2>1. s \in Seq(Ops) /\ Len(s) = Len(a) + Len(isr_general)
        /\ \A i \in 1 .. Len(a) + Len(isr_general) :
             s[i] = IF i <= Len(a) THEN a[i] ELSE isr_general[i - Len(a)]
    BY <1>3, General, ConcatProperties, Zenon
  <2>2. Len(a) = 4 /\ Len(isr_general) = 17
    BY <1>3, General
  <2> HIDE DEF s
  <2> QED BY <2>1, <2>2
<1> HIDE DEF s
<1>5. s[1] = a[1] /\ s[2] = a[2] /\ s[3] = a[3] /\ s[4] = a[4]
  BY <1>4
<1> QED BY <1>0, <1>1, <1>2, <1>3, <1>4, <1>5

LEMMA ErringStub ==
  ASSUME NEW v \in Vectors, Erring(v)
  PROVE  /\ isr_stub(v) \in Seq(Ops) /\ Len(isr_stub(v)) = 24
         /\ isr_stub(v)[1] = push("rdi") /\ isr_stub(v)[2] = imm("rdi", v)
         /\ isr_stub(v)[3] = push("rax") /\ isr_stub(v)[4] = push("rsi")
         /\ isr_stub(v)[5] = load("rsi", 2) /\ isr_stub(v)[6] = pop("rax")
         /\ isr_stub(v)[7] = store(1, "rax")
         /\ \A n \in 8 .. 24 : isr_stub(v)[n] = isr_general[n - 7]
<1> DEFINE h == <<push("rdi"), imm("rdi", v)>>
           a == h \o isr_error
           s == a \o isr_general
<1>0. isr_stub(v) = s
  BY DEF isr_stub, Erring
<1>1. h \in Seq(Ops) /\ Len(h) = 2 /\ h[1] = push("rdi") /\ h[2] = imm("rdi", v)
  <2>1. push("rdi") \in Ops /\ imm("rdi", v) \in Ops
    BY OpsTyped DEF Vectors, Registers
  <2> QED BY <2>1, Pieces
<1>2. isr_error \in Seq(Ops) /\ Len(isr_error) = 5
      /\ isr_error[1] = push("rax") /\ isr_error[2] = push("rsi")
      /\ isr_error[3] = load("rsi", 2) /\ isr_error[4] = pop("rax")
      /\ isr_error[5] = store(1, "rax")
  <2>1. push("rax") \in Ops /\ push("rsi") \in Ops /\ load("rsi", 2) \in Ops
        /\ pop("rax") \in Ops /\ store(1, "rax") \in Ops
    BY OpsTyped DEF Registers
  <2>2. \A x, y, z, w, u \in Ops :
          <<x, y, z, w, u>> \in Seq(Ops) /\ Len(<<x, y, z, w, u>>) = 5
    OBVIOUS
  <2> QED BY <2>1, <2>2 DEF isr_error
<1> HIDE DEF h
<1>3. a \in Seq(Ops) /\ Len(a) = 7 /\ a[1] = h[1] /\ a[2] = h[2]
      /\ a[3] = isr_error[1] /\ a[4] = isr_error[2] /\ a[5] = isr_error[3]
      /\ a[6] = isr_error[4] /\ a[7] = isr_error[5]
  <2>1. a \in Seq(Ops) /\ Len(a) = Len(h) + Len(isr_error)
        /\ \A i \in 1 .. Len(h) + Len(isr_error) :
             a[i] = IF i <= Len(h) THEN h[i] ELSE isr_error[i - Len(h)]
    BY <1>1, <1>2, ConcatProperties, Zenon
  <2> HIDE DEF a
  <2> QED BY <2>1, <1>1, <1>2
<1> HIDE DEF a
<1>4. s \in Seq(Ops) /\ Len(s) = 24 /\ (\A n \in 1 .. 7 : s[n] = a[n])
      /\ \A n \in 8 .. 24 : s[n] = isr_general[n - 7]
  <2>1. s \in Seq(Ops) /\ Len(s) = Len(a) + Len(isr_general)
        /\ \A i \in 1 .. Len(a) + Len(isr_general) :
             s[i] = IF i <= Len(a) THEN a[i] ELSE isr_general[i - Len(a)]
    BY <1>3, General, ConcatProperties, Zenon
  <2>2. Len(a) = 7 /\ Len(isr_general) = 17
    BY <1>3, General
  <2> HIDE DEF s
  <2> QED BY <2>1, <2>2
<1> HIDE DEF s
<1>5. s[1] = a[1] /\ s[2] = a[2] /\ s[3] = a[3] /\ s[4] = a[4]
      /\ s[5] = a[5] /\ s[6] = a[6] /\ s[7] = a[7]
  BY <1>4
<1> QED BY <1>0, <1>1, <1>2, <1>3, <1>4, <1>5

\* What the instruction at p of a stub does to the depth, and which register
\* a push or a pop moves.
Does(v, p) ==
  LET o == isr_stub(v)[p]  d == Depth(v, p)  e == Depth(v, p + 1)
  IN /\ o \in Ops /\ o.op # "body"
     /\ o.op = "push" => e = d + 1 /\ d <= 8 /\ (~Erring(v) => o.reg = Order[d + 1])
     /\ o.op = "pop" => e = d - 1 /\ (~Erring(v) => o.reg = Order[d])
     /\ o.op \in {"load", "store"} => Erring(v) /\ e = d /\ o.k < d
     /\ o.op = "imm" => e = d /\ d >= 1 /\ o.reg = "rdi"
     /\ o.op = "call" => o = call /\ p = CallAt(v) /\ e = d
     /\ o.op = "iretq" => d = 0
     /\ o.op # "iretq" => p + 1 <= StubLen(v)

LEMMA Instructions ==
  ASSUME NEW v \in Vectors, NEW p \in 1 .. StubLen(v)
  PROVE  Does(v, p)
<1> USE DEF push, pop, load, store, imm, call, iretq, Depth, StubLen, CallAt, Order
<1>0. isr_stub(v)[p] \in Ops
  <2>1. isr_stub(v) \in Seq(Ops) /\ Len(isr_stub(v)) = StubLen(v)
    BY PlainStub, ErringStub
  <2> QED BY <2>1, ElementOfSeq
<1>1. CASE ~Erring(v)
  <2>0. /\ isr_stub(v)[1] = push("rdi") /\ isr_stub(v)[2] = imm("rdi", v)
        /\ isr_stub(v)[3] = push("rsi") /\ isr_stub(v)[4] = push("rax")
        /\ \A n \in 5 .. 21 : isr_stub(v)[n] = isr_general[n - 4]
    BY <1>1, PlainStub, Zenon
  <2>1. CASE p \in 1 .. 4
    <3>1. p = 1 \/ p = 2 \/ p = 3 \/ p = 4
      BY <2>1
    <3> QED BY <3>1, <1>0, <1>1, <2>0 DEF Does
  <2>2. CASE p \in 5 .. 10
    <3>1. isr_stub(v)[p] = isr_general[p - 4] /\ p - 4 \in 1 .. 6
      BY <2>2, <1>1, <2>0
    <3>2. isr_stub(v)[p] = push(Order[p - 1])
      BY <3>1, General, SMTT(30)
    <3> QED BY <2>2, <3>2, <1>0, <1>1 DEF Does
  <2>3. CASE p = 11
    <3>1. isr_stub(v)[p] = isr_general[7]
      BY <2>3, <1>1, <2>0
    <3> QED BY <2>3, <3>1, General, <1>0, <1>1 DEF Does
  <2>4. CASE p \in 12 .. 17
    <3>1. isr_stub(v)[p] = isr_general[p - 4] /\ p - 4 \in 8 .. 13 /\ 17 - (p - 4) = 21 - p
      BY <2>4, <1>1, <2>0
    <3>2. isr_stub(v)[p] = pop(Order[21 - p])
      BY <3>1, General
    <3> QED BY <2>4, <3>2, <1>0, <1>1 DEF Does
  <2>5. CASE p \in 18 .. 21
    <3>1. p = 18 \/ p = 19 \/ p = 20 \/ p = 21
      BY <2>5
    <3>2. isr_stub(v)[p] = isr_general[p - 4]
      BY <2>5, <1>1, <2>0
    <3> QED BY <3>1, <3>2, <1>0, <1>1, General, SMTT(30) DEF Does
  <2> QED BY <1>1, <2>1, <2>2, <2>3, <2>4, <2>5
<1>2. CASE Erring(v)
  <2>0. /\ isr_stub(v)[1] = push("rdi") /\ isr_stub(v)[2] = imm("rdi", v)
        /\ isr_stub(v)[3] = push("rax") /\ isr_stub(v)[4] = push("rsi")
        /\ isr_stub(v)[5] = load("rsi", 2) /\ isr_stub(v)[6] = pop("rax")
        /\ isr_stub(v)[7] = store(1, "rax")
        /\ \A n \in 8 .. 24 : isr_stub(v)[n] = isr_general[n - 7]
    BY <1>2, ErringStub, Zenon
  <2>1. CASE p \in 1 .. 7
    <3>1. p = 1 \/ p = 2 \/ p = 3 \/ p = 4 \/ p = 5 \/ p = 6 \/ p = 7
      BY <2>1
    <3> QED BY <3>1, <1>0, <1>2, <2>0 DEF Does
  <2>2. CASE p \in 8 .. 13
    <3>1. isr_stub(v)[p] = isr_general[p - 7] /\ p - 7 \in 1 .. 6
      BY <2>2, <1>2, <2>0
    <3>2. isr_stub(v)[p].op = "push"
      BY <3>1, General, SMTT(30)
    <3> QED BY <2>2, <3>2, <1>0, <1>2 DEF Does
  <2>3. CASE p = 14
    <3>1. isr_stub(v)[p] = isr_general[7]
      BY <2>3, <1>2, <2>0
    <3> QED BY <2>3, <3>1, General, <1>0, <1>2 DEF Does
  <2>4. CASE p \in 15 .. 20
    <3>1. isr_stub(v)[p] = isr_general[p - 7] /\ p - 7 \in 8 .. 13
      BY <2>4, <1>2, <2>0
    <3>2. isr_stub(v)[p].op = "pop"
      BY <3>1, General, SMTT(30)
    <3> QED BY <2>4, <3>2, <1>0, <1>2 DEF Does
  <2>5. CASE p \in 21 .. 24
    <3>1. p = 21 \/ p = 22 \/ p = 23 \/ p = 24
      BY <2>5
    <3>2. isr_stub(v)[p] = isr_general[p - 7]
      BY <2>5, <1>2, <2>0
    <3> QED BY <3>1, <3>2, <1>0, <1>2, General, SMTT(30) DEF Does
  <2> QED BY <1>2, <2>1, <2>2, <2>3, <2>4, <2>5
<1> QED BY <1>1, <1>2

-----------------------------------------------------------------------------
(* The inductive invariant.                                                *)

\* How deep an exception can be nested.
Ranks(rank) ==
  /\ \A v \in External : rank[0] < rank[v]
  /\ \A u \in DOMAIN MayRaise : \A v \in MayRaise[u] : rank[u] < rank[v]
Rank == CHOOSE rank \in [DOMAIN MayRaise -> 0 .. StackWords \div IsrWords] : Ranks(rank)

\* Level k of the nesting, 0 the program: its vector, its frame, and where it
\* is or was interrupted.
Vec(k) == IF k = 0 THEN 0 ELSE interrupted[k].vector
Base(k) == interrupted[k].frame
StackAt(k) == IF k = Level THEN stack ELSE interrupted[k + 1].stack
SpAt(k) == IF k = Level THEN sp ELSE interrupted[k + 1].sp
CodeAt(k) == IF k = Level THEN code ELSE interrupted[k + 1].code
FlagAt(k) == IF k = Level THEN IF_ ELSE interrupted[k + 1].flag

Context(k) == [code |-> CodeAt(k), stack |-> StackAt(k), sp |-> SpAt(k), flag |-> FlagAt(k)]

Kinds == Registers \cup {"free", "error_code", "number"}
Contexts == [code : Seq(Ops), stack : Stacks, sp : 0 .. StackWords, flag : {0, 1}]
Words == (Kinds \X Nat) \cup ({"frame"} \X Contexts)
Records ==
  [vector : External \cup Exceptions, regs : [Registers -> Words], code : Seq(Ops),
   stack : Stacks, sp : 0 .. StackWords, flag : {0, 1}, frame : 1 .. StackWords]

TypeInv ==
  /\ regs \in [Registers -> Words]
  /\ mem \in [Stacks -> [1 .. StackWords -> Words]]
  /\ stack \in Stacks /\ sp \in 0 .. StackWords /\ code \in Seq(Ops) /\ IF_ \in {0, 1}
  /\ interrupted \in Seq(Records)

\* Interrupts nest by rank; the program is at the bottom, and only it runs
\* with interrupts on.
Nesting ==
  /\ \A k \in 0 .. Level : Rank[Vec(k)] >= k
  /\ \A i, j \in 0 .. Level : i < j => Rank[Vec(i)] < Rank[Vec(j)]
  /\ CodeAt(0) = <<>> /\ StackAt(0) = "stack" /\ SpAt(0) = 0
  /\ \A k \in 1 .. Level : FlagAt(k) = 0

\* Each level has room, and what it left on a stack is below the frame of a
\* later one on the same stack.
Room ==
  /\ \A k \in 0 .. Level : SpAt(k) <= 10 * k
  /\ \A k \in 1 .. Level : Base(k) <= 10 * k - 9
  /\ \A k \in 0 .. Level, x \in 1 .. 3 :
       StackAt(k) = tss[x] => \E j \in 1 .. k : ist(Vec(j)) = x
  /\ \A i, j \in 0 .. Level : i < j /\ StackAt(i) = StackAt(j) => SpAt(i) < Base(j)

\* Handlers are interrupted inside isr_helper; the last level is anywhere.
Waiting ==
  \A k \in 1 .. Level - 1 : CodeAt(k) = InBody(Vec(k)) /\ SpAt(k) = Base(k) + 9

InStub(p) ==
  code = Rest(Vec(Level), p) /\ sp = Base(Level) + Depth(Vec(Level), p)
Running ==
  Level > 0 => \/ code = InBody(Vec(Level)) /\ sp = Base(Level) + 9
               \/ \E p \in 1 .. StubLen(Vec(Level)) : InStub(p)

\* What each level has saved: the frame, and the registers above it.
FrameSaved(k) == mem[StackAt(k)][Base(k)] = Frame(Context(k - 1))
RegsSaved(k) ==
  ~Erring(Vec(k)) => \A d \in 1 .. 9 : Base(k) + d <= SpAt(k) =>
    mem[StackAt(k)][Base(k) + d] = interrupted[k].regs[Order[d]]
\* And the registers the last level has not saved, or has back.
RegsKept ==
  Level > 0 /\ ~Erring(Vec(Level)) => \A d \in 1 .. 9 : Base(Level) + d > sp =>
    regs[Order[d]] = interrupted[Level].regs[Order[d]]

AllSaved == \A k \in 1 .. Level : FrameSaved(k) /\ RegsSaved(k)

IInv == TypeInv /\ Nesting /\ Room /\ Waiting /\ Running /\ AllSaved /\ RegsKept

-----------------------------------------------------------------------------
(* Lemmas about the definitions.                                           *)

LEMMA RankProps ==
  /\ 0 \in DOMAIN MayRaise /\ External \cup Exceptions \subseteq DOMAIN MayRaise
  /\ External \cup Exceptions \subseteq Vectors /\ 0 \notin External \cup Exceptions
  /\ \A v \in DOMAIN MayRaise : Rank[v] \in Nat /\ 10 * Rank[v] <= StackWords
  /\ \A v \in External : Rank[0] < Rank[v]
  /\ \A u \in DOMAIN MayRaise : \A v \in MayRaise[u] : v \in Exceptions /\ Rank[u] < Rank[v]
<1> DEFINE S == [DOMAIN MayRaise -> 0 .. StackWords \div IsrWords]
<1>1. \E rank \in S : Ranks(rank)
  BY IsrEntryAssumption DEF Ranks
<1>2. Rank \in S /\ Ranks(Rank)
  BY <1>1 DEF Rank
<1>3. \A x \in 0 .. StackWords \div IsrWords : x \in Nat /\ 10 * x <= StackWords
  BY IsrEntryAssumption DEF IsrWords
<1>4. DOMAIN MayRaise = {0} \cup External \cup Exceptions
      /\ External \subseteq 32 .. 47 /\ Exceptions \subseteq 1 .. 31
  BY IsrEntryAssumption
<1>5. \A u \in DOMAIN MayRaise : \A v \in MayRaise[u] : v \in Exceptions
  BY DEF Exceptions
<1>6. 0 \in DOMAIN MayRaise /\ External \cup Exceptions \subseteq DOMAIN MayRaise
      /\ External \cup Exceptions \subseteq Vectors /\ 0 \notin External \cup Exceptions
  BY <1>4 DEF Vectors
<1>7. \A v \in DOMAIN MayRaise : Rank[v] \in Nat /\ 10 * Rank[v] <= StackWords
  BY <1>2, <1>3
<1>8. /\ \A v \in External : Rank[0] < Rank[v]
      /\ \A u \in DOMAIN MayRaise : \A v \in MayRaise[u] : Rank[u] < Rank[v]
  BY <1>2 DEF Ranks
<1> QED BY <1>5, <1>6, <1>7, <1>8

LEMMA StubTyped ==
  ASSUME NEW v \in Vectors
  PROVE  isr_stub(v) \in Seq(Ops) /\ Len(isr_stub(v)) = StubLen(v)
BY PlainStub, ErringStub DEF StubLen

\* The code from p on begins with the instruction at p.
LEMMA RestProps ==
  ASSUME NEW v \in Vectors, NEW p \in 1 .. StubLen(v)
  PROVE  /\ Rest(v, p) \in Seq(Ops) /\ Rest(v, p) # <<>>
         /\ Rest(v, p)[1] = isr_stub(v)[p]
         /\ p + 1 <= StubLen(v) => Tail(Rest(v, p)) = Rest(v, p + 1)
<1> DEFINE s == isr_stub(v)
<1>1. s \in Seq(Ops) /\ Len(s) = StubLen(v) /\ StubLen(v) \in Nat
  BY StubTyped DEF StubLen
<1> HIDE DEF s
<1>2. \A i \in p .. Len(s) : s[i] \in Ops
  BY <1>1, ElementOfSeq
<1>3. /\ SubSeq(s, p, Len(s)) \in Seq(Ops)
      /\ Len(SubSeq(s, p, Len(s))) = IF p <= Len(s) THEN Len(s) - p + 1 ELSE 0
      /\ \A i \in 1 .. Len(s) - p + 1 : SubSeq(s, p, Len(s))[i] = s[p + i - 1]
  <2>1. p \in Int /\ Len(s) \in Int
    BY <1>1
  <2> HIDE DEF s
  <2> QED BY <1>2, <2>1, SubSeqProperties
<1> DEFINE r == SubSeq(s, p, Len(s))
<1>4. r \in Seq(Ops) /\ Len(r) = Len(s) - p + 1 /\ r[1] = s[p] /\ Len(r) > 0
  BY <1>3, <1>1
<1>5. p + 1 <= StubLen(v) => Tail(r) = SubSeq(s, p + 1, Len(s))
  <2>1. p \in 1 .. Len(s) /\ Len(s) \in p .. Len(s)
    BY <1>1
  <2> QED BY <1>1, <2>1, HeadTailOfSubSeq
<1> HIDE DEF r
<1>6. r # <<>>
  BY <1>4
<1> QED BY <1>4, <1>5, <1>6 DEF r, s, Rest

LEMMA BodyProps ==
  ASSUME NEW v \in Vectors
  PROVE  /\ InBody(v) \in Seq(Ops) /\ InBody(v) # <<>> /\ InBody(v)[1] = body
         /\ CallAt(v) + 1 \in 1 .. StubLen(v) /\ Depth(v, CallAt(v) + 1) = 9
         /\ Tail(InBody(v)) = Rest(v, CallAt(v) + 1)
<1> DEFINE b == <<body>>  r == Rest(v, CallAt(v) + 1)  s == b \o r
<1>1. CallAt(v) + 1 \in 1 .. StubLen(v) /\ Depth(v, CallAt(v) + 1) = 9
  BY DEF CallAt, StubLen, Depth
<1>2. r \in Seq(Ops)
  BY <1>1, RestProps
<1>3. b \in Seq(Ops) /\ Len(b) = 1 /\ b[1] = body
  BY OpsTyped, Pieces
<1> HIDE DEF r, b
<1>4. s \in Seq(Ops) /\ Len(s) = Len(b) + Len(r)
      /\ \A i \in 1 .. Len(b) + Len(r) : s[i] = IF i <= Len(b) THEN b[i] ELSE r[i - Len(b)]
  BY <1>2, <1>3, ConcatProperties, Zenon
<1> HIDE DEF s
<1>5. Len(r) \in Nat
  BY <1>2, LenProperties
<1>6. Len(s) = 1 + Len(r) /\ s[1] = body /\ \A i \in 1 .. Len(r) : s[i + 1] = r[i]
  BY <1>3, <1>4, <1>5
<1>7. s # <<>>
  BY <1>4, <1>5, <1>6
<1>8. Tail(s) \in Seq(Ops) /\ Len(Tail(s)) = Len(s) - 1
      /\ \A i \in 1 .. Len(Tail(s)) : Tail(s)[i] = s[i + 1]
  BY <1>4, <1>7, HeadTailProperties, Zenon
<1>9. Tail(s) = r
  <2>1. Len(Tail(s)) = Len(r) /\ \A i \in 1 .. Len(Tail(s)) : Tail(s)[i] = r[i]
    BY <1>5, <1>6, <1>8
  <2> QED BY <1>2, <1>8, <2>1, SeqEqual, Zenon
<1> QED BY <1>1, <1>4, <1>6, <1>7, <1>9 DEF s, b, r, InBody

LEMMA WordsTyped ==
  /\ \A level \in Nat : Scratch(level) \in [Registers -> Words]
  /\ Free \in Words /\ ErrorCode \in Words
  /\ \A v \in Nat : Number(v) \in Words
  /\ \A c \in Contexts : Frame(c) \in Words
<1>1. Kinds \X Nat \subseteq Words /\ {"frame"} \X Contexts \subseteq Words
  BY DEF Words
<1> HIDE DEF Words
<1>2. \A level \in Nat, r \in Registers : <<r, level>> \in Kinds \X Nat
  BY DEF Kinds
<1>3. \A level \in Nat : Scratch(level) \in [Registers -> Words]
  BY <1>1, <1>2 DEF Scratch
<1>4. Free \in Words /\ ErrorCode \in Words
  BY <1>1 DEF Free, ErrorCode, Kinds
<1>5. \A v \in Nat : Number(v) \in Words
  BY <1>1 DEF Number, Kinds
<1>6. \A c \in Contexts : Frame(c) \in Words
  BY <1>1 DEF Frame
<1> QED BY <1>3, <1>4, <1>5, <1>6

LEMMA StacksProps ==
  /\ "stack" \in Stacks /\ \A x \in 1 .. 3 : tss[x] \in Stacks /\ tss[x] # "stack"
  /\ \A x, y \in 1 .. 3 : tss[x] = tss[y] => x = y
  /\ \A v \in Vectors : ist(v) \in 0 .. 3
  /\ \A v, w \in Vectors : ist(v) # 0 /\ ist(v) = ist(w) => v = w
<1>1. Stacks = {"stack", "gp_stack", "df_stack", "pf_stack"}
  BY DEF Stacks, tss, Range
<1>2. "stack" \in Stacks /\ \A x \in 1 .. 3 : tss[x] \in Stacks /\ tss[x] # "stack"
  BY <1>1 DEF tss
<1>3. \A x, y \in 1 .. 3 : tss[x] = tss[y] => x = y
  BY DEF tss
<1>4. \A v \in Vectors : ist(v) \in 0 .. 3
  BY DEF Vectors, ist
<1>5. \A v, w \in Vectors : ist(v) # 0 /\ ist(v) = ist(w) => v = w
  BY DEF Vectors, ist
<1> QED BY <1>2, <1>3, <1>4, <1>5

\* The last level, when it runs a handler.
LEMMA Where ==
  ASSUME TypeInv
  PROVE  /\ Level \in Nat /\ \A k \in 1 .. Level : interrupted[k] \in Records
         /\ \A k \in 1 .. Level : Vec(k) \in External \cup Exceptions /\ Vec(k) \in Vectors
         /\ \A k \in 0 .. Level : Vec(k) \in DOMAIN MayRaise
         /\ \A k \in 1 .. Level : Base(k) \in 1 .. StackWords
         /\ \A k \in 0 .. Level : Context(k) \in Contexts
         /\ \A k \in 0 .. Level : StackAt(k) \in Stacks /\ SpAt(k) \in 0 .. StackWords
         /\ Current = Vec(Level)
         /\ Level > 0 => Last(interrupted) = interrupted[Level]
<1>1. Level \in Nat /\ \A k \in 1 .. Level : interrupted[k] \in Records
  BY LenProperties, ElementOfSeq DEF TypeInv, Level
<1>2. \A k \in 1 .. Level : Vec(k) \in External \cup Exceptions /\ Vec(k) \in Vectors
  BY <1>1, RankProps DEF Vec, Records
<1>3. \A k \in 0 .. Level : Vec(k) \in DOMAIN MayRaise
  <2> TAKE k \in 0 .. Level
  <2>1. CASE k = 0
    BY <2>1, RankProps DEF Vec
  <2>2. CASE k # 0
    <3>1. k \in 1 .. Level
      BY <2>2, <1>1
    <3> QED BY <3>1, <1>2, RankProps
  <2> QED BY <2>1, <2>2
<1>4. \A k \in 1 .. Level : Base(k) \in 1 .. StackWords
  BY <1>1 DEF Base, Records
<1>5. \A k \in 0 .. Level :
        /\ CodeAt(k) \in Seq(Ops) /\ StackAt(k) \in Stacks
        /\ SpAt(k) \in 0 .. StackWords /\ FlagAt(k) \in {0, 1}
  <2> TAKE k \in 0 .. Level
  <2>1. CASE k = Level
    BY <2>1 DEF TypeInv, CodeAt, StackAt, SpAt, FlagAt
  <2>2. CASE k # Level
    <3>1. interrupted[k + 1] \in Records
      BY <2>2, <1>1
    <3> QED BY <3>1, <2>2 DEF Records, CodeAt, StackAt, SpAt, FlagAt
  <2> QED BY <2>1, <2>2
<1>6. \A k \in 0 .. Level : Context(k) \in Contexts
  BY <1>5 DEF Context, Contexts
<1>7. Current = Vec(Level)
  <2>1. CASE interrupted = <<>>
    BY <2>1 DEF Current, Vec, Level
  <2>2. CASE interrupted # <<>>
    <3>1. Len(interrupted) # 0
      BY <2>2, EmptySeq DEF TypeInv
    <3> QED BY <2>2, <3>1 DEF Current, Vec, Level, Last
  <2> QED BY <2>1, <2>2
<1> QED BY <1>1, <1>2, <1>3, <1>4, <1>5, <1>6, <1>7 DEF Last, Level

\* A handler is in the body of isr_helper or at an instruction of its stub.
LEMMA AtInstruction ==
  ASSUME TypeInv, Nesting, Running, code # <<>>
  PROVE  /\ Level > 0
         /\ code[1].op = "body" => code = InBody(Vec(Level)) /\ sp = Base(Level) + 9
         /\ code[1].op # "body" =>
              \E p \in 1 .. StubLen(Vec(Level)) :
                /\ sp = Base(Level) + Depth(Vec(Level), p)
                /\ code[1] = isr_stub(Vec(Level))[p] /\ Does(Vec(Level), p)
                /\ p + 1 <= StubLen(Vec(Level)) => Tail(code) = Rest(Vec(Level), p + 1)
<1>1. Level > 0
  BY Where DEF Nesting, CodeAt
<1> DEFINE v == Vec(Level)
<1>2. v \in Vectors
  BY <1>1, Where
<1> HIDE DEF v
<1>3. CASE code = InBody(v) /\ sp = Base(Level) + 9
  <2>1. code[1].op = "body"
    BY <1>2, <1>3, BodyProps DEF body
  <2> QED BY <1>1, <1>3, <2>1 DEF v
<1>4. CASE \E p \in 1 .. StubLen(v) : InStub(p)
  <2>1. PICK p \in 1 .. StubLen(v) : code = Rest(v, p) /\ sp = Base(Level) + Depth(v, p)
    BY <1>4 DEF InStub, v
  <2>2. code[1] = isr_stub(v)[p] /\ (p + 1 <= StubLen(v) => Tail(code) = Rest(v, p + 1))
    BY <1>2, <2>1, RestProps
  <2>3. Does(v, p)
    BY <1>2, Instructions
  <2>4. code[1].op # "body"
    BY <2>2, <2>3 DEF Does
  <2> QED BY <1>1, <2>1, <2>2, <2>3, <2>4 DEF v
<1> QED BY <1>1, <1>3, <1>4 DEF Running, v

-----------------------------------------------------------------------------
(* Init and the steps.                                                     *)

LEMMA InitInv == ASSUME EntryInit PROVE IInv
<1>1. Level = 0 /\ interrupted \in Seq(Records)
  BY EmptySeq DEF EntryInit, Level
<1>2. TypeInv
  <2>1. regs \in [Registers -> Words]
    BY WordsTyped DEF EntryInit
  <2>2. mem \in [Stacks -> [1 .. StackWords -> Words]]
    BY WordsTyped DEF EntryInit
  <2>3. stack \in Stacks /\ sp \in 0 .. StackWords /\ code \in Seq(Ops) /\ IF_ \in {0, 1}
    BY StacksProps, EmptySeq, IsrEntryAssumption DEF EntryInit
  <2> QED BY <1>1, <2>1, <2>2, <2>3 DEF TypeInv
<1>3. Nesting
  <2>1. Rank[Vec(0)] >= 0
    BY RankProps DEF Vec
  <2> QED BY <1>1, <2>1 DEF Nesting, EntryInit, CodeAt, StackAt, SpAt
<1>4. Room
  BY <1>1, StacksProps DEF Room, EntryInit, StackAt, SpAt
<1>5. Waiting /\ Running /\ AllSaved /\ RegsKept
  BY <1>1 DEF Waiting, Running, AllSaved, RegsKept
<1> QED BY <1>2, <1>3, <1>4, <1>5 DEF IInv

\* An instruction that leaves the frame and what is below it alone.
LEMMA Executes ==
  ASSUME IInv, TypeInv', Level > 0,
         UNCHANGED <<interrupted, stack, IF_>>, sp' <= Base(Level) + 9,
         \A s \in Stacks, c \in 1 .. StackWords :
           s # stack \/ c <= Base(Level) => mem'[s][c] = mem[s][c],
         Running', RegsSaved(Level)', RegsKept'
  PROVE  IInv'
<1>0. TypeInv /\ Nesting /\ Room /\ Waiting /\ AllSaved
  BY DEF IInv
<1>1. Level \in Nat /\ Level' = Level
  BY <1>0, Where DEF Level
<1>2. \A k \in Nat : Vec(k)' = Vec(k) /\ Base(k)' = Base(k)
  BY DEF Vec, Base
<1>3. \A k \in 0 .. Level : StackAt(k)' = StackAt(k) /\ FlagAt(k)' = FlagAt(k)
  BY <1>1 DEF StackAt, FlagAt
<1>4. \A k \in 0 .. Level - 1 : SpAt(k)' = SpAt(k) /\ CodeAt(k)' = CodeAt(k)
  BY <1>1 DEF SpAt, CodeAt
<1>5. SpAt(Level)' = sp' /\ StackAt(Level) = stack
  BY <1>1 DEF SpAt, StackAt
<1>6. Nesting'
  <2>1. CodeAt(0)' = CodeAt(0) /\ SpAt(0)' = SpAt(0) /\ StackAt(0)' = StackAt(0)
    BY <1>1, <1>3, <1>4
  <2>2. \A k \in 0 .. Level : Vec(k)' = Vec(k) /\ FlagAt(k)' = FlagAt(k)
    BY <1>1, <1>2, <1>3
  <2> QED BY <1>0, <1>1, <2>1, <2>2 DEF Nesting
<1>7. Room'
  <2>1. \A k \in 0 .. Level : SpAt(k)' <= 10 * k
    <3> TAKE k \in 0 .. Level
    <3>1. CASE k = Level
      <4>1. Base(Level) <= 10 * Level - 9 /\ Base(Level) \in Nat /\ sp' \in Nat
        BY <1>0, <1>1, Where DEF Room, TypeInv
      <4> QED BY <1>1, <1>5, <3>1, <4>1
    <3>2. CASE k # Level
      BY <1>0, <1>1, <1>4, <3>2 DEF Room
    <3> QED BY <3>1, <3>2
  <2>2. \A k \in 1 .. Level : Base(k)' <= 10 * k - 9
    BY <1>0, <1>1, <1>2 DEF Room
  <2>3. \A k \in 0 .. Level, x \in 1 .. 3 :
          StackAt(k)' = tss[x] => \E j \in 1 .. k : ist(Vec(j)') = x
    <3> TAKE k \in 0 .. Level, x \in 1 .. 3
    <3> HAVE StackAt(k)' = tss[x]
    <3>1. PICK j \in 1 .. k : ist(Vec(j)) = x
      BY <1>0, <1>3 DEF Room
    <3>2. Vec(j)' = Vec(j)
      BY <1>1, <1>2
    <3> QED BY <3>1, <3>2
  <2>4. \A i, j \in 0 .. Level : i < j /\ StackAt(i)' = StackAt(j)' => SpAt(i)' < Base(j)'
    <3> TAKE i, j \in 0 .. Level
    <3> HAVE i < j /\ StackAt(i)' = StackAt(j)'
    <3>1. SpAt(i)' = SpAt(i) /\ Base(j)' = Base(j) /\ StackAt(i) = StackAt(j)
      BY <1>1, <1>2, <1>3, <1>4
    <3> QED BY <1>0, <3>1 DEF Room
  <2> QED BY <1>1, <2>1, <2>2, <2>3, <2>4 DEF Room
<1>8. Waiting'
  <2> SUFFICES ASSUME NEW k \in 1 .. Level - 1
               PROVE  CodeAt(k)' = InBody(Vec(k)') /\ SpAt(k)' = Base(k)' + 9
    BY <1>1 DEF Waiting, InBody, Rest, isr_stub, CallAt
  <2>1. CodeAt(k)' = CodeAt(k) /\ SpAt(k)' = SpAt(k) /\ Vec(k)' = Vec(k) /\ Base(k)' = Base(k)
    BY <1>1, <1>2, <1>4
  <2> QED BY <1>0, <2>1 DEF Waiting
<1>9. AllSaved'
  <2> SUFFICES ASSUME NEW k \in 1 .. Level
               PROVE  FrameSaved(k)' /\ RegsSaved(k)'
    BY <1>1 DEF AllSaved
  <2>0. k \in Nat /\ k - 1 \in 0 .. Level - 1 /\ k - 1 \in 0 .. Level
    BY <1>1
  <2>1. Context(k - 1)' = Context(k - 1)
    BY <2>0, <1>3, <1>4 DEF Context
  <2>2. Base(k)' = Base(k) /\ StackAt(k)' = StackAt(k) /\ Vec(k)' = Vec(k)
    BY <1>1, <1>2, <1>3
  <2>3. Base(k) \in 1 .. StackWords /\ StackAt(k) \in Stacks
    BY <1>0, <1>1, Where
  <2>4. CASE k = Level
    <3>1. mem'[StackAt(k)][Base(k)] = mem[StackAt(k)][Base(k)]
      BY <2>3, <2>4
    <3>2. FrameSaved(k)'
      BY <1>0, <2>1, <2>2, <3>1 DEF FrameSaved, AllSaved, Frame
    <3> QED BY <1>1, <2>4, <3>2
  <2>5. CASE k # Level
    <3>0. k \in 1 .. Level - 1 /\ k \in 0 .. Level /\ Level \in 0 .. Level /\ k < Level
      BY <2>5, <1>1
    <3>1. SpAt(k)' = SpAt(k) /\ SpAt(k) = Base(k) + 9
      BY <3>0, <1>0, <1>1, <1>4 DEF Waiting
    <3>2. StackAt(k) = stack => SpAt(k) < Base(Level)
      BY <3>0, <1>0, <1>5 DEF Room
    <3>3. Base(Level) \in 1 .. StackWords /\ SpAt(k) \in 0 .. StackWords
      BY <1>0, <1>1, <3>0, Where
    <3>4. \A c \in 1 .. SpAt(k) : mem'[StackAt(k)][c] = mem[StackAt(k)][c]
      <4> TAKE c \in 1 .. SpAt(k)
      <4>1. c \in 1 .. StackWords /\ (StackAt(k) # stack \/ c <= Base(Level))
        <5>1. StackWords \in Nat
          BY IsrEntryAssumption
        <5>2. c \in Nat /\ c >= 1 /\ c <= SpAt(k)
          BY <3>3
        <5> QED BY <3>2, <3>3, <5>1, <5>2
      <4> QED BY <2>3, <4>1
    <3>5. Base(k) \in 1 .. SpAt(k)
      BY <2>3, <3>1
    <3>6. FrameSaved(k)'
      BY <1>0, <2>1, <2>2, <3>4, <3>5 DEF FrameSaved, AllSaved, Frame
    <3>7. RegsSaved(k)'
      <4> SUFFICES ASSUME ~Erring(Vec(k)), NEW d \in 1 .. 9, Base(k) + d <= SpAt(k)
                   PROVE  mem'[StackAt(k)][Base(k) + d] = interrupted[k].regs[Order[d]]
        BY <2>2, <3>1 DEF RegsSaved, Erring, Order
      <4>1. Base(k) + d \in 1 .. SpAt(k)
        BY <2>3, <3>3
      <4> QED BY <1>0, <3>4, <4>1 DEF AllSaved, RegsSaved
    <3> QED BY <3>6, <3>7
  <2> QED BY <2>4, <2>5
<1> QED BY <1>6, <1>7, <1>8, <1>9 DEF IInv

LEMMA DepthBound ==
  \A v \in Vectors : \A p \in 1 .. StubLen(v) : Depth(v, p) \in 0 .. 9
BY DEF Depth, StubLen

LEMMA RoomLeft ==
  ASSUME IInv, Level > 0
  PROVE  /\ Base(Level) \in Nat /\ Base(Level) >= 1 /\ Base(Level) + 9 <= StackWords
         /\ stack \in Stacks /\ Vec(Level) \in Vectors /\ StackWords \in Nat
<1>1. TypeInv /\ Nesting /\ Room
  BY DEF IInv
<1>2. Level \in Nat /\ Base(Level) \in 1 .. StackWords /\ Vec(Level) \in DOMAIN MayRaise
      /\ Vec(Level) \in Vectors
  BY <1>1, Where
<1>3. Rank[Vec(Level)] >= Level /\ Base(Level) <= 10 * Level - 9
  BY <1>1, <1>2 DEF Nesting, Room
<1>4. Rank[Vec(Level)] \in Nat /\ 10 * Rank[Vec(Level)] <= StackWords
  BY <1>2, RankProps
<1>5. Base(Level) + 9 <= StackWords
  <2> DEFINE r == Rank[Vec(Level)]
             b == Base(Level)
  <2>1. StackWords \in Nat
    BY IsrEntryAssumption
  <2>2. b \in Nat /\ r >= Level /\ b <= 10 * Level - 9 /\ r \in Nat /\ 10 * r <= StackWords
    BY <1>2, <1>3, <1>4
  <2> HIDE DEF r, b
  <2>3. b + 9 <= StackWords
    BY <1>2, <2>1, <2>2
  <2> QED BY <2>3 DEF b
<1> QED BY <1>1, <1>2, <1>5, IsrEntryAssumption DEF TypeInv

\* The handler goes on to the instruction at p of its stub.
LEMMA Advances ==
  ASSUME IInv, Level > 0, UNCHANGED interrupted, NEW p \in 1 .. StubLen(Vec(Level)),
         code' = Rest(Vec(Level), p), sp' = Base(Level) + Depth(Vec(Level), p)
  PROVE  /\ Running' /\ code' \in Seq(Ops)
         /\ sp' <= Base(Level) + 9 /\ sp' \in 0 .. StackWords
<1>1. Vec(Level) \in Vectors
  BY RoomLeft
<1>2. Level' = Level /\ Vec(Level)' = Vec(Level) /\ Base(Level)' = Base(Level)
  BY DEF Level, Vec, Base
<1>3. code' \in Seq(Ops)
  BY <1>1, RestProps
<1>4. sp' <= Base(Level) + 9 /\ sp' \in 0 .. StackWords
  <2>1. Depth(Vec(Level), p) \in 0 .. 9
    BY <1>1, DepthBound
  <2> QED BY <2>1, RoomLeft
<1>5. InStub(p)'
  BY <1>2 DEF InStub
<1>6. Running'
  BY <1>2, <1>5 DEF Running, StubLen, Erring
<1> QED BY <1>3, <1>4, <1>6

\* What a level's registers on the stack are, for the last level.
LEMMA TopRegs ==
  ASSUME IInv, Level > 0, ~Erring(Vec(Level)), NEW d \in 1 .. 9
  PROVE  /\ Base(Level) + d <= sp =>
              mem[stack][Base(Level) + d] = interrupted[Level].regs[Order[d]]
         /\ Base(Level) + d > sp => regs[Order[d]] = interrupted[Level].regs[Order[d]]
<1>1. TypeInv /\ AllSaved /\ RegsKept
  BY DEF IInv
<1>2. Level \in 1 .. Level
  BY <1>1, Where
<1>3. RegsSaved(Level)
  BY <1>1, <1>2 DEF AllSaved
<1> QED BY <1>1, <1>3 DEF RegsSaved, RegsKept, SpAt, StackAt

LEMMA PushInv == ASSUME IInv, Push PROVE IInv'
<1>0. TypeInv /\ Nesting /\ Running
  BY DEF IInv
<1> DEFINE v == Vec(Level)  b == Base(Level)
<1>1. code # <<>> /\ code[1].op = "push" /\ code' = Tail(code)
  BY DEF Push, Step
<1>2. Level > 0
  BY <1>0, <1>1, AtInstruction
<1>3. PICK p \in 1 .. StubLen(v) :
        /\ sp = b + Depth(v, p) /\ code[1] = isr_stub(v)[p] /\ Does(v, p)
        /\ p + 1 <= StubLen(v) => Tail(code) = Rest(v, p + 1)
  BY <1>0, <1>1, AtInstruction
<1> DEFINE d == Depth(v, p)
<1>4. /\ Depth(v, p + 1) = d + 1 /\ d <= 8 /\ code[1].reg \in Registers
      /\ ~Erring(v) => code[1].reg = Order[d + 1]
      /\ p + 1 \in 1 .. StubLen(v)
  BY <1>1, <1>3 DEF Does, Ops
<1>5. d \in 0 .. 8
  <2>1. v \in Vectors
    BY <1>2, RoomLeft
  <2> QED BY <2>1, <1>4, DepthBound
<1> HIDE DEF d
<1>6. b \in Nat /\ b >= 1 /\ b + 9 <= StackWords /\ stack \in Stacks /\ StackWords \in Nat
  BY <1>2, RoomLeft
<1>8. sp = b + d /\ sp' = b + d + 1 /\ sp + 1 \in 1 .. StackWords /\ sp \in Nat
  <2>1. sp = b + d /\ sp' = sp + 1
    BY <1>3 DEF Push, d
  <2> HIDE DEF b
  <2> QED BY <1>5, <1>6, <2>1
<1>7. code' = Rest(v, p + 1) /\ sp' = b + Depth(v, p + 1)
  <2>1. code' = Rest(v, p + 1) /\ Depth(v, p + 1) = d + 1
    BY <1>1, <1>3, <1>4
  <2> HIDE DEF b
  <2> QED BY <1>5, <1>6, <1>8, <2>1
<1>9. Running' /\ code' \in Seq(Ops) /\ sp' <= b + 9 /\ sp' \in 0 .. StackWords
  BY <1>2, <1>4, <1>7, Advances DEF Push
<1> HIDE DEF v, b
<1>10. /\ mem' = [mem EXCEPT ![stack][sp + 1] = regs[code[1].reg]]
       /\ UNCHANGED <<regs, stack, IF_, interrupted>>
  BY DEF Push
<1>11. /\ mem'[stack][sp + 1] = regs[code[1].reg]
       /\ \A s \in Stacks, c \in 1 .. StackWords :
            ~(s = stack /\ c = sp + 1) => mem'[s][c] = mem[s][c]
  BY <1>0, <1>6, <1>8, <1>10 DEF TypeInv
<1>12. TypeInv'
  BY <1>0, <1>4, <1>9, <1>10 DEF TypeInv
<1>13. \A s \in Stacks, c \in 1 .. StackWords : s # stack \/ c <= b => mem'[s][c] = mem[s][c]
  BY <1>5, <1>6, <1>8, <1>11
<1>14. Level' = Level /\ Vec(Level)' = v /\ Base(Level)' = b /\ SpAt(Level)' = sp'
       /\ StackAt(Level)' = stack
  BY <1>10 DEF Level, Vec, Base, SpAt, StackAt, v, b
<1>15. RegsSaved(Level)'
  <2> SUFFICES ASSUME ~Erring(v), NEW e \in 1 .. 9, b + e <= b + d + 1
               PROVE  mem'[stack][b + e] = interrupted[Level].regs[Order[e]]
    BY <1>8, <1>10, <1>14 DEF RegsSaved, Erring, Order
  <2>1. CASE e = d + 1
    <3>1. mem'[stack][b + e] = regs[Order[e]]
      <4>1. b + e = sp + 1
        BY <1>5, <1>6, <1>8, <2>1
      <4> QED BY <4>1, <1>4, <1>11, <2>1
    <3>2. b + e > sp
      BY <1>5, <1>6, <1>8, <2>1
    <3> QED BY <1>2, <3>1, <3>2, TopRegs DEF v, b
  <2>2. CASE e # d + 1
    <3>1. b + e <= sp /\ b + e \in 1 .. StackWords /\ b + e # sp + 1
      BY <1>5, <1>6, <1>8, <2>2
    <3>2. mem'[stack][b + e] = mem[stack][b + e]
      BY <1>6, <1>11, <3>1
    <3> QED BY <1>2, <3>1, <3>2, TopRegs DEF v, b
  <2> QED BY <2>1, <2>2
<1>16. RegsKept'
  <2> SUFFICES ASSUME ~Erring(v), NEW e \in 1 .. 9, b + e > sp'
               PROVE  regs[Order[e]] = interrupted[Level].regs[Order[e]]
    BY <1>10, <1>14 DEF RegsKept, Erring, Order
  <2>1. b + e > sp
    BY <1>5, <1>6, <1>8
  <2> QED BY <1>2, <2>1, TopRegs DEF v, b
<1> QED BY <1>2, <1>9, <1>10, <1>12, <1>13, <1>15, <1>16, Executes DEF b

LEMMA PopInv == ASSUME IInv, Pop PROVE IInv'
<1>0. TypeInv /\ Nesting /\ Running
  BY DEF IInv
<1> DEFINE v == Vec(Level)  b == Base(Level)
<1>1. code # <<>> /\ code[1].op = "pop" /\ code' = Tail(code)
  BY DEF Pop, Step
<1>2. Level > 0
  BY <1>0, <1>1, AtInstruction
<1>3. PICK p \in 1 .. StubLen(v) :
        /\ sp = b + Depth(v, p) /\ code[1] = isr_stub(v)[p] /\ Does(v, p)
        /\ p + 1 <= StubLen(v) => Tail(code) = Rest(v, p + 1)
  BY <1>0, <1>1, AtInstruction
<1> DEFINE d == Depth(v, p)
<1>4. /\ Depth(v, p + 1) = d - 1 /\ code[1].reg \in Registers
      /\ ~Erring(v) => code[1].reg = Order[d]
      /\ p + 1 \in 1 .. StubLen(v)
  BY <1>1, <1>3 DEF Does, Ops
<1>5. d \in 1 .. 9
  <2>1. v \in Vectors
    BY <1>2, RoomLeft
  <2>2. d \in 0 .. 9 /\ Depth(v, p + 1) \in 0 .. 9
    BY <2>1, <1>4, DepthBound
  <2> QED BY <2>2, <1>4
<1> HIDE DEF d
<1>6. b \in Nat /\ b >= 1 /\ b + 9 <= StackWords /\ stack \in Stacks /\ StackWords \in Nat
  BY <1>2, RoomLeft
<1>8. sp = b + d /\ sp' = b + d - 1 /\ sp \in 1 .. StackWords /\ sp - 0 = sp
  <2>1. sp = b + d /\ sp' = sp - 1
    BY <1>3 DEF Pop, d
  <2> HIDE DEF b
  <2> QED BY <1>5, <1>6, <2>1
<1>7. code' = Rest(v, p + 1) /\ sp' = b + Depth(v, p + 1)
  <2>1. code' = Rest(v, p + 1) /\ Depth(v, p + 1) = d - 1
    BY <1>1, <1>3, <1>4
  <2> HIDE DEF b
  <2> QED BY <1>5, <1>6, <1>8, <2>1
<1>9. Running' /\ code' \in Seq(Ops) /\ sp' <= b + 9 /\ sp' \in 0 .. StackWords
  BY <1>2, <1>4, <1>7, Advances DEF Pop
<1> HIDE DEF v, b
<1>10. /\ regs' = [regs EXCEPT ![code[1].reg] = mem[stack][sp]]
       /\ UNCHANGED <<mem, stack, IF_, interrupted>>
  BY <1>8 DEF Pop, Top
<1>11. mem[stack][sp] \in Words
  BY <1>0, <1>6, <1>8 DEF TypeInv
<1>12. TypeInv'
  BY <1>0, <1>4, <1>9, <1>10, <1>11 DEF TypeInv
<1>13. \A s \in Stacks, c \in 1 .. StackWords : s # stack \/ c <= b => mem'[s][c] = mem[s][c]
  BY <1>10
<1>14. Level' = Level /\ Vec(Level)' = v /\ Base(Level)' = b /\ SpAt(Level)' = sp'
       /\ StackAt(Level)' = stack
  BY <1>10 DEF Level, Vec, Base, SpAt, StackAt, v, b
<1>15. RegsSaved(Level)'
  <2> SUFFICES ASSUME ~Erring(v), NEW e \in 1 .. 9, b + e <= sp'
               PROVE  mem[stack][b + e] = interrupted[Level].regs[Order[e]]
    BY <1>10, <1>14 DEF RegsSaved, Erring, Order
  <2>1. b + e <= sp
    BY <1>5, <1>6, <1>8
  <2> QED BY <1>2, <2>1, TopRegs DEF v, b
<1>16. RegsKept'
  <2> SUFFICES ASSUME ~Erring(v), NEW e \in 1 .. 9, b + e > sp'
               PROVE  regs'[Order[e]] = interrupted[Level].regs[Order[e]]
    BY <1>10, <1>14 DEF RegsKept, Erring, Order
  <2>0. code[1].reg = Order[d] /\ Order[e] \in Registers
    BY <1>4 DEF Order, Registers
  <2>1. CASE e = d
    <3>1. regs'[Order[e]] = mem[stack][b + e]
      BY <1>0, <1>8, <1>10, <2>0, <2>1 DEF TypeInv
    <3>2. b + e <= sp
      BY <1>5, <1>6, <1>8, <2>1
    <3> QED BY <1>2, <3>1, <3>2, TopRegs DEF v, b
  <2>2. CASE e # d
    <3>1. Order[e] # Order[d]
      BY <1>5, <2>2 DEF Order
    <3>2. regs'[Order[e]] = regs[Order[e]]
      BY <1>0, <1>10, <2>0, <3>1 DEF TypeInv
    <3>3. b + e > sp
      BY <1>5, <1>6, <1>8, <2>2
    <3> QED BY <1>2, <3>2, <3>3, TopRegs DEF v, b
  <2> QED BY <2>1, <2>2
<1> QED BY <1>2, <1>9, <1>10, <1>12, <1>13, <1>15, <1>16, Executes DEF b

\* The two loads and stores are in stubs with an error code, whose registers
\* nothing is claimed of.
LEMMA LoadInv == ASSUME IInv, Load PROVE IInv'
<1>0. TypeInv /\ Nesting /\ Running
  BY DEF IInv
<1> DEFINE v == Vec(Level)  b == Base(Level)
<1>1. code # <<>> /\ code[1].op = "load" /\ code' = Tail(code)
  BY DEF Load, Step
<1>2. Level > 0
  BY <1>0, <1>1, AtInstruction
<1>3. PICK p \in 1 .. StubLen(v) :
        /\ sp = b + Depth(v, p) /\ code[1] = isr_stub(v)[p] /\ Does(v, p)
        /\ p + 1 <= StubLen(v) => Tail(code) = Rest(v, p + 1)
  BY <1>0, <1>1, AtInstruction
<1> DEFINE d == Depth(v, p)
<1>4. /\ Depth(v, p + 1) = d /\ code[1].reg \in Registers /\ code[1].k \in Nat
      /\ Erring(v) /\ code[1].k < d
      /\ p + 1 \in 1 .. StubLen(v)
  BY <1>1, <1>3 DEF Does, Ops
<1>5. d \in 0 .. 9
  <2>1. v \in Vectors
    BY <1>2, RoomLeft
  <2> QED BY <2>1, DepthBound
<1>6. b \in Nat /\ b >= 1 /\ b + 9 <= StackWords /\ stack \in Stacks /\ StackWords \in Nat
  BY <1>2, RoomLeft
<1>7. code' = Rest(v, p + 1) /\ sp' = b + Depth(v, p + 1)
  BY <1>1, <1>3, <1>4 DEF Load, d
<1>8. Running' /\ code' \in Seq(Ops) /\ sp' <= b + 9 /\ sp' \in 0 .. StackWords
  BY <1>2, <1>4, <1>7, Advances DEF Load
<1>9. sp = b + d
  BY <1>3
<1> HIDE DEF v, b, d
<1>10. /\ regs' = [regs EXCEPT ![code[1].reg] = mem[stack][sp - code[1].k]]
       /\ UNCHANGED <<mem, stack, sp, IF_, interrupted>>
  BY DEF Load, Top
<1>11. mem[stack][sp - code[1].k] \in Words
  <2>1. sp - code[1].k \in 1 .. StackWords
    BY <1>4, <1>5, <1>6, <1>9
  <2> QED BY <1>0, <1>6, <2>1 DEF TypeInv
<1>12. TypeInv'
  BY <1>0, <1>4, <1>8, <1>10, <1>11 DEF TypeInv
<1>13. \A s \in Stacks, c \in 1 .. StackWords : s # stack \/ c <= b => mem'[s][c] = mem[s][c]
  BY <1>10
<1>14. Level' = Level /\ Vec(Level)' = v /\ Base(Level)' = b /\ SpAt(Level)' = sp'
       /\ StackAt(Level)' = stack
  BY <1>10 DEF Level, Vec, Base, SpAt, StackAt, v, b
<1>15. RegsSaved(Level)'
  BY <1>4, <1>14 DEF RegsSaved, Erring
<1>16. RegsKept'
  BY <1>4, <1>14 DEF RegsKept, Erring
<1> QED BY <1>2, <1>8, <1>10, <1>12, <1>13, <1>15, <1>16, Executes DEF b

LEMMA StoreInv == ASSUME IInv, Store PROVE IInv'
<1>0. TypeInv /\ Nesting /\ Running
  BY DEF IInv
<1> DEFINE v == Vec(Level)  b == Base(Level)
<1>1. code # <<>> /\ code[1].op = "store" /\ code' = Tail(code)
  BY DEF Store, Step
<1>2. Level > 0
  BY <1>0, <1>1, AtInstruction
<1>3. PICK p \in 1 .. StubLen(v) :
        /\ sp = b + Depth(v, p) /\ code[1] = isr_stub(v)[p] /\ Does(v, p)
        /\ p + 1 <= StubLen(v) => Tail(code) = Rest(v, p + 1)
  BY <1>0, <1>1, AtInstruction
<1> DEFINE d == Depth(v, p)
<1>4. /\ Depth(v, p + 1) = d /\ code[1].reg \in Registers /\ code[1].k \in Nat
      /\ Erring(v) /\ code[1].k < d
      /\ p + 1 \in 1 .. StubLen(v)
  BY <1>1, <1>3 DEF Does, Ops
<1>5. d \in 0 .. 9
  <2>1. v \in Vectors
    BY <1>2, RoomLeft
  <2> QED BY <2>1, DepthBound
<1>6. b \in Nat /\ b >= 1 /\ b + 9 <= StackWords /\ stack \in Stacks /\ StackWords \in Nat
  BY <1>2, RoomLeft
<1>7. code' = Rest(v, p + 1) /\ sp' = b + Depth(v, p + 1)
  BY <1>1, <1>3, <1>4 DEF Store, d
<1>8. Running' /\ code' \in Seq(Ops) /\ sp' <= b + 9 /\ sp' \in 0 .. StackWords
  BY <1>2, <1>4, <1>7, Advances DEF Store
<1>9. sp = b + d
  BY <1>3
<1> HIDE DEF v, b, d
<1>10. /\ mem' = [mem EXCEPT ![stack][sp - code[1].k] = regs[code[1].reg]]
       /\ UNCHANGED <<regs, stack, sp, IF_, interrupted>>
  BY DEF Store
<1>11. sp - code[1].k \in 1 .. StackWords /\ sp - code[1].k > b
  BY <1>4, <1>5, <1>6, <1>9
<1>12. TypeInv'
  BY <1>0, <1>4, <1>8, <1>10, <1>11 DEF TypeInv
<1>13. \A s \in Stacks, c \in 1 .. StackWords : s # stack \/ c <= b => mem'[s][c] = mem[s][c]
  <2> TAKE s \in Stacks, c \in 1 .. StackWords
  <2> HAVE s # stack \/ c <= b
  <2>1. s # stack \/ c # sp - code[1].k
    BY <1>6, <1>11
  <2> QED BY <1>0, <1>6, <1>10, <1>11, <2>1 DEF TypeInv
<1>14. Level' = Level /\ Vec(Level)' = v /\ Base(Level)' = b /\ SpAt(Level)' = sp'
       /\ StackAt(Level)' = stack
  BY <1>10 DEF Level, Vec, Base, SpAt, StackAt, v, b
<1>15. RegsSaved(Level)'
  BY <1>4, <1>14 DEF RegsSaved, Erring
<1>16. RegsKept'
  BY <1>4, <1>14 DEF RegsKept, Erring
<1> QED BY <1>2, <1>8, <1>10, <1>12, <1>13, <1>15, <1>16, Executes DEF b

LEMMA ImmediateInv == ASSUME IInv, Immediate PROVE IInv'
<1>0. TypeInv /\ Nesting /\ Running
  BY DEF IInv
<1> DEFINE v == Vec(Level)  b == Base(Level)
<1>1. code # <<>> /\ code[1].op = "imm" /\ code' = Tail(code)
  BY DEF Immediate, Step
<1>2. Level > 0
  BY <1>0, <1>1, AtInstruction
<1>3. PICK p \in 1 .. StubLen(v) :
        /\ sp = b + Depth(v, p) /\ code[1] = isr_stub(v)[p] /\ Does(v, p)
        /\ p + 1 <= StubLen(v) => Tail(code) = Rest(v, p + 1)
  BY <1>0, <1>1, AtInstruction
<1> DEFINE d == Depth(v, p)
<1>4. /\ Depth(v, p + 1) = d /\ code[1].reg \in Registers /\ code[1].k \in Nat
      /\ d >= 1 /\ code[1].reg = "rdi"
      /\ p + 1 \in 1 .. StubLen(v)
  BY <1>1, <1>3 DEF Does, Ops
<1>5. d \in 0 .. 9
  <2>1. v \in Vectors
    BY <1>2, RoomLeft
  <2> QED BY <2>1, DepthBound
<1>6. b \in Nat /\ b >= 1 /\ b + 9 <= StackWords /\ stack \in Stacks /\ StackWords \in Nat
  BY <1>2, RoomLeft
<1>7. code' = Rest(v, p + 1) /\ sp' = b + Depth(v, p + 1)
  BY <1>1, <1>3, <1>4 DEF Immediate, d
<1>8. Running' /\ code' \in Seq(Ops) /\ sp' <= b + 9 /\ sp' \in 0 .. StackWords
  BY <1>2, <1>4, <1>7, Advances DEF Immediate
<1>9. sp = b + d
  BY <1>3
<1> HIDE DEF v, b, d
<1>10. /\ regs' = [regs EXCEPT !["rdi"] = Number(code[1].k)]
       /\ UNCHANGED <<mem, stack, sp, IF_, interrupted>>
  BY <1>4 DEF Immediate
<1>11. Number(code[1].k) \in Words
  BY <1>4, WordsTyped
<1>12. TypeInv'
  BY <1>0, <1>8, <1>10, <1>11 DEF TypeInv
<1>13. \A s \in Stacks, c \in 1 .. StackWords : s # stack \/ c <= b => mem'[s][c] = mem[s][c]
  BY <1>10
<1>14. Level' = Level /\ Vec(Level)' = v /\ Base(Level)' = b /\ SpAt(Level)' = sp'
       /\ StackAt(Level)' = stack
  BY <1>10 DEF Level, Vec, Base, SpAt, StackAt, v, b
<1>15. RegsSaved(Level)'
  <2> SUFFICES ASSUME ~Erring(v), NEW e \in 1 .. 9, b + e <= sp
               PROVE  mem[stack][b + e] = interrupted[Level].regs[Order[e]]
    BY <1>10, <1>14 DEF RegsSaved, Erring, Order
  <2> QED BY <1>2, TopRegs DEF v, b
<1>16. RegsKept'
  <2> SUFFICES ASSUME ~Erring(v), NEW e \in 1 .. 9, b + e > sp
               PROVE  regs'[Order[e]] = interrupted[Level].regs[Order[e]]
    BY <1>10, <1>14 DEF RegsKept, Erring, Order
  <2>1. e >= 2
    BY <1>4, <1>5, <1>6, <1>9
  <2>2. Order[e] \in Registers /\ Order[e] # "rdi"
    BY <2>1 DEF Order, Registers
  <2>3. regs'[Order[e]] = regs[Order[e]]
    BY <1>0, <1>10, <2>2 DEF TypeInv
  <2> QED BY <1>2, <2>3, TopRegs DEF v, b
<1> QED BY <1>2, <1>8, <1>10, <1>12, <1>13, <1>15, <1>16, Executes DEF b

\* isr_helper is called with nine words above the frame, and returns to them.
LEMMA CallInv == ASSUME IInv, Call PROVE IInv'
<1>0. TypeInv /\ Nesting /\ Running
  BY DEF IInv
<1> DEFINE v == Vec(Level)  b == Base(Level)
<1>1. code # <<>> /\ code[1].op = "call" /\ code' = <<body>> \o Tail(code)
  BY DEF Call, call
<1>2. Level > 0
  BY <1>0, <1>1, AtInstruction
<1>3. PICK p \in 1 .. StubLen(v) :
        /\ sp = b + Depth(v, p) /\ code[1] = isr_stub(v)[p] /\ Does(v, p)
        /\ p + 1 <= StubLen(v) => Tail(code) = Rest(v, p + 1)
  BY <1>0, <1>1, AtInstruction
<1>4. p = CallAt(v) /\ Depth(v, p + 1) = Depth(v, p) /\ p + 1 <= StubLen(v)
  BY <1>1, <1>3 DEF Does
<1>5. v \in Vectors /\ b \in Nat /\ b >= 1 /\ b + 9 <= StackWords /\ StackWords \in Nat
  BY <1>2, RoomLeft
<1>6. code' = InBody(v) /\ sp = b + 9 /\ code' \in Seq(Ops)
  BY <1>1, <1>3, <1>4, <1>5, BodyProps DEF InBody
<1> HIDE DEF v, b
<1>10. regs' = Scratch(Level) /\ UNCHANGED <<mem, stack, sp, IF_, interrupted>>
  BY DEF Call
<1>11. regs' \in [Registers -> Words]
  BY <1>0, <1>10, Where, WordsTyped
<1>12. TypeInv'
  BY <1>0, <1>6, <1>10, <1>11 DEF TypeInv
<1>13. \A s \in Stacks, c \in 1 .. StackWords : s # stack \/ c <= b => mem'[s][c] = mem[s][c]
  BY <1>10
<1>14. Level' = Level /\ Vec(Level)' = v /\ Base(Level)' = b /\ SpAt(Level)' = sp'
       /\ StackAt(Level)' = stack
  BY <1>10 DEF Level, Vec, Base, SpAt, StackAt, v, b
<1>8. Running'
  BY <1>6, <1>10, <1>14 DEF Running, InBody, Rest, isr_stub, CallAt, Erring
<1>15. RegsSaved(Level)'
  <2> SUFFICES ASSUME ~Erring(v), NEW e \in 1 .. 9, b + e <= sp
               PROVE  mem[stack][b + e] = interrupted[Level].regs[Order[e]]
    BY <1>10, <1>14 DEF RegsSaved, Erring, Order
  <2> QED BY <1>2, TopRegs DEF v, b
<1>16. RegsKept'
  <2>1. \A e \in 1 .. 9 : ~(b + e > sp)
    BY <1>5, <1>6
  <2> QED BY <1>10, <1>14, <2>1 DEF RegsKept, Erring, Order
<1>17. sp' <= b + 9
  BY <1>5, <1>6, <1>10
<1> QED BY <1>2, <1>8, <1>10, <1>12, <1>13, <1>15, <1>16, <1>17, Executes DEF b

LEMMA HelperReturnsInv == ASSUME IInv, HelperReturns PROVE IInv'
<1>0. TypeInv /\ Nesting /\ Running
  BY DEF IInv
<1> DEFINE v == Vec(Level)  b == Base(Level)
<1>1. code # <<>> /\ code[1].op = "body" /\ code' = Tail(code)
  BY DEF HelperReturns, Step
<1>2. Level > 0 /\ code = InBody(v) /\ sp = b + 9
  BY <1>0, <1>1, AtInstruction
<1>3. v \in Vectors /\ b \in Nat
  BY <1>2, RoomLeft
<1>10. UNCHANGED <<regs, mem, stack, sp, IF_, interrupted>>
  BY DEF HelperReturns
<1>4. CallAt(v) + 1 \in 1 .. StubLen(v) /\ code' = Rest(v, CallAt(v) + 1)
      /\ sp' = b + Depth(v, CallAt(v) + 1)
  BY <1>1, <1>2, <1>3, <1>10, BodyProps
<1>8. Running' /\ code' \in Seq(Ops) /\ sp' <= b + 9 /\ sp' \in 0 .. StackWords
  BY <1>2, <1>4, <1>10, Advances
<1> HIDE DEF v, b
<1>12. TypeInv'
  BY <1>0, <1>8, <1>10 DEF TypeInv
<1>13. \A s \in Stacks, c \in 1 .. StackWords : s # stack \/ c <= b => mem'[s][c] = mem[s][c]
  BY <1>10
<1>14. Level' = Level /\ Vec(Level)' = v /\ Base(Level)' = b /\ SpAt(Level)' = sp'
       /\ StackAt(Level)' = stack
  BY <1>10 DEF Level, Vec, Base, SpAt, StackAt, v, b
<1>15. RegsSaved(Level)'
  <2> SUFFICES ASSUME ~Erring(v), NEW e \in 1 .. 9, b + e <= sp
               PROVE  mem[stack][b + e] = interrupted[Level].regs[Order[e]]
    BY <1>10, <1>14 DEF RegsSaved, Erring, Order
  <2> QED BY <1>2, TopRegs DEF v, b
<1>16. RegsKept'
  <2> SUFFICES ASSUME ~Erring(v), NEW e \in 1 .. 9, b + e > sp
               PROVE  regs[Order[e]] = interrupted[Level].regs[Order[e]]
    BY <1>10, <1>14 DEF RegsKept, Erring, Order
  <2> QED BY <1>2, TopRegs DEF v, b
<1> QED BY <1>2, <1>8, <1>10, <1>12, <1>13, <1>15, <1>16, Executes DEF b

\* iretq finds its frame, and so the level below goes on.
LEMMA AtIretq ==
  ASSUME TypeInv, Nesting, Running, code # <<>>, code[1] = iretq
  PROVE  Level > 0 /\ sp = Base(Level)
<1>1. code[1].op = "iretq"
  BY DEF iretq
<1>2. Level > 0
  BY <1>1, AtInstruction
<1>3. PICK p \in 1 .. StubLen(Vec(Level)) :
        sp = Base(Level) + Depth(Vec(Level), p) /\ code[1] = isr_stub(Vec(Level))[p]
        /\ Does(Vec(Level), p)
  BY <1>1, AtInstruction
<1>4. Depth(Vec(Level), p) = 0
  BY <1>1, <1>3 DEF Does
<1>5. Base(Level) \in Nat
  BY <1>2, Where
<1> QED BY <1>2, <1>3, <1>4, <1>5

LEMMA IretqInv == ASSUME IInv, Iretq PROVE IInv'
<1>0. TypeInv /\ Nesting /\ Room /\ Waiting /\ Running /\ AllSaved
  BY DEF IInv
<1>n. PICK n \in Nat : n = Level
  BY <1>0, Where
<1>1. n \in Nat /\ n > 0 /\ sp = Base(n)
  BY <1>0, <1>n, AtIretq DEF Iretq
<1>2. StackAt(n) = stack
  BY <1>n DEF StackAt
<1>3. Top(0) = Frame(Context(n - 1))
  <2>1. n \in 1 .. n /\ Base(n) \in 1 .. StackWords
    BY <1>0, <1>1, <1>n, Where
  <2>2. FrameSaved(n)
    BY <1>0, <1>n, <2>1 DEF AllSaved
  <2>3. sp - 0 = Base(n)
    BY <1>1, <2>1
  <2> QED BY <1>2, <2>2, <2>3 DEF FrameSaved, Top
<1>4. code' = CodeAt(n - 1) /\ stack' = StackAt(n - 1) /\ sp' = SpAt(n - 1)
      /\ IF_' = FlagAt(n - 1)
  <2>1. Top(0)[2] = Context(n - 1)
    BY <1>3 DEF Frame
  <2> QED BY <2>1 DEF Iretq, Context
<1>5. /\ interrupted' \in Seq(Records) /\ Len(interrupted') = n - 1
      /\ \A k \in 1 .. n - 1 : interrupted'[k] = interrupted[k]
  <2> DEFINE s == interrupted  m == n - 1
  <2>1. interrupted' = SubSeq(s, 1, m)
    BY <1>n DEF Iretq, Front, Level
  <2>2. m \in Nat /\ m \in Int /\ 1 \in Int /\ \A i \in 1 .. m : s[i] \in Records
    BY <1>0, <1>1, <1>n, Where
  <2> HIDE DEF s, m
  <2>3. /\ SubSeq(s, 1, m) \in Seq(Records)
        /\ Len(SubSeq(s, 1, m)) = IF 1 <= m THEN m - 1 + 1 ELSE 0
        /\ \A i \in 1 .. m - 1 + 1 : SubSeq(s, 1, m)[i] = s[1 + i - 1]
    BY <2>2, SubSeqProperties
  <2> DEFINE t == SubSeq(s, 1, m)
  <2> HIDE DEF t
  <2>4. t \in Seq(Records) /\ Len(t) = m /\ \A i \in 1 .. m : t[i] = s[i]
    <3>1. t \in Seq(Records) /\ Len(t) = (IF 1 <= m THEN m - 1 + 1 ELSE 0)
          /\ \A i \in 1 .. m - 1 + 1 : t[i] = s[1 + i - 1]
      BY <2>3 DEF t
    <3> QED BY <2>2, <3>1
  <2> QED BY <2>1, <2>4 DEF t, s, m
<1>6. Level' = n - 1
  BY <1>5 DEF Level
<1>7. \A k \in 0 .. n - 1 : Vec(k)' = Vec(k)
  BY <1>1, <1>5 DEF Vec
<1>8. \A k \in 1 .. n - 1 : Base(k)' = Base(k) /\ interrupted'[k].regs = interrupted[k].regs
  BY <1>5 DEF Base
<1>9. \A k \in 0 .. n - 1 : /\ StackAt(k)' = StackAt(k) /\ SpAt(k)' = SpAt(k)
                           /\ CodeAt(k)' = CodeAt(k) /\ FlagAt(k)' = FlagAt(k)
  <2> TAKE k \in 0 .. n - 1
  <2>1. CASE k = n - 1
    BY <2>1, <1>4, <1>6 DEF StackAt, SpAt, CodeAt, FlagAt
  <2>2. CASE k # n - 1
    <3>1. k + 1 \in 1 .. n - 1 /\ k # n
      BY <1>1, <2>2
    <3> QED BY <2>2, <3>1, <1>5, <1>6, <1>n DEF StackAt, SpAt, CodeAt, FlagAt
  <2> QED BY <2>1, <2>2
<1>10. UNCHANGED <<regs, mem>>
  BY DEF Iretq
<1>11. TypeInv'
  <2>1. n - 1 \in 0 .. n
    BY <1>1
  <2>2. Context(n - 1) \in Contexts
    BY <1>0, <2>1, Where, <1>n
  <2>3. code' \in Seq(Ops) /\ stack' \in Stacks /\ sp' \in 0 .. StackWords /\ IF_' \in {0, 1}
    BY <1>4, <2>2 DEF Context, Contexts
  <2> QED BY <1>0, <1>5, <1>10, <2>3 DEF TypeInv
<1>12. Nesting'
  <2>1. 0 \in 0 .. n - 1 /\ \A k \in 1 .. n - 1 : k \in 0 .. n - 1 /\ k \in 1 .. n
    BY <1>1
  <2>2. \A k \in 0 .. n - 1 : k \in 0 .. n
    BY <1>1
  <2> QED BY <1>0, <1>6, <1>7, <1>9, <2>1, <2>2, <1>n DEF Nesting
<1>13. Room'
  <2>0. \A k \in 0 .. n - 1 : k \in 0 .. n
    BY <1>1
  <2>1. \A k \in 0 .. n - 1 : SpAt(k)' <= 10 * k
    BY <1>0, <1>9, <2>0, <1>n DEF Room
  <2>2. \A k \in 1 .. n - 1 : Base(k)' <= 10 * k - 9
    BY <1>0, <1>1, <1>8, <1>n DEF Room
  <2>3. \A k \in 0 .. n - 1, x \in 1 .. 3 :
          StackAt(k)' = tss[x] => \E j \in 1 .. k : ist(Vec(j)') = x
    <3> TAKE k \in 0 .. n - 1, x \in 1 .. 3
    <3> HAVE StackAt(k)' = tss[x]
    <3>1. PICK j \in 1 .. k : ist(Vec(j)) = x
      BY <1>0, <1>9, <2>0, <1>n DEF Room
    <3>2. Vec(j)' = Vec(j)
      BY <1>1, <1>7
    <3> QED BY <3>1, <3>2
  <2>4. \A i, j \in 0 .. n - 1 : i < j /\ StackAt(i)' = StackAt(j)' => SpAt(i)' < Base(j)'
    <3> TAKE i, j \in 0 .. n - 1
    <3> HAVE i < j /\ StackAt(i)' = StackAt(j)'
    <3>1. SpAt(i)' = SpAt(i) /\ Base(j)' = Base(j) /\ StackAt(i) = StackAt(j)
      BY <1>1, <1>8, <1>9
    <3> QED BY <1>0, <2>0, <3>1, <1>n DEF Room
  <2> QED BY <1>6, <2>1, <2>2, <2>3, <2>4 DEF Room
<1>14. \A k \in 1 .. n - 1 : CodeAt(k) = InBody(Vec(k)) /\ SpAt(k) = Base(k) + 9
  BY <1>0, <1>n DEF Waiting
<1>15. \A k \in 1 .. n - 1 : /\ CodeAt(k)' = InBody(Vec(k)') /\ SpAt(k)' = Base(k)' + 9
                           /\ SpAt(k) = Base(k) + 9 /\ Base(k)' = Base(k)
  <2> TAKE k \in 1 .. n - 1
  <2>1. k \in 0 .. n - 1
    BY <1>1
  <2> QED BY <2>1, <1>7, <1>8, <1>9, <1>14
<1>16. Waiting'
  <2>1. \A k \in 1 .. Level' - 1 : k \in 1 .. n - 1
    BY <1>1, <1>6
  <2> QED BY <1>15, <2>1 DEF Waiting, InBody, Rest, isr_stub, CallAt
<1>17. Running'
  <2> SUFFICES ASSUME n - 1 > 0
               PROVE  code' = InBody(Vec(n - 1)') /\ sp' = Base(n - 1)' + 9
    BY <1>6 DEF Running, InBody, Rest, isr_stub, CallAt
  <2>1. n - 1 \in 1 .. n - 1
    BY <1>1
  <2>2. n - 1 \in 0 .. n - 1
    BY <1>1
  <2> QED BY <2>1, <2>2, <1>4, <1>7, <1>8, <1>14
<1>18. AllSaved'
  <2> SUFFICES ASSUME NEW k \in 1 .. n - 1
               PROVE  FrameSaved(k)' /\ RegsSaved(k)'
    BY <1>6 DEF AllSaved
  <2>0. k \in 0 .. n - 1 /\ k - 1 \in 0 .. n - 1 /\ k \in 1 .. n
    BY <1>1
  <2>1. Context(k - 1)' = Context(k - 1)
    BY <2>0, <1>9 DEF Context
  <2>2. Base(k)' = Base(k) /\ StackAt(k)' = StackAt(k) /\ Vec(k)' = Vec(k)
        /\ SpAt(k)' = SpAt(k) /\ interrupted'[k].regs = interrupted[k].regs
    BY <2>0, <1>7, <1>8, <1>9
  <2>3. FrameSaved(k) /\ RegsSaved(k)
    BY <1>0, <2>0, <1>n DEF AllSaved
  <2>4. FrameSaved(k)'
    BY <1>10, <2>1, <2>2, <2>3 DEF FrameSaved, Frame
  <2>5. RegsSaved(k)'
    BY <1>10, <2>2, <2>3 DEF RegsSaved, Erring, Order
  <2> QED BY <2>4, <2>5
<1>19. RegsKept'
  <2> SUFFICES ASSUME n - 1 > 0, NEW d \in 1 .. 9, Base(n - 1)' + d > sp'
               PROVE  FALSE
    BY <1>6 DEF RegsKept
  <2>1. n - 1 \in 1 .. n - 1 /\ n - 1 \in 0 .. n - 1 /\ n - 1 \in 1 .. Level
    BY <1>1, <1>n
  <2>2. sp' = Base(n - 1) + 9 /\ Base(n - 1)' = Base(n - 1) /\ Base(n - 1) \in Nat
    BY <1>0, <1>4, <1>15, <2>1, Where
  <2> QED BY <2>2
<1> QED BY <1>11, <1>12, <1>13, <1>16, <1>17, <1>18, <1>19 DEF IInv

\* An interrupt is taken by C code: the program, or the body of isr_helper.
LEMMA Interruptible ==
  ASSUME IInv, RunsC
  PROVE  /\ Level = 0 => code = <<>> /\ sp = 0
         /\ Level > 0 => code = InBody(Vec(Level)) /\ sp = Base(Level) + 9
<1>0. TypeInv /\ Nesting /\ Running
  BY DEF IInv
<1>1. Level = 0 => code = <<>> /\ sp = 0
  BY <1>0 DEF Nesting, CodeAt, SpAt
<1>2. ASSUME Level > 0 PROVE code # <<>>
  <2>1. Vec(Level) \in Vectors
    BY <1>0, <1>2, RoomLeft
  <2>2. CASE code = InBody(Vec(Level))
    BY <2>1, <2>2, BodyProps
  <2>3. CASE \E p \in 1 .. StubLen(Vec(Level)) : InStub(p)
    BY <2>1, <2>3, RestProps DEF InStub
  <2> QED BY <1>0, <1>2, <2>2, <2>3 DEF Running
<1>3. ASSUME Level > 0 PROVE code = InBody(Vec(Level)) /\ sp = Base(Level) + 9
  <2>1. code # <<>> /\ code[1].op = "body"
    BY <1>2, <1>3 DEF RunsC, body
  <2> QED BY <1>0, <2>1, AtInstruction
<1> QED BY <1>1, <1>3

\* The vector has a higher rank than all that is being handled, so there is
\* room for its words, and its stack is not in use if it has one of its own.
LEMMA Deeper ==
  ASSUME IInv, RunsC, NEW v \in External \cup Exceptions,
         IF v \in External THEN IF_ = 1 ELSE v \in MayRaise[Current]
  PROVE  /\ v \in Vectors /\ v \in DOMAIN MayRaise /\ v # 0
         /\ \A k \in 0 .. Level : Rank[Vec(k)] < Rank[v]
         /\ Rank[v] >= Level + 1
         /\ 10 * Level + 10 <= StackWords
         /\ ist(v) # 0 => \A k \in 0 .. Level : StackAt(k) # tss[ist(v)]
<1>0. TypeInv /\ Nesting /\ Room
  BY DEF IInv
<1>1. Level \in Nat /\ \A k \in 0 .. Level : Vec(k) \in DOMAIN MayRaise
  BY <1>0, Where
<1>2. v \in Vectors /\ v \in DOMAIN MayRaise /\ v # 0
  BY RankProps
<1>3. Rank[Vec(Level)] < Rank[v]
  <2>1. CASE v \in External
    <3>1. Level = 0
      <4>1. Level \in 1 .. Level => FlagAt(Level) = 0
        BY <1>0 DEF Nesting
      <4> QED BY <1>1, <2>1, <4>1 DEF FlagAt
    <3>2. Vec(Level) = 0
      BY <3>1 DEF Vec
    <3> QED BY <2>1, <3>2, RankProps
  <2>2. CASE v \notin External
    <3>1. v \in MayRaise[Vec(Level)] /\ Vec(Level) \in DOMAIN MayRaise
      BY <1>0, <1>1, <2>2, Where
    <3> QED BY <3>1, RankProps
  <2> QED BY <2>1, <2>2
<1>4. \A k \in 0 .. Level : Rank[Vec(k)] < Rank[v]
  <2> TAKE k \in 0 .. Level
  <2>1. Rank[Vec(k)] \in Nat /\ Rank[Vec(Level)] \in Nat /\ Rank[v] \in Nat
    BY <1>1, <1>2, RankProps
  <2>2. k < Level => Rank[Vec(k)] < Rank[Vec(Level)]
    BY <1>0, <1>1 DEF Nesting
  <2>3. CASE k = Level
    BY <1>3, <2>3
  <2>4. CASE k # Level
    <3>1. Rank[Vec(k)] < Rank[Vec(Level)]
      BY <1>1, <2>2, <2>4
    <3> QED BY <1>3, <2>1, <3>1
  <2> QED BY <2>3, <2>4
<1>5. Rank[v] >= Level + 1 /\ 10 * Level + 10 <= StackWords
  <2> DEFINE r == Rank[v]  q == Rank[Vec(Level)]  n == Level
  <2>1. r \in Nat /\ q \in Nat /\ 10 * r <= StackWords /\ q < r /\ q >= n /\ n \in Nat
        /\ StackWords \in Nat
    BY <1>0, <1>1, <1>2, <1>3, RankProps, IsrEntryAssumption DEF Nesting
  <2> HIDE DEF r, q, n
  <2>2. r >= n + 1 /\ 10 * n + 10 <= StackWords
    BY <2>1
  <2> QED BY <2>2 DEF r, n
<1>6. ASSUME ist(v) # 0, NEW k \in 0 .. Level, StackAt(k) = tss[ist(v)] PROVE FALSE
  <2>1. ist(v) \in 1 .. 3
    BY <1>2, <1>6, StacksProps
  <2>2. PICK j \in 1 .. k : ist(Vec(j)) = ist(v)
    BY <1>0, <1>6, <2>1 DEF Room
  <2>3. j \in 1 .. Level /\ j \in 0 .. Level
    BY <1>1
  <2>4. Vec(j) \in Vectors
    BY <1>0, <2>3, Where
  <2>5. Vec(j) = v
    BY <1>2, <1>6, <2>2, <2>4, StacksProps
  <2>6. Rank[v] < Rank[v] /\ Rank[v] \in Nat
    BY <1>2, <1>4, <2>3, <2>5, RankProps
  <2> QED BY <2>6
<1> QED BY <1>2, <1>4, <1>5, <1>6

LEMMA InterruptInv ==
  ASSUME IInv, NEW v \in External \cup Exceptions, Interrupt(v)
  PROVE  IInv'
<1>0. TypeInv /\ Nesting /\ Room /\ Waiting /\ Running /\ AllSaved
  BY DEF IInv
<1>n. PICK n \in Nat : n = Level
  BY <1>0, Where
<1>1. RunsC /\ IF v \in External THEN IF_ = 1 ELSE v \in MayRaise[Current]
  BY DEF Interrupt
<1>2. /\ v \in Vectors /\ v \in DOMAIN MayRaise /\ v # 0
      /\ \A k \in 0 .. n : Rank[Vec(k)] < Rank[v]
      /\ Rank[v] >= n + 1
      /\ 10 * n + 10 <= StackWords
      /\ ist(v) # 0 => \A k \in 0 .. n : StackAt(k) # tss[ist(v)]
  BY <1>1, <1>n, Deeper
<1>3. /\ n = 0 => code = <<>> /\ sp = 0
      /\ n > 0 => code = InBody(Vec(n)) /\ sp = Base(n) + 9
  BY <1>1, <1>n, Interruptible
<1>4. idt[v].ist = ist(v) /\ idt[v].isr = isr_stub(v) /\ idt[v].flag = 0
  BY <1>2 DEF idt, isr_table, Vectors
<1>5. PICK s \in Stacks, top \in Nat :
        /\ s = IF ist(v) = 0 THEN stack ELSE tss[ist(v)]
        /\ top = IF ist(v) = 0 THEN sp ELSE 0
  <2>1. ist(v) # 0 => tss[ist(v)] \in Stacks
    BY <1>2, StacksProps
  <2>2. stack \in Stacks /\ sp \in Nat
    BY <1>0 DEF TypeInv
  <2>3. PICK s \in Stacks : s = IF ist(v) = 0 THEN stack ELSE tss[ist(v)]
    BY <2>1, <2>2
  <2>4. PICK top \in Nat : top = IF ist(v) = 0 THEN sp ELSE 0
    BY <2>2
  <2> QED BY <2>3, <2>4
<1>6. top <= 10 * n /\ \A k \in 0 .. n : StackAt(k) = s => SpAt(k) <= top
  <2>1. n \in 0 .. n /\ SpAt(n) = sp /\ StackAt(n) = stack
    BY <1>n DEF SpAt, StackAt
  <2>2. CASE ist(v) = 0
    <3>1. sp <= 10 * n
      BY <1>0, <1>n, <2>1 DEF Room
    <3>2. ASSUME NEW k \in 0 .. n, StackAt(k) = stack PROVE SpAt(k) <= sp
      <4>1. CASE k = n
        BY <1>0, <2>1, <4>1 DEF TypeInv
      <4>2. CASE k # n
        <5>1. SpAt(k) < Base(n)
          BY <1>0, <1>n, <2>1, <3>2, <4>2 DEF Room
        <5>2. n > 0 /\ n \in 1 .. n
          BY <4>2
        <5>3. Base(n) \in Nat /\ SpAt(k) \in Nat /\ sp = Base(n) + 9
          BY <1>0, <1>n, <1>3, <5>2, Where
        <5> QED BY <5>1, <5>3
      <4> QED BY <4>1, <4>2
    <3> QED BY <1>5, <2>2, <3>1, <3>2
  <2>3. CASE ist(v) # 0
    BY <1>2, <1>5, <2>3
  <2> QED BY <2>2, <2>3
<1>7. PICK pushed : pushed = IF v \in error_isrs THEN <<Frame(Context(n)), ErrorCode>>
                             ELSE <<Frame(Context(n))>>
  OBVIOUS
<1>8. /\ DOMAIN pushed = 1 .. Len(pushed) /\ Len(pushed) \in 1 .. 2
      /\ pushed[1] = Frame(Context(n)) /\ \A i \in 1 .. Len(pushed) : pushed[i] \in Words
      /\ Len(pushed) = 1 + Depth(v, 1)
  <2>1. Context(n) \in Contexts
    BY <1>0, <1>n, Where
  <2>2. PICK x \in Words : x = Frame(Context(n))
    BY <2>1, WordsTyped
  <2>3. PICK y \in Words : y = ErrorCode
    BY WordsTyped
  <2>4. pushed = IF v \in error_isrs THEN <<x, y>> ELSE <<x>>
    BY <1>7, <2>2, <2>3
  <2>5. CASE v \in error_isrs
    <3>1. Depth(v, 1) = 1 /\ pushed = <<x, y>>
      BY <2>4, <2>5 DEF Depth, Erring
    <3>2. DOMAIN pushed = 1 .. 2 /\ Len(pushed) = 2 /\ pushed[1] = x /\ pushed[2] = y
      BY <3>1
    <3>3. \A i \in 1 .. 2 : pushed[i] \in Words
      BY <3>2
    <3> QED BY <2>2, <3>1, <3>2, <3>3
  <2>6. CASE v \notin error_isrs
    <3>1. Depth(v, 1) = 0 /\ pushed = <<x>>
      BY <2>4, <2>6 DEF Depth, Erring
    <3>2. DOMAIN pushed = 1 .. 1 /\ Len(pushed) = 1 /\ pushed[1] = x
      BY <3>1
    <3>3. \A i \in 1 .. 1 : pushed[i] \in Words
      BY <3>2
    <3> QED BY <2>2, <3>1, <3>2, <3>3
  <2> QED BY <2>5, <2>6
<1>9. Context(n) = [code |-> code, stack |-> stack, sp |-> sp, flag |-> IF_]
  BY <1>n DEF Context, CodeAt, StackAt, SpAt, FlagAt
<1>10. PICK r : r = [vector |-> v, regs |-> regs, code |-> code, stack |-> stack,
                     sp |-> sp, flag |-> IF_, frame |-> top + 1]
  OBVIOUS
<1>r. /\ r.vector = v /\ r.regs = regs /\ r.code = code /\ r.stack = stack /\ r.sp = sp
      /\ r.flag = IF_ /\ r.frame = top + 1
  BY <1>10
<1>11. /\ mem' = [mem EXCEPT ![s] = [c \in 1 .. StackWords |->
                     IF c - top \in DOMAIN pushed THEN pushed[c - top] ELSE mem[s][c]]]
       /\ stack' = s /\ sp' = top + Len(pushed) /\ code' = isr_stub(v) /\ IF_' = 0
       /\ interrupted' = Append(interrupted, r) /\ UNCHANGED regs
  BY <1>4, <1>5, <1>7, <1>9, <1>10 DEF Interrupt
<1>12. StackWords \in Nat /\ top + 2 <= StackWords
  BY <1>2, <1>6, IsrEntryAssumption
<1>13. r \in Records
  <2>1. top + 1 \in 1 .. StackWords
    BY <1>12
  <2> QED BY <1>0, <1>10, <2>1 DEF TypeInv, Records
<1>14. /\ interrupted' \in Seq(Records) /\ Len(interrupted') = n + 1
       /\ \A k \in 1 .. n : interrupted'[k] = interrupted[k]
       /\ interrupted'[n + 1] = r
  BY <1>0, <1>n, <1>11, <1>13, AppendProperties DEF TypeInv, Level
<1>15. Level' = n + 1
  BY <1>14 DEF Level
<1>16. \A k \in 0 .. n : /\ Vec(k)' = Vec(k) /\ StackAt(k)' = StackAt(k) /\ SpAt(k)' = SpAt(k)
                        /\ CodeAt(k)' = CodeAt(k) /\ FlagAt(k)' = FlagAt(k)
  <2> TAKE k \in 0 .. n
  <2>1. Vec(k)' = Vec(k)
    BY <1>14 DEF Vec
  <2>2. k # Level'
    BY <1>15
  <2>3. /\ StackAt(k)' = interrupted'[k + 1].stack /\ SpAt(k)' = interrupted'[k + 1].sp
        /\ CodeAt(k)' = interrupted'[k + 1].code /\ FlagAt(k)' = interrupted'[k + 1].flag
    BY <2>2 DEF StackAt, SpAt, CodeAt, FlagAt
  <2>4. CASE k = n
    <3>1. interrupted'[k + 1] = r
      BY <1>14, <2>4
    <3>2. StackAt(k) = stack /\ SpAt(k) = sp /\ CodeAt(k) = code /\ FlagAt(k) = IF_
      BY <1>n, <2>4 DEF StackAt, SpAt, CodeAt, FlagAt
    <3> QED BY <1>r, <2>1, <2>3, <3>1, <3>2
  <2>5. CASE k # n
    <3>1. interrupted'[k + 1] = interrupted[k + 1]
      BY <1>14, <2>5
    <3>2. /\ StackAt(k) = interrupted[k + 1].stack /\ SpAt(k) = interrupted[k + 1].sp
          /\ CodeAt(k) = interrupted[k + 1].code /\ FlagAt(k) = interrupted[k + 1].flag
      BY <1>n, <2>5 DEF StackAt, SpAt, CodeAt, FlagAt
    <3> QED BY <2>1, <2>3, <3>1, <3>2
  <2> QED BY <2>4, <2>5
<1>17. \A k \in 1 .. n : Base(k)' = Base(k) /\ interrupted'[k].regs = interrupted[k].regs
  BY <1>14 DEF Base
<1>18. PICK m \in Nat : m = n + 1
  OBVIOUS
<1>19. /\ Vec(m)' = v /\ Base(m)' = top + 1 /\ interrupted'[m].regs = regs
       /\ StackAt(m)' = s /\ SpAt(m)' = top + Len(pushed) /\ CodeAt(m)' = isr_stub(v)
       /\ FlagAt(m)' = 0 /\ m # 0
  <2>1. interrupted'[m] = r /\ Level' = m /\ m # 0
    BY <1>14, <1>15, <1>18
  <2>2. Vec(m)' = interrupted'[m].vector /\ Base(m)' = interrupted'[m].frame
    BY <2>1 DEF Vec, Base
  <2>3. StackAt(m)' = stack' /\ SpAt(m)' = sp' /\ CodeAt(m)' = code' /\ FlagAt(m)' = IF_'
    BY <2>1 DEF StackAt, SpAt, CodeAt, FlagAt
  <2> QED BY <1>r, <1>11, <2>1, <2>2, <2>3
<1>20. /\ mem' \in [Stacks -> [1 .. StackWords -> Words]] /\ mem'[s][top + 1] = Frame(Context(n))
       /\ \A t \in Stacks, c \in 1 .. StackWords : t # s \/ c <= top => mem'[t][c] = mem[t][c]
  <2>1. PICK a : a = [c \in 1 .. StackWords |->
                       IF c - top \in DOMAIN pushed THEN pushed[c - top] ELSE mem[s][c]]
    OBVIOUS
  <2>2. \A c \in 1 .. StackWords : mem[s][c] \in Words
    BY <1>0 DEF TypeInv
  <2>3. a \in [1 .. StackWords -> Words]
    BY <1>8, <2>1, <2>2
  <2>4. a[top + 1] = pushed[1]
    BY <1>8, <1>12, <2>1
  <2>5. \A c \in 1 .. StackWords : c <= top => a[c] = mem[s][c]
    BY <1>8, <2>1
  <2>6. mem' = [mem EXCEPT ![s] = a]
    BY <1>11, <2>1
  <2>7. mem' \in [Stacks -> [1 .. StackWords -> Words]] /\ mem'[s] = a
        /\ \A t \in Stacks : t # s => mem'[t] = mem[t]
    BY <1>0, <2>3, <2>6 DEF TypeInv
  <2> QED BY <1>8, <2>4, <2>5, <2>7
<1>21. TypeInv'
  <2>1. sp' \in 0 .. StackWords
    BY <1>8, <1>11, <1>12
  <2>2. code' \in Seq(Ops) /\ IF_' \in {0, 1} /\ stack' \in Stacks
    BY <1>2, <1>11, StubTyped
  <2> QED BY <1>0, <1>11, <1>14, <1>20, <2>1, <2>2 DEF TypeInv
<1>22. Nesting'
  <2>1. \A k \in 0 .. m : Rank[Vec(k)'] >= k
    <3> TAKE k \in 0 .. m
    <3>1. CASE k = m
      BY <1>2, <1>18, <1>19, <3>1
    <3>2. CASE k # m
      <4>1. k \in 0 .. n
        BY <1>18, <3>2
      <4> QED BY <1>0, <1>n, <1>16, <4>1 DEF Nesting
    <3> QED BY <3>1, <3>2
  <2>2. \A i, j \in 0 .. m : i < j => Rank[Vec(i)'] < Rank[Vec(j)']
    <3> TAKE i, j \in 0 .. m
    <3> HAVE i < j
    <3>0. i \in 0 .. n /\ Vec(i)' = Vec(i)
      BY <1>16, <1>18
    <3>1. CASE j = m
      BY <1>2, <1>19, <3>0, <3>1
    <3>2. CASE j # m
      <4>1. j \in 0 .. n /\ Vec(j)' = Vec(j)
        BY <1>16, <1>18, <3>2
      <4> QED BY <1>0, <1>n, <3>0, <4>1 DEF Nesting
    <3> QED BY <3>1, <3>2
  <2>3. \A k \in 1 .. m : FlagAt(k)' = 0
    <3> TAKE k \in 1 .. m
    <3>1. CASE k = m
      BY <1>19, <3>1
    <3>2. CASE k # m
      <4>1. k \in 1 .. n /\ k \in 0 .. n
        BY <1>18, <3>2
      <4> QED BY <1>0, <1>n, <1>16, <4>1 DEF Nesting
    <3> QED BY <3>1, <3>2
  <2>4. 0 \in 0 .. n
    OBVIOUS
  <2>5. CodeAt(0)' = <<>> /\ StackAt(0)' = "stack" /\ SpAt(0)' = 0
    BY <1>0, <1>16, <2>4 DEF Nesting
  <2> QED BY <1>15, <1>18, <2>1, <2>2, <2>3, <2>5 DEF Nesting
<1>23. Room'
  <2>1. \A k \in 0 .. m : SpAt(k)' <= 10 * k
    <3> TAKE k \in 0 .. m
    <3>1. CASE k = m
      BY <1>6, <1>8, <1>18, <1>19, <3>1
    <3>2. CASE k # m
      <4>1. k \in 0 .. n
        BY <1>18, <3>2
      <4> QED BY <1>0, <1>n, <1>16, <4>1 DEF Room
    <3> QED BY <3>1, <3>2
  <2>2. \A k \in 1 .. m : Base(k)' <= 10 * k - 9
    <3> TAKE k \in 1 .. m
    <3>1. CASE k = m
      BY <1>6, <1>18, <1>19, <3>1
    <3>2. CASE k # m
      <4>1. k \in 1 .. n
        BY <1>18, <3>2
      <4> QED BY <1>0, <1>n, <1>17, <4>1 DEF Room
    <3> QED BY <3>1, <3>2
  <2>3. \A k \in 0 .. n, x \in 1 .. 3 :
          StackAt(k) = tss[x] => \E j \in 1 .. k : ist(Vec(j)') = x
    <3> TAKE k \in 0 .. n, x \in 1 .. 3
    <3> HAVE StackAt(k) = tss[x]
    <3>1. PICK j \in 1 .. k : ist(Vec(j)) = x
      BY <1>0, <1>n DEF Room
    <3>2. j \in 0 .. n
      OBVIOUS
    <3>3. Vec(j)' = Vec(j)
      BY <1>16, <3>2
    <3> QED BY <3>1, <3>3
  <2>4. \A k \in 0 .. m, x \in 1 .. 3 :
          StackAt(k)' = tss[x] => \E j \in 1 .. k : ist(Vec(j)') = x
    <3> TAKE k \in 0 .. m, x \in 1 .. 3
    <3> HAVE StackAt(k)' = tss[x]
    <3>1. CASE k # m
      <4>1. k \in 0 .. n
        BY <1>18, <3>1
      <4> QED BY <1>16, <2>3, <4>1
    <3>2. CASE k = m /\ ist(v) = 0
      <4>1. n \in 0 .. n /\ StackAt(n) = s
        BY <1>n, <1>5, <3>2 DEF StackAt
      <4>2. StackAt(n) = tss[x]
        BY <1>19, <3>2, <4>1
      <4>3. PICK j \in 1 .. n : ist(Vec(j)') = x
        BY <2>3, <4>1, <4>2
      <4>4. j \in 1 .. k
        BY <1>18, <3>2
      <4> QED BY <4>3, <4>4
    <3>3. CASE k = m /\ ist(v) # 0
      <4>1. tss[ist(v)] = tss[x] /\ ist(v) \in 1 .. 3
        BY <1>2, <1>5, <1>19, <3>3, StacksProps
      <4>2. ist(v) = x
        BY <4>1, StacksProps
      <4>3. k \in 1 .. k
        BY <1>18, <3>3
      <4> QED BY <1>19, <3>3, <4>2, <4>3
    <3> QED BY <3>1, <3>2, <3>3
  <2>5. \A i, j \in 0 .. m : i < j /\ StackAt(i)' = StackAt(j)' => SpAt(i)' < Base(j)'
    <3> TAKE i, j \in 0 .. m
    <3> HAVE i < j /\ StackAt(i)' = StackAt(j)'
    <3>0. i \in 0 .. n /\ StackAt(i)' = StackAt(i) /\ SpAt(i)' = SpAt(i)
      BY <1>16, <1>18
    <3>1. CASE j = m
      <4>1. StackAt(i) = s
        BY <1>19, <3>0, <3>1
      <4>2. SpAt(i) <= top /\ SpAt(i) \in 0 .. StackWords
        BY <1>0, <1>n, <1>6, <3>0, <4>1, Where
      <4> QED BY <1>19, <3>0, <3>1, <4>2
    <3>2. CASE j # m
      <4>1. j \in 0 .. n /\ j \in 1 .. n
        BY <1>18, <3>2
      <4>2. StackAt(j)' = StackAt(j) /\ Base(j)' = Base(j)
        BY <1>16, <1>17, <4>1
      <4> QED BY <1>0, <1>n, <3>0, <4>1, <4>2 DEF Room
    <3> QED BY <3>1, <3>2
  <2> QED BY <1>15, <1>18, <2>1, <2>2, <2>4, <2>5 DEF Room
<1>24. \A k \in 1 .. n : CodeAt(k) = InBody(Vec(k)) /\ SpAt(k) = Base(k) + 9
  <2> TAKE k \in 1 .. n
  <2>1. CASE k = n
    BY <1>n, <1>3, <2>1 DEF CodeAt, SpAt
  <2>2. CASE k # n
    <3>1. k \in 1 .. Level - 1
      BY <1>n, <2>2
    <3> QED BY <1>0, <3>1 DEF Waiting
  <2> QED BY <2>1, <2>2
<1>25. Waiting'
  <2>1. \A k \in 1 .. n : CodeAt(k)' = InBody(Vec(k)') /\ SpAt(k)' = Base(k)' + 9
    <3> TAKE k \in 1 .. n
    <3>1. k \in 0 .. n
      OBVIOUS
    <3> QED BY <3>1, <1>16, <1>17, <1>24
  <2>2. \A k \in 1 .. Level' - 1 : k \in 1 .. n
    BY <1>15
  <2> QED BY <2>1, <2>2 DEF Waiting, InBody, Rest, isr_stub, CallAt
<1>26. Running'
  <2>1. 1 \in 1 .. StubLen(v) /\ Vec(Level)' = v /\ Base(Level)' = top + 1
    BY <1>15, <1>18, <1>19 DEF StubLen
  <2>2. code' = Rest(v, 1)
    <3>1. isr_stub(v) \in Seq(Ops)
      BY <1>2, StubTyped
    <3>2. SubSeq(isr_stub(v), 1, Len(isr_stub(v))) = isr_stub(v)
      BY <3>1, SubSeqFull
    <3> QED BY <1>11, <3>2 DEF Rest
  <2>3. sp' = top + 1 + Depth(v, 1)
    <3>1. Depth(v, 1) \in Nat
      BY DEF Depth
    <3> QED BY <1>8, <1>11, <3>1
  <2>4. InStub(1)'
    BY <2>1, <2>2, <2>3 DEF InStub
  <2> QED BY <2>1, <2>4 DEF Running, StubLen, Erring
<1>27. AllSaved'
  <2> SUFFICES ASSUME NEW k \in 1 .. m
               PROVE  FrameSaved(k)' /\ RegsSaved(k)'
    BY <1>15, <1>18 DEF AllSaved
  <2>1. CASE k = m
    <3>1. Context(k - 1)' = Context(n)
      <4>1. k - 1 = n /\ n \in 0 .. n
        BY <1>18, <2>1
      <4> QED BY <4>1, <1>16 DEF Context
    <3>2. FrameSaved(k)'
      BY <1>19, <1>20, <2>1, <3>1 DEF FrameSaved, Frame
    <3>3. ~Erring(v) => \A d \in 1 .. 9 : ~(top + 1 + d <= top + Len(pushed))
      BY <1>8 DEF Depth
    <3>4. RegsSaved(k)'
      BY <1>19, <2>1, <3>3 DEF RegsSaved, Erring
    <3> QED BY <3>2, <3>4
  <2>2. CASE k # m
    <3>0. k \in 1 .. n /\ k \in 0 .. n /\ k - 1 \in 0 .. n
      BY <1>18, <2>2
    <3>1. Context(k - 1)' = Context(k - 1)
      BY <3>0, <1>16 DEF Context
    <3>2. Base(k)' = Base(k) /\ StackAt(k)' = StackAt(k) /\ Vec(k)' = Vec(k)
          /\ SpAt(k)' = SpAt(k) /\ interrupted'[k].regs = interrupted[k].regs
      BY <3>0, <1>16, <1>17
    <3>3. FrameSaved(k) /\ RegsSaved(k)
      BY <1>0, <1>n, <3>0 DEF AllSaved
    <3>4. Base(k) \in 1 .. StackWords /\ SpAt(k) \in 0 .. StackWords /\ StackAt(k) \in Stacks
          /\ SpAt(k) = Base(k) + 9 /\ (StackAt(k) = s => SpAt(k) <= top)
      BY <1>0, <1>n, <1>6, <1>24, <3>0, Where
    <3>5. \A c \in 1 .. SpAt(k) : mem'[StackAt(k)][c] = mem[StackAt(k)][c]
      <4> TAKE c \in 1 .. SpAt(k)
      <4>1. c \in 1 .. StackWords /\ (StackAt(k) # s \/ c <= top)
        BY <1>12, <3>4
      <4> QED BY <1>20, <3>4, <4>1
    <3>6. Base(k) \in 1 .. SpAt(k)
      BY <3>4
    <3>7. FrameSaved(k)'
      BY <3>1, <3>2, <3>3, <3>5, <3>6 DEF FrameSaved, Frame
    <3>8. RegsSaved(k)'
      <4> SUFFICES ASSUME ~Erring(Vec(k)), NEW d \in 1 .. 9, Base(k) + d <= SpAt(k)
                   PROVE  mem'[StackAt(k)][Base(k) + d] = interrupted[k].regs[Order[d]]
        BY <3>2 DEF RegsSaved, Erring, Order
      <4>1. Base(k) + d \in 1 .. SpAt(k)
        BY <3>4
      <4> QED BY <3>3, <3>5, <4>1 DEF RegsSaved
    <3> QED BY <3>7, <3>8
  <2> QED BY <2>1, <2>2
<1>28. RegsKept'
  <2>1. Vec(Level)' = v /\ interrupted'[Level'].regs = regs /\ regs' = regs
    BY <1>11, <1>15, <1>18, <1>19
  <2> QED BY <2>1 DEF RegsKept, Order
<1> QED BY <1>21, <1>22, <1>23, <1>25, <1>26, <1>27, <1>28 DEF IInv

LEMMA NextInv == ASSUME IInv, [EntryNext]_entry_vars PROVE IInv'
<1>1. CASE Push
  BY <1>1, PushInv
<1>2. CASE Pop
  BY <1>2, PopInv
<1>3. CASE Load
  BY <1>3, LoadInv
<1>4. CASE Store
  BY <1>4, StoreInv
<1>5. CASE Immediate
  BY <1>5, ImmediateInv
<1>6. CASE Call
  BY <1>6, CallInv
<1>7. CASE HelperReturns
  BY <1>7, HelperReturnsInv
<1>8. CASE Iretq
  BY <1>8, IretqInv
<1>9. CASE \E v \in External \cup Exceptions : Interrupt(v)
  BY <1>9, InterruptInv
<1>10. CASE UNCHANGED entry_vars
  <2>1. UNCHANGED <<regs, mem, stack, sp, code, IF_, interrupted>>
    BY <1>10 DEF entry_vars
  <2>2. Level' = Level
    BY <2>1 DEF Level
  <2>3. \A k : /\ Vec(k)' = Vec(k) /\ Base(k)' = Base(k) /\ StackAt(k)' = StackAt(k)
               /\ SpAt(k)' = SpAt(k) /\ CodeAt(k)' = CodeAt(k) /\ FlagAt(k)' = FlagAt(k)
    BY <2>1, <2>2 DEF Vec, Base, StackAt, SpAt, CodeAt, FlagAt
  <2>4. \A k : Context(k)' = Context(k)
    BY <2>3 DEF Context
  <2>5. TypeInv' = TypeInv
    BY <2>1 DEF TypeInv
  <2>6. Nesting' = Nesting
    BY <2>2, <2>3 DEF Nesting
  <2>7. Room' = Room
    BY <2>2, <2>3 DEF Room
  <2>8. Waiting' = Waiting
    BY <2>2, <2>3 DEF Waiting, InBody, Rest, isr_stub, CallAt
  <2>9. Running' = Running
    BY <2>1, <2>2, <2>3 DEF Running, InStub, InBody, Rest, isr_stub, CallAt, StubLen, Depth, Erring
  <2>10. AllSaved' = AllSaved
    <3>1. \A k : FrameSaved(k)' = FrameSaved(k)
      BY <2>1, <2>3, <2>4 DEF FrameSaved, Frame
    <3>2. \A k : RegsSaved(k)' = RegsSaved(k)
      BY <2>1, <2>3 DEF RegsSaved, Order, Erring
    <3> QED BY <2>2, <3>1, <3>2 DEF AllSaved
  <2>11. RegsKept' = RegsKept
    BY <2>1, <2>2, <2>3 DEF RegsKept, Order, Erring
  <2> QED BY <2>5, <2>6, <2>7, <2>8, <2>9, <2>10, <2>11 DEF IInv
<1> QED BY <1>1, <1>2, <1>3, <1>4, <1>5, <1>6, <1>7, <1>8, <1>9, <1>10 DEF EntryNext, Instruction

-----------------------------------------------------------------------------
(* The theorems.                                                           *)

\* The invariant holds in every behaviour of the stubs.
THEOREM Invariant == EntrySpec => []IInv
BY InitInv, NextInv, PTL DEF EntrySpec

\* At every iretq of isr_general the interrupt's own frame is on top, for any
\* program, any handlers and any nesting of interrupts.
THEOREM FrameAlwaysOnTop == EntrySpec => []FrameOnTop
<1>1. ASSUME IInv PROVE FrameOnTop
  <2>0. TypeInv /\ Nesting /\ Running /\ AllSaved
    BY <1>1 DEF IInv
  <2> SUFFICES ASSUME code # <<>>, code[1] = iretq
               PROVE  LET i == Last(interrupted)
                      IN /\ sp = i.frame
                         /\ Top(0) = Frame([code |-> i.code, stack |-> i.stack,
                                           sp |-> i.sp, flag |-> i.flag])
    BY DEF FrameOnTop
  <2>n. PICK n \in Nat : n = Level
    BY <2>0, Where
  <2>1. n > 0 /\ sp = Base(n)
    BY <2>0, <2>n, AtIretq
  <2>2. n \in 1 .. n /\ n # n - 1 /\ (n - 1) + 1 = n /\ Base(n) \in 1 .. StackWords
    BY <2>0, <2>n, <2>1, Where
  <2>3. FrameSaved(n) /\ StackAt(n) = stack /\ Last(interrupted) = interrupted[n]
    BY <2>0, <2>n, <2>1, <2>2, Where DEF AllSaved, StackAt
  <2>4. sp - 0 = Base(n)
    BY <2>1, <2>2
  <2>5. Top(0) = Frame(Context(n - 1))
    BY <2>3, <2>4 DEF FrameSaved, Top
  <2>6. Context(n - 1) = [code |-> interrupted[n].code, stack |-> interrupted[n].stack,
                          sp |-> interrupted[n].sp, flag |-> interrupted[n].flag]
    BY <2>2, <2>n DEF Context, CodeAt, StackAt, SpAt, FlagAt
  <2> QED BY <2>1, <2>3, <2>5, <2>6 DEF Base
<1> QED BY <1>1, Invariant, PTL

\* An interrupt through isr_nonerror gives back every register that a handler
\* may change, also if the handler took page faults.
THEOREM AlwaysTransparent == EntrySpec => Transparent
<1>1. ASSUME IInv, Iretq, Current \notin error_isrs PROVE regs' = Last(interrupted).regs
  <2>0. TypeInv /\ Nesting /\ Running
    BY <1>1 DEF IInv
  <2>n. PICK n \in Nat : n = Level
    BY <2>0, Where
  <2>1. n > 0 /\ sp = Base(n)
    BY <1>1, <2>0, <2>n, AtIretq DEF Iretq
  <2>2. n \in 1 .. n /\ Base(n) \in 1 .. StackWords /\ interrupted[n] \in Records
        /\ Current = Vec(n) /\ Last(interrupted) = interrupted[n]
    BY <2>0, <2>n, <2>1, Where
  <2>3. \A d \in 1 .. 9 : regs[Order[d]] = interrupted[n].regs[Order[d]]
    <3> TAKE d \in 1 .. 9
    <3>1. Base(n) + d > sp
      BY <2>1, <2>2
    <3> QED BY <1>1, <2>n, <2>1, <2>2, <3>1, TopRegs DEF Erring
  <2>4. \A x \in Registers : \E d \in 1 .. 9 : Order[d] = x
    <3>1. /\ Order[1] = "rdi" /\ Order[2] = "rsi" /\ Order[3] = "rax" /\ Order[4] = "rcx"
          /\ Order[5] = "rdx" /\ Order[6] = "r8" /\ Order[7] = "r9" /\ Order[8] = "r10"
          /\ Order[9] = "r11"
      BY DEF Order
    <3> QED BY <3>1 DEF Registers
  <2>5. \A x \in Registers : regs[x] = interrupted[n].regs[x]
    BY <2>3, <2>4
  <2>6. regs \in [Registers -> Words] /\ interrupted[n].regs \in [Registers -> Words]
    BY <2>0, <2>2 DEF TypeInv, Records
  <2>7. regs = interrupted[n].regs
    BY <2>5, <2>6
  <2> QED BY <1>1, <2>2, <2>7 DEF Iretq
<1>2. IInv => [Iretq /\ Current \notin error_isrs => regs' = Last(interrupted).regs]_entry_vars
  BY <1>1
<1> QED BY <1>2, Invariant, PTL DEF Transparent
=============================================================================
