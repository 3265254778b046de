---------------------------- MODULE SerialProofs ----------------------------
(***************************************************************************)
(* Proofs about Serial when every caller of SER_write has interrupts off,  *)
(* as in the kernel as it is built: for any buffer, any lengths of writes  *)
(* and any number of bytes.                                                *)
(***************************************************************************)
EXTENDS Serial, SequenceTheorems, TLAPS

\* The callers are handlers, or run before IRQ_start.
CallersMasked == CallerIF = {0}

-----------------------------------------------------------------------------
(* The buffer as a ring: places from a up to b.                            *)

End == Buff + BUFF_SIZE
InRing(a) == a \in Buff .. End - 1
\* Before SER_init the two pointers are below the buffer and never wrap.
Place(a, b) ==
  \/ InRing(a) /\ InRing(b)
  \/ a \in Nat /\ b \in Nat /\ a <= b /\ b < Buff /\ b - a < BUFF_SIZE

Count(a, b) == IF a <= b THEN b - a ELSE b - a + BUFF_SIZE
Nth(a, k) == IF a + k >= End THEN a + k - BUFF_SIZE ELSE a + k
Between(m, a, b) == [k \in 1 .. Count(a, b) |-> m[Nth(a, k - 1)]]

Data == 1 .. MaxBytes

LEMMA Constants ==
  /\ BUFF_SIZE \in Nat /\ BUFF_SIZE >= 2 /\ Buff \in Nat /\ MaxBytes \in Nat /\ Buff > MaxBytes
  /\ MaxLen \in Nat /\ MaxLen > 0 /\ End \in Nat /\ End = Buff + BUFF_SIZE
BY SerialAssumption DEF End

LEMMA WrapFacts ==
  ASSUME NEW a, a \in Nat, a <= End
  PROVE  /\ Wrap(a) \in Nat /\ Wrap(a) < End /\ Wrap(Wrap(a)) = Wrap(a)
         /\ a < End => Wrap(a) = a
BY Constants DEF Wrap, End

LEMMA PlaceFacts ==
  ASSUME NEW a, NEW b, Place(a, b)
  PROVE  /\ a \in Nat /\ b \in Nat /\ a < End /\ b < End /\ Wrap(a) = a /\ Wrap(b) = b
         /\ Count(a, b) \in 0 .. BUFF_SIZE - 1
         /\ Count(a, b) = 0 <=> a = b
         /\ \A k \in 0 .. Count(a, b) : Nth(a, k) \in 0 .. End - 1
         /\ Nth(a, 0) = a
         /\ (b = a - 1 \/ b = a + BUFF_SIZE - 1) <=> Count(a, b) = BUFF_SIZE - 1
BY Constants DEF Place, InRing, Wrap, Count, Nth, End

LEMMA PutPlace ==
  ASSUME NEW a, NEW b, Place(a, b), Count(a, b) # BUFF_SIZE - 1, InRing(b) \/ b + 1 < Buff
  PROVE  /\ Place(a, Wrap(b + 1))
         /\ Count(a, Wrap(b + 1)) = Count(a, b) + 1
         /\ Nth(a, Count(a, b)) = b
         /\ \A k \in 0 .. Count(a, b) - 1 : Nth(a, k) # b
BY Constants DEF Place, InRing, Wrap, Count, Nth, End

LEMMA GetPlace ==
  ASSUME NEW a, NEW b, Place(a, b), a # b
  PROVE  /\ Place(Wrap(a + 1), b)
         /\ Count(Wrap(a + 1), b) = Count(a, b) - 1
         /\ \A k \in 0 .. Count(a, b) - 1 : Nth(Wrap(a + 1), k) = Nth(a, k + 1)
BY Constants DEF Place, InRing, Wrap, Count, Nth, End

LEMMA BetweenSeq ==
  ASSUME NEW a, NEW b, Place(a, b), NEW S, NEW m \in [0 .. End - 1 -> S]
  PROVE  /\ Between(m, a, b) \in Seq(S) /\ Len(Between(m, a, b)) = Count(a, b)
         /\ \A k \in 1 .. Count(a, b) : Between(m, a, b)[k] = m[Nth(a, k - 1)]
         /\ a = b => Between(m, a, b) = <<>>
<1>1. /\ Count(a, b) \in Nat /\ (Count(a, b) = 0 <=> a = b)
      /\ \A k \in 1 .. Count(a, b) : Nth(a, k - 1) \in 0 .. End - 1
  BY PlaceFacts, Constants
<1>2. \A k \in 1 .. Count(a, b) : m[Nth(a, k - 1)] \in S
  BY <1>1
<1> QED
  BY <1>1, <1>2 DEF Between

\* A byte put at b and b advanced: one more at the end.
LEMMA PutByte ==
  ASSUME NEW a, NEW b, Place(a, b), Count(a, b) # BUFF_SIZE - 1, InRing(b) \/ b + 1 < Buff,
         NEW S, NEW m \in [0 .. End - 1 -> S]
  PROVE  Between(m, a, Wrap(b + 1)) = Append(Between(m, a, b), m[b])
<1> DEFINE n == Count(a, b)
           s == Between(m, a, b)
           t == Between(m, a, Wrap(b + 1))
<1>1. /\ Place(a, Wrap(b + 1)) /\ Count(a, Wrap(b + 1)) = n + 1
      /\ Nth(a, n) = b
  BY PutPlace
<1>2. n \in Nat /\ b \in 0 .. End - 1
  BY PlaceFacts, Constants
<1>3. /\ s \in Seq(S) /\ Len(s) = n
      /\ \A k \in 1 .. n : s[k] = m[Nth(a, k - 1)]
  BY BetweenSeq
<1>4. /\ t \in Seq(S) /\ Len(t) = n + 1
      /\ \A k \in 1 .. n + 1 : t[k] = m[Nth(a, k - 1)]
  <2> DEFINE e == Wrap(b + 1)
  <2> HIDE DEF n, e
  <2>1. Place(a, e) /\ Count(a, e) = n + 1
    BY <1>1 DEF e
  <2>2. /\ Between(m, a, e) \in Seq(S) /\ Len(Between(m, a, e)) = Count(a, e)
        /\ \A k \in 1 .. Count(a, e) : Between(m, a, e)[k] = m[Nth(a, k - 1)]
    BY <2>1, BetweenSeq
  <2> QED
    BY <2>1, <2>2 DEF e
<1>5. m[b] \in S
  BY <1>2
<1> DEFINE u == Append(s, m[b])
<1> HIDE DEF n, s, t
<1>6. /\ u \in Seq(S) /\ Len(u) = n + 1 /\ u[n + 1] = m[b]
      /\ \A k \in 1 .. n : u[k] = s[k]
  BY <1>3, <1>5, AppendProperties
<1> HIDE DEF u
<1>7. \A k \in 1 .. Len(t) : t[k] = u[k]
  <2> TAKE k \in 1 .. Len(t)
  <2>1. CASE k = n + 1
    <3>1. k - 1 = n
      BY <2>1, <1>2
    <3> QED
      BY <2>1, <3>1, <1>1, <1>2, <1>4, <1>6
  <2>2. CASE k \in 1 .. n
    BY <2>2, <1>2, <1>3, <1>4, <1>6
  <2> QED
    BY <2>1, <2>2, <1>2, <1>4
<1>8. t = u
  BY <1>4, <1>6, <1>7, SeqEqual
<1> QED
  BY <1>8 DEF t, u, s

\* The byte at a taken and a advanced: the first one gone.
LEMMA GetByte ==
  ASSUME NEW a, NEW b, Place(a, b), a # b, NEW S, NEW m \in [0 .. End - 1 -> S]
  PROVE  /\ Between(m, a, b) = <<m[a]>> \o Between(m, Wrap(a + 1), b)
         /\ m[a] \in S /\ Between(m, Wrap(a + 1), b) \in Seq(S)
<1> DEFINE n == Count(a, b) - 1
           s == Between(m, a, b)
           t == Between(m, Wrap(a + 1), b)
           u == <<m[a]>> \o t
<1>1. /\ Place(Wrap(a + 1), b) /\ Count(Wrap(a + 1), b) = n
      /\ \A k \in 0 .. n : Nth(Wrap(a + 1), k) = Nth(a, k + 1)
  BY GetPlace
<1>2. n \in Nat /\ a \in 0 .. End - 1 /\ Count(a, b) = n + 1 /\ Nth(a, 0) = a
  BY PlaceFacts, Constants
<1>3. /\ s \in Seq(S) /\ Len(s) = n + 1
      /\ \A k \in 1 .. n + 1 : s[k] = m[Nth(a, k - 1)]
  <2> HIDE DEF n
  <2>1. /\ s \in Seq(S) /\ Len(s) = Count(a, b)
        /\ \A k \in 1 .. Count(a, b) : s[k] = m[Nth(a, k - 1)]
    BY BetweenSeq
  <2> QED
    BY <2>1, <1>2
<1>4. /\ t \in Seq(S) /\ Len(t) = n
      /\ \A k \in 1 .. n : t[k] = m[Nth(Wrap(a + 1), k - 1)]
  BY <1>1, BetweenSeq, ZenonT(30)
<1>5. m[a] \in S
  BY <1>2
<1> HIDE DEF n, s, t
<1>6. /\ u \in Seq(S) /\ Len(u) = n + 1 /\ u[1] = m[a]
      /\ \A k \in 1 .. n : u[k + 1] = t[k]
  <2>1. <<m[a]>> \in Seq(S) /\ Len(<<m[a]>>) = 1 /\ <<m[a]>>[1] = m[a]
    BY <1>5
  <2> QED
    BY <2>1, <1>2, <1>4, ConcatProperties
<1> HIDE DEF u
<1>7. \A k \in 1 .. Len(s) : s[k] = u[k]
  <2> TAKE k \in 1 .. Len(s)
  <2>1. CASE k = 1
    <3>1. k - 1 = 0 /\ k \in 1 .. n + 1
      BY <2>1, <1>2
    <3> QED
      BY <2>1, <3>1, <1>2, <1>3, <1>6
  <2>2. CASE k # 1
    <3>1. k - 1 \in 1 .. n /\ (k - 1) + 1 = k /\ (k - 1) - 1 \in 0 .. n
          /\ ((k - 1) - 1) + 1 = k - 1 /\ k \in 1 .. n + 1
      BY <2>2, <1>2, <1>3
    <3>2. u[k] = t[k - 1]
      BY <3>1, <1>6
    <3>3. t[k - 1] = m[Nth(a, k - 1)]
      BY <3>1, <1>1, <1>4
    <3> QED
      BY <3>1, <3>2, <3>3, <1>3
  <2> QED
    BY <2>1, <2>2
<1>8. s = u
  BY <1>3, <1>6, <1>7, SeqEqual
<1> QED
  BY <1>4, <1>5, <1>8 DEF s, t, u

SameBut(w, m, b) == \A x \in 0 .. End - 1 : x # b => w[x] = m[x]

\* A byte stored at b, outside the part in use, changes nothing in it.
LEMMA StoreByte ==
  ASSUME NEW a, NEW b, Place(a, b), Count(a, b) # BUFF_SIZE - 1, InRing(b) \/ b + 1 < Buff,
         NEW m, NEW w, SameBut(w, m, b)
  PROVE  Between(w, a, b) = Between(m, a, b)
<1>1. \A k \in 1 .. Count(a, b) : Nth(a, k - 1) # b /\ Nth(a, k - 1) \in 0 .. End - 1
  BY PutPlace, PlaceFacts, Constants
<1> QED
  BY <1>1 DEF Between, SameBut
-----------------------------------------------------------------------------
(* The invariant.                                                          *)

Sending == {"consume", "advance_c", "wrap_c", "set_busy", "write_thr"}
Steps == Sending \cup {"idle", "produce", "advance_p", "wrap_p", "test_busy", "read_lsr",
                       "clear_busy", "test_idle", "return", "flush", "halted"}

\* Interrupts are on only while nothing is being written.
FlagMeans ==
  /\ pc \in Steps
  /\ IF_ = 1 => pc = "idle" /\ started
  /\ started => ready

\* The bytes of the call in progress are within the bound.
BytesCounted ==
  /\ pc = "produce" => offered + left <= MaxBytes
  /\ pc \in {"advance_p", "wrap_p"} => left > 0 /\ offered > 0 /\ offered + left <= MaxBytes + 1
  /\ ~ready => p <= IF pc = "advance_p" THEN offered - 1 ELSE offered

\* The pointers delimit a part of the buffer; the stores and loads between
\* their steps are of its next place and of its first.
PointersAgree ==
  /\ Place(Wrap(c), Wrap(p))
  /\ pc = "advance_p" => mem[p] = offered /\ Count(c, p) # BUFF_SIZE - 1
  /\ pc = "advance_c" => c # p /\ out_val = mem[c]

\* busy is set while a byte is in the register, so none is overwritten.
BusyMeans ==
  /\ thre => ready /\ thr = <<>>
  /\ ~busy /\ pc \notin {"flush", "halted"} => Written(thr) = <<>>
  /\ pc \in Sending \cup {"clear_busy"} => Written(thr) = <<>>
  /\ pc = "write_thr" => busy

\* What left the UART, is in it, on the way to it and in the buffer.
Queue == out \o Written(thr) \o InFlight \o Pending
DataTyped == out \in Seq(Data) /\ InFlight \in Seq(Data) /\ Pending \in Seq(Data)

Increasing(q) == \A j, k \in DOMAIN q : j < k => q[j] < q[k]
Latest == IF pc = "advance_p" THEN offered - 1 ELSE offered
QueueSorted == Increasing(Queue) /\ \A k \in DOMAIN Queue : Queue[k] <= Latest

SerInv ==
  /\ TypeOK
  /\ FlagMeans
  /\ BytesCounted
  /\ PointersAgree
  /\ BusyMeans
  /\ DataTyped
  /\ QueueSorted
  /\ AcceptedBytesKept

LEMMA WrittenFacts ==
  /\ Written(<<>>) = <<>> /\ Written(<<Divisor>>) = <<>>
  /\ \A b \in Data : Written(<<b>>) = <<b>> /\ <<b>> \in Seq(Data)
  /\ TypeOK => Written(thr) \in Seq(Data)
<1>1. \A b \in Data : <<b>> # <<Divisor>> /\ <<b>> \in Seq(Data)
  BY DEF Data, Divisor
<1>2. <<>> # <<Divisor>> /\ <<>> \in Seq(Data)
  OBVIOUS
<1>3. ASSUME TypeOK PROVE Written(thr) \in Seq(Data)
  <2>1. CASE thr = <<>>
    BY <2>1, <1>2 DEF Written
  <2>2. ASSUME NEW b \in 0 .. MaxBytes, thr = <<b>> PROVE Written(thr) \in Seq(Data)
    <3>1. CASE b = 0
      BY <3>1, <2>2, <1>2 DEF Written, Divisor
    <3>2. CASE b # 0
      <4>1. b \in Data
        BY <3>2 DEF Data
      <4> QED
        BY <4>1, <2>2, <1>1 DEF Written
    <3> QED
      BY <3>1, <3>2
  <2> QED
    BY <1>3, <2>1, <2>2 DEF TypeOK
<1> QED
  BY <1>1, <1>2, <1>3 DEF Written

\* What the invariant says of memory and pointers.
LEMMA Shape ==
  ASSUME SerInv
  PROVE  /\ mem \in [0 .. End - 1 -> 0 .. MaxBytes]
         /\ c \in Nat /\ c <= End /\ p \in Nat /\ p <= End
         /\ pc # "wrap_c" => Wrap(c) = c /\ c < End
         /\ pc # "wrap_p" => Wrap(p) = p /\ p < End
         /\ ready => InRing(Wrap(c)) /\ InRing(Wrap(p))
         /\ ~ready => c <= MaxBytes /\ p <= MaxBytes
<1>1. TypeOK
  BY DEF SerInv
<1>2. mem \in [0 .. End - 1 -> 0 .. MaxBytes]
  <2>1. Buff + BUFF_SIZE - 1 = End - 1
    BY Constants
  <2> QED
    BY <1>1, <2>1 DEF TypeOK
<1>3. CASE ready
  <2>1. p \in Buff .. Buff + (IF pc = "wrap_p" THEN BUFF_SIZE ELSE BUFF_SIZE - 1)
    BY <1>1, <1>3 DEF TypeOK
  <2>2. c \in Buff .. Buff + (IF pc = "wrap_c" THEN BUFF_SIZE ELSE BUFF_SIZE - 1)
    BY <1>1, <1>3 DEF TypeOK
  <2>3. /\ p \in Nat /\ Buff <= p /\ p <= End /\ (pc # "wrap_p" => p < End)
        /\ c \in Nat /\ Buff <= c /\ c <= End /\ (pc # "wrap_c" => c < End)
    BY <2>1, <2>2, Constants
  <2> QED
    BY <1>2, <1>3, <2>3, Constants DEF Wrap, InRing, End
<1>4. CASE ~ready
  <2>1. c \in 0 .. MaxBytes /\ p \in 0 .. MaxBytes
    BY <1>1, <1>4 DEF TypeOK
  <2> QED
    BY <1>2, <1>4, <2>1, Constants DEF Wrap, End
<1> QED
  BY <1>3, <1>4

LEMMA PendingIs ==
  ASSUME SerInv
  PROVE  /\ Pending = Between(mem, Wrap(c), Wrap(p))
         /\ Wrap(c) = Wrap(p) => Pending = <<>>
<1>1. /\ Wrap(Wrap(c)) = Wrap(c) /\ Wrap(Wrap(p)) = Wrap(p)
      /\ Wrap(c) \in Nat /\ Wrap(p) \in Nat
  BY Shape, WrapFacts
<1>2. Pending = Between(mem, Wrap(c), Wrap(p))
  BY <1>1 DEF Pending, Between, Count, Nth, End
<1>3. Wrap(c) = Wrap(p) => Between(mem, Wrap(c), Wrap(p)) = <<>>
  BY Shape, BetweenSeq DEF SerInv, PointersAgree
<1> QED
  BY <1>2, <1>3

LEMMA QueueTyped ==
  ASSUME TypeOK, DataTyped
  PROVE  /\ Queue \in Seq(Data) /\ out \o Written(thr) \in Seq(Data)
         /\ out \o Written(thr) \o InFlight \in Seq(Data)
<1>1. Written(thr) \in Seq(Data)
  BY WrittenFacts
<1>2. out \o Written(thr) \in Seq(Data)
  BY <1>1, ConcatProperties DEF DataTyped
<1>3. out \o Written(thr) \o InFlight \in Seq(Data)
  BY <1>2, ConcatProperties DEF DataTyped
<1>4. Queue \in Seq(Data)
  BY <1>3, ConcatProperties DEF DataTyped, Queue
<1> QED
  BY <1>2, <1>3, <1>4

-----------------------------------------------------------------------------
(* Increasing sequences.                                                   *)

LEMMA IncreasingAppend ==
  ASSUME NEW q \in Seq(Data), NEW v \in Data, Increasing(q), \A k \in DOMAIN q : q[k] < v
  PROVE  Increasing(Append(q, v)) /\ \A k \in DOMAIN Append(q, v) : Append(q, v)[k] <= v
<1> DEFINE a == Append(q, v)
<1>1. /\ a \in Seq(Data) /\ Len(a) = Len(q) + 1 /\ a[Len(q) + 1] = v
      /\ \A k \in 1 .. Len(q) : a[k] = q[k]
  BY AppendProperties
<1>2. Len(q) \in Nat /\ DOMAIN q = 1 .. Len(q) /\ DOMAIN a = 1 .. Len(q) + 1
  BY <1>1, LenProperties
<1>3. v \in Int /\ \A k \in 1 .. Len(q) : q[k] \in Int
  <2>1. \A k \in 1 .. Len(q) : q[k] \in Data
    BY ElementOfSeq
  <2> QED
    BY <2>1 DEF Data
<1> HIDE DEF a
<1>4. \A j, k \in DOMAIN a : j < k => a[j] < a[k]
  <2> TAKE j, k \in DOMAIN a
  <2>1. CASE k = Len(q) + 1
    BY <2>1, <1>1, <1>2
  <2>2. CASE k \in 1 .. Len(q)
    BY <2>2, <1>1, <1>2 DEF Increasing
  <2> QED
    BY <2>1, <2>2, <1>2
<1>5. \A k \in DOMAIN a : a[k] <= v
  <2> TAKE k \in DOMAIN a
  <2>1. CASE k = Len(q) + 1
    BY <2>1, <1>1, <1>3
  <2>2. CASE k \in 1 .. Len(q)
    BY <2>2, <1>1, <1>2, <1>3
  <2> QED
    BY <2>1, <2>2, <1>2
<1> QED
  BY <1>4, <1>5 DEF Increasing, a

\* What is lost from the middle or the end leaves the rest increasing.
LEMMA IncreasingLoss ==
  ASSUME NEW a \in Seq(Data), NEW w \in Seq(Data), NEW r \in Seq(Data), NEW n,
         Increasing((a \o w) \o r), \A k \in DOMAIN ((a \o w) \o r) : ((a \o w) \o r)[k] <= n
  PROVE  Increasing(a \o r) /\ \A k \in DOMAIN (a \o r) : (a \o r)[k] <= n
<1> DEFINE q == (a \o w) \o r
           s == a \o r
           at(k) == IF k <= Len(a) THEN k ELSE k + Len(w)
<1>1. Len(a) \in Nat /\ Len(w) \in Nat /\ Len(r) \in Nat
  BY LenProperties
<1>2. /\ a \o w \in Seq(Data) /\ Len(a \o w) = Len(a) + Len(w)
      /\ \A k \in 1 .. Len(a) + Len(w) : (a \o w)[k] = IF k <= Len(a) THEN a[k] ELSE w[k - Len(a)]
  BY ConcatProperties
<1>3. /\ q \in Seq(Data) /\ Len(q) = Len(a) + Len(w) + Len(r)
      /\ \A k \in 1 .. Len(a) + Len(w) + Len(r) :
           q[k] = IF k <= Len(a) + Len(w) THEN (a \o w)[k] ELSE r[k - (Len(a) + Len(w))]
  BY <1>2, ConcatProperties
<1>4. /\ s \in Seq(Data) /\ Len(s) = Len(a) + Len(r)
      /\ \A k \in 1 .. Len(a) + Len(r) : s[k] = IF k <= Len(a) THEN a[k] ELSE r[k - Len(a)]
  BY ConcatProperties
<1>5. DOMAIN q = 1 .. Len(a) + Len(w) + Len(r) /\ DOMAIN s = 1 .. Len(a) + Len(r)
  BY <1>3, <1>4, LenProperties
<1> HIDE DEF q, s
<1>6. \A k \in DOMAIN s : at(k) \in DOMAIN q /\ s[k] = q[at(k)]
  <2> TAKE k \in DOMAIN s
  <2>1. CASE k <= Len(a)
    <3>1. k \in 1 .. Len(a) + Len(w) /\ k \in 1 .. Len(a) + Len(w) + Len(r) /\ at(k) = k
      BY <2>1, <1>1, <1>5
    <3> QED
      BY <2>1, <3>1, <1>1, <1>2, <1>3, <1>4, <1>5
  <2>2. CASE ~(k <= Len(a))
    <3>1. /\ at(k) = k + Len(w) /\ k + Len(w) \in 1 .. Len(a) + Len(w) + Len(r)
          /\ ~(k + Len(w) <= Len(a) + Len(w))
          /\ (k + Len(w)) - (Len(a) + Len(w)) = k - Len(a)
      BY <2>2, <1>1, <1>5
    <3> QED
      BY <2>2, <3>1, <1>1, <1>3, <1>4, <1>5
  <2> QED
    BY <2>1, <2>2
<1>7. \A j, k \in DOMAIN s : j < k => at(j) < at(k)
  BY <1>1, <1>5
<1> HIDE DEF at
<1>8. \A j, k \in DOMAIN s : j < k => s[j] < s[k]
  BY <1>6, <1>7 DEF Increasing, q
<1>9. \A k \in DOMAIN s : s[k] <= n
  BY <1>6 DEF q
<1> QED
  BY <1>8, <1>9 DEF Increasing, s

-----------------------------------------------------------------------------
(* What a step does to the queue.                                          *)

LEMMA QueueKept ==
  ASSUME SerInv, Queue' = Queue, accepted' = accepted, Latest <= Latest',
         Latest \in Int, Latest' \in Int,
         pc' \notin {"flush", "halted"} => pc \notin {"flush", "halted"}
  PROVE  QueueSorted' /\ AcceptedBytesKept'
<1>1. Queue \in Seq(Data) /\ QueueSorted /\ AcceptedBytesKept
  BY QueueTyped DEF SerInv
<1>2. DOMAIN Queue = 1 .. Len(Queue) /\ \A k \in DOMAIN Queue : Queue[k] \in Int
  <2>1. DOMAIN Queue = 1 .. Len(Queue) /\ \A k \in 1 .. Len(Queue) : Queue[k] \in Data
    BY <1>1, ElementOfSeq, LenProperties
  <2> QED
    BY <2>1 DEF Data
<1>3. Increasing(Queue')
  BY <1>1 DEF QueueSorted, Increasing
<1>4. \A k \in DOMAIN Queue' : Queue'[k] <= Latest'
  BY <1>1, <1>2 DEF QueueSorted
<1>5. AcceptedBytesKept'
  BY <1>1 DEF AcceptedBytesKept, Queue
<1>6. QueueSorted'
  BY <1>3, <1>4 DEF QueueSorted, Increasing
<1> QED
  BY <1>5, <1>6

LEMMA LatestTyped == ASSUME TypeOK PROVE Latest \in Int /\ offered \in Int
BY Constants DEF TypeOK, Latest

\* Most steps of the thread move nothing.
LEMMA QuietStep ==
  ASSUME SerInv, TypeOK', UNCHANGED <<mem, out, thr, accepted>>,
         Wrap(c') = Wrap(c), Wrap(p') = Wrap(p), InFlight' = InFlight, Latest <= Latest',
         pc' \notin {"flush", "halted"} => pc \notin {"flush", "halted"}
  PROVE  DataTyped' /\ QueueSorted' /\ AcceptedBytesKept'
<1>1. Pending' = Pending
  BY DEF Pending, Wrap
<1>2. Queue' = Queue
  BY <1>1 DEF Queue, Written
<1>3. DataTyped'
  BY <1>1 DEF SerInv, DataTyped, Data
<1>4. Latest \in Int /\ Latest' \in Int
  <2>1. TypeOK
    BY DEF SerInv
  <2> QED
    BY <2>1, LatestTyped, Constants DEF TypeOK, Latest
<1> QED
  BY <1>2, <1>3, <1>4, QueueKept

\* AdvanceP: the byte stored is in the buffer.
LEMMA PutStep ==
  ASSUME SerInv, AdvanceP
  PROVE  DataTyped' /\ QueueSorted' /\ AcceptedBytesKept' /\ Place(Wrap(c'), Wrap(p'))
<1>1. /\ pc = "advance_p" /\ p' = p + 1 /\ accepted' = Append(accepted, offered) /\ pc' = "wrap_p"
      /\ UNCHANGED <<mem, c, out, thr, out_val, offered>>
  BY DEF AdvanceP, uart, locals
<1>2. /\ Wrap(c) = c /\ Wrap(p) = p /\ Place(c, p) /\ mem[p] = offered
      /\ Count(c, p) # BUFF_SIZE - 1 /\ mem \in [0 .. End - 1 -> 0 .. MaxBytes]
  BY <1>1, Shape DEF SerInv, PointersAgree
<1>3. InRing(p) \/ p + 1 < Buff
  <2>1. CASE ready
    BY <2>1, <1>1, Shape
  <2>2. CASE ~ready
    <3>1. p <= offered - 1 /\ offered \in 0 .. MaxBytes /\ p \in Nat
      BY <2>2, <1>1, Shape DEF SerInv, BytesCounted, TypeOK
    <3> QED
      BY <3>1, Constants
  <2> QED
    BY <2>1, <2>2
<1>4. offered \in Data
  BY <1>1, Constants DEF SerInv, BytesCounted, TypeOK, Data
<1>5. Place(c, Wrap(p + 1))
  BY <1>2, <1>3, PutPlace
<1>6. Wrap(Wrap(p + 1)) = Wrap(p + 1)
  BY <1>5, PlaceFacts
<1>7. Pending = Between(mem, c, p) /\ Pending' = Between(mem, c, Wrap(p + 1))
  <2>1. Pending' = Between(mem', Wrap(c'), Wrap(p'))
    <3>1. Wrap(Wrap(c)) = Wrap(c) /\ Wrap(Wrap(p + 1)) = Wrap(p + 1)
      BY <1>2, <1>6
    <3> QED
      BY <1>1, <3>1 DEF Pending, Between, Count, Nth, End, Wrap
  <2> QED
    BY <2>1, <1>1, <1>2, PendingIs
<1>8. Pending' = Append(Pending, offered)
  BY <1>2, <1>3, <1>7, PutByte
<1>9. InFlight = <<>> /\ InFlight' = <<>> /\ Written(thr') = Written(thr)
  BY <1>1 DEF InFlight
<1> DEFINE x == out \o Written(thr) \o InFlight
<1>10. x \in Seq(Data) /\ Pending \in Seq(Data) /\ Queue \in Seq(Data) /\ Queue = x \o Pending
  BY QueueTyped DEF SerInv, DataTyped, Queue
<1>11. Queue' = x \o Append(Pending, offered)
  BY <1>1, <1>8, <1>9 DEF Queue, Written
<1> HIDE DEF x
<1>12. Queue' = Append(Queue, offered)
  <2>1. <<offered>> \in Seq(Data)
    BY <1>4
  <2>2. (x \o Pending) \o <<offered>> = x \o (Pending \o <<offered>>)
    BY <2>1, <1>10, ConcatAssociative
  <2>3. Append(Pending, offered) = Pending \o <<offered>> /\ Append(Queue, offered) = Queue \o <<offered>>
    BY <1>4, <1>10, AppendIsConcat
  <2> QED
    BY <2>2, <2>3, <1>10, <1>11
<1>13. \A k \in DOMAIN Queue : Queue[k] < offered
  <2>1. \A k \in 1 .. Len(Queue) : Queue[k] \in Data
    BY <1>10, ElementOfSeq
  <2>2. \A k \in DOMAIN Queue : Queue[k] \in Int /\ Queue[k] <= offered - 1 /\ offered \in Int
    BY <2>1, <1>1, <1>4, <1>10, LenProperties DEF SerInv, QueueSorted, Latest, Data
  <2> QED
    BY <2>2
<1>14. Increasing(Queue)
  BY DEF SerInv, QueueSorted
<1>15. Increasing(Queue') /\ \A k \in DOMAIN Queue' : Queue'[k] <= offered
  BY <1>4, <1>10, <1>12, <1>13, <1>14, IncreasingAppend
<1>16. QueueSorted'
  BY <1>1, <1>15 DEF QueueSorted, Latest, Increasing
<1>17. AcceptedBytesKept'
  BY <1>1, <1>12 DEF SerInv, AcceptedBytesKept, Queue
<1>18. DataTyped'
  <2>1. Append(Pending, offered) \in Seq(Data)
    BY <1>4, <1>10, AppendProperties
  <2> QED
    BY <2>1, <1>1, <1>8, <1>9 DEF SerInv, DataTyped, Data
<1> QED
  BY <1>1, <1>2, <1>5, <1>16, <1>17, <1>18 DEF Wrap

\* Taking the first byte out of the buffer.
LEMMA GetPending ==
  ASSUME SerInv, Wrap(c) = c, Wrap(p) = p, c # p, UNCHANGED <<mem, p>>, Wrap(c') = Wrap(c + 1)
  PROVE  /\ Pending = <<mem[c]>> \o Pending' /\ Pending' \in Seq(Data) /\ mem[c] \in Data
         /\ Place(Wrap(c'), Wrap(p'))
<1>1. mem \in [0 .. End - 1 -> 0 .. MaxBytes] /\ Place(c, p)
  BY Shape DEF SerInv, PointersAgree
<1>2. Place(Wrap(c + 1), p)
  BY <1>1, GetPlace
<1>3. Wrap(Wrap(c + 1)) = Wrap(c + 1)
  BY <1>2, PlaceFacts
<1>4. Pending = Between(mem, c, p)
  BY PendingIs
<1>5. Pending' = Between(mem, Wrap(c + 1), p)
  <2>1. Wrap(Wrap(c')) = Wrap(c') /\ Wrap(Wrap(p')) = Wrap(p') /\ Wrap(p') = p
    BY <1>3
  <2>2. Pending' = Between(mem', Wrap(c'), Wrap(p'))
    BY <2>1 DEF Pending, Between, Count, Nth, End, Wrap
  <2> QED
    BY <2>1, <2>2
<1>6. /\ Pending = <<mem[c]>> \o Pending' /\ mem[c] \in 0 .. MaxBytes
      /\ Pending' \in Seq(0 .. MaxBytes)
  BY <1>1, <1>4, <1>5, GetByte
<1> DEFINE r == Pending'
           q == Pending
<1>7. q \in Seq(Data) /\ q = <<mem[c]>> \o r
  BY <1>6 DEF SerInv, DataTyped
<1> HIDE DEF r, q
<1>8. r \in Seq(0 .. MaxBytes)
  BY <1>6 DEF r
<1>9. /\ Len(q) = Len(r) + 1 /\ q[1] = mem[c] /\ Len(r) \in Nat
      /\ \A k \in 1 .. Len(r) : q[k + 1] = r[k]
  <2>1. <<mem[c]>> \in Seq(0 .. MaxBytes) /\ Len(<<mem[c]>>) = 1 /\ <<mem[c]>>[1] = mem[c]
    BY <1>6
  <2> QED
    BY <2>1, <1>7, <1>8, ConcatProperties, LenProperties
<1>10. \A k \in 1 .. Len(q) : q[k] \in Data
  BY <1>7, ElementOfSeq
<1>11. mem[c] \in Data /\ \A k \in 1 .. Len(r) : r[k] \in Data
  BY <1>9, <1>10
<1>12. r \in Seq(Data)
  BY <1>8, <1>11, LenProperties
<1> QED
  BY <1>2, <1>6, <1>11, <1>12 DEF r, Wrap

-----------------------------------------------------------------------------
(* The actions.                                                            *)

\* What the invariant says, for the steps that need little of it.
ThreadInv == FlagMeans /\ BytesCounted /\ PointersAgree /\ BusyMeans
QueueInv == DataTyped /\ QueueSorted /\ AcceptedBytesKept

LEMMA Parts == SerInv <=> TypeOK /\ ThreadInv /\ QueueInv
BY DEF SerInv, ThreadInv, QueueInv

\* The pointers stay where they are, but for a wrap.
LEMMA PlaceKept ==
  ASSUME SerInv, Wrap(c') = Wrap(c), Wrap(p') = Wrap(p)
  PROVE  Place(Wrap(c'), Wrap(p'))
BY DEF SerInv, PointersAgree

LEMMA InitStep ==
  ASSUME SerInv, SER_init
  PROVE  SerInv'
<1>1. /\ pc = "idle" /\ ready' = TRUE /\ c' = Buff /\ p' = Buff /\ busy' = FALSE /\ accepted' = out
      /\ \/ thr' = <<Divisor>> /\ UNCHANGED <<thre, irq>>
         \/ thr' = <<>> /\ thre' = TRUE /\ irq' = TRUE
      /\ UNCHANGED <<mem, out_val, enable_ints, left, pc, IF_, started, offered, out>> /\ ~ready
  BY DEF SER_init, locals
<1>2. TypeOK /\ out \in Seq(Data)
  BY DEF SerInv, DataTyped
<1>3. Wrap(Buff) = Buff /\ InRing(Buff)
  BY Constants DEF Wrap, InRing, End
<1>4. TypeOK'
  <2>1. Buff \in Buff .. Buff + (BUFF_SIZE - 1)
    BY Constants
  <2>2. thr' \in {<<>>} \cup {<<b>> : b \in 0 .. MaxBytes}
    BY <1>1, Constants DEF Divisor
  <2>3. {busy', enable_ints', ready', started', thre', irq'} \subseteq BOOLEAN
    BY <1>1, <1>2 DEF TypeOK
  <2>4. accepted' \in Seq(1 .. MaxBytes)
    BY <1>1, <1>2 DEF Data
  <2> QED
    BY <1>1, <1>2, <2>1, <2>2, <2>3, <2>4 DEF TypeOK
<1>5. FlagMeans' /\ BytesCounted'
  BY <1>1 DEF SerInv, FlagMeans, BytesCounted
<1>6. PointersAgree'
  BY <1>1, <1>3 DEF PointersAgree, Place, InRing, Wrap
<1>7. BusyMeans'
  <2>1. ~thre
    BY <1>1 DEF SerInv, BusyMeans
  <2> QED
    BY <1>1, <2>1, WrittenFacts DEF BusyMeans, Sending
<1>8. Pending' = <<>>
  <2>1. Pending' = Between(mem', Wrap(c'), Wrap(p'))
    BY <1>1, <1>3 DEF Pending, Between, Count, Nth, End, Wrap
  <2>2. Place(Buff, Buff) /\ mem \in [0 .. End - 1 -> 0 .. MaxBytes]
    BY <1>3, Shape DEF Place
  <2>3. Between(mem, Buff, Buff) = <<>>
    BY <2>2, BetweenSeq
  <2> QED
    BY <2>1, <2>3, <1>1, <1>3 DEF Wrap
<1>9. InFlight' = <<>> /\ Written(thr') = <<>>
  BY <1>1, WrittenFacts DEF InFlight
<1>10. Queue' = out
  <2>1. out \o <<>> = out
    BY <1>2, ConcatEmptySeq
  <2> QED
    BY <2>1, <1>1, <1>8, <1>9 DEF Queue, Written
<1>11. Increasing(out) /\ \A k \in DOMAIN out : out[k] <= Latest
  <2> DEFINE v == Written(thr) \o InFlight
             r == v \o Pending
  <2>1. Written(thr) \in Seq(Data) /\ InFlight \in Seq(Data) /\ Pending \in Seq(Data)
    BY <1>2, WrittenFacts DEF SerInv, DataTyped
  <2>2. v \in Seq(Data) /\ r \in Seq(Data)
    BY <2>1, ConcatProperties
  <2>3. Queue = out \o r
    <3>1. (out \o Written(thr)) \o InFlight = out \o v
      BY <1>2, <2>1, ConcatAssociative, SMTT(30)
    <3> HIDE DEF v
    <3>2. (out \o v) \o Pending = out \o r
      BY <1>2, <2>1, <2>2, ConcatAssociative
    <3> QED
      BY <3>1, <3>2 DEF Queue
  <2> HIDE DEF r
  <2>4. (out \o r) \o <<>> = out \o r /\ out \o <<>> = out /\ <<>> \in Seq(Data)
    BY <1>2, <2>2, ConcatEmptySeq, ConcatProperties, EmptySeq
  <2>5. Increasing((out \o r) \o <<>>)
        /\ \A k \in DOMAIN ((out \o r) \o <<>>) : ((out \o r) \o <<>>)[k] <= Latest
    BY <2>3, <2>4 DEF SerInv, QueueSorted
  <2> QED
    BY <1>2, <2>2, <2>4, <2>5, IncreasingLoss
<1>12. Latest' = Latest
  BY <1>1 DEF Latest
<1>13. QueueInv'
  BY <1>1, <1>2, <1>8, <1>9, <1>10, <1>11, <1>12
  DEF QueueInv, DataTyped, QueueSorted, AcceptedBytesKept, Queue, Increasing, Data
<1> QED
  BY <1>4, <1>5, <1>6, <1>7, <1>13, Parts DEF SerInv, QueueInv

\* The steps that move no byte and no pointer, but for a wrap.
LEMMA IdleSteps ==
  ASSUME SerInv, CallersMasked,
         Start \/ (\E len \in 1 .. MaxLen, flag \in CallerIF : Write(len, flag))
           \/ ProduceEnds \/ Return \/ Flush \/ FlushEnds
  PROVE  SerInv'
<1>1. TypeOK /\ ThreadInv
  BY DEF SerInv, ThreadInv
<1>2. CASE Start
  <2>1. TypeOK'
    BY <1>1, <1>2 DEF TypeOK, Start, ser_state, uart, locals, history
  <2>2. ThreadInv'
    BY <1>1, <1>2
    DEF ThreadInv, Start, ser_state, uart, locals, history, FlagMeans, BytesCounted,
        PointersAgree, BusyMeans, Wrap, Count, Place, InRing, End, Written, Sending
  <2>3. QueueInv'
    BY <1>1, <1>2, <2>1, QuietStep, LatestTyped
    DEF QueueInv, Start, ser_state, uart, locals, history, InFlight, Latest
  <2> QED
    BY <2>1, <2>2, <2>3, Parts DEF SerInv, ThreadInv, QueueInv
<1>3. ASSUME NEW len \in 1 .. MaxLen, NEW flag \in CallerIF, Write(len, flag)
      PROVE  SerInv'
  <2>1. /\ pc = "idle" /\ offered + len <= MaxBytes /\ left' = len /\ pc' = "produce"
        /\ enable_ints' = FALSE /\ IF_' = 0
        /\ UNCHANGED <<ser_state, uart, out_val, ready, started, history>>
    <3>1. flag = 0 /\ enable_ints' = (IRQ_are_interrupts_enabled /\ flag = 1)
      BY <1>3 DEF Write, CallersMasked
    <3>2. flag # 1
      BY <3>1
    <3>3. (IRQ_are_interrupts_enabled /\ flag = 1) = FALSE
      BY <3>2, Zenon
    <3>4. enable_ints' = FALSE
      BY <3>1, <3>3
    <3> QED
      BY <3>1, <3>4, <1>3 DEF Write
  <2>2. TypeOK'
    <3>1. left' \in 0 .. MaxLen
      BY <2>1, Constants
    <3>2. {busy', enable_ints', ready', started', thre', irq'} \subseteq BOOLEAN
      BY <1>1, <2>1 DEF TypeOK, ser_state, uart
    <3> QED
      BY <1>1, <2>1, <3>1, <3>2 DEF TypeOK, ser_state, uart, history
  <2>3. ThreadInv'
    BY <1>1, <2>1
    DEF ThreadInv, ser_state, uart, history, FlagMeans, BytesCounted,
        PointersAgree, BusyMeans, Wrap, Count, Place, InRing, End, Written, Sending, Steps
  <2>4. QueueInv'
    BY <1>1, <2>1, <2>2, QuietStep, LatestTyped
    DEF QueueInv, ser_state, uart, history, InFlight, Latest
  <2> QED
    BY <2>2, <2>3, <2>4, Parts DEF SerInv, ThreadInv, QueueInv
<1>4. CASE ProduceEnds
  <2>1. /\ pc = "produce" /\ pc' = "test_busy" /\ offered' = offered + left
        /\ UNCHANGED <<ser_state, uart, locals, cpu, accepted>>
    BY <1>4 DEF ProduceEnds
  <2>2. offered' \in 0 .. MaxBytes /\ offered <= offered' /\ offered \in Int
    BY <1>1, <2>1, Constants DEF TypeOK, ThreadInv, BytesCounted
  <2>3. TypeOK'
    BY <1>1, <2>1, <2>2 DEF TypeOK, ser_state, uart, locals, cpu
  <2>4. ThreadInv'
    <3>1. FlagMeans' /\ BusyMeans'
      BY <1>1, <2>1 DEF ThreadInv, ser_state, uart, locals, cpu, FlagMeans, BusyMeans,
                        Written, Sending, Steps
    <3>2. BytesCounted'
      <4>1. ~ready => p \in 0 .. MaxBytes /\ p <= offered
        BY <1>1, <2>1 DEF TypeOK, ThreadInv, BytesCounted
      <4> QED
        BY <2>1, <2>2, <4>1 DEF BytesCounted, ser_state, cpu
    <3>3. PointersAgree'
      BY <1>1, <2>1, PlaceKept DEF ThreadInv, ser_state, PointersAgree, Wrap
    <3> QED
      BY <3>1, <3>2, <3>3 DEF ThreadInv
  <2>5. QueueInv'
    BY <1>1, <2>1, <2>2, <2>3, QuietStep, LatestTyped
    DEF QueueInv, ser_state, uart, locals, InFlight, Latest
  <2> QED
    BY <2>3, <2>4, <2>5 DEF SerInv, ThreadInv, QueueInv
<1>5. CASE Return \/ Flush \/ FlushEnds
  <2>1. /\ pc \in {"return", "idle", "flush"} /\ pc' \in {"idle", "flush", "halted"}
        /\ pc' \notin {"flush", "halted"} => pc \notin {"flush", "halted"}
        /\ pc' \notin {"flush", "halted"} => busy' = busy
        /\ busy' = busy \/ busy' = FALSE
        /\ IF_' \in {0, 1} /\ (IF_' = 1 => pc' = "idle" /\ started)
        /\ UNCHANGED <<mem, c, p, uart, locals, ready, started, history>>
    BY <1>1, <1>5 DEF Return, Flush, FlushEnds, ser_state, cpu, TypeOK, ThreadInv, FlagMeans
  <2>2. TypeOK'
    BY <1>1, <2>1 DEF TypeOK, uart, locals, history
  <2>3. ThreadInv'
    <3>1. FlagMeans' /\ BusyMeans' /\ BytesCounted'
      BY <1>1, <2>1 DEF ThreadInv, uart, locals, history, FlagMeans, BusyMeans, BytesCounted,
                        Written, Sending, Steps
    <3>2. PointersAgree'
      BY <1>1, <2>1, PlaceKept DEF ThreadInv, PointersAgree, Wrap
    <3> QED
      BY <3>1, <3>2 DEF ThreadInv
  <2>4. QueueInv'
    BY <1>1, <2>1, <2>2, QuietStep, LatestTyped
    DEF QueueInv, uart, locals, history, InFlight, Latest
  <2> QED
    BY <2>2, <2>3, <2>4 DEF SerInv, ThreadInv, QueueInv
<1> QED
  BY <1>2, <1>3, <1>4, <1>5

\* The loop of SER_write.
LEMMA ProduceStep == ASSUME SerInv, Produce PROVE SerInv'
<1>1. /\ pc = "produce" /\ left > 0 /\ ~is_buff_full /\ pc' = "advance_p"
      /\ mem' = [mem EXCEPT ![p] = offered + 1] /\ offered' = offered + 1
      /\ UNCHANGED <<c, p, busy, uart, locals, cpu, accepted>>
  BY DEF Produce
<1>2. TypeOK /\ ThreadInv
  BY DEF SerInv, ThreadInv
<1>3. /\ Wrap(c) = c /\ Wrap(p) = p /\ Place(c, p) /\ p \in 0 .. End - 1
      /\ mem \in [0 .. End - 1 -> 0 .. MaxBytes]
  BY <1>1, <1>2, Shape, Constants DEF ThreadInv, PointersAgree
<1>4. Count(c, p) # BUFF_SIZE - 1
  BY <1>1, <1>3, PlaceFacts DEF is_buff_full
<1>5. /\ offered \in 0 .. MaxBytes /\ left \in Nat /\ offered + left <= MaxBytes
      /\ offered + 1 \in 0 .. MaxBytes
  BY <1>1, <1>2, Constants DEF TypeOK, ThreadInv, BytesCounted
<1>6. ~ready => p <= offered
  BY <1>1, <1>2 DEF ThreadInv, BytesCounted
<1>7. InRing(p) \/ p + 1 < Buff
  BY <1>3, <1>5, <1>6, Shape, Constants
<1>8. TypeOK'
  <2>1. mem' \in [0 .. End - 1 -> 0 .. MaxBytes]
    BY <1>1, <1>3, <1>5
  <2>2. Buff + BUFF_SIZE - 1 = End - 1
    BY Constants
  <2>3. mem' \in [0 .. Buff + BUFF_SIZE - 1 -> 0 .. MaxBytes]
    BY <2>1, <2>2
  <2> QED
    BY <1>1, <1>2, <1>5, <2>3 DEF TypeOK, uart, locals, cpu
<1>9. ThreadInv'
  <2>1. FlagMeans' /\ BusyMeans'
    BY <1>1, <1>2 DEF ThreadInv, FlagMeans, BusyMeans, uart, cpu, Written, Sending, Steps
  <2>2. BytesCounted'
    <3>1. offered' > 0 /\ left' > 0 /\ offered' + left' <= MaxBytes + 1
      BY <1>1, <1>5, Constants DEF locals
    <3>2. ~ready' => p' <= offered' - 1
      BY <1>1, <1>3, <1>5, <1>6 DEF cpu
    <3> QED
      BY <1>1, <3>1, <3>2 DEF BytesCounted
  <2>3. mem'[p'] = offered'
    BY <1>1, <1>3
  <2>4. PointersAgree'
    BY <1>1, <1>3, <1>4, <2>3, PlaceKept DEF PointersAgree, Wrap, Count
  <2> QED
    BY <2>1, <2>2, <2>4 DEF ThreadInv
<1>10. Pending' = Pending
  <2>1. Between(mem', c, p) = Between(mem, c, p)
    <3>1. SameBut(mem', mem, p)
      BY <1>1, <1>3 DEF SameBut
    <3> QED
      BY <1>3, <1>4, <1>7, <3>1, StoreByte
  <2>2. Pending' = Between(mem', Wrap(c'), Wrap(p'))
    <3>1. Wrap(Wrap(c')) = Wrap(c') /\ Wrap(Wrap(p')) = Wrap(p')
      BY <1>1, <1>3
    <3> QED
      BY <3>1 DEF Pending, Between, Count, Nth, End, Wrap
  <2> QED
    BY <1>1, <1>3, <2>1, <2>2, PendingIs
<1>11. Queue' = Queue /\ DataTyped'
  BY <1>1, <1>10 DEF Queue, uart, locals, Written, InFlight, SerInv, DataTyped, Data
<1>12. Latest' = Latest /\ Latest \in Int
  BY <1>1, <1>5 DEF Latest
<1>13. Latest <= Latest' /\ Latest' \in Int
  BY <1>12
<1>14. QueueSorted' /\ AcceptedBytesKept'
  BY <1>1, <1>11, <1>12, <1>13, QueueKept
<1> QED
  BY <1>8, <1>9, <1>11, <1>14 DEF SerInv, ThreadInv

LEMMA AdvancePStep == ASSUME SerInv, AdvanceP PROVE SerInv'
<1>1. /\ pc = "advance_p" /\ p' = p + 1 /\ accepted' = Append(accepted, offered) /\ pc' = "wrap_p"
      /\ UNCHANGED <<mem, c, busy, uart, locals, cpu, offered>>
  BY DEF AdvanceP
<1>2. TypeOK /\ ThreadInv
  BY DEF SerInv, ThreadInv
<1>3. DataTyped' /\ QueueSorted' /\ AcceptedBytesKept' /\ Place(Wrap(c'), Wrap(p'))
  BY PutStep
<1>4. /\ offered \in Nat /\ offered > 0 /\ offered <= MaxBytes /\ left \in Nat /\ left > 0
      /\ offered + left <= MaxBytes + 1
  BY <1>1, <1>2, Constants DEF ThreadInv, BytesCounted, TypeOK
<1>5. TypeOK'
  <2>1. accepted' \in Seq(1 .. MaxBytes)
    <3>1. offered \in 1 .. MaxBytes /\ accepted \in Seq(1 .. MaxBytes)
      BY <1>2, <1>4, Constants DEF TypeOK
    <3> QED
      BY <1>1, <3>1, AppendProperties
  <2>2. ~ready => {c', p'} \subseteq 0 .. MaxBytes
    <3>1. ~ready => p <= offered - 1 /\ p \in Nat /\ c \in 0 .. MaxBytes
      BY <1>1, <1>2, Shape DEF ThreadInv, BytesCounted, TypeOK
    <3> QED
      BY <3>1, <1>1, <1>4, Constants
  <2>3. ready => p' \in Buff .. Buff + BUFF_SIZE
    BY <1>1, <1>2, Constants DEF TypeOK
  <2>4. ready' => p' \in Buff .. Buff + IF pc' = "wrap_p" THEN BUFF_SIZE ELSE BUFF_SIZE - 1
    BY <1>1, <2>3 DEF cpu
  <2>5. ready' => c' \in Buff .. Buff + IF pc' = "wrap_c" THEN BUFF_SIZE ELSE BUFF_SIZE - 1
    BY <1>1, <1>2 DEF TypeOK, cpu
  <2>6. {busy', enable_ints', ready', started', thre', irq'} \subseteq BOOLEAN /\ IF_' \in {0, 1}
    BY <1>1, <1>2 DEF TypeOK, cpu, uart, locals
  <2> QED
    BY <1>1, <1>2, <2>1, <2>2, <2>4, <2>5, <2>6 DEF TypeOK, cpu, uart, locals
<1>6. ThreadInv'
  <2>1. FlagMeans' /\ BusyMeans'
    BY <1>1, <1>2 DEF ThreadInv, FlagMeans, BusyMeans, uart, cpu, Written, Sending, Steps
  <2>2. BytesCounted'
    <3>1. ~ready => p <= offered - 1 /\ p \in Nat
      BY <1>1, <1>2, Shape DEF ThreadInv, BytesCounted
    <3> QED
      BY <1>1, <1>4, <3>1 DEF BytesCounted, locals, cpu
  <2>3. PointersAgree'
    BY <1>1, <1>3 DEF PointersAgree, Wrap
  <2> QED
    BY <2>1, <2>2, <2>3 DEF ThreadInv
<1> QED
  BY <1>3, <1>5, <1>6 DEF SerInv, ThreadInv

LEMMA WrapPStep == ASSUME SerInv, WrapP PROVE SerInv'
<1>1. /\ pc = "wrap_p" /\ p' = Wrap(p) /\ left' = left - 1 /\ pc' = "produce"
      /\ UNCHANGED <<mem, c, busy, uart, out_val, enable_ints, cpu, history>>
  BY DEF WrapP
<1>2. TypeOK /\ ThreadInv
  BY DEF SerInv, ThreadInv
<1>3. /\ p \in Nat /\ p <= End /\ Wrap(p) \in Nat /\ Wrap(p) < End /\ Wrap(Wrap(p)) = Wrap(p)
  BY Shape, WrapFacts
<1>4. TypeOK'
  <2>1. left' \in 0 .. MaxLen
    BY <1>1, <1>2, Constants DEF TypeOK, ThreadInv, BytesCounted
  <2>2. ready => p' \in Buff .. Buff + (BUFF_SIZE - 1)
    BY <1>1, Shape, Constants DEF InRing
  <2>3. ~ready => p' \in 0 .. MaxBytes
    BY <1>1, Shape, Constants DEF Wrap
  <2>4. /\ ~ready' => {c', p'} \subseteq 0 .. MaxBytes
        /\ ready' => /\ p' \in Buff .. Buff + IF pc' = "wrap_p" THEN BUFF_SIZE ELSE BUFF_SIZE - 1
                     /\ c' \in Buff .. Buff + IF pc' = "wrap_c" THEN BUFF_SIZE ELSE BUFF_SIZE - 1
    BY <1>1, <1>2, <2>2, <2>3 DEF TypeOK, cpu
  <2>5. {busy', enable_ints', ready', started', thre', irq'} \subseteq BOOLEAN /\ IF_' \in {0, 1}
    BY <1>1, <1>2 DEF TypeOK, cpu, uart
  <2> QED
    BY <1>1, <1>2, <2>1, <2>4, <2>5 DEF TypeOK, cpu, uart, history
<1>5. ThreadInv'
  <2>1. FlagMeans' /\ BusyMeans'
    BY <1>1, <1>2 DEF ThreadInv, FlagMeans, BusyMeans, uart, cpu, Written, Sending, Steps
  <2>2. BytesCounted'
    <3>1. ~ready => Wrap(p) = p
      BY Shape, Constants DEF Wrap
    <3> QED
      <4>1. offered \in Nat /\ left \in Nat /\ offered + left <= MaxBytes + 1
            /\ (~ready => p <= offered)
        BY <1>1, <1>2 DEF ThreadInv, BytesCounted, TypeOK
      <4>2. offered' + left' <= MaxBytes /\ (~ready' => p' <= offered')
        BY <1>1, <3>1, <4>1, Constants DEF cpu, history
      <4> QED
        BY <1>1, <4>2 DEF BytesCounted
  <2>3. PointersAgree'
    BY <1>1, <1>3, PlaceKept DEF PointersAgree, Wrap
  <2> QED
    BY <2>1, <2>2, <2>3 DEF ThreadInv
<1>6. QueueInv'
  <2>1. Wrap(p') = Wrap(p) /\ Wrap(c') = Wrap(c) /\ InFlight' = InFlight
    BY <1>1, <1>3 DEF InFlight, Wrap
  <2>2. Latest <= Latest'
    BY <1>1, <1>2 DEF Latest, TypeOK, history
  <2> QED
    BY <1>1, <1>4, <2>1, <2>2, QuietStep DEF QueueInv, uart, history
<1> QED
  BY <1>4, <1>5, <1>6 DEF SerInv, ThreadInv, QueueInv

\* init_hw_write, but for what it takes out of the buffer.
LEMMA SendSteps ==
  ASSUME SerInv, TestBusy \/ ReadLsr \/ ClearBusy \/ TestIdle \/ Consume \/ SetBusy
  PROVE  SerInv'
<1>1. TypeOK /\ ThreadInv
  BY DEF SerInv, ThreadInv
<1>2. /\ UNCHANGED <<mem, c, p, uart, enable_ints, left, cpu, history>>
      /\ busy' \in BOOLEAN /\ pc # "idle" /\ pc' # "idle" /\ pc' \in Steps
      /\ pc \notin {"flush", "halted"} /\ pc' \notin {"flush", "halted"}
      /\ pc \notin {"wrap_c", "wrap_p", "produce", "advance_p", "advance_c", "write_thr"}
      /\ pc' \notin {"wrap_c", "wrap_p", "produce", "advance_p"}
      /\ pc = "set_busy" <=> pc' = "write_thr"
      /\ pc' # "set_busy"
  BY <1>1 DEF TestBusy, ReadLsr, ClearBusy, TestIdle, Consume, SetBusy, ser_state, locals, Steps,
    Sending, TypeOK
<1>3. out_val' = out_val \/ (Consume /\ pc = "consume" /\ pc' = "advance_c" /\ out_val' = ByteAt(c))
  BY DEF TestBusy, ReadLsr, ClearBusy, TestIdle, Consume, SetBusy, locals
<1>4. pc' = "advance_c" => c # p /\ out_val' = ByteAt(c) /\ pc = "consume"
  BY DEF TestBusy, ReadLsr, ClearBusy, TestIdle, Consume, SetBusy, is_buff_empty
<1>5. ByteAt(c) = mem[c] /\ mem[c] \in 0 .. MaxBytes /\ Wrap(c) = c
  <2>1. c \in 0 .. End - 1 /\ mem \in [0 .. End - 1 -> 0 .. MaxBytes] /\ Wrap(c) = c
    BY <1>2, Shape, Constants
  <2> QED
    BY <2>1 DEF ByteAt
<1>6. TypeOK'
  <2>1. out_val' \in 0 .. MaxBytes
    BY <1>1, <1>3, <1>5 DEF TypeOK
  <2> QED
    BY <1>1, <1>2, <2>1 DEF TypeOK, uart, cpu, history
<1>7. FlagMeans' /\ BytesCounted'
  BY <1>1, <1>2 DEF ThreadInv, FlagMeans, BytesCounted, cpu, history
<1>8. PointersAgree'
  BY <1>1, <1>2, <1>4, <1>5 DEF ThreadInv, PointersAgree, Wrap
<1>9. BusyMeans'
  <2>1. Written(thr') = Written(thr) /\ (thre' => ready' /\ thr' = <<>>)
    BY <1>1, <1>2 DEF ThreadInv, BusyMeans, uart, cpu
  <2>2. pc' = "write_thr" => busy'
    BY <1>2 DEF TestBusy, ReadLsr, ClearBusy, TestIdle, Consume, SetBusy
  <2>3. ~busy' => Written(thr) = <<>>
    BY <1>1, <1>2, WrittenFacts
    DEF ThreadInv, BusyMeans, TestBusy, ReadLsr, ClearBusy, TestIdle, Consume, SetBusy, ser_state
  <2>4. pc' \in Sending \cup {"clear_busy"} => pc \in Sending \/ ~busy \/ thr = <<>>
    BY DEF TestBusy, ReadLsr, ClearBusy, TestIdle, Consume, SetBusy, Sending
  <2>5. pc' \in Sending \cup {"clear_busy"} => Written(thr) = <<>>
    BY <1>1, <1>2, <2>4, WrittenFacts DEF ThreadInv, BusyMeans
  <2> QED
    BY <2>1, <2>2, <2>3, <2>5 DEF BusyMeans
<1>10. QueueInv'
  <2>1. InFlight' = InFlight
    BY <1>2, <1>3 DEF InFlight
  <2>2. Latest <= Latest'
    BY <1>1, <1>2 DEF Latest, TypeOK, history
  <2> QED
    BY <1>2, <1>6, <2>1, <2>2, QuietStep DEF QueueInv, uart, history, Wrap
<1> QED
  BY <1>6, <1>7, <1>8, <1>9, <1>10 DEF SerInv, ThreadInv, QueueInv

LEMMA WrapCStep == ASSUME SerInv, WrapC PROVE SerInv'
<1>1. /\ pc = "wrap_c" /\ c' = Wrap(c) /\ pc' = "set_busy"
      /\ UNCHANGED <<mem, p, busy, uart, locals, cpu, history>>
  BY DEF WrapC
<1>2. TypeOK /\ ThreadInv
  BY DEF SerInv, ThreadInv
<1>3. /\ c \in Nat /\ c <= End /\ Wrap(c) \in Nat /\ Wrap(c) < End /\ Wrap(Wrap(c)) = Wrap(c)
  BY Shape, WrapFacts
<1>4. TypeOK'
  <2>1. ready => c' \in Buff .. Buff + (BUFF_SIZE - 1)
    BY <1>1, Shape, Constants DEF InRing
  <2>2. ~ready => c' \in 0 .. MaxBytes
    BY <1>1, Shape, Constants DEF Wrap
  <2>3. /\ ~ready' => {c', p'} \subseteq 0 .. MaxBytes
        /\ ready' => /\ p' \in Buff .. Buff + IF pc' = "wrap_p" THEN BUFF_SIZE ELSE BUFF_SIZE - 1
                     /\ c' \in Buff .. Buff + IF pc' = "wrap_c" THEN BUFF_SIZE ELSE BUFF_SIZE - 1
    BY <1>1, <1>2, <2>1, <2>2 DEF TypeOK, cpu
  <2> QED
    BY <1>1, <1>2, <2>3 DEF TypeOK, cpu, uart, history, locals
<1>5. ThreadInv'
  <2>1. FlagMeans' /\ BusyMeans' /\ BytesCounted'
    BY <1>1, <1>2 DEF ThreadInv, FlagMeans, BusyMeans, BytesCounted, uart, cpu, history,
                      Written, Sending, Steps
  <2>2. PointersAgree'
    BY <1>1, <1>3, PlaceKept DEF PointersAgree, Wrap
  <2> QED
    BY <2>1, <2>2 DEF ThreadInv
<1>6. QueueInv'
  <2>1. Wrap(p') = Wrap(p) /\ Wrap(c') = Wrap(c) /\ InFlight' = InFlight
    BY <1>1, <1>3 DEF InFlight, Wrap, locals
  <2>2. Latest <= Latest'
    BY <1>1, <1>2 DEF Latest, TypeOK, history
  <2> QED
    BY <1>1, <1>4, <2>1, <2>2, QuietStep DEF QueueInv, uart, history
<1> QED
  BY <1>4, <1>5, <1>6 DEF SerInv, ThreadInv, QueueInv

\* The pointers when c # p: the first byte is there to be taken.
LEMMA NotEmpty ==
  ASSUME SerInv, pc \notin {"wrap_c", "wrap_p"}, c # p
  PROVE  /\ Wrap(c) = c /\ Wrap(p) = p /\ ByteAt(c) = mem[c] /\ c + 1 <= End
         /\ ready => c + 1 \in Buff .. Buff + BUFF_SIZE /\ Wrap(c + 1) \in Buff .. Buff + BUFF_SIZE - 1
         /\ ~ready => c + 1 \in 0 .. MaxBytes /\ Wrap(c + 1) = c + 1
<1>1. /\ c \in 0 .. End - 1 /\ mem \in [0 .. End - 1 -> 0 .. MaxBytes] /\ Wrap(c) = c /\ Wrap(p) = p
      /\ c \in Nat /\ p \in Nat /\ p < End
  BY Shape, Constants
<1>2. Place(c, p)
  BY <1>1 DEF SerInv, PointersAgree
<1>3. ready => InRing(c) /\ InRing(p)
  BY <1>1, Shape
<1>4. ~ready => c < p /\ p <= MaxBytes
  BY <1>1, <1>2, Shape, Constants DEF Place, InRing
<1> QED
  BY <1>1, <1>3, <1>4, Constants DEF ByteAt, InRing, Wrap, End

LEMMA TakeQueue ==
  ASSUME SerInv, pc \notin {"wrap_c", "wrap_p", "set_busy", "write_thr"}, c # p,
         UNCHANGED <<mem, p>>, Wrap(c') = Wrap(c + 1)
  PROVE  /\ Queue = ((out \o Written(thr)) \o <<mem[c]>>) \o Pending'
         /\ mem[c] \in Data /\ Pending' \in Seq(Data) /\ Place(Wrap(c'), Wrap(p'))
<1> DEFINE x == out \o Written(thr)
           r == Pending'
<1>1. /\ Pending = <<mem[c]>> \o r /\ r \in Seq(Data) /\ mem[c] \in Data
      /\ Place(Wrap(c'), Wrap(p'))
  BY NotEmpty, GetPending
<1>2. x \in Seq(Data)
  BY QueueTyped DEF SerInv
<1>3. InFlight = <<>>
  BY DEF InFlight
<1>4. Queue = (x \o InFlight) \o Pending
  BY DEF Queue
<1> HIDE DEF x, r
<1>5. x \o InFlight = x
  BY <1>2, <1>3, ConcatEmptySeq
<1>6. <<mem[c]>> \in Seq(Data)
  BY <1>1
<1>7. x \o (<<mem[c]>> \o r) = (x \o <<mem[c]>>) \o r
  BY <1>1, <1>2, <1>6, ConcatAssociative
<1>8. Queue = (x \o <<mem[c]>>) \o r
  BY <1>1, <1>4, <1>5, <1>7
<1> QED
  BY <1>1, <1>8 DEF x, r

LEMMA AdvanceCStep == ASSUME SerInv, AdvanceC PROVE SerInv'
<1>1. /\ pc = "advance_c" /\ c' = c + 1 /\ pc' = "wrap_c"
      /\ UNCHANGED <<mem, p, busy, uart, locals, cpu, history>>
  BY DEF AdvanceC
<1>2. TypeOK /\ ThreadInv
  BY DEF SerInv, ThreadInv
<1>3. c # p /\ out_val = mem[c]
  BY <1>1, <1>2 DEF ThreadInv, PointersAgree
<1>4. /\ Queue = ((out \o Written(thr)) \o <<mem[c]>>) \o Pending'
      /\ mem[c] \in Data /\ Pending' \in Seq(Data) /\ Place(Wrap(c'), Wrap(p'))
  BY <1>1, <1>3, TakeQueue
<1>5. InFlight' = <<mem[c]>> /\ Written(thr') = Written(thr)
  BY <1>1, <1>3 DEF InFlight, locals, uart
<1>6. Queue' = Queue
  BY <1>1, <1>4, <1>5 DEF Queue, uart
<1>7. TypeOK'
  <2>1. /\ ~ready' => {c', p'} \subseteq 0 .. MaxBytes
        /\ ready' => /\ p' \in Buff .. Buff + IF pc' = "wrap_p" THEN BUFF_SIZE ELSE BUFF_SIZE - 1
                     /\ c' \in Buff .. Buff + IF pc' = "wrap_c" THEN BUFF_SIZE ELSE BUFF_SIZE - 1
    BY <1>1, <1>2, <1>3, NotEmpty DEF TypeOK, cpu
  <2> QED
    BY <1>1, <1>2, <2>1 DEF TypeOK, cpu, uart, history, locals
<1>8. ThreadInv'
  <2>1. FlagMeans' /\ BusyMeans' /\ BytesCounted'
    BY <1>1, <1>2 DEF ThreadInv, FlagMeans, BusyMeans, BytesCounted, uart, cpu, history,
                      Written, Sending, Steps
  <2>2. PointersAgree'
    BY <1>1, <1>4 DEF PointersAgree
  <2> QED
    BY <2>1, <2>2 DEF ThreadInv
<1>9. DataTyped'
  <2>1. <<mem[c]>> \in Seq(Data) /\ out \in Seq(Data)
    BY <1>4 DEF SerInv, DataTyped
  <2> QED
    BY <1>1, <1>4, <1>5, <2>1 DEF DataTyped, Data, uart
<1>10. QueueSorted' /\ AcceptedBytesKept'
  <2>1. Latest' = Latest /\ Latest \in Int
    BY <1>1, <1>2, LatestTyped DEF Latest, history
  <2> QED
    BY <1>1, <1>6, <2>1, QueueKept DEF history
<1> QED
  BY <1>7, <1>8, <1>9, <1>10 DEF SerInv, ThreadInv

LEMMA WriteThrStep == ASSUME SerInv, WriteThr PROVE SerInv'
<1>1. /\ pc = "write_thr" /\ thr' = <<out_val>> /\ thre' = FALSE /\ pc' = "return"
      /\ UNCHANGED <<ser_state, irq, out, locals, cpu, history>>
  BY DEF WriteThr
<1>2. TypeOK /\ ThreadInv /\ out \in Seq(Data) /\ InFlight \in Seq(Data) /\ Pending \in Seq(Data)
  BY DEF SerInv, ThreadInv, DataTyped
<1>3. InFlight = <<out_val>> /\ InFlight' = <<>> /\ Pending' = Pending /\ Written(thr) = <<>>
  BY <1>1, <1>2 DEF InFlight, Pending, ser_state, Wrap, ThreadInv, BusyMeans, Sending
<1>4. out_val \in Data /\ <<out_val>> \in Seq(Data)
  BY <1>2, <1>3
<1>5. Written(thr') = <<out_val>>
  BY <1>1, <1>4, WrittenFacts
<1>6. Queue' = Queue
  <2>1. out \o <<>> = out /\ out \o <<out_val>> \in Seq(Data)
    BY <1>2, <1>4, ConcatEmptySeq, ConcatProperties
  <2>2. (out \o <<out_val>>) \o <<>> = out \o <<out_val>>
    BY <2>1, ConcatEmptySeq
  <2>3. Queue = ((out \o <<>>) \o <<out_val>>) \o Pending
    BY <1>3 DEF Queue
  <2>4. Queue' = ((out \o <<out_val>>) \o <<>>) \o Pending
    BY <1>1, <1>3, <1>5 DEF Queue
  <2> QED
    BY <2>1, <2>2, <2>3, <2>4
<1>7. TypeOK'
  BY <1>1, <1>2 DEF TypeOK, ser_state, cpu, history, locals
<1>8. ThreadInv'
  <2>1. FlagMeans' /\ BusyMeans' /\ BytesCounted'
    BY <1>1, <1>2 DEF ThreadInv, FlagMeans, BusyMeans, BytesCounted, ser_state, cpu, history,
                      locals, Sending, Steps
  <2>2. PointersAgree'
    BY <1>1, <1>2, PlaceKept DEF PointersAgree, Wrap, ser_state
  <2> QED
    BY <2>1, <2>2 DEF ThreadInv
<1>9. DataTyped'
  <2>1. <<>> \in Seq(Data)
    BY EmptySeq
  <2> QED
    BY <1>1, <1>2, <1>3, <2>1 DEF DataTyped, Data
<1>10. QueueSorted' /\ AcceptedBytesKept'
  <2>1. Latest' = Latest /\ Latest \in Int
    BY <1>1, <1>2, LatestTyped DEF Latest, history
  <2> QED
    BY <1>1, <1>6, <2>1, QueueKept DEF history
<1> QED
  BY <1>7, <1>8, <1>9, <1>10 DEF SerInv, ThreadInv

LEMMA TransmitStep == ASSUME SerInv, Transmit PROVE SerInv'
<1>1. /\ out' = out \o Written(thr) /\ thr' = <<>> /\ thre' = ready /\ irq' = ready
      /\ UNCHANGED <<ser_state, locals, cpu, pc, history>>
  BY DEF Transmit
<1>2. TypeOK /\ ThreadInv /\ out \in Seq(Data) /\ InFlight \in Seq(Data) /\ Pending \in Seq(Data)
  BY DEF SerInv, ThreadInv, DataTyped
<1>3. Written(thr') = <<>> /\ InFlight' = InFlight /\ Pending' = Pending
  BY <1>1, WrittenFacts DEF InFlight, Pending, ser_state, Wrap, locals
<1>4. out \o Written(thr) \in Seq(Data)
  BY <1>2, QueueTyped DEF SerInv
<1>5. Queue' = Queue
  <2>1. (out \o Written(thr)) \o <<>> = out \o Written(thr)
    BY <1>4, ConcatEmptySeq
  <2> QED
    BY <1>1, <1>3, <2>1 DEF Queue
<1>6. TypeOK'
  BY <1>1, <1>2 DEF TypeOK, ser_state, cpu, history, locals
<1>7. ThreadInv'
  <2>1. FlagMeans' /\ BytesCounted'
    BY <1>1, <1>2 DEF ThreadInv, FlagMeans, BytesCounted, ser_state, cpu, history, locals
  <2>2. BusyMeans'
    BY <1>1, <1>2, <1>3 DEF ThreadInv, BusyMeans, ser_state, cpu
  <2>3. PointersAgree'
    BY <1>1, <1>2 DEF ThreadInv, PointersAgree, Wrap, ser_state, history, locals
  <2> QED
    BY <2>1, <2>2, <2>3 DEF ThreadInv
<1>8. DataTyped'
  BY <1>1, <1>2, <1>3, <1>4 DEF DataTyped, Data
<1>9. QueueSorted' /\ AcceptedBytesKept'
  <2>1. Latest' = Latest /\ Latest \in Int
    BY <1>1, <1>2, LatestTyped DEF Latest, history
  <2> QED
    BY <1>1, <1>5, <2>1, QueueKept DEF history
<1> QED
  BY <1>6, <1>7, <1>8, <1>9 DEF SerInv, ThreadInv

\* SER_flush writes over the byte in the register: it is lost.
LEMMA FlushStep == ASSUME SerInv, FlushByte PROVE SerInv'
<1>1. /\ pc = "flush" /\ c # p /\ out_val' = ByteAt(c) /\ c' = Wrap(c + 1)
      /\ thr' = <<out_val'>> /\ thre' = FALSE
      /\ UNCHANGED <<mem, p, busy, irq, out, enable_ints, left, pc, cpu, history>>
  BY DEF FlushByte, is_buff_empty
<1>2. TypeOK /\ ThreadInv /\ out \in Seq(Data)
  BY DEF SerInv, ThreadInv, DataTyped
<1>3. /\ Wrap(p) = p /\ ByteAt(c) = mem[c] /\ c \in Nat /\ c + 1 <= End
      /\ ready => c' \in Buff .. Buff + (BUFF_SIZE - 1)
      /\ ~ready => c' \in 0 .. MaxBytes
  BY <1>1, NotEmpty, Shape, Constants
<1>4. Wrap(c') = Wrap(c + 1)
  BY <1>1, <1>3, WrapFacts
<1> DEFINE v == <<mem[c]>>
           r == Pending'
<1>5. /\ Queue = ((out \o Written(thr)) \o v) \o r
      /\ mem[c] \in Data /\ r \in Seq(Data) /\ Place(Wrap(c'), Wrap(p'))
  BY <1>1, <1>4, TakeQueue
<1>6. v \in Seq(Data)
  BY <1>5
<1>7. InFlight' = <<>> /\ Written(thr') = v
  BY <1>1, <1>3, <1>5, WrittenFacts DEF InFlight
<1>8. TypeOK'
  <2>1. /\ ~ready' => {c', p'} \subseteq 0 .. MaxBytes
        /\ ready' => /\ p' \in Buff .. Buff + IF pc' = "wrap_p" THEN BUFF_SIZE ELSE BUFF_SIZE - 1
                     /\ c' \in Buff .. Buff + IF pc' = "wrap_c" THEN BUFF_SIZE ELSE BUFF_SIZE - 1
    BY <1>1, <1>2, <1>3 DEF TypeOK, cpu
  <2>2. out_val' \in 0 .. MaxBytes
    BY <1>1, <1>3, <1>5, Constants DEF Data
  <2> QED
    BY <1>1, <1>2, <2>1, <2>2 DEF TypeOK, cpu, history
<1>9. ThreadInv'
  <2>1. FlagMeans' /\ BusyMeans' /\ BytesCounted'
    BY <1>1, <1>2 DEF ThreadInv, FlagMeans, BusyMeans, BytesCounted, cpu, history, Sending
  <2>2. PointersAgree'
    BY <1>1, <1>5 DEF PointersAgree
  <2> QED
    BY <2>1, <2>2 DEF ThreadInv
<1>10. DataTyped'
  <2>1. <<>> \in Seq(Data)
    BY EmptySeq
  <2> QED
    BY <1>1, <1>2, <1>5, <1>7, <2>1 DEF DataTyped, Data
<1>11. QueueSorted'
  <2> DEFINE w == Written(thr)
             t == v \o r
  <2>1. w \in Seq(Data)
    BY <1>2, WrittenFacts
  <2>2. QueueSorted
    BY DEF SerInv
  <2>3. Queue' = ((out \o v) \o <<>>) \o r
    BY <1>1, <1>7 DEF Queue
  <2> HIDE DEF v, r
  <2>4. t \in Seq(Data) /\ out \o v \in Seq(Data)
    BY <1>2, <1>5, <1>6, ConcatProperties
  <2>5. (out \o v) \o <<>> = out \o v
    BY <2>4, ConcatEmptySeq
  <2>6. (out \o v) \o r = out \o t
    BY <1>2, <1>5, <1>6, ConcatAssociative, SMTT(30)
  <2>7. Queue' = out \o t
    BY <2>3, <2>5, <2>6
  <2> HIDE DEF w
  <2>8. out \o w \in Seq(Data)
    BY <1>2, <2>1, ConcatProperties
  <2> DEFINE x == out \o w
  <2>9. (x \o v) \o r = x \o t
    <3>1. r \in Seq(Data) /\ x \in Seq(Data)
      BY <1>5, <2>8
    <3> HIDE DEF x
    <3> QED
      BY <1>6, <3>1, ConcatAssociative
  <2>10. Queue = (out \o w) \o t
    BY <1>5, <2>9 DEF w
  <2> HIDE DEF t
  <2>11. Increasing((out \o w) \o t) /\ \A k \in DOMAIN ((out \o w) \o t) : ((out \o w) \o t)[k] <= Latest
    BY <2>2, <2>10 DEF QueueSorted
  <2>12. Increasing(out \o t) /\ \A k \in DOMAIN (out \o t) : (out \o t)[k] <= Latest
    BY <1>2, <2>1, <2>4, <2>11, IncreasingLoss
  <2>13. Latest' = Latest
    BY <1>1 DEF Latest, history
  <2> QED
    BY <2>7, <2>12, <2>13 DEF QueueSorted, Increasing
<1>12. AcceptedBytesKept'
  BY <1>1 DEF AcceptedBytesKept
<1> QED
  BY <1>8, <1>9, <1>10, <1>11, <1>12 DEF SerInv, ThreadInv

\* The handler finds the register empty and nothing being written.
LEMMA HandlerStep == ASSUME SerInv, SerIrqHandler PROVE SerInv'
<1>1. /\ IF_ = 1 /\ irq' = FALSE /\ thre' = FALSE
      /\ UNCHANGED <<mem, p, out, locals, cpu, pc, history>>
  BY DEF SerIrqHandler
<1>2. TypeOK /\ ThreadInv /\ out \in Seq(Data) /\ pc = "idle"
  BY <1>1 DEF SerInv, ThreadInv, DataTyped, FlagMeans
<1>3. FlagMeans' /\ BytesCounted'
  BY <1>1, <1>2 DEF ThreadInv, FlagMeans, BytesCounted, cpu, history
<1>4. CASE thre /\ ~is_buff_empty
  <2>1. c' = Wrap(c + 1) /\ busy' = TRUE /\ thr' = <<ByteAt(c)>> /\ c # p /\ thr = <<>>
    BY <1>2, <1>4 DEF SerIrqHandler, is_buff_empty, ThreadInv, BusyMeans
  <2>2. /\ Wrap(p) = p /\ ByteAt(c) = mem[c] /\ c \in Nat /\ c + 1 <= End
        /\ ready => c' \in Buff .. Buff + (BUFF_SIZE - 1)
        /\ ~ready => c' \in 0 .. MaxBytes
    BY <1>2, <2>1, NotEmpty, Shape, Constants
  <2>3. Wrap(c') = Wrap(c + 1)
    BY <2>1, <2>2, WrapFacts
  <2> DEFINE v == <<mem[c]>>
             r == Pending'
  <2>4. /\ Queue = ((out \o Written(thr)) \o v) \o r
        /\ mem[c] \in Data /\ r \in Seq(Data) /\ Place(Wrap(c'), Wrap(p'))
    BY <1>1, <1>2, <2>1, <2>3, TakeQueue
  <2>5. v \in Seq(Data)
    BY <2>4
  <2>6. InFlight' = <<>> /\ Written(thr') = v /\ Written(thr) = <<>>
    BY <1>1, <1>2, <2>1, <2>2, <2>4, WrittenFacts DEF InFlight
  <2>7. TypeOK'
    <3>1. /\ ~ready' => {c', p'} \subseteq 0 .. MaxBytes
          /\ ready' => /\ p' \in Buff .. Buff + IF pc' = "wrap_p" THEN BUFF_SIZE ELSE BUFF_SIZE - 1
                       /\ c' \in Buff .. Buff + IF pc' = "wrap_c" THEN BUFF_SIZE ELSE BUFF_SIZE - 1
      BY <1>1, <1>2, <2>2 DEF TypeOK, cpu
    <3>2. thr' \in {<<b>> : b \in 0 .. MaxBytes}
      BY <2>1, <2>2, <2>4, Constants DEF Data
    <3> QED
      BY <1>1, <1>2, <2>1, <3>1, <3>2 DEF TypeOK, cpu, history, locals
  <2>8. BusyMeans' /\ PointersAgree'
    BY <1>1, <1>2, <2>1, <2>4 DEF ThreadInv, BusyMeans, PointersAgree, Sending
  <2>9. DataTyped'
    <3>1. <<>> \in Seq(Data)
      BY EmptySeq
    <3> QED
      BY <1>1, <1>2, <2>4, <2>6, <3>1 DEF DataTyped, Data
  <2>10. Queue' = Queue
    <3>1. out \o v \in Seq(Data)
      BY <1>2, <2>5, ConcatProperties
    <3>2. out \o <<>> = out /\ (out \o v) \o <<>> = out \o v
      BY <1>2, <3>1, ConcatEmptySeq
    <3> QED
      BY <1>1, <2>4, <2>6, <3>2 DEF Queue
  <2>11. QueueSorted' /\ AcceptedBytesKept'
    <3>1. Latest' = Latest /\ Latest \in Int
      BY <1>1, <1>2, LatestTyped DEF Latest, history
    <3> QED
      BY <1>1, <2>10, <3>1, QueueKept DEF history
  <2> QED
    BY <1>3, <2>7, <2>8, <2>9, <2>11 DEF SerInv, ThreadInv
<1>5. CASE ~(thre /\ ~is_buff_empty)
  <2>1. busy' = (busy /\ ~thre) /\ UNCHANGED <<c, thr>>
    BY <1>5 DEF SerIrqHandler
  <2>2. TypeOK'
    BY <1>1, <1>2, <2>1 DEF TypeOK, cpu, history, locals
  <2>3. BusyMeans'
    <3>1. ~busy' => ~busy \/ thr = <<>>
      BY <1>2, <2>1 DEF ThreadInv, BusyMeans
    <3>2. ~busy' => Written(thr') = <<>>
      BY <1>2, <2>1, <3>1, WrittenFacts DEF ThreadInv, BusyMeans
    <3> QED
      BY <1>1, <1>2, <3>2 DEF BusyMeans, Sending
  <2>4. PointersAgree'
    BY <1>1, <1>2, <2>1 DEF ThreadInv, PointersAgree, Wrap
  <2>5. QueueInv'
    <3>1. InFlight' = InFlight /\ accepted' = accepted /\ Wrap(c') = Wrap(c) /\ Wrap(p') = Wrap(p)
      BY <1>1, <2>1 DEF InFlight, history, locals, Wrap
    <3>2. Latest <= Latest'
      BY <1>1, <1>2 DEF Latest, TypeOK, history
    <3> QED
      BY <1>1, <2>1, <2>2, <3>1, <3>2, QuietStep DEF QueueInv
  <2> QED
    BY <1>3, <2>2, <2>3, <2>4, <2>5 DEF SerInv, ThreadInv, QueueInv
<1> QED
  BY <1>4, <1>5

LEMMA InitInv == ASSUME Init PROVE SerInv
<1>1. mem \in [0 .. End - 1 -> 0 .. MaxBytes]
  BY Constants DEF Init
<1>2. TypeOK
  <2>1. Buff + BUFF_SIZE - 1 = End - 1
    BY Constants
  <2>2. <<>> \in Seq(1 .. MaxBytes)
    BY EmptySeq
  <2>3. mem \in [0 .. Buff + BUFF_SIZE - 1 -> 0 .. MaxBytes]
    BY <1>1, <2>1
  <2>4. {busy, enable_ints, ready, started, thre, irq} \subseteq BOOLEAN /\ IF_ \in {0, 1}
    BY DEF Init
  <2>5. /\ {c, p} \subseteq 0 .. MaxBytes /\ ~ready /\ out_val \in 0 .. MaxBytes /\ left \in 0 .. MaxLen
        /\ thr \in {<<>>} \cup {<<b>> : b \in 0 .. MaxBytes}
        /\ offered \in 0 .. MaxBytes /\ accepted = <<>>
    BY Constants DEF Init
  <2> QED
    BY <2>2, <2>3, <2>4, <2>5 DEF TypeOK
<1>3. Place(Wrap(c), Wrap(p)) /\ Wrap(c) = 0 /\ Wrap(p) = 0
  BY Constants DEF Init, Place, Wrap
<1>4. FlagMeans /\ BytesCounted /\ PointersAgree /\ BusyMeans
  BY <1>3, WrittenFacts
  DEF Init, FlagMeans, BytesCounted, PointersAgree, BusyMeans, Steps, Sending
<1>5. Pending = <<>>
  <2>1. Wrap(0) = 0
    BY Constants DEF Wrap
  <2>2. Pending = Between(mem, 0, 0)
    BY <1>3, <2>1 DEF Pending, Between, Count, Nth, End
  <2> QED
    BY <1>1, <1>3, <2>2, BetweenSeq
<1>6. out = <<>> /\ Written(thr) = <<>> /\ InFlight = <<>> /\ accepted = <<>>
  BY WrittenFacts DEF Init, InFlight
<1>7. DataTyped
  BY <1>5, <1>6, EmptySeq DEF DataTyped
<1>8. Queue = <<>>
  <2>1. <<>> \in Seq(Data)
    BY EmptySeq
  <2>2. <<>> \o <<>> = <<>>
    BY <2>1, ConcatEmptySeq
  <2> QED
    BY <1>5, <1>6, <2>2 DEF Queue
<1>9. QueueSorted /\ AcceptedBytesKept
  BY <1>6, <1>8 DEF QueueSorted, Increasing, AcceptedBytesKept, Queue
<1> QED
  BY <1>2, <1>4, <1>7, <1>9 DEF SerInv

LEMMA StutterStep == ASSUME SerInv, UNCHANGED vars PROVE SerInv'
<1>1. UNCHANGED <<mem, c, p, busy, out_val, enable_ints, left, pc, IF_, ready, started,
                  thr, thre, irq, out, offered, accepted>>
  BY DEF vars, ser_state, uart, locals, cpu, history
<1>2. TypeOK /\ ThreadInv
  BY DEF SerInv, ThreadInv
<1>3. TypeOK'
  BY <1>1, <1>2 DEF TypeOK
<1>4. ThreadInv'
  <2>1. FlagMeans' /\ BytesCounted' /\ BusyMeans'
    BY <1>1, <1>2 DEF ThreadInv, FlagMeans, BytesCounted, BusyMeans, Written
  <2>2. PointersAgree'
    BY <1>1, <1>2 DEF ThreadInv, PointersAgree, Wrap, Count
  <2> QED
    BY <2>1, <2>2 DEF ThreadInv
<1>5. Latest <= Latest' /\ InFlight' = InFlight
  BY <1>1, <1>2, LatestTyped DEF Latest, InFlight
<1>6. QueueInv'
  BY <1>1, <1>3, <1>5, QuietStep DEF QueueInv, Wrap
<1> QED
  BY <1>3, <1>4, <1>6 DEF SerInv, ThreadInv, QueueInv

LEMMA NextInv == ASSUME SerInv, CallersMasked, [Next]_vars PROVE SerInv'
<1>1. CASE Thread
  BY <1>1, ProduceStep, IdleSteps, AdvancePStep, WrapPStep, SendSteps, AdvanceCStep, WrapCStep,
     WriteThrStep, FlushStep DEF Thread
<1>2. CASE UNCHANGED vars
  BY <1>2, StutterStep
<1> QED
  BY <1>1, <1>2, InitStep, IdleSteps, TransmitStep, HandlerStep DEF Next

LEMMA Invariance == ASSUME CallersMasked PROVE Spec => []SerInv
<1>1. Init => SerInv
  BY InitInv
<1>2. SerInv /\ [Next]_vars => SerInv'
  BY NextInv
<1> QED
  BY <1>1, <1>2, PTL DEF Spec

-----------------------------------------------------------------------------
(* The theorems.                                                           *)

\* The two pointers stay in the buffer but for the step before a wrap, however
\* writes, the interrupt and the UART follow each other (produce, consume).
THEOREM TypeCorrect == ASSUME CallersMasked PROVE Spec => []TypeOK
<1>1. SerInv => TypeOK
  BY DEF SerInv
<1> QED
  BY <1>1, Invariance, PTL

\* Every byte put in the buffer is exactly once, and in order, in the output,
\* in the UART, on the way to it or in the buffer.
THEOREM BytesKept == ASSUME CallersMasked PROVE Spec => []AcceptedBytesKept
<1>1. SerInv => AcceptedBytesKept
  BY DEF SerInv
<1> QED
  BY <1>1, Invariance, PTL

\* What leaves the UART is in the order of the writes, through SER_init and
\* SER_flush too, which lose bytes.
THEOREM OrderKept == ASSUME CallersMasked PROVE Spec => []NeverReordered
<1>1. ASSUME SerInv PROVE NeverReordered
  <2>1. TypeOK /\ QueueSorted /\ out \in Seq(Data) /\ InFlight \in Seq(Data) /\ Pending \in Seq(Data)
    BY <1>1 DEF SerInv, DataTyped
  <2> DEFINE v == Written(thr) \o InFlight
             r == v \o Pending
  <2>2. Written(thr) \in Seq(Data)
    BY <2>1, WrittenFacts
  <2>3. v \in Seq(Data) /\ r \in Seq(Data)
    BY <2>1, <2>2, ConcatProperties
  <2>4. Queue = out \o r
    <3>1. (out \o Written(thr)) \o InFlight = out \o v
      BY <2>1, <2>2, ConcatAssociative
    <3> HIDE DEF v
    <3>2. (out \o v) \o Pending = out \o r
      BY <2>1, <2>3, ConcatAssociative
    <3> QED
      BY <3>1, <3>2 DEF Queue
  <2> HIDE DEF r
  <2>5. (out \o r) \o <<>> = out \o r /\ out \o <<>> = out /\ <<>> \in Seq(Data)
    BY <2>1, <2>3, ConcatEmptySeq, ConcatProperties, EmptySeq
  <2>6. Increasing((out \o r) \o <<>>)
        /\ \A k \in DOMAIN ((out \o r) \o <<>>) : ((out \o r) \o <<>>)[k] <= Latest
    BY <2>1, <2>4, <2>5 DEF QueueSorted
  <2>7. Increasing(out)
    BY <2>1, <2>3, <2>5, <2>6, IncreasingLoss
  <2> QED
    BY <2>7 DEF NeverReordered, Increasing
<1> QED
  BY <1>1, Invariance, PTL
=============================================================================
