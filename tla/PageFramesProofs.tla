-------------------------- MODULE PageFramesProofs --------------------------
(***************************************************************************)
(* Proofs about PageFrames for every memory layout and every batch size.   *)
(***************************************************************************)
EXTENDS PageFrames, SequenceTheorems, TLAPS

\* The inductive invariant: the properties TLC checks, together.  The ring
\* needs the list's frames to be distinct, a refill needs the counters.
Inv ==
  /\ TypeOK
  /\ RingMatchesPool
  /\ NoDoubleHandout
  /\ NoFrameLost
  /\ CountersAgree
  /\ NoAssertFails

\* The list's part of the invariant: no frame is on the list twice.
Distinct ==
  /\ \A j, k \in 1 .. Len(pool) : pool[j] = pool[k] => j = k
  /\ \A k \in 1 .. Len(pool) : pool[k] \in Usable

ListOK ==
  /\ next \in [Frames -> Words] /\ prev \in [Frames -> Words]
  /\ pool \in Seq(Frames)
  /\ Distinct
  /\ RingMatchesPool

-----------------------------------------------------------------------------
(* The list.                                                               *)

\* The positions 0 .. Len(pool) of the ring hold different frames.
LEMMA AtType ==
  ASSUME ListOK
  PROVE  /\ Len(pool) \in Nat
         /\ METADATA \in Frames
         /\ \A k \in 0 .. Len(pool) + 1 : At(k) \in Frames
         /\ \A k \in 1 .. Len(pool) : At(k) = pool[k] /\ At(k) \in Usable
         /\ At(0) = METADATA /\ At(Len(pool) + 1) = METADATA
         /\ \A j, k \in 0 .. Len(pool) : At(j) = At(k) => j = k
<1>1. Len(pool) \in Nat
  BY DEF ListOK
<1>2. METADATA \in Frames
  BY LayoutAssumption DEF METADATA, Frames
<1>3. \A k \in 1 .. Len(pool) : At(k) = pool[k] /\ pool[k] \in Usable
  BY <1>1 DEF At, ListOK, Distinct
<1>4. At(0) = METADATA /\ At(Len(pool) + 1) = METADATA
  BY DEF At
<1>5. \A k \in 0 .. Len(pool) + 1 : At(k) \in Frames
  <2> TAKE k \in 0 .. Len(pool) + 1
  <2>1. k = 0 \/ k = Len(pool) + 1 \/ k \in 1 .. Len(pool)
    BY <1>1
  <2> QED
    BY <2>1, <1>2, <1>3, <1>4 DEF Usable
<1>6. \A j, k \in 0 .. Len(pool) : At(j) = At(k) => j = k
  <2> TAKE j, k \in 0 .. Len(pool)
  <2>1. (j = 0 \/ j \in 1 .. Len(pool)) /\ (k = 0 \/ k \in 1 .. Len(pool))
    BY <1>1
  <2> QED
    BY <2>1, <1>3, <1>4 DEF Usable, ListOK, Distinct
<1> QED
  BY <1>1, <1>2, <1>3, <1>4, <1>5, <1>6

\* is_empty is also true of a list of one frame.
LEMMA EmptyMeansAtMostOne ==
  ASSUME ListOK
  PROVE  is_empty <=> Len(pool) <= 1
<1>1. PICK n \in Nat : n = Len(pool)
  BY AtType
<1> USE <1>1
<1>2. next[METADATA] = At(1) /\ prev[METADATA] = At(n)
  <2>1. next[At(0)] = At(1) /\ prev[At(n + 1)] = At(n)
    BY <1>1 DEF ListOK, RingMatchesPool
  <2> QED
    BY <2>1, AtType
<1>3. CASE n = 0
  BY <1>2, <1>3 DEF is_empty, At
<1>4. CASE n >= 1
  <2>1. 1 \in 0 .. n /\ n \in 0 .. n
    BY <1>1, <1>4
  <2>2. At(1) = At(n) <=> n = 1
    BY <2>1, AtType
  <2> QED
    BY <1>1, <1>2, <1>4, <2>2, n = 1 <=> Len(pool) <= 1 DEF is_empty
<1> QED
  BY <1>1, <1>3, <1>4

\* add_elem puts a new frame at the end of the ring.
LEMMA AddElemKeepsList ==
  ASSUME ListOK, NEW new \in Usable, add_elem(new),
         \A k \in 1 .. Len(pool) : pool[k] # new
  PROVE  /\ ListOK'
         /\ Len(pool') = Len(pool) + 1
         /\ pool'[Len(pool) + 1] = new
         /\ \A k \in 1 .. Len(pool) : pool'[k] = pool[k]
<1>0. PICK n \in Nat : n = Len(pool)
  BY AtType
<1> USE <1>0
<1>1. n = Len(pool) /\ METADATA \in Frames /\ new \in Frames /\ new # METADATA
  BY AtType DEF Usable
<1>2. /\ pool' \in Seq(Frames) /\ Len(pool') = n + 1
      /\ pool'[n + 1] = new /\ \A k \in 1 .. n : pool'[k] = pool[k]
  BY <1>1 DEF add_elem, ListOK
<1>3. \A k \in 0 .. n : At(k)' = At(k)
  BY <1>1, <1>2 DEF At
<1>4. At(n + 1)' = new /\ At(n + 2)' = METADATA
  BY <1>1, <1>2 DEF At
<1>5. prev[METADATA] = At(n) /\ At(n) \in Frames /\ At(n) # new
  <2>1. prev[At(n + 1)] = At(n)
    BY <1>1 DEF ListOK, RingMatchesPool
  <2>2. n = 0 \/ n \in 1 .. n
    BY <1>1
  <2>3. At(n) # new
    BY <2>2, <1>1, AtType
  <2>4. n \in 0 .. n + 1
    BY <1>1
  <2> QED
    BY <2>1, <2>3, <2>4, AtType
<1>6. /\ next' = [next EXCEPT ![new] = METADATA, ![At(n)] = new]
      /\ prev' = [prev EXCEPT ![new] = At(n), ![METADATA] = new]
  BY <1>5 DEF add_elem
<1>7. next' \in [Frames -> Words] /\ prev' \in [Frames -> Words]
  BY <1>1, <1>5, <1>6 DEF ListOK, Words
<1>8. Distinct'
  <2>1. \A k \in 1 .. n + 1 : k \in 1 .. n \/ k = n + 1
    BY <1>1
  <2>2. \A k \in 1 .. n + 1 : pool'[k] \in Usable
    BY <2>1, <1>2 DEF ListOK, Distinct
  <2>3. \A j, k \in 1 .. n + 1 : pool'[j] = pool'[k] => j = k
    BY <2>1, <1>2 DEF ListOK, Distinct
  <2> QED
    BY <2>2, <2>3, <1>2 DEF Distinct
<1>9. RingMatchesPool'
  <2> SUFFICES ASSUME NEW k \in 0 .. n + 1
               PROVE  next'[At(k)'] = At(k + 1)' /\ prev'[At(k + 1)'] = At(k)'
    BY <1>2 DEF RingMatchesPool
  <2>1. CASE k \in 0 .. n - 1
    <3>1. k \in 0 .. n /\ k + 1 \in 0 .. n /\ k + 1 \in 1 .. n /\ n \in 0 .. n /\ k # n
      BY <1>1, <2>1
    <3>2. At(k)' = At(k) /\ At(k + 1)' = At(k + 1)
      BY <3>1, <1>3
    <3>3. next[At(k)] = At(k + 1) /\ prev[At(k + 1)] = At(k)
      BY <3>1 DEF ListOK, RingMatchesPool
    <3>4. At(k) # At(n)
      BY <3>1, AtType
    <3>5. At(k) # new
      <4>1. k = 0 \/ k \in 1 .. n
        BY <3>1, <1>1
      <4> QED
        BY <4>1, <1>1, AtType
    <3>6. At(k + 1) # METADATA /\ At(k + 1) # new
      BY <3>1, AtType DEF Usable
    <3>7. At(k) \in Frames /\ At(k + 1) \in Frames
      <4>1. k \in 0 .. n + 1 /\ k + 1 \in 0 .. n + 1
        BY <3>1, <1>1
      <4> QED
        BY <4>1, AtType
    <3>8. next'[At(k)] = next[At(k)] /\ prev'[At(k + 1)] = prev[At(k + 1)]
      BY <1>6, <3>4, <3>5, <3>6, <3>7 DEF ListOK
    <3> QED
      BY <3>2, <3>3, <3>8
  <2>2. CASE k = n
    <3>1. At(k)' = At(n) /\ At(k + 1)' = new
      BY <1>1, <1>3, <1>4, <2>2
    <3>2. next'[At(n)] = new
      BY <1>5, <1>6 DEF ListOK
    <3>3. prev'[new] = At(n)
      BY <1>1, <1>6 DEF ListOK
    <3> QED
      BY <3>1, <3>2, <3>3
  <2>3. CASE k = n + 1
    <3>1. At(k)' = new /\ At(k + 1)' = METADATA
      BY <1>1, <1>4, <2>3
    <3>2. next'[new] = METADATA
      BY <1>1, <1>5, <1>6 DEF ListOK
    <3>3. prev'[METADATA] = new
      BY <1>1, <1>6 DEF ListOK
    <3> QED
      BY <3>1, <3>2, <3>3
  <2> QED
    BY <1>1, <2>1, <2>2, <2>3
<1> QED
  BY <1>1, <1>2, <1>7, <1>8, <1>9 DEF ListOK

\* pop_elem takes the last frame of a ring that is_empty calls not empty.
LEMMA PopElemKeepsList ==
  ASSUME ListOK, pop_elem, ~is_empty
  PROVE  /\ ListOK'
         /\ Len(pool') = Len(pool) - 1 /\ Len(pool) >= 2
         /\ ret' = pool[Len(pool)] /\ owned' = owned \cup {pool[Len(pool)]}
         /\ \A k \in 1 .. Len(pool) - 1 : pool'[k] = pool[k]
<1>0. PICK n \in Nat : n = Len(pool)
  BY AtType
<1> USE <1>0
<1>1. n >= 2
  BY EmptyMeansAtMostOne
<1>2. METADATA \in Frames /\ n \in 1 .. n /\ n - 1 \in 1 .. n /\ n - 1 \in 0 .. n - 1
  BY <1>1, AtType
<1>3. /\ pool' \in Seq(Frames) /\ Len(pool') = n - 1
      /\ \A k \in 1 .. n - 1 : pool'[k] = pool[k]
  <2>1. pool \in Seq(Frames) /\ pool' = SubSeq(pool, 1, n - 1)
    BY DEF ListOK, pop_elem
  <2>2. \A k \in 1 .. n - 1 : pool[k] \in Frames
    BY <1>1, <2>1
  <2>3. SubSeq(pool, 1, n - 1) \in Seq(Frames)
    BY <1>1, <2>1, <2>2, SubSeqProperties
  <2>4. /\ Len(SubSeq(pool, 1, n - 1)) = n - 1
        /\ \A k \in 1 .. n - 1 : SubSeq(pool, 1, n - 1)[k] = pool[k]
    BY <1>1, <2>1, <2>2, SubSeqProperties
  <2> QED
    BY <2>1, <2>3, <2>4
<1>4. prev[METADATA] = At(n) /\ prev[At(n)] = At(n - 1)
  <2>1. n \in 0 .. n /\ n - 1 \in 0 .. n /\ (n - 1) + 1 = n
    BY <1>1
  <2>2. prev[At(n + 1)] = At(n) /\ prev[At((n - 1) + 1)] = At(n - 1)
    BY <2>1 DEF ListOK, RingMatchesPool
  <2> QED
    BY <2>1, <2>2, AtType
<1>5. At(n) = pool[n] /\ At(n - 1) = pool[n - 1] /\ At(n - 1) \in Usable
  BY <1>2, AtType
<1>6. /\ next' = [next EXCEPT ![At(n - 1)] = METADATA]
      /\ prev' = [prev EXCEPT ![METADATA] = At(n - 1)]
      /\ ret' = pool[n] /\ owned' = owned \cup {pool[n]}
  BY <1>4, <1>5 DEF pop_elem
<1>7. next' \in [Frames -> Words] /\ prev' \in [Frames -> Words]
  BY <1>2, <1>5, <1>6 DEF ListOK, Words, Usable
<1>8. Distinct'
  BY <1>1, <1>3 DEF ListOK, Distinct
<1>9. RingMatchesPool'
  <2>1. \A k \in 0 .. n - 1 : At(k)' = At(k)
    BY <1>1, <1>3 DEF At
  <2>2. At(n)' = METADATA
    BY <1>1, <1>3 DEF At
  <2> SUFFICES ASSUME NEW k \in 0 .. n - 1
               PROVE  next'[At(k)'] = At(k + 1)' /\ prev'[At(k + 1)'] = At(k)'
    BY <1>3 DEF RingMatchesPool
  <2>3. CASE k \in 0 .. n - 2
    <3>1. k \in 0 .. n /\ k + 1 \in 0 .. n - 1 /\ k + 1 \in 1 .. n /\ n - 1 \in 0 .. n /\ k # n - 1
      BY <1>1, <2>3
    <3>2. next[At(k)] = At(k + 1) /\ prev[At(k + 1)] = At(k)
      BY <3>1 DEF ListOK, RingMatchesPool
    <3>3. At(k) # At(n - 1)
      BY <3>1, AtType
    <3>4. At(k + 1) # METADATA /\ At(k + 1) \in Frames
      BY <3>1, AtType DEF Usable
    <3>5. At(k) \in Frames
      <4>1. k \in 0 .. n + 1
        BY <3>1
      <4> QED
        BY <4>1, AtType
    <3>6. next'[At(k)] = next[At(k)] /\ prev'[At(k + 1)] = prev[At(k + 1)]
      BY <1>6, <3>3, <3>4, <3>5 DEF ListOK
    <3> QED
      BY <2>1, <3>1, <3>2, <3>6
  <2>4. CASE k = n - 1
    <3>1. At(k)' = At(n - 1) /\ At(k + 1)' = METADATA
      BY <1>2, <2>1, <2>2, <2>4
    <3>2. next'[At(n - 1)] = METADATA /\ prev'[METADATA] = At(n - 1)
      BY <1>2, <1>5, <1>6 DEF ListOK, Usable
    <3> QED
      BY <3>1, <3>2
  <2> QED
    BY <1>1, <2>3, <2>4
<1> QED
  BY <1>1, <1>3, <1>6, <1>7, <1>8, <1>9 DEF ListOK

-----------------------------------------------------------------------------
(* Who has a frame: its owner, the list, or nobody yet.                    *)

InPool == {pool[k] : k \in 1 .. Len(pool)}

\* NoDoubleHandout and NoFrameLost say that these three sets are a partition.
LEMMA Partition ==
  ASSUME TypeOK, RingMatchesPool, NoDoubleHandout, NoFrameLost
  PROVE  /\ ListOK
         /\ InPool \cap owned = {} /\ InPool \cap Unpooled = {}
         /\ owned \cap Unpooled = {}
         /\ InPool \subseteq Usable /\ METADATA \notin owned
         /\ Usable = InPool \cup owned \cup (Unpooled \cap Usable)
BY DEF TypeOK, NoDoubleHandout, NoFrameLost, ListOK, Distinct, InPool, Usable

\* The same, read backwards.
Partitioned ==
  /\ InPool \cap owned = {} /\ InPool \cap Unpooled = {}
  /\ owned \cap Unpooled = {} /\ METADATA \notin owned
  /\ Usable \subseteq InPool \cup owned \cup Unpooled

\* What add_elem does to the partition.
LEMMA AddElemMoves ==
  ASSUME ListOK, NEW new \in Usable, new \notin InPool, add_elem(new)
  PROVE  ListOK' /\ InPool' = InPool \cup {new} /\ Len(pool') = Len(pool) + 1
<1>0. PICK n \in Nat : n = Len(pool)
  BY AtType
<1> USE <1>0
<1>1. \A k \in 1 .. n : pool[k] # new
  BY DEF InPool
<1>2. /\ ListOK' /\ Len(pool') = n + 1 /\ pool'[n + 1] = new
      /\ \A k \in 1 .. n : pool'[k] = pool[k]
  BY <1>1, AddElemKeepsList
<1>3. InPool' = {pool'[k] : k \in 1 .. n + 1}
  BY <1>2 DEF InPool
<1>4. 1 .. n + 1 = (1 .. n) \cup {n + 1}
  OBVIOUS
<1> QED
  BY <1>2, <1>3, <1>4 DEF InPool

\* What pop_elem does to it.
LEMMA PopElemMoves ==
  ASSUME ListOK, pop_elem, ~is_empty
  PROVE  /\ ListOK' /\ Len(pool') = Len(pool) - 1 /\ Len(pool) >= 2
         /\ ret' \in InPool /\ InPool' = InPool \ {ret'}
         /\ owned' = owned \cup {ret'}
<1>0. PICK n \in Nat : n = Len(pool)
  BY AtType
<1> USE <1>0
<1>1. /\ ListOK' /\ Len(pool') = n - 1 /\ n >= 2
      /\ ret' = pool[n] /\ owned' = owned \cup {pool[n]}
      /\ \A k \in 1 .. n - 1 : pool'[k] = pool[k]
  BY PopElemKeepsList
<1>2. InPool' = {pool[k] : k \in 1 .. n - 1}
  BY <1>1 DEF InPool
<1>3. 1 .. n = (1 .. n - 1) \cup {n} /\ n \notin 1 .. n - 1
  BY <1>1
<1>4. \A k \in 1 .. n - 1 : pool[k] # pool[n]
  BY <1>1 DEF ListOK, Distinct
<1> QED
  BY <1>1, <1>2, <1>3, <1>4 DEF InPool

\* Memory: the two regions do not overlap, and 0 is a frame of the lower one.
LEMMA Layout ==
  /\ METADATA \in Frames /\ UpperEnd \in Nat /\ UpperBase \in Nat
  /\ \A f \in 1 .. LowerPages - 1 : f \in Usable
  /\ \A f \in UpperBase .. UpperEnd - 1 : f \in Usable
  /\ Frames \subseteq Nat /\ UpperBase <= UpperEnd
  /\ UpperBase >= LowerPages /\ LowerPages >= 2 /\ LowerPages \in Nat
BY LayoutAssumption DEF METADATA, Frames, Usable, UpperEnd

-----------------------------------------------------------------------------
(* The inductive invariant.                                                *)

LEMMA InitInv == Init => Inv
<1> SUFFICES ASSUME Init PROVE Inv
  OBVIOUS
<1>1. pool = <<>> /\ Len(pool) = 0 /\ pc = "add_lower_pages" /\ i = 1 /\ owned = {}
  BY DEF Init
<1>2. TypeOK
  BY <1>1, Layout DEF Init, TypeOK, Words, NULL, METADATA
<1>3. RingMatchesPool
  BY <1>1, Layout DEF Init, RingMatchesPool, At
<1>4. NoDoubleHandout
  BY <1>1 DEF NoDoubleHandout
<1>5. NoFrameLost
  BY <1>1, LayoutAssumption DEF NoFrameLost, Usable, Frames, Unpooled, METADATA
<1>6. CountersAgree /\ NoAssertFails
  BY <1>1, LayoutAssumption DEF CountersAgree, NoAssertFails
<1> QED
  BY <1>2, <1>3, <1>4, <1>5, <1>6 DEF Inv

LEMMA AddLowerPageInv ==
  ASSUME Inv, AddLowerPage
  PROVE  Inv'
<1>1. /\ pc = "add_lower_pages" /\ pc' = pc /\ i < LowerPages /\ i' = i + 1
      /\ add_elem(i) /\ owned' = owned /\ ret' = ret /\ new_cnt' = new_cnt
  BY DEF AddLowerPage
<1>2. i \in 1 .. LowerPages - 1 /\ Len(pool) = i - 1
  BY <1>1, Layout DEF Inv, CountersAgree
<1>3. i \in Usable /\ i \in Unpooled
  BY <1>1, <1>2, Layout DEF Unpooled
<1>4. ListOK' /\ InPool' = InPool \cup {i} /\ Len(pool') = Len(pool) + 1
  BY <1>1, <1>3, Partition, AddElemMoves DEF Inv
<1>5. Unpooled' = Unpooled \ {i}
  BY <1>1, <1>2, Layout DEF Unpooled
<1>6. NoDoubleHandout' /\ NoFrameLost'
  <2>1. Partitioned'
    BY <1>1, <1>3, <1>4, <1>5, Partition DEF Inv, Partitioned, Usable, Frames, UpperEnd
  <2> QED
    BY <1>4, <2>1 DEF Partitioned, NoDoubleHandout, NoFrameLost, ListOK, Distinct, InPool
<1>7. TypeOK'
  BY <1>1, <1>2, <1>4 DEF Inv, TypeOK, ListOK, Words, Frames, UpperEnd
<1>8. CountersAgree' /\ NoAssertFails'
  BY <1>1, <1>2, <1>4, Layout DEF Inv, CountersAgree, NoAssertFails
<1> QED
  BY <1>4, <1>6, <1>7, <1>8 DEF Inv, ListOK

LEMMA FinishInitInv ==
  ASSUME Inv, FinishInit
  PROVE  Inv'
<1>1. /\ pc = "add_lower_pages" /\ i >= LowerPages
      /\ base_addr' = UpperBase /\ length' = UpperPages
      /\ unpooled_page_cnt' = UpperPages
      /\ pc' = IF i = LowerPages THEN "ready" ELSE "halted"
      /\ UNCHANGED <<next, prev, pool, i, new_cnt, ret, owned>>
  BY DEF FinishInit, list
<1>2. i = LowerPages /\ Len(pool) >= 1 /\ pc' = "ready"
  BY <1>1, Layout DEF Inv, CountersAgree
<1>3. Unpooled' = Unpooled
  BY <1>1, <1>2, Layout DEF Unpooled, UpperEnd
<1>4. RingMatchesPool' /\ NoDoubleHandout' /\ NoFrameLost'
  BY <1>1, <1>3 DEF Inv, RingMatchesPool, At, NoDoubleHandout, NoFrameLost
<1>5. TypeOK'
  BY <1>1, <1>2, LayoutAssumption DEF Inv, TypeOK
<1>6. CountersAgree' /\ NoAssertFails'
  BY <1>1, <1>2, LayoutAssumption DEF CountersAgree, NoAssertFails, UpperEnd
<1> QED
  BY <1>4, <1>5, <1>6 DEF Inv

LEMMA AllocFailsInv ==
  ASSUME Inv, AllocFails
  PROVE  Inv'
BY Layout DEF Inv, AllocFails, list, head_info, TypeOK, RingMatchesPool, At,
   NoDoubleHandout, NoFrameLost, Unpooled, CountersAgree, NoAssertFails, NULL, METADATA

\* A frame moves from the list to its owner: AllocFromPool and FinishRefill.
LEMMA PopMovesPartition ==
  ASSUME Inv, pop_elem, ~is_empty, Unpooled' = Unpooled
  PROVE  NoDoubleHandout' /\ NoFrameLost'
<1>1. /\ ListOK' /\ ret' \in InPool /\ InPool' = InPool \ {ret'}
      /\ owned' = owned \cup {ret'}
  BY Partition, PopElemMoves DEF Inv
<1>2. Partitioned'
  BY <1>1, Partition DEF Inv, Partitioned, Usable, Frames, UpperEnd
<1> QED
  BY <1>1, <1>2 DEF Partitioned, NoDoubleHandout, NoFrameLost, ListOK, Distinct, InPool

LEMMA AllocFromPoolInv ==
  ASSUME Inv, AllocFromPool
  PROVE  Inv'
<1>1. /\ pc = "ready" /\ ~is_empty /\ pop_elem
      /\ UNCHANGED <<base_addr, length, unpooled_page_cnt, pc, i, new_cnt>>
  BY DEF AllocFromPool, head_info
<1>2. /\ ListOK' /\ Len(pool') = Len(pool) - 1 /\ Len(pool) >= 2 /\ Len(pool) \in Nat
      /\ ret' \in InPool /\ InPool \subseteq Usable
      /\ owned' = owned \cup {ret'}
  BY <1>1, Partition, PopElemMoves, AtType DEF Inv
<1>3. Unpooled' = Unpooled
  BY <1>1 DEF Unpooled
<1>4. NoDoubleHandout' /\ NoFrameLost'
  BY <1>1, <1>3, PopMovesPartition
<1>5. TypeOK'
  BY <1>1, <1>2 DEF Inv, TypeOK, ListOK, Usable
<1>6. CountersAgree' /\ NoAssertFails'
  BY <1>1, <1>2 DEF Inv, CountersAgree, NoAssertFails
<1> QED
  BY <1>2, <1>4, <1>5, <1>6 DEF Inv, ListOK

LEMMA AllocRefillInv ==
  ASSUME Inv, AllocRefill
  PROVE  Inv'
<1>1. /\ pc = "ready" /\ unpooled_page_cnt # 0 /\ i' = 0
      /\ new_cnt' = IF BatchSize > unpooled_page_cnt
                      THEN unpooled_page_cnt ELSE BatchSize
      /\ pc' = IF unpooled_page_cnt >= new_cnt' /\ new_cnt' > 0
                 THEN "add_new_upper_pages" ELSE "halted"
      /\ UNCHANGED <<next, prev, pool, base_addr, length, unpooled_page_cnt, ret, owned>>
  BY DEF AllocRefill, list, head_info
<1>2. unpooled_page_cnt \in Nat /\ base_addr \in Nat /\ length \in Nat
  BY <1>1 DEF Inv, TypeOK
<1>3. new_cnt' \in 1 .. unpooled_page_cnt /\ pc' = "add_new_upper_pages"
  BY <1>1, <1>2, LayoutAssumption
<1>4. Unpooled' = Unpooled
  BY <1>1, <1>3 DEF Unpooled
<1>5. RingMatchesPool' /\ NoDoubleHandout' /\ NoFrameLost'
  BY <1>1, <1>4 DEF Inv, RingMatchesPool, At, NoDoubleHandout, NoFrameLost
<1>6. TypeOK'
  BY <1>1, <1>2, <1>3 DEF Inv, TypeOK
<1>7. CountersAgree' /\ NoAssertFails'
  BY <1>1, <1>2, <1>3 DEF Inv, CountersAgree, NoAssertFails
<1> QED
  BY <1>5, <1>6, <1>7 DEF Inv

LEMMA AddUpperPageInv ==
  ASSUME Inv, AddUpperPage
  PROVE  Inv'
<1>1. /\ pc = "add_new_upper_pages" /\ i < new_cnt /\ add_elem(base_addr)
      /\ base_addr' = base_addr + 1 /\ i' = i + 1
      /\ UNCHANGED <<length, unpooled_page_cnt, pc, new_cnt, ret, owned>>
  BY DEF AddUpperPage
<1>2. /\ i \in 0 .. new_cnt /\ new_cnt \in 1 .. unpooled_page_cnt /\ new_cnt \in Nat
      /\ base_addr - i + length = UpperEnd /\ unpooled_page_cnt = length
      /\ base_addr \in UpperBase .. UpperEnd /\ length \in Nat /\ base_addr \in Nat
  BY <1>1 DEF Inv, CountersAgree, TypeOK
<1>3. base_addr \in UpperBase .. UpperEnd - 1
  BY <1>1, <1>2, Layout
<1>4. base_addr \in Usable /\ base_addr \in Unpooled
  BY <1>1, <1>3, Layout DEF Unpooled
<1>5. /\ ListOK' /\ InPool' = InPool \cup {base_addr}
      /\ Len(pool') = Len(pool) + 1 /\ Len(pool) \in Nat
  BY <1>1, <1>4, Partition, AddElemMoves, AtType DEF Inv
<1>6. Unpooled' = Unpooled \ {base_addr}
  BY <1>1, <1>3, Layout DEF Unpooled
<1>7. NoDoubleHandout' /\ NoFrameLost'
  <2>1. Partitioned'
    BY <1>1, <1>4, <1>5, <1>6, Partition DEF Inv, Partitioned, Usable, Frames, UpperEnd
  <2> QED
    BY <1>5, <2>1 DEF Partitioned, NoDoubleHandout, NoFrameLost, ListOK, Distinct, InPool
<1>8. TypeOK'
  BY <1>1, <1>2, <1>5 DEF Inv, TypeOK, ListOK
<1>9. CountersAgree' /\ NoAssertFails'
  BY <1>1, <1>2, <1>3, <1>5, Layout DEF Inv, CountersAgree, NoAssertFails
<1> QED
  BY <1>5, <1>7, <1>8, <1>9 DEF Inv, ListOK

LEMMA FinishRefillInv ==
  ASSUME Inv, FinishRefill
  PROVE  Inv' /\ ~is_empty /\ pop_elem /\ pc' = "ready"
<1>1. /\ pc = "add_new_upper_pages" /\ i >= new_cnt
      /\ length' = length - new_cnt
      /\ unpooled_page_cnt' = unpooled_page_cnt - new_cnt
      /\ UNCHANGED <<base_addr, i, new_cnt>>
  BY DEF FinishRefill
<1>2. /\ i = new_cnt /\ new_cnt \in 1 .. unpooled_page_cnt /\ new_cnt \in Nat
      /\ base_addr - i + length = UpperEnd /\ unpooled_page_cnt = length
      /\ base_addr \in UpperBase .. UpperEnd /\ length \in Nat /\ base_addr \in Nat
      /\ Len(pool) >= 1 + i /\ Len(pool) \in Nat
  BY <1>1, Partition, AtType DEF Inv, CountersAgree, TypeOK
<1>3. ~is_empty
  BY <1>2, Partition, EmptyMeansAtMostOne DEF Inv
<1>4. base_addr + length' = (base_addr - i) + length
  BY <1>1, <1>2
<1>5. pop_elem /\ pc' = "ready"
  BY <1>3, <1>4 DEF FinishRefill
<1>6. /\ ListOK' /\ Len(pool') = Len(pool) - 1
      /\ ret' \in InPool /\ InPool \subseteq Usable
      /\ owned' = owned \cup {ret'}
  BY <1>3, <1>5, Partition, PopElemMoves DEF Inv
<1>7. Unpooled' = Unpooled
  BY <1>1, <1>5 DEF Unpooled
<1>8. NoDoubleHandout' /\ NoFrameLost'
  BY <1>3, <1>5, <1>7, PopMovesPartition
<1>9. TypeOK'
  BY <1>1, <1>2, <1>5, <1>6 DEF Inv, TypeOK, ListOK, Usable
<1>10. CountersAgree' /\ NoAssertFails'
  BY <1>1, <1>2, <1>4, <1>5, <1>6 DEF CountersAgree, NoAssertFails
<1> QED
  BY <1>3, <1>5, <1>6, <1>8, <1>9, <1>10 DEF Inv, ListOK

LEMMA FreeInv ==
  ASSUME Inv, NEW f \in Frames, Free(f)
  PROVE  Inv' /\ f \in owned /\ f # METADATA /\ add_elem(f) /\ owned' = owned \ {f}
<1>1. f \in owned /\ f # METADATA /\ f \in Usable /\ f \notin InPool
  BY Partition DEF Inv, Free, Usable
<1>2. /\ pc = "ready" /\ add_elem(f) /\ owned' = owned \ {f}
      /\ UNCHANGED <<base_addr, length, unpooled_page_cnt, pc, i, new_cnt, ret>>
  BY <1>1 DEF Free, head_info, NULL, METADATA
<1>3. /\ ListOK' /\ InPool' = InPool \cup {f}
      /\ Len(pool') = Len(pool) + 1 /\ Len(pool) \in Nat
  BY <1>1, <1>2, Partition, AddElemMoves, AtType DEF Inv
<1>4. Unpooled' = Unpooled
  BY <1>2 DEF Unpooled
<1>5. NoDoubleHandout' /\ NoFrameLost'
  <2>1. Partitioned'
    BY <1>1, <1>2, <1>3, <1>4, Partition DEF Inv, Partitioned, Usable, Frames, UpperEnd
  <2> QED
    BY <1>3, <2>1 DEF Partitioned, NoDoubleHandout, NoFrameLost, ListOK, Distinct, InPool
<1>6. TypeOK'
  BY <1>2, <1>3 DEF Inv, TypeOK, ListOK
<1>7. CountersAgree' /\ NoAssertFails'
  BY <1>2, <1>3 DEF Inv, CountersAgree, NoAssertFails
<1> QED
  BY <1>1, <1>2, <1>3, <1>5, <1>6, <1>7 DEF Inv, ListOK

\* What an owner writes in its frame does not touch the list: no frame of the
\* ring is owned.
LEMMA OwnerWritesInv ==
  ASSUME Inv, NEW f \in Frames, OwnerWrites(f)
  PROVE  Inv'
<1>1. f \in owned /\ f # METADATA /\ f \notin InPool
  BY Partition DEF Inv, OwnerWrites
<1>2. /\ next' = [next EXCEPT ![f] = Junk] /\ prev' = [prev EXCEPT ![f] = Junk]
      /\ UNCHANGED <<base_addr, length, unpooled_page_cnt, pc, i, new_cnt, ret, owned, pool>>
  BY DEF OwnerWrites, head_info
<1>3. \A k \in 0 .. Len(pool) + 1 : At(k) # f /\ At(k) \in Frames /\ At(k)' = At(k)
  <2> TAKE k \in 0 .. Len(pool) + 1
  <2>1. k = 0 \/ k = Len(pool) + 1 \/ k \in 1 .. Len(pool)
    BY Partition, AtType DEF Inv
  <2>2. At(k) # f
    BY <1>1, <2>1 DEF At, InPool
  <2> QED
    BY <1>2, <2>2, Partition, AtType DEF Inv, At
<1>4. RingMatchesPool'
  <2> SUFFICES ASSUME NEW k \in 0 .. Len(pool)
               PROVE  next'[At(k)'] = At(k + 1)' /\ prev'[At(k + 1)'] = At(k)'
    BY <1>2 DEF RingMatchesPool
  <2>1. k \in 0 .. Len(pool) + 1 /\ k + 1 \in 0 .. Len(pool) + 1
    BY Partition, AtType DEF Inv
  <2>2. next[At(k)] = At(k + 1) /\ prev[At(k + 1)] = At(k)
    BY DEF Inv, RingMatchesPool
  <2> QED
    BY <1>2, <1>3, <2>1, <2>2 DEF Inv, TypeOK
<1>5. TypeOK'
  BY <1>2 DEF Inv, TypeOK, Words
<1>6. NoDoubleHandout' /\ NoFrameLost' /\ CountersAgree' /\ NoAssertFails'
  BY <1>2 DEF Inv, NoDoubleHandout, NoFrameLost, Unpooled, CountersAgree, NoAssertFails
<1> QED
  BY <1>4, <1>5, <1>6 DEF Inv

LEMMA StutterInv ==
  ASSUME Inv, UNCHANGED vars
  PROVE  Inv'
BY DEF Inv, vars, head_info, TypeOK, RingMatchesPool, At, NoDoubleHandout,
   NoFrameLost, Unpooled, CountersAgree, NoAssertFails

LEMMA NextInv == Inv /\ [Next]_vars => Inv'
<1> SUFFICES ASSUME Inv, [Next]_vars PROVE Inv'
  OBVIOUS
<1>1. CASE AddLowerPage
  BY <1>1, AddLowerPageInv
<1>2. CASE FinishInit
  BY <1>2, FinishInitInv
<1>3. CASE AllocFails
  BY <1>3, AllocFailsInv
<1>4. CASE AllocFromPool
  BY <1>4, AllocFromPoolInv
<1>5. CASE AllocRefill
  BY <1>5, AllocRefillInv
<1>6. CASE AddUpperPage
  BY <1>6, AddUpperPageInv
<1>7. CASE FinishRefill
  BY <1>7, FinishRefillInv
<1>8. ASSUME NEW f \in Frames, Free(f) PROVE Inv'
  BY <1>8, FreeInv
<1>9. ASSUME NEW f \in Frames, OwnerWrites(f) PROVE Inv'
  BY <1>9, OwnerWritesInv
<1>10. CASE UNCHANGED vars
  BY <1>10, StutterInv
<1> QED
  BY <1>1, <1>2, <1>3, <1>4, <1>5, <1>6, <1>7, <1>8, <1>9, <1>10 DEF Next

\* The inductive invariant holds in every reachable state.
THEOREM Invariance == Spec => []Inv
<1>1. Init => Inv
  BY InitInv
<1>2. Inv /\ [Next]_vars => Inv'
  BY NextInv
<1> QED
  BY <1>1, <1>2, PTL DEF Spec

\* The allocator's memory always has its type.
THEOREM TypeCorrect == Spec => []TypeOK
<1>1. Inv => TypeOK
  BY DEF Inv
<1> QED
  BY <1>1, Invariance, PTL

\* The links in memory always form the ring of the frames on the list.
THEOREM RingWellFormed == Spec => []RingMatchesPool
<1>1. Inv => RingMatchesPool
  BY DEF Inv
<1> QED
  BY <1>1, Invariance, PTL

\* No frame is ever lost, on the list twice or handed out while it is held.
THEOREM Accounting == Spec => []FramesPartitioned
<1>1. Inv => FramesPartitioned
  BY DEF Inv, FramesPartitioned
<1> QED
  BY <1>1, Invariance, PTL

\* The counters always measure what is left of the upper region.
THEOREM CountersCorrect == Spec => []CountersAgree
<1>1. Inv => CountersAgree
  BY DEF Inv
<1> QED
  BY <1>1, Invariance, PTL

\* No assertion of pf_alloc.c ever fails.
THEOREM AssertionsHold == Spec => []NoAssertFails
<1>1. Inv => NoAssertFails
  BY DEF Inv
<1> QED
  BY <1>1, Invariance, PTL

-----------------------------------------------------------------------------
(* What a step does.                                                       *)

\* A freed frame is the next one handed out.
THEOREM LastInFirstOut == Spec => FreedFrameIsNext
<1> DEFINE Effect == \A f \in Frames : Free(f) => prev'[METADATA] = f /\ next'[METADATA] # f
<1>1. Inv /\ [Next]_vars => [Effect]_vars
  <2> SUFFICES ASSUME Inv, NEW f \in Frames, Free(f)
               PROVE  prev'[METADATA] = f /\ next'[METADATA] # f
    OBVIOUS
  <2>1. /\ f \in owned /\ f # METADATA /\ add_elem(f) /\ f \notin InPool
        /\ next \in [Frames -> Words] /\ prev \in [Frames -> Words]
    BY FreeInv, Partition DEF Inv, TypeOK
  <2>2. /\ Len(pool) >= 1 /\ Len(pool) \in Nat /\ METADATA \in Frames
    BY Partition, AtType DEF Inv, CountersAgree, Free
  <2>3. next[METADATA] = At(1) /\ prev[METADATA] = At(Len(pool))
    <3>1. 0 \in 0 .. Len(pool) /\ Len(pool) \in 0 .. Len(pool)
      BY <2>2
    <3>2. next[At(0)] = At(0 + 1) /\ prev[At(Len(pool) + 1)] = At(Len(pool))
      BY <3>1 DEF Inv, RingMatchesPool
    <3> QED
      BY <3>2, Partition, AtType DEF Inv
  <2>4. 1 \in 1 .. Len(pool) /\ Len(pool) \in 1 .. Len(pool)
    BY <2>2
  <2>5. At(1) \in InPool /\ At(Len(pool)) \in Usable
    BY <2>4, Partition, AtType DEF Inv, InPool
  <2>6. prev'[METADATA] = f
    BY <2>1, <2>2 DEF add_elem
  <2>7. next'[METADATA] = next[METADATA]
    BY <2>1, <2>2, <2>3, <2>5 DEF add_elem, Usable
  <2> QED
    BY <2>1, <2>3, <2>5, <2>6, <2>7
<1> QED
  BY <1>1, Invariance, PTL DEF Spec, FreedFrameIsNext

\* The initial states and the steps are those FrameAllocator allows.
LEMMA PromiseInit == Init => Promise!Init
BY Layout DEF Init, Promise!Init

LEMMA PromiseStep ==
  ASSUME Inv, [Next]_vars
  PROVE  [Promise!Next]_<<Usable \ owned, owned, ret>>
<1> DEFINE Kept == UNCHANGED <<owned, ret>>
<1>1. ASSUME Kept PROVE UNCHANGED <<Usable \ owned, owned, ret>>
  BY <1>1
<1>2. CASE AddLowerPage \/ FinishInit \/ AllocRefill \/ AddUpperPage
  BY <1>1, <1>2 DEF AddLowerPage, FinishInit, AllocRefill, AddUpperPage
<1>3. CASE AllocFails
  <2>1. InPool = {} \/ \E f \in Usable : InPool = {f}
    <3>1. Len(pool) \in Nat /\ Len(pool) <= 1
      BY <1>3, Partition, AtType, EmptyMeansAtMostOne DEF Inv, AllocFails
    <3>2. CASE Len(pool) = 0
      BY <3>2 DEF InPool
    <3>3. CASE Len(pool) = 1
      <4>1. InPool = {pool[1]}
        BY <3>3 DEF InPool
      <4> QED
        BY <4>1, Partition DEF Inv
    <3>4. \A n \in Nat : n <= 1 => n = 0 \/ n = 1
      OBVIOUS
    <3> QED
      BY <3>1, <3>2, <3>3, <3>4, Zenon
  <2>2. Unpooled = {}
    <3>1. /\ pc = "ready" /\ unpooled_page_cnt = 0 /\ length = 0
          /\ base_addr \in Nat /\ base_addr + length = UpperEnd
      BY <1>3 DEF Inv, AllocFails, CountersAgree, TypeOK
    <3> QED
      BY <3>1, Layout DEF Unpooled
  <2>3. \A f, g \in Usable \ owned : f = g
    BY <2>1, <2>2, Partition DEF Inv
  <2>4. Promise!AllocFails
    BY <1>3, <2>3 DEF AllocFails, Promise!AllocFails
  <2> QED
    BY <2>4 DEF Promise!Next
<1>4. ASSUME pop_elem, ~is_empty PROVE Promise!Next
  <2>1. /\ ret' \in InPool /\ owned' = owned \cup {ret'}
        /\ InPool \subseteq Usable /\ InPool \cap owned = {}
    BY <1>4, Partition, PopElemMoves DEF Inv
  <2>2. Promise!Alloc(ret') /\ ret' \in Usable
    BY <2>1 DEF Promise!Alloc
  <2> QED
    BY <2>2 DEF Promise!Next
<1>5. CASE AllocFromPool
  BY <1>4, <1>5 DEF AllocFromPool
<1>6. CASE FinishRefill
  BY <1>4, <1>6, FinishRefillInv
<1>7. ASSUME NEW f \in Frames, Free(f) PROVE Promise!Next
  <2>1. f \in Usable /\ f \in owned /\ owned' = owned \ {f} /\ ret' = ret
    BY <1>7, FreeInv DEF Free, Usable
  <2>2. Promise!Free(f)
    BY <2>1 DEF Promise!Free
  <2> QED
    BY <2>1, <2>2 DEF Promise!Next
<1>8. ASSUME NEW f \in Frames, OwnerWrites(f) PROVE Kept
  BY <1>8 DEF OwnerWrites
<1>9. CASE UNCHANGED vars
  BY <1>1, <1>9 DEF vars
<1> QED
  BY <1>1, <1>2, <1>3, <1>5, <1>6, <1>7, <1>8, <1>9 DEF Next

\* The allocator implements the abstract one.
THEOREM Implements == Spec => ImplementsPromise
<1>1. Init => Promise!Init
  BY PromiseInit
<1>2. Inv /\ [Next]_vars => [Promise!Next]_<<Usable \ owned, owned, ret>>
  BY PromiseStep
<1> QED
  BY <1>1, <1>2, Invariance, PTL DEF Spec, Promise!Spec, ImplementsPromise
=============================================================================
