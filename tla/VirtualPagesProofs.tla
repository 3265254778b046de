------------------------- MODULE VirtualPagesProofs -------------------------
(***************************************************************************)
(* Proofs about the virtual page allocator, for every size of table, heap  *)
(* and memory: no frame is mapped twice, leaked or freed while mapped, the *)
(* tables show what callers hold, no page in use is reached through a      *)
(* stale translation, and the page tables implement PageHeap.              *)
(***************************************************************************)
EXTENDS VirtualPages, TLAPS

\* The addresses from the heap on.
Space == HeapBase .. Entries * Entries * Entries * Entries - 1

Entry == [addr : Usable \cup {NULL}, present : BOOLEAN, writeable : BOOLEAN, demand : BOOLEAN]

Live(v) == Demanded(v) \/ Mapped(v)

-----------------------------------------------------------------------------
(* Addresses and their indices.                                            *)

LEMMA Names == L4Table \notin Usable /\ NULL \notin Usable /\ NULL # L4Table
BY HeapAssumption

LEMMA Quotient ==
  ASSUME NEW a \in Nat, NEW m \in Nat, m > 0
  PROVE  /\ a \div m \in Nat /\ a % m \in Nat /\ a % m < m
         /\ a = m * (a \div m) + (a % m)
<1>1. a \div m \in Nat
  OBVIOUS
<1>2. a = m * (a \div m) + (a % m)
  OBVIOUS
<1>3. a % m \in 0 .. m - 1
  OBVIOUS
<1> QED
  BY <1>1, <1>2, <1>3

LEMMA Monotone ==
  ASSUME NEW p \in Nat, NEW q \in Nat, NEW m \in Nat, p < q
  PROVE  m * p + m <= m * q
<1>1. m * (q - p - 1) >= 0
  OBVIOUS
<1>2. m * (q - p - 1) = m * q - m * p - m
  OBVIOUS
<1>3. m * p \in Nat /\ m * q \in Nat
  OBVIOUS
<1> QED
  BY <1>1, <1>2, <1>3

\* A quotient is the only number with a remainder in range.
LEMMA QuotientIs ==
  ASSUME NEW a \in Nat, NEW m \in Nat, m > 0, NEW q \in Nat, NEW r \in Nat, r < m, a = m * q + r
  PROVE  a \div m = q
<1> DEFINE p == a \div m s == a % m
<1>1. p \in Nat /\ s \in Nat /\ s < m /\ a = m * p + s
  BY Quotient
<1> HIDE DEF p, s
<1>2. m * p \in Nat /\ m * q \in Nat
  BY <1>1
<1>3. ~ (p < q)
  BY <1>1, <1>2, Monotone
<1>4. ~ (q < p)
  BY <1>1, <1>2, Monotone
<1> QED
  BY <1>1, <1>3, <1>4 DEF p

\* Dividing twice.
LEMMA Nested ==
  ASSUME NEW a \in Nat, NEW m \in Nat, NEW n \in Nat, m > 0, n > 0
  PROVE  a \div (m * n) = (a \div m) \div n
<1> DEFINE p == a \div m r == a % m q == p \div n s == p % n
<1>1. p \in Nat /\ r \in Nat /\ r < m /\ a = m * p + r
  BY Quotient
<1>2. q \in Nat /\ s \in Nat /\ s < n /\ p = n * q + s
  BY <1>1, Quotient
<1> HIDE DEF p, r, q, s
<1>3. m * p = m * (n * q) + m * s
  BY <1>2
<1>4. m * (n * q) = (m * n) * q /\ m * n \in Nat /\ m * s \in Nat /\ (m * n) * q \in Nat
  BY <1>2
<1>5. m * s + m <= m * n
  BY <1>2, Monotone
<1>6. m * s + r \in Nat /\ m * s + r < m * n /\ m * n > 0
  BY <1>1, <1>4, <1>5
<1>7. a = (m * n) * q + (m * s + r)
  BY <1>1, <1>3, <1>4
<1>8. a \div (m * n) = q
  BY <1>2, <1>4, <1>6, <1>7, QuotientIs
<1> QED
  BY <1>8 DEF p, q

\* The four indices of an address: the quotients of repeated division.
LEMMA Digits ==
  ASSUME NEW v \in Space
  PROVE  /\ v \in Nat /\ Entries \in Nat /\ Entries >= 2
         /\ LET d2 == v \div Entries d3 == d2 \div Entries d4 == d3 \div Entries
            IN /\ d2 \in Nat /\ d3 \in Nat /\ d4 \in Nat /\ 0 < d4 /\ d4 < Entries
               /\ IndexAt(v, 1) = v % Entries /\ IndexAt(v, 2) = d2 % Entries
               /\ IndexAt(v, 3) = d3 % Entries /\ IndexAt(v, 4) = d4
<1> DEFINE E == Entries E2 == E * E E3 == E2 * E E4 == E3 * E
           d2 == v \div E d3 == d2 \div E d4 == d3 \div E
<1>1. E \in Nat /\ E >= 2
  BY HeapAssumption
<1>2. E2 \in Nat /\ E2 > 0
  BY <1>1
<1>3. E3 \in Nat /\ E3 > 0
  <2> HIDE DEF E2
  <2> QED
    BY <1>1, <1>2
<1>4. E4 \in Nat /\ E4 > 0
  <2> HIDE DEF E3
  <2> QED
    BY <1>1, <1>3
<1>5. v \in Nat /\ E3 <= v /\ v < E4
  <2>1. HeapBase \in Nat /\ HeapBase >= E3
    BY HeapAssumption
  <2> HIDE DEF E3, E4
  <2>2. Space = HeapBase .. E4 - 1
    BY DEF Space, E4, E3
  <2> QED
    BY <2>1, <2>2, <1>3, <1>4
<1> HIDE DEF E, E2, E3, E4
<1>6. d2 \in Nat /\ d3 \in Nat /\ d4 \in Nat
  BY <1>1, <1>5, Quotient
<1>7. v \div E2 = d3 /\ v \div E3 = d4
  <2>1. v \div E2 = d3
    BY <1>1, <1>5, Nested DEF E2
  <2>2. v \div E3 = (v \div E2) \div E
    BY <1>1, <1>2, <1>5, Nested DEF E3
  <2> QED
    BY <2>1, <2>2
<1> HIDE DEF d2, d3, d4
<1>8. 0 < d4 /\ d4 < E
  <2> DEFINE r == v % E3
  <2>1. r \in Nat /\ r < E3 /\ v = E3 * d4 + r
    BY <1>3, <1>5, <1>7, Quotient
  <2> HIDE DEF r
  <2>2. d4 # 0
    BY <2>1, <1>3, <1>5
  <2>3. ~ (E < d4)
    BY <2>1, <1>1, <1>3, <1>4, <1>5, <1>6, Monotone DEF E4
  <2>4. d4 # E
    BY <2>1, <1>1, <1>3, <1>4, <1>5, <1>6 DEF E4
  <2> QED
    BY <2>2, <2>3, <2>4, <1>1, <1>6
<1>9. d4 % E = d4
  BY <1>1, <1>6, <1>8
<1>10. IndexAt(v, 1) = v % E
  <2>1. v \div 1 = v
    BY <1>5
  <2> QED
    BY <2>1 DEF IndexAt, E
<1>11. IndexAt(v, 2) = d2 % E
  BY DEF IndexAt, d2, E
<1>12. IndexAt(v, 3) = d3 % E
  BY <1>7 DEF IndexAt, E2, E
<1>13. IndexAt(v, 4) = d4
  BY <1>7, <1>9 DEF IndexAt, E3, E2, E
<1> QED
  BY <1>1, <1>5, <1>6, <1>8, <1>10, <1>11, <1>12, <1>13 DEF d2, d3, d4, E

LEMMA IndexFacts ==
  ASSUME NEW v \in Space
  PROVE  IndexAt(v, 4) # 0 /\ \A k \in 1 .. 4 : IndexAt(v, k) \in Index
<1>1. \A a \in Nat : a % Entries \in Index
  BY HeapAssumption DEF Index
<1>2. IndexAt(v, 1) \in Index /\ IndexAt(v, 2) \in Index /\ IndexAt(v, 3) \in Index
  BY <1>1, Digits
<1>3. IndexAt(v, 4) \in Index /\ IndexAt(v, 4) # 0
  BY Digits DEF Index
<1> QED
  BY <1>2, <1>3

\* An address is given by its indices.
LEMMA SameAddress ==
  ASSUME NEW v \in Space, NEW w \in Space, \A k \in 1 .. 4 : IndexAt(v, k) = IndexAt(w, k)
  PROVE  v = w
<1>1. ASSUME NEW a \in Nat, NEW b \in Nat, a \div Entries = b \div Entries, a % Entries = b % Entries
      PROVE  a = b
  BY <1>1, Quotient, HeapAssumption
<1>2. v \in Nat /\ w \in Nat /\ Entries \in Nat /\ Entries >= 2
  BY Digits
<1>3. \A k \in {1, 2, 3, 4} : IndexAt(v, k) = IndexAt(w, k)
  OBVIOUS
<1> DEFINE v2 == v \div Entries v3 == v2 \div Entries v4 == v3 \div Entries
           w2 == w \div Entries w3 == w2 \div Entries w4 == w3 \div Entries
<1>4. /\ v2 \in Nat /\ v3 \in Nat /\ v4 = IndexAt(v, 4)
      /\ IndexAt(v, 1) = v % Entries /\ IndexAt(v, 2) = v2 % Entries /\ IndexAt(v, 3) = v3 % Entries
  BY Digits
<1>5. /\ w2 \in Nat /\ w3 \in Nat /\ w4 = IndexAt(w, 4)
      /\ IndexAt(w, 1) = w % Entries /\ IndexAt(w, 2) = w2 % Entries /\ IndexAt(w, 3) = w3 % Entries
  BY Digits
<1>6. v3 = w3
  BY <1>1, <1>3, <1>4, <1>5
<1>7. v2 = w2
  BY <1>1, <1>3, <1>4, <1>5, <1>6
<1> QED
  BY <1>1, <1>2, <1>3, <1>4, <1>5, <1>7

-----------------------------------------------------------------------------
(* The inductive invariant.                                                *)

\* What the tables hold.  A present entry leads to a frame in use.
TablesInv ==
  /\ L4Table \in DOMAIN table /\ DOMAIN table \subseteq owned \cup {L4Table}
  /\ table \in [DOMAIN table -> [Index -> Entry]]
  /\ owned \cup free = Usable /\ owned \cap free = {}
  /\ \A t \in DOMAIN table, x \in Index :
       table[t][x].present => table[t][x].addr \in owned /\ ~table[t][x].demand

\* FramesReferencedOnce, spelled out.
OnceInv ==
  /\ \A f \in owned : \E t \in DOMAIN table, x \in Index :
       table[t][x].present /\ table[t][x].addr = f
  /\ \A s, t \in DOMAIN table : \A x, y \in Index :
       /\ table[s][x].present /\ table[t][y].present
       /\ table[s][x].addr = table[t][y].addr
       => s = t /\ x = y

\* A walk goes through tables to a frame that is not one.
WalkInv ==
  \A v \in Space :
    /\ \A k \in 1 .. 3 : TablesTo(v)[k] \in DOMAIN table \cup {NULL}
    /\ TablesTo(v)[0] \notin DOMAIN table

\* How far the calls have got.
CallsInv ==
  /\ kern_heap_top \in HeapBase .. HeapBase + HeapPages
  /\ vp \in Heap /\ num \in 0 .. MaxRange /\ i \in 0 .. num
  /\ pc = "alloc" => kern_heap_top + (num - i) <= HeapBase + HeapPages

\* What is in use by what they did.
UseInv ==
  /\ retired \subseteq HeapBase .. kern_heap_top - 1
  /\ DOMAIN tlb \subseteq HeapBase .. kern_heap_top - 1
  /\ \A v \in Space : Live(v) <=> v < kern_heap_top /\ v \notin retired

WalksInv == TablesInv /\ OnceInv /\ WalkInv
IInv == WalksInv /\ CallsInv /\ UseInv /\ LiveTranslationsTrue

-----------------------------------------------------------------------------
(* Walks through the tables.                                               *)

Walks ==
  \A v \in Space :
    /\ TablesTo(v)[4] = L4Table
    /\ \A k \in 1 .. 4 : TablesTo(v)[k - 1] = Below(TablesTo(v)[k], IndexAt(v, k))

LEMMA WalkSteps == Walks
<1> SUFFICES ASSUME NEW v \in Space
             PROVE  /\ TablesTo(v)[4] = L4Table
                    /\ \A k \in 1 .. 4 : TablesTo(v)[k - 1] = Below(TablesTo(v)[k], IndexAt(v, k))
  BY DEF Walks
<1>1. /\ TablesTo(v)[4] = L4Table
      /\ TablesTo(v)[3] = Below(TablesTo(v)[4], IndexAt(v, 4))
      /\ TablesTo(v)[2] = Below(TablesTo(v)[3], IndexAt(v, 3))
      /\ TablesTo(v)[1] = Below(TablesTo(v)[2], IndexAt(v, 2))
      /\ TablesTo(v)[0] = Below(TablesTo(v)[1], IndexAt(v, 1))
  BY DEF TablesTo
<1>2. ASSUME NEW k \in 1 .. 4 PROVE TablesTo(v)[k - 1] = Below(TablesTo(v)[k], IndexAt(v, k))
  <2>1. CASE k = 1
    BY <1>1, <2>1
  <2>2. CASE k = 2
    BY <1>1, <2>2
  <2>3. CASE k = 3
    BY <1>1, <2>3
  <2>4. CASE k = 4
    BY <1>1, <2>4
  <2> QED
    BY <2>1, <2>2, <2>3, <2>4
<1> QED
  BY <1>1, <1>2

LEMMA WalkStepsNext == Walks'
BY WalkSteps, PTL

\* The lowest level is the one the walk reaches.
Levels ==
  \A v \in Space :
    /\ LowestLevel(v) \in 0 .. 4 /\ TablesTo(v)[LowestLevel(v)] # NULL
    /\ \A k \in 0 .. 4 : TablesTo(v)[k] = NULL <=> k < LowestLevel(v)

LEMMA LevelFacts == Levels
<1> SUFFICES ASSUME NEW v \in Space
             PROVE  /\ LowestLevel(v) \in 0 .. 4 /\ TablesTo(v)[LowestLevel(v)] # NULL
                    /\ \A k \in 0 .. 4 : TablesTo(v)[k] = NULL <=> k < LowestLevel(v)
  BY DEF Levels
<1> DEFINE T(k) == TablesTo(v)[k]
           Lowest(l) == T(l) # NULL /\ \A k \in 0 .. l - 1 : T(k) = NULL
<1>1. T(4) # NULL
  BY WalkSteps, Names DEF Walks
<1>2. \A k \in 1 .. 4 : T(k) = NULL => T(k - 1) = NULL
  BY WalkSteps DEF Walks, Below
<1>3. LowestLevel(v) = CHOOSE l \in 0 .. 4 : Lowest(l)
  BY IndexFacts DEF LowestLevel, L4
<1> HIDE DEF T
<1>4. \E l \in 0 .. 4 : Lowest(l)
  <2>1. CASE T(0) # NULL
    BY <2>1
  <2>2. CASE T(0) = NULL /\ T(1) # NULL
    <3>1. Lowest(1)
      BY <2>2
    <3> QED
      BY <3>1
  <2>3. CASE T(0) = NULL /\ T(1) = NULL /\ T(2) # NULL
    <3>1. Lowest(2)
      BY <2>3
    <3> QED
      BY <3>1
  <2>4. CASE T(0) = NULL /\ T(1) = NULL /\ T(2) = NULL /\ T(3) # NULL
    <3>1. Lowest(3)
      BY <2>4
    <3> QED
      BY <3>1
  <2>5. CASE T(0) = NULL /\ T(1) = NULL /\ T(2) = NULL /\ T(3) = NULL
    <3>1. Lowest(4)
      BY <1>1, <2>5
    <3> QED
      BY <3>1
  <2> QED
    BY <2>1, <2>2, <2>3, <2>4, <2>5
<1> HIDE DEF Lowest
<1>5. LowestLevel(v) \in 0 .. 4 /\ Lowest(LowestLevel(v))
  BY <1>3, <1>4
<1>6. PICK l \in 0 .. 4 : l = LowestLevel(v) /\ Lowest(l)
  BY <1>5
<1>7. T(l) # NULL /\ \A k \in 0 .. l - 1 : T(k) = NULL
  BY <1>6 DEF Lowest
<1>8. \A k \in 0 .. 4 : k >= l => T(k) # NULL
  <2>1. \A k \in 0 .. 3 : T(k) # NULL => T(k + 1) # NULL
    BY <1>2
  <2> QED
    BY <1>7, <2>1
<1> QED
  BY <1>6, <1>7, <1>8 DEF T

LEMMA LevelFactsNext == Levels'
BY LevelFacts, PTL

\* A link of a walk: a present entry of a table.
LEMMA LinkOf ==
  ASSUME WalksInv, NEW v \in Space, NEW k \in 1 .. 4, TablesTo(v)[k - 1] # NULL
  PROVE  /\ TablesTo(v)[k] \in DOMAIN table
         /\ table[TablesTo(v)[k]][IndexAt(v, k)].present
         /\ TablesTo(v)[k - 1] = table[TablesTo(v)[k]][IndexAt(v, k)].addr
         /\ TablesTo(v)[k - 1] \in owned /\ TablesTo(v)[k - 1] # L4Table
<1>1. /\ TablesTo(v)[4] = L4Table
      /\ TablesTo(v)[k - 1] = Below(TablesTo(v)[k], IndexAt(v, k))
  BY WalkSteps DEF Walks
<1>2. /\ TablesTo(v)[k] # NULL
      /\ table[TablesTo(v)[k]][IndexAt(v, k)].present
      /\ TablesTo(v)[k - 1] = table[TablesTo(v)[k]][IndexAt(v, k)].addr
  BY <1>1 DEF Below
<1>3. TablesTo(v)[k] \in DOMAIN table
  BY <1>1, <1>2 DEF WalksInv, WalkInv, TablesInv
<1>4. IndexAt(v, k) \in Index
  BY IndexFacts
<1>5. TablesTo(v)[k - 1] \in owned
  BY <1>2, <1>3, <1>4 DEF WalksInv, TablesInv
<1> QED
  BY <1>2, <1>3, <1>5, Names DEF WalksInv, TablesInv

\* A table is reached in one way only: at one level, by the indices above it.
Meets(k) ==
  \A v, w \in Space, l \in 0 .. 4 :
    TablesTo(v)[k] # NULL /\ TablesTo(v)[k] = TablesTo(w)[l] =>
      /\ k = l
      /\ \A j \in 1 .. 4 : j > k => IndexAt(v, j) = IndexAt(w, j)

LEMMA MeetsAbove ==
  ASSUME WalksInv, NEW k \in 1 .. 4, Meets(k)
  PROVE  Meets(k - 1)
<1> SUFFICES ASSUME NEW v \in Space, NEW w \in Space, NEW l \in 0 .. 4,
                    TablesTo(v)[k - 1] # NULL, TablesTo(v)[k - 1] = TablesTo(w)[l]
             PROVE  k - 1 = l /\ \A j \in 1 .. 4 : j > k - 1 => IndexAt(v, j) = IndexAt(w, j)
  BY DEF Meets
<1> DEFINE t == TablesTo(v)[k] x == IndexAt(v, k)
<1>1. t \in DOMAIN table /\ table[t][x].present /\ TablesTo(v)[k - 1] = table[t][x].addr
  BY LinkOf
<1>2. TablesTo(v)[k - 1] # L4Table
  BY LinkOf
<1>3. l # 4
  BY <1>2, WalkSteps DEF Walks
<1>4. PICK m \in 1 .. 4 : l = m - 1
  <2>1. l + 1 \in 1 .. 4 /\ l = (l + 1) - 1
    BY <1>3
  <2> QED
    BY <2>1
<1> DEFINE s == TablesTo(w)[m] y == IndexAt(w, m)
<1>5. TablesTo(w)[m - 1] # NULL
  BY <1>4
<1>6. s \in DOMAIN table /\ table[s][y].present /\ TablesTo(w)[m - 1] = table[s][y].addr
  BY <1>5, LinkOf
<1>7. x \in Index /\ y \in Index
  BY IndexFacts
<1>8. table[t][x].addr = table[s][y].addr
  BY <1>1, <1>4, <1>6
<1>9. s = t /\ x = y
  BY <1>1, <1>6, <1>7, <1>8 DEF WalksInv, OnceInv
<1>10. t # NULL
  BY <1>1, Names DEF WalksInv, TablesInv
<1>11. k = m /\ \A j \in 1 .. 4 : j > k => IndexAt(v, j) = IndexAt(w, j)
  BY <1>9, <1>10 DEF Meets
<1>12. IndexAt(v, k) = IndexAt(w, k)
  BY <1>9, <1>11
<1> QED
  BY <1>4, <1>11, <1>12

LEMMA OneWay == ASSUME WalksInv PROVE \A k \in 0 .. 4 : Meets(k)
<1>1. Meets(4)
  <2> SUFFICES ASSUME NEW w \in Space, NEW l \in 0 .. 4, TablesTo(w)[l] = L4Table
               PROVE  l = 4
    BY WalkSteps DEF Meets, Walks
  <2>1. CASE l # 4
    <3>1. PICK k \in 1 .. 4 : l = k - 1
      <4>1. l + 1 \in 1 .. 4 /\ l = (l + 1) - 1
        BY <2>1
      <4> QED
        BY <4>1
    <3>2. TablesTo(w)[k - 1] # NULL
      BY <3>1, Names
    <3> QED
      BY <3>1, <3>2, LinkOf
  <2> QED
    BY <2>1
<1>2. Meets(4 - 1)
  BY <1>1, MeetsAbove
<1>3. Meets(3 - 1)
  BY <1>2, MeetsAbove
<1>4. Meets(2 - 1)
  BY <1>3, MeetsAbove
<1>5. Meets(1 - 1)
  BY <1>4, MeetsAbove
<1>6. Meets(3) /\ Meets(2) /\ Meets(1) /\ Meets(0)
  BY <1>2, <1>3, <1>4, <1>5
<1> QED
  BY <1>1, <1>6

-----------------------------------------------------------------------------
(* A change of one entry.                                                  *)

\* Entry x of table t may change, and tables may be added.
Changes(t, x) ==
  /\ DOMAIN table \subseteq DOMAIN table'
  /\ \A s \in DOMAIN table, y \in Index : ~(s = t /\ y = x) => table'[s][y] = table[s][y]

\* A walk is as it was down to the level where it comes to the entry.
LEMMA WalkKept ==
  ASSUME WalksInv, NEW t, NEW x, Changes(t, x), NEW w \in Space, NEW low \in 0 .. 4,
         \A k \in 1 .. 4 : k > low => ~(TablesTo(w)[k] = t /\ IndexAt(w, k) = x)
  PROVE  \A k \in 0 .. 4 : k >= low => TablesTo(w)'[k] = TablesTo(w)[k]
<1>1. TablesTo(w)'[4] = TablesTo(w)[4]
  BY WalkSteps, WalkStepsNext DEF Walks
<1>2. ASSUME NEW k \in 1 .. 4, k > low, TablesTo(w)'[k] = TablesTo(w)[k]
      PROVE  TablesTo(w)'[k - 1] = TablesTo(w)[k - 1]
  <2> DEFINE s == TablesTo(w)[k] y == IndexAt(w, k)
  <2>1. /\ TablesTo(w)[k - 1] = IF s = NULL \/ ~table[s][y].present THEN NULL ELSE table[s][y].addr
    BY WalkSteps DEF Walks, Below
  <2>2. /\ TablesTo(w)'[k - 1] = IF s = NULL \/ ~table'[s][y].present THEN NULL ELSE table'[s][y].addr
    BY <1>2, WalkStepsNext DEF Walks, Below
  <2>3. s = NULL \/ s \in DOMAIN table
    BY WalkSteps DEF WalksInv, WalkInv, Walks, TablesInv
  <2>4. y \in Index
    BY IndexFacts
  <2>5. s # NULL => table'[s][y] = table[s][y]
    BY <1>2, <2>3, <2>4 DEF Changes
  <2> QED
    BY <2>1, <2>2, <2>5
<1> DEFINE Kept(k) == k >= low => TablesTo(w)'[k] = TablesTo(w)[k]
<1>3. \A k \in 1 .. 4 : Kept(k) => Kept(k - 1)
  BY <1>2
<1>4. Kept(4)
  BY <1>1
<1> HIDE DEF Kept
<1>5. Kept(3) /\ Kept(2) /\ Kept(1) /\ Kept(0)
  <2>1. Kept(4 - 1)
    BY <1>3, <1>4
  <2>2. Kept(3 - 1)
    BY <1>3, <2>1
  <2>3. Kept(2 - 1)
    BY <1>3, <2>2
  <2>4. Kept(1 - 1)
    BY <1>3, <2>3
  <2> QED
    BY <2>1, <2>2, <2>3, <2>4
<1>6. \A k \in 0 .. 4 : Kept(k)
  BY <1>4, <1>5
<1> QED
  BY <1>6 DEF Kept

\* What the code asks of a page, in terms of its walk.
Answers ==
  \A v \in Space :
    /\ Mapped(v) <=> TablesTo(v)[0] # NULL
    /\ LowestLevel(v) = L1 <=> TablesTo(v)[0] = NULL /\ TablesTo(v)[1] # NULL
    /\ LowestLevel(v) > L1 <=> TablesTo(v)[1] = NULL
    /\ FrameOf(v) = TablesTo(v)[0]
    /\ EntryOf(v, L1) = table[TablesTo(v)[1]][IndexAt(v, 1)]

LEMMA AnswerFacts == Answers
<1> SUFFICES ASSUME NEW v \in Space
             PROVE  /\ Mapped(v) <=> TablesTo(v)[0] # NULL
                    /\ LowestLevel(v) = L1 <=> TablesTo(v)[0] = NULL /\ TablesTo(v)[1] # NULL
                    /\ LowestLevel(v) > L1 <=> TablesTo(v)[1] = NULL
                    /\ FrameOf(v) = TablesTo(v)[0]
                    /\ EntryOf(v, L1) = table[TablesTo(v)[1]][IndexAt(v, 1)]
  BY DEF Answers
<1>1. /\ LowestLevel(v) \in 0 .. 4
      /\ TablesTo(v)[0] = NULL <=> 0 < LowestLevel(v)
      /\ TablesTo(v)[1] = NULL <=> 1 < LowestLevel(v)
  BY LevelFacts DEF Levels
<1> QED
  BY <1>1 DEF Mapped, PHYSICAL, L1, FrameOf, EntryOf

LEMMA AnswerFactsNext == Answers'
BY AnswerFacts, PTL

\* The effect of writing e to the entry of v in its last table.
Written(v, e) ==
  /\ DOMAIN table' = DOMAIN table /\ table' \in [DOMAIN table -> [Index -> Entry]]
  /\ \A t \in DOMAIN table, x \in Index :
       table'[t][x] = IF t = TablesTo(v)[1] /\ x = IndexAt(v, 1) THEN e ELSE table[t][x]
  /\ \A w \in Space : \A k \in 1 .. 4 : TablesTo(w)'[k] = TablesTo(w)[k]
  /\ \A w \in Space : w # v =>
       /\ TablesTo(w)'[0] = TablesTo(w)[0] /\ FrameOf(w)' = FrameOf(w)
       /\ Mapped(w)' <=> Mapped(w)
       /\ Demanded(w)' <=> Demanded(w)
  /\ TablesTo(v)'[0] = (IF e.present THEN e.addr ELSE NULL) /\ FrameOf(v)' = TablesTo(v)'[0]
  /\ Mapped(v)' <=> e.present
  /\ Demanded(v)' <=> ~e.present /\ e.demand

LEMMA WriteEntry ==
  ASSUME WalksInv, NEW v \in Space, NEW e \in Entry, TablesTo(v)[1] # NULL,
         table' = SetEntry(v, L1, e), e.present => e.addr # NULL
  PROVE  Written(v, e)
<1>1. TablesTo(v)[1] \in DOMAIN table
  BY DEF WalksInv, WalkInv
<1>2. PICK t \in DOMAIN table : t = TablesTo(v)[1]
  BY <1>1
<1>3. PICK x \in Index : x = IndexAt(v, 1)
  BY IndexFacts
<1>4. table' = [table EXCEPT ![t] = [@ EXCEPT ![x] = e]]
  BY <1>2, <1>3 DEF SetEntry, L1
<1>5. table \in [DOMAIN table -> [Index -> Entry]]
  BY DEF WalksInv, TablesInv
<1>6. /\ DOMAIN table' = DOMAIN table /\ table' \in [DOMAIN table -> [Index -> Entry]]
      /\ \A s \in DOMAIN table, y \in Index :
           table'[s][y] = IF s = t /\ y = x THEN e ELSE table[s][y]
  BY <1>4, <1>5
<1>7. Changes(t, x)
  BY <1>6 DEF Changes
<1>8. ASSUME NEW w \in Space, NEW k \in 1 .. 4, TablesTo(w)[k] = t, IndexAt(w, k) = x
      PROVE  k = 1 /\ w = v
  <2>1. Meets(1)
    BY OneWay
  <2>2. k = 1 /\ \A j \in 1 .. 4 : j > 1 => IndexAt(v, j) = IndexAt(w, j)
    BY <1>2, <1>8, <2>1 DEF Meets
  <2>3. \A j \in 1 .. 4 : IndexAt(v, j) = IndexAt(w, j)
    BY <1>3, <1>8, <2>2
  <2> QED
    BY <2>2, <2>3, SameAddress
<1>9. ASSUME NEW w \in Space, NEW k \in 1 .. 4
      PROVE  TablesTo(w)'[k] = TablesTo(w)[k]
  <2>1. \A j \in 1 .. 4 : j > 1 => ~(TablesTo(w)[j] = t /\ IndexAt(w, j) = x)
    BY <1>8
  <2>2. \A j \in 0 .. 4 : j >= 1 => TablesTo(w)'[j] = TablesTo(w)[j]
    BY <1>7, <2>1, WalkKept
  <2> QED
    BY <2>2
<1>10. ASSUME NEW w \in Space, w # v
       PROVE  /\ TablesTo(w)'[0] = TablesTo(w)[0] /\ FrameOf(w)' = FrameOf(w)
              /\ Mapped(w)' <=> Mapped(w)
              /\ Demanded(w)' <=> Demanded(w)
  <2>1. \A j \in 1 .. 4 : j > 0 => ~(TablesTo(w)[j] = t /\ IndexAt(w, j) = x)
    BY <1>8, <1>10
  <2>2. \A j \in 0 .. 4 : j >= 0 => TablesTo(w)'[j] = TablesTo(w)[j]
    BY <1>7, <2>1, WalkKept
  <2>3. TablesTo(w)'[0] = TablesTo(w)[0] /\ TablesTo(w)'[1] = TablesTo(w)[1]
    BY <2>2
  <2>4. FrameOf(w)' = FrameOf(w) /\ (Mapped(w)' <=> Mapped(w))
        /\ (LowestLevel(w) = L1)' = (LowestLevel(w) = L1)
    BY <2>3, AnswerFacts, AnswerFactsNext DEF Answers
  <2>5. ASSUME LowestLevel(w) = L1 PROVE EntryOf(w, L1)' = EntryOf(w, L1)
    <3>1. TablesTo(w)[1] \in DOMAIN table
      BY <2>5, AnswerFacts DEF Answers, WalksInv, WalkInv
    <3>2. IndexAt(w, 1) \in Index /\ ~(TablesTo(w)[1] = t /\ IndexAt(w, 1) = x)
      BY <2>1, IndexFacts
    <3>3. table'[TablesTo(w)[1]][IndexAt(w, 1)] = table[TablesTo(w)[1]][IndexAt(w, 1)]
      BY <1>6, <3>1, <3>2
    <3> QED
      BY <2>3, <3>3, AnswerFacts, AnswerFactsNext DEF Answers
  <2>6. Demanded(w)' <=> Demanded(w)
    BY <2>4, <2>5 DEF Demanded
  <2> QED
    BY <2>3, <2>4, <2>6
<1>11. TablesTo(v)'[1] = t /\ t # NULL /\ table'[t][x] = e
  BY <1>2, <1>6, <1>9
<1>12. TablesTo(v)'[1 - 1] = Below(TablesTo(v)[1], IndexAt(v, 1))'
  BY WalkStepsNext DEF Walks
<1>13. TablesTo(v)'[0] = IF e.present THEN e.addr ELSE NULL
  BY <1>3, <1>11, <1>12 DEF Below
<1>14. FrameOf(v)' = TablesTo(v)'[0] /\ (Mapped(v)' <=> e.present)
  BY <1>13, AnswerFactsNext DEF Answers
<1>15. Demanded(v)' <=> ~e.present /\ e.demand
  <2>1. (LowestLevel(v) = L1)' <=> ~e.present
    BY <1>11, <1>13, AnswerFactsNext DEF Answers
  <2>2. EntryOf(v, L1)' = e
    BY <1>3, <1>11, AnswerFactsNext DEF Answers
  <2> QED
    BY <2>1, <2>2 DEF Demanded
<1> QED
  BY <1>2, <1>3, <1>6, <1>9, <1>10, <1>13, <1>14, <1>15 DEF Written

\* An entry is written that leads nowhere, or where nothing leads; the frame it
\* led to before is given back.
LEMMA WriteInvariance ==
  ASSUME WalksInv, NEW v \in Space, NEW e \in Entry, NEW old, TablesTo(v)[1] # NULL, Written(v, e),
         old = TablesTo(v)[0],
         owned' \cup free' = Usable, owned' \cap free' = {},
         \/ ~e.present /\ owned' = owned \ {old}
         \/ /\ e.present /\ ~e.demand /\ old = NULL
            /\ e.addr \notin owned /\ owned' = owned \cup {e.addr}
  PROVE  WalksInv'
<1>1. PICK t \in DOMAIN table : t = TablesTo(v)[1]
  BY DEF WalksInv, WalkInv
<1>2. PICK x \in Index : x = IndexAt(v, 1)
  BY IndexFacts
<1>3. /\ DOMAIN table' = DOMAIN table /\ table' \in [DOMAIN table -> [Index -> Entry]]
      /\ \A s \in DOMAIN table, y \in Index :
           table'[s][y] = IF s = t /\ y = x THEN e ELSE table[s][y]
  BY <1>1, <1>2 DEF Written
<1>4. old = IF table[t][x].present THEN table[t][x].addr ELSE NULL
  <2>1. TablesTo(v)[1 - 1] = Below(TablesTo(v)[1], IndexAt(v, 1))
    BY WalkSteps DEF Walks
  <2> QED
    BY <1>1, <1>2, <2>1 DEF Below
<1>5. old \notin DOMAIN table
  BY DEF WalksInv, WalkInv
<1>6. owned \subseteq Usable /\ NULL \notin owned
  BY Names DEF WalksInv, TablesInv
<1>7. /\ \A s \in DOMAIN table, y \in Index :
           table[s][y].present => table[s][y].addr \in owned /\ ~table[s][y].demand
      /\ \A f \in owned : \E s \in DOMAIN table, y \in Index :
           table[s][y].present /\ table[s][y].addr = f
      /\ \A s, r \in DOMAIN table : \A z, y \in Index :
           table[s][z].present /\ table[r][y].present /\ table[s][z].addr = table[r][y].addr
           => s = r /\ z = y
  BY DEF WalksInv, TablesInv, OnceInv
<1>8. ASSUME NEW s \in DOMAIN table, NEW y \in Index, table'[s][y].present
      PROVE  table'[s][y].addr \in owned' /\ ~table'[s][y].demand
  <2>1. CASE s = t /\ y = x
    BY <1>3, <1>8, <2>1
  <2>2. CASE ~(s = t /\ y = x)
    <3>1. table'[s][y] = table[s][y]
      BY <1>3, <2>2
    <3>2. table[s][y].addr \in owned /\ ~table[s][y].demand
      BY <1>7, <1>8, <3>1
    <3>3. table[s][y].addr # old
      BY <1>4, <1>6, <1>7, <1>8, <2>2, <3>1, <3>2
    <3> QED
      BY <3>1, <3>2, <3>3
  <2> QED
    BY <2>1, <2>2
<1>9. TablesInv'
  <2>1. DOMAIN table' \subseteq owned' \cup {L4Table} /\ L4Table \in DOMAIN table'
    BY <1>3, <1>5 DEF WalksInv, TablesInv
  <2>2. table' \in [DOMAIN table' -> [Index -> Entry]]
    BY <1>3
  <2> QED
    BY <1>3, <1>8, <2>1, <2>2 DEF TablesInv
<1>10. OnceInv'
  <2>1. ASSUME NEW f \in owned'
        PROVE  \E s \in DOMAIN table', y \in Index : table'[s][y].present /\ table'[s][y].addr = f
    <3>1. CASE f \in owned /\ f # old
      <4>1. PICK s \in DOMAIN table, y \in Index : table[s][y].present /\ table[s][y].addr = f
        BY <1>7, <3>1
      <4>2. ~(s = t /\ y = x)
        BY <1>4, <3>1, <4>1
      <4> QED
        BY <1>3, <4>1, <4>2
    <3>2. CASE ~(f \in owned /\ f # old)
      <4>1. e.present /\ f = e.addr
        BY <1>6, <3>2
      <4> QED
        BY <1>3, <4>1
    <3> QED
      BY <3>1, <3>2
  <2>2. ASSUME NEW s \in DOMAIN table', NEW r \in DOMAIN table', NEW z \in Index, NEW y \in Index,
               table'[s][z].present, table'[r][y].present, table'[s][z].addr = table'[r][y].addr
        PROVE  s = r /\ z = y
    <3>1. CASE (s = t /\ z = x) /\ (r = t /\ y = x)
      BY <3>1
    <3>2. CASE ~(s = t /\ z = x) /\ ~(r = t /\ y = x)
      <4>1. table'[s][z] = table[s][z] /\ table'[r][y] = table[r][y]
        BY <1>3, <3>2
      <4> QED
        BY <1>3, <1>7, <2>2, <4>1
    <3>3. CASE (s = t /\ z = x) /\ ~(r = t /\ y = x)
      <4>1. table'[s][z] = e /\ table'[r][y] = table[r][y]
        BY <1>3, <3>3
      <4> QED
        BY <1>3, <1>7, <2>2, <4>1
    <3>4. CASE ~(s = t /\ z = x) /\ (r = t /\ y = x)
      <4>1. table'[r][y] = e /\ table'[s][z] = table[s][z]
        BY <1>3, <3>4
      <4> QED
        BY <1>3, <1>7, <2>2, <4>1
    <3> QED
      BY <3>1, <3>2, <3>3, <3>4
  <2> QED
    BY <2>1, <2>2 DEF OnceInv
<1>11. WalkInv'
  <2>1. ASSUME NEW w \in Space
        PROVE  /\ \A k \in 1 .. 3 : TablesTo(w)'[k] \in DOMAIN table \cup {NULL}
               /\ TablesTo(w)'[0] \notin DOMAIN table
    <3>1. \A k \in 1 .. 3 : TablesTo(w)'[k] = TablesTo(w)[k]
      BY DEF Written
    <3>2. TablesTo(w)'[0] \notin DOMAIN table
      <4>1. CASE w # v
        BY <4>1 DEF Written, WalksInv, WalkInv
      <4>2. CASE w = v
        <5>1. TablesTo(v)'[0] = IF e.present THEN e.addr ELSE NULL
          BY DEF Written
        <5>2. DOMAIN table \subseteq owned \cup {L4Table}
          BY DEF WalksInv, TablesInv
        <5>3. NULL \notin DOMAIN table
          BY <1>6, <5>2, Names
        <5>4. e.present => e.addr \in Usable /\ e.addr \notin owned
          OBVIOUS
        <5> QED
          BY <4>2, <5>1, <5>2, <5>3, <5>4, Names
      <4> QED
        BY <4>1, <4>2
    <3> QED
      BY <3>1, <3>2 DEF WalksInv, WalkInv
  <2> QED
    BY <1>3, <2>1 DEF WalkInv
<1> QED
  BY <1>9, <1>10, <1>11 DEF WalksInv

-----------------------------------------------------------------------------
(* alloc_virtual_page adds a table.                                        *)

LEMMA NewTable ==
  ASSUME WalksInv, NEW v \in Space, NEW f \in Usable, NEW low \in 2 .. 4, low = LowestLevel(v),
         FA!Alloc(f),
         table' = [t \in DOMAIN table \cup {f} |->
                     IF t = f THEN Zeroed ELSE SetEntry(v, low, Mapping(f))[t]]
  PROVE  /\ WalksInv'
         /\ \A w \in Space : /\ Demanded(w)' <=> Demanded(w)
                             /\ Mapped(w)' <=> Mapped(w)
                             /\ FrameOf(w)' = FrameOf(w)
<1>1. /\ TablesTo(v)[low] # NULL /\ TablesTo(v)[low - 1] = NULL
  BY LevelFacts DEF Levels
<1>2. PICK t \in DOMAIN table : t = TablesTo(v)[low]
  BY <1>1, WalkSteps DEF WalksInv, WalkInv, TablesInv, Walks
<1>3. PICK x \in Index : x = IndexAt(v, low)
  BY IndexFacts
<1>4. f \in free /\ f \notin owned /\ f \notin DOMAIN table /\ f # NULL /\ f # L4Table
  BY Names DEF FA!Alloc, WalksInv, TablesInv
<1>5. table \in [DOMAIN table -> [Index -> Entry]]
  BY DEF WalksInv, TablesInv
<1>6. table' = [s \in DOMAIN table \cup {f} |-> IF s = f THEN Zeroed
                   ELSE [table EXCEPT ![t] = [@ EXCEPT ![x] = Mapping(f)]][s]]
  BY <1>2, <1>3 DEF SetEntry
<1>7. Mapping(f) \in Entry /\ Zeroed \in [Index -> Entry]
  BY DEF Mapping, Entry, Zeroed, Empty
<1>8. DOMAIN table' = DOMAIN table \cup {f}
  BY <1>5, <1>6
<1>9. table'[f] = Zeroed
  BY <1>6
<1>10. \A s \in DOMAIN table : table'[s] = [table EXCEPT ![t] = [@ EXCEPT ![x] = Mapping(f)]][s]
  BY <1>4, <1>5, <1>6
<1>11. \A s \in DOMAIN table, y \in Index :
         table'[s][y] = IF s = t /\ y = x THEN Mapping(f) ELSE table[s][y]
  BY <1>5, <1>10
<1>12. table' \in [DOMAIN table' -> [Index -> Entry]]
  <2>1. \A s \in DOMAIN table : table'[s] \in [Index -> Entry]
    BY <1>5, <1>7, <1>10
  <2>2. \A s \in DOMAIN table' : table'[s] \in [Index -> Entry]
    BY <1>7, <1>8, <1>9, <2>1
  <2>3. table' = [s \in DOMAIN table' |-> table'[s]]
    BY <1>6
  <2> QED
    BY <2>2, <2>3
<1>13. Changes(t, x)
  BY <1>8, <1>11 DEF Changes
<1>14. \A y \in Index : ~table'[f][y].present /\ ~table'[f][y].demand
  BY <1>9 DEF Zeroed, Empty
<1>15. ~table[t][x].present
  <2>1. TablesTo(v)[low - 1] = Below(TablesTo(v)[low], IndexAt(v, low))
    BY WalkSteps DEF Walks
  <2>2. table[t][x].present => table[t][x].addr \in owned
    BY DEF WalksInv, TablesInv
  <2>3. NULL \notin owned
    BY Names DEF WalksInv, TablesInv
  <2> QED
    BY <1>1, <1>2, <1>3, <2>1, <2>2, <2>3 DEF Below
<1>16. ASSUME NEW w \in Space, NEW k \in 1 .. 4, TablesTo(w)[k] = t, IndexAt(w, k) = x
       PROVE  k = low /\ TablesTo(w)[low - 1] = NULL
  <2>1. Meets(low)
    BY OneWay
  <2>2. k = low
    BY <1>1, <1>2, <1>16, <2>1 DEF Meets
  <2>3. TablesTo(w)[low - 1] = Below(TablesTo(w)[low], IndexAt(w, low))
    BY WalkSteps DEF Walks
  <2> QED
    BY <1>15, <1>16, <2>2, <2>3 DEF Below
<1>17. ASSUME NEW w \in Space
       PROVE  /\ \A k \in 0 .. 4 : TablesTo(w)'[k] = TablesTo(w)[k] \/ (k > 0 /\ TablesTo(w)'[k] = f)
              /\ TablesTo(w)'[0] = TablesTo(w)[0]
              /\ TablesTo(w)'[1] = f => TablesTo(w)[1] = NULL
  <2>1. CASE \A k \in 1 .. 4 : ~(TablesTo(w)[k] = t /\ IndexAt(w, k) = x)
    <3>1. \A k \in 0 .. 4 : k >= 0 => TablesTo(w)'[k] = TablesTo(w)[k]
      BY <1>13, <2>1, WalkKept
    <3>2. TablesTo(w)[1] # f
      BY <1>4 DEF WalksInv, WalkInv
    <3> QED
      BY <3>1, <3>2
  <2>2. CASE TablesTo(w)[low] = t /\ IndexAt(w, low) = x
    <3>1. \A k \in 1 .. 4 : k > low => ~(TablesTo(w)[k] = t /\ IndexAt(w, k) = x)
      BY <1>16
    <3>2. \A k \in 0 .. 4 : k >= low => TablesTo(w)'[k] = TablesTo(w)[k]
      BY <1>13, <3>1, WalkKept
    <3>3. TablesTo(w)[low - 1] = NULL
      BY <1>16, <2>2
    <3>4. TablesTo(w)'[low - 1] = f
      <4>1. TablesTo(w)'[low - 1] = Below(TablesTo(w)[low], IndexAt(w, low))'
        BY WalkStepsNext DEF Walks
      <4>2. TablesTo(w)'[low] = t /\ t # NULL
        BY <1>1, <1>2, <2>2, <3>2
      <4>3. table'[t][x] = Mapping(f)
        BY <1>11
      <4> QED
        BY <2>2, <4>1, <4>2, <4>3 DEF Below, Mapping
    <3>5. TablesTo(w)'[low - 2] = NULL
      <4>1. PICK k \in 1 .. 3 : k = low - 1
        OBVIOUS
      <4>2. TablesTo(w)'[k - 1] = Below(TablesTo(w)[k], IndexAt(w, k))'
        BY WalkStepsNext DEF Walks
      <4>3. TablesTo(w)'[k] = f /\ IndexAt(w, k) \in Index
        BY <3>4, <4>1, IndexFacts
      <4>4. TablesTo(w)'[k - 1] = NULL
        BY <1>14, <4>2, <4>3 DEF Below
      <4>5. k - 1 = low - 2
        BY <4>1
      <4> QED
        BY <4>4, <4>5
    <3>6. \A k \in 0 .. 4 : k < low - 1 => TablesTo(w)'[k] = NULL
      <4>1. /\ LowestLevel(w)' \in 0 .. 4
            /\ \A k \in 0 .. 4 : TablesTo(w)'[k] = NULL <=> k < LowestLevel(w)'
        BY LevelFactsNext DEF Levels
      <4>2. low - 2 < LowestLevel(w)'
        BY <3>5, <4>1
      <4> QED
        BY <4>1, <4>2
    <3>7. \A k \in 0 .. 4 : k <= low - 1 => TablesTo(w)[k] = NULL
      <4>1. /\ LowestLevel(w) \in 0 .. 4
            /\ \A k \in 0 .. 4 : TablesTo(w)[k] = NULL <=> k < LowestLevel(w)
        BY LevelFacts DEF Levels
      <4>2. low - 1 < LowestLevel(w)
        BY <3>3, <4>1
      <4> QED
        BY <4>1, <4>2
    <3>8. ASSUME NEW k \in 0 .. 4
          PROVE  TablesTo(w)'[k] = TablesTo(w)[k] \/ (k > 0 /\ TablesTo(w)'[k] = f)
      <4>1. CASE k >= low
        BY <3>2, <4>1
      <4>2. CASE k = low - 1
        BY <3>4, <4>2
      <4>3. CASE k < low - 1
        <5>1. TablesTo(w)'[k] = NULL /\ TablesTo(w)[k] = NULL
          BY <3>6, <3>7, <4>3
        <5> QED
          BY <5>1
      <4> QED
        BY <4>1, <4>2, <4>3
    <3>9. TablesTo(w)'[0] = TablesTo(w)[0]
      BY <3>8
    <3>10. TablesTo(w)[1] = NULL
      BY <3>7
    <3> QED
      BY <3>8, <3>9, <3>10
  <2> QED
    BY <1>16, <2>1, <2>2
<1> DEFINE m == Mapping(f)
<1>18. m.present /\ m.addr = f /\ ~m.demand
  BY DEF Mapping
<1>19. t \in DOMAIN table' /\ table'[t][x] = m
  BY <1>8, <1>11
<1> HIDE DEF m
<1>20. TablesInv'
  <2>1. owned' = owned \cup {f} /\ free' = free \ {f} /\ f \in free
    BY DEF FA!Alloc
  <2>2. owned' \cup free' = Usable /\ owned' \cap free' = {}
    BY <2>1 DEF WalksInv, TablesInv
  <2>3. DOMAIN table' \subseteq owned' \cup {L4Table} /\ L4Table \in DOMAIN table'
    BY <1>8, <2>1 DEF WalksInv, TablesInv
  <2>4. ASSUME NEW s \in DOMAIN table', NEW y \in Index, table'[s][y].present
        PROVE  table'[s][y].addr \in owned' /\ ~table'[s][y].demand
    <3>1. s \in DOMAIN table
      BY <1>8, <1>14, <2>4
    <3>2. CASE s = t /\ y = x
      BY <1>18, <1>19, <2>1, <3>2
    <3>3. CASE ~(s = t /\ y = x)
      <4>1. table'[s][y] = table[s][y]
        BY <1>11, <3>1, <3>3
      <4> QED
        BY <2>1, <2>4, <3>1, <4>1 DEF WalksInv, TablesInv
    <3> QED
      BY <3>2, <3>3
  <2> QED
    BY <1>12, <2>2, <2>3, <2>4 DEF TablesInv
<1>21. OnceInv'
  <2>1. owned' = owned \cup {f}
    BY DEF FA!Alloc
  <2>2. ASSUME NEW g \in owned'
        PROVE  \E s \in DOMAIN table', y \in Index : table'[s][y].present /\ table'[s][y].addr = g
    <3>1. CASE g = f
      <4>1. table'[t][x].present /\ table'[t][x].addr = f /\ t \in DOMAIN table'
        BY <1>18, <1>19
      <4> QED
        BY <3>1, <4>1
    <3>2. CASE g # f
      <4>1. PICK s \in DOMAIN table, y \in Index : table[s][y].present /\ table[s][y].addr = g
        BY <2>1, <3>2 DEF WalksInv, OnceInv
      <4>2. table'[s][y] = table[s][y] /\ s \in DOMAIN table'
        BY <1>8, <1>11, <1>15, <4>1
      <4> QED
        BY <4>1, <4>2
    <3> QED
      BY <3>1, <3>2
  <2> DEFINE Present(s, y) == table'[s][y].present
             Addr(s, y) == table'[s][y].addr
  <2>3. ASSUME NEW s \in DOMAIN table', NEW r \in DOMAIN table', NEW z \in Index, NEW y \in Index,
               Present(s, z), Present(r, y), Addr(s, z) = Addr(r, y)
        PROVE  s = r /\ z = y
    <3>1. s \in DOMAIN table /\ r \in DOMAIN table
      BY <1>8, <1>14, <2>3
    <3>2. \A q \in DOMAIN table, u \in Index : table[q][u].present => table[q][u].addr # f
      BY <1>4 DEF WalksInv, TablesInv
    <3>3. /\ table'[s][z] = IF s = t /\ z = x THEN m ELSE table[s][z]
          /\ table'[r][y] = IF r = t /\ y = x THEN m ELSE table[r][y]
      BY <1>11, <3>1 DEF m
    <3>4. m.addr = f
      BY <1>18
    <3>5. CASE (s = t /\ z = x) \/ (r = t /\ y = x)
      BY <2>3, <3>1, <3>2, <3>3, <3>4, <3>5
    <3>6. CASE ~(s = t /\ z = x) /\ ~(r = t /\ y = x)
      BY <2>3, <3>1, <3>3, <3>6 DEF WalksInv, OnceInv
    <3> QED
      BY <3>5, <3>6
  <2>4. \A g \in owned' : \E s \in DOMAIN table', y \in Index : table'[s][y].present /\ table'[s][y].addr = g
    BY <2>2
  <2> HIDE DEF Present, Addr
  <2>5. \A s, r \in DOMAIN table' : \A z, y \in Index :
          Present(s, z) /\ Present(r, y) /\ Addr(s, z) = Addr(r, y) => s = r /\ z = y
    BY <2>3
  <2> QED
    BY <2>4, <2>5 DEF OnceInv, Present, Addr
<1>22. WalkInv'
  <2>1. ASSUME NEW w \in Space
        PROVE  /\ \A k \in 1 .. 3 : TablesTo(w)'[k] \in DOMAIN table' \cup {NULL}
               /\ TablesTo(w)'[0] \notin DOMAIN table'
    <3>1. \A k \in 1 .. 3 : TablesTo(w)'[k] \in DOMAIN table' \cup {NULL}
      <4> TAKE k \in 1 .. 3
      <4>1. TablesTo(w)'[k] = TablesTo(w)[k] \/ TablesTo(w)'[k] = f
        BY <1>17
      <4> QED
        BY <1>8, <4>1 DEF WalksInv, WalkInv
    <3>2. TablesTo(w)[0] \notin DOMAIN table
      BY DEF WalksInv, WalkInv
    <3>3. TablesTo(w)[0] # f
      <4>1. TablesTo(w)[1 - 1] # NULL => TablesTo(w)[1 - 1] \in owned
        BY LinkOf
      <4> QED
        BY <1>4, <4>1
    <3> QED
      BY <1>8, <1>17, <3>1, <3>2, <3>3
  <2> QED
    BY <2>1 DEF WalkInv
<1>23. ASSUME NEW w \in Space
       PROVE  /\ Demanded(w)' <=> Demanded(w)
              /\ Mapped(w)' <=> Mapped(w)
              /\ FrameOf(w)' = FrameOf(w)
  <2>1. TablesTo(w)'[0] = TablesTo(w)[0]
    BY <1>17
  <2>2. (Mapped(w)' <=> Mapped(w)) /\ FrameOf(w)' = FrameOf(w)
    BY <2>1, AnswerFacts, AnswerFactsNext DEF Answers
  <2>3. CASE TablesTo(w)'[1] = TablesTo(w)[1]
    <3>1. (LowestLevel(w) = L1)' = (LowestLevel(w) = L1)
      BY <2>1, <2>3, AnswerFacts, AnswerFactsNext DEF Answers
    <3>2. ASSUME LowestLevel(w) = L1 PROVE EntryOf(w, L1)' = EntryOf(w, L1)
      <4>1. TablesTo(w)[1] \in DOMAIN table /\ IndexAt(w, 1) \in Index
        BY <3>2, AnswerFacts, IndexFacts DEF Answers, WalksInv, WalkInv
      <4>2. ~(TablesTo(w)[1] = t /\ IndexAt(w, 1) = x)
        BY <1>16
      <4>3. table'[TablesTo(w)[1]][IndexAt(w, 1)] = table[TablesTo(w)[1]][IndexAt(w, 1)]
        BY <1>11, <4>1, <4>2
      <4> QED
        BY <2>3, <4>3, AnswerFacts, AnswerFactsNext DEF Answers
    <3> QED
      BY <2>2, <3>1, <3>2 DEF Demanded
  <2>4. CASE TablesTo(w)'[1] # TablesTo(w)[1]
    <3>1. TablesTo(w)'[1] = f /\ TablesTo(w)[1] = NULL
      BY <1>17, <2>4
    <3>2. ~Demanded(w)
      BY <3>1, AnswerFacts DEF Answers, Demanded
    <3>3. EntryOf(w, L1)' = table'[f][IndexAt(w, 1)] /\ IndexAt(w, 1) \in Index
      BY <3>1, AnswerFactsNext, IndexFacts DEF Answers
    <3>4. ~Demanded(w)'
      BY <1>14, <3>3 DEF Demanded
    <3> QED
      BY <2>2, <3>2, <3>4
  <2> QED
    BY <2>3, <2>4
<1> QED
  BY <1>20, <1>21, <1>22, <1>23 DEF WalksInv

-----------------------------------------------------------------------------
(* The invariant holds initially, and every action preserves it.           *)

LEMMA SpaceFacts ==
  /\ HeapBase \in Nat /\ HeapPages \in Nat /\ MaxRange \in Nat /\ HeapPages > 0
  /\ \A v \in Space : v \in Nat /\ v >= HeapBase
  /\ HeapBase .. HeapBase + HeapPages + MaxRange - 1 \subseteq Space
  /\ Heap \subseteq Space
<1> DEFINE End == Entries * Entries * Entries * Entries
<1>1. /\ HeapBase \in Nat /\ HeapPages \in Nat /\ MaxRange \in Nat /\ HeapPages > 0
      /\ HeapBase + HeapPages + MaxRange <= End
  BY HeapAssumption
<1>2. End \in Nat
  <2>1. Entries \in Nat
    BY HeapAssumption
  <2>2. Entries * Entries * Entries \in Nat
    BY <2>1
  <2> QED
    BY <2>1, <2>2
<1>3. Space = HeapBase .. End - 1
  BY DEF Space
<1> HIDE DEF End
<1> QED
  BY <1>1, <1>2, <1>3 DEF Heap

\* The entry of a page in its last table.
LEMMA LastEntry ==
  ASSUME WalksInv, NEW v \in Space, TablesTo(v)[1] # NULL
  PROVE  /\ EntryOf(v, L1) \in Entry
         /\ TablesTo(v)[0] = IF EntryOf(v, L1).present THEN EntryOf(v, L1).addr ELSE NULL
         /\ EntryOf(v, L1).present => TablesTo(v)[0] # NULL /\ ~EntryOf(v, L1).demand
<1>1. TablesTo(v)[1 - 1] = Below(TablesTo(v)[1], IndexAt(v, 1))
  BY WalkSteps DEF Walks
<1>2. TablesTo(v)[1] \in DOMAIN table /\ IndexAt(v, 1) \in Index
  BY IndexFacts DEF WalksInv, WalkInv
<1>3. EntryOf(v, L1) = table[TablesTo(v)[1]][IndexAt(v, 1)]
  BY AnswerFacts DEF Answers
<1>4. EntryOf(v, L1) \in Entry
  BY <1>2, <1>3 DEF WalksInv, TablesInv
<1>5. EntryOf(v, L1).present => EntryOf(v, L1).addr \in owned /\ ~EntryOf(v, L1).demand
  BY <1>2, <1>3 DEF WalksInv, TablesInv
<1>6. NULL \notin owned
  BY Names DEF WalksInv, TablesInv
<1>7. TablesTo(v)[0] = IF EntryOf(v, L1).present THEN EntryOf(v, L1).addr ELSE NULL
  BY <1>1, <1>3 DEF Below
<1> QED
  BY <1>4, <1>5, <1>6, <1>7

\* A step that leaves every page as it was.
SameUse ==
  \A w \in Space : /\ Demanded(w)' <=> Demanded(w)
                   /\ Mapped(w)' <=> Mapped(w)
                   /\ FrameOf(w)' = FrameOf(w)

LEMMA SameTables == ASSUME UNCHANGED table PROVE SameUse
<1> SUFFICES ASSUME NEW w \in Space
             PROVE  /\ Demanded(w)' <=> Demanded(w)
                    /\ Mapped(w)' <=> Mapped(w)
                    /\ FrameOf(w)' = FrameOf(w)
  BY DEF SameUse
<1>1. TablesTo(w)' = TablesTo(w)
  BY DEF TablesTo, Below
<1>2. /\ Mapped(w)' <=> Mapped(w)
      /\ FrameOf(w)' = FrameOf(w)
      /\ (LowestLevel(w) = L1)' = (LowestLevel(w) = L1)
      /\ EntryOf(w, L1)' = EntryOf(w, L1)
  BY <1>1, AnswerFacts, AnswerFactsNext DEF Answers
<1> QED
  BY <1>2 DEF Demanded

LEMMA SameFrames ==
  ASSUME WalksInv, UNCHANGED <<table, owned, free>>
  PROVE  WalksInv'
<1>1. \A w \in Space : TablesTo(w)' = TablesTo(w)
  BY DEF TablesTo, Below
<1> QED
  BY <1>1 DEF WalksInv, TablesInv, OnceInv, WalkInv

LEMMA UseKept ==
  ASSUME IInv, WalksInv', CallsInv', SameUse, UNCHANGED <<tlb, kern_heap_top, retired>>
  PROVE  IInv'
<1>1. \A w \in Space : Live(w)' <=> Live(w)
  BY DEF SameUse, Live
<1>2. UseInv'
  BY <1>1 DEF IInv, UseInv
<1>3. LiveTranslationsTrue'
  <2>1. \A w \in DOMAIN tlb : w \in Space
    BY SpaceFacts DEF IInv, UseInv, CallsInv
  <2> QED
    BY <2>1 DEF IInv, LiveTranslationsTrue, SameUse
<1> QED
  BY <1>2, <1>3 DEF IInv

LEMMA HeapInit == ASSUME Init PROVE IInv
<1>1. /\ table = [t \in {L4Table} |-> Zeroed] /\ owned = {} /\ free = Usable /\ retired = {}
      /\ DOMAIN tlb = {} /\ kern_heap_top = HeapBase /\ pc = "ready" /\ vp = HeapBase
      /\ num = 0 /\ i = 0
  BY DEF Init, FA!Init
<1>2. Zeroed \in [Index -> Entry] /\ \A x \in Index : ~Zeroed[x].present
  BY DEF Zeroed, Empty, Entry
<1>3. \A t \in DOMAIN table, x \in Index : ~table[t][x].present
  BY <1>1, <1>2
<1>4. TablesInv
  <2>1. table \in [DOMAIN table -> [Index -> Entry]]
    BY <1>1, <1>2
  <2> QED
    BY <1>1, <1>3, <2>1 DEF TablesInv
<1>5. OnceInv
  BY <1>1, <1>3 DEF OnceInv
<1>6. ASSUME NEW v \in Space
      PROVE  \A k \in 0 .. 3 : TablesTo(v)[k] = NULL
  <2>1. TablesTo(v)[4 - 1] = Below(TablesTo(v)[4], IndexAt(v, 4)) /\ TablesTo(v)[4] = L4Table
    BY WalkSteps DEF Walks
  <2>2. TablesTo(v)[3] = NULL
    BY <1>1, <1>3, <2>1, IndexFacts DEF Below
  <2> QED
    BY <2>2, LevelFacts DEF Levels
<1>7. WalkInv
  BY <1>1, <1>6, Names DEF WalkInv
<1>8. ASSUME NEW v \in Space PROVE ~Live(v) /\ ~(v < kern_heap_top)
  <2>1. TablesTo(v)[0] = NULL /\ TablesTo(v)[1] = NULL
    BY <1>6
  <2> QED
    BY <1>1, <2>1, AnswerFacts, SpaceFacts DEF Answers, Live, Demanded
<1>9. CallsInv
  BY <1>1, SpaceFacts DEF CallsInv, Heap
<1>10. UseInv
  BY <1>1, <1>8 DEF UseInv
<1>11. LiveTranslationsTrue
  BY <1>1 DEF LiveTranslationsTrue
<1> QED
  BY <1>4, <1>5, <1>7, <1>9, <1>10, <1>11 DEF IInv, WalksInv

\* The steps that leave the tables alone.
LEMMA CallStep ==
  ASSUME IInv, UNCHANGED <<table, owned, free, kern_heap_top, retired>>, CallsInv',
         DOMAIN tlb' \subseteq {w \in Space : w \in DOMAIN tlb \/ Mapped(w)},
         \A w \in DOMAIN tlb' : tlb'[w] = IF w \in DOMAIN tlb THEN tlb[w] ELSE FrameOf(w)
  PROVE  IInv'
<1>1. WalksInv' /\ SameUse
  BY SameTables, SameFrames DEF IInv
<1>2. \A w \in Space : Live(w)' <=> Live(w)
  BY <1>1 DEF SameUse, Live
<1>3. \A w \in Space : Mapped(w) => w \in HeapBase .. kern_heap_top - 1
  BY SpaceFacts DEF IInv, UseInv, Live, CallsInv
<1>4. UseInv'
  BY <1>2, <1>3 DEF IInv, UseInv
<1>5. LiveTranslationsTrue'
  BY <1>1 DEF IInv, LiveTranslationsTrue, SameUse
<1> QED
  BY <1>1, <1>4, <1>5 DEF IInv

LEMMA AddTableStep == ASSUME IInv, AddTable PROVE IInv' /\ SameUse
<1>1. /\ pc = "alloc" /\ i < num /\ LowestLevel(kern_heap_top) > L1
      /\ UNCHANGED <<tlb, kern_heap_top, pc, vp, num, i, retired>>
  BY DEF AddTable, NeedsTable, call
<1>2. PICK v \in Space : v = kern_heap_top
  BY SpaceFacts, <1>1 DEF IInv, CallsInv
<1>3. PICK low \in 2 .. 4 : low = LowestLevel(v)
  BY <1>1, <1>2, LevelFacts DEF Levels, L1
<1>4. PICK f \in Usable :
        /\ FA!Alloc(f)
        /\ table' = [t \in DOMAIN table \cup {f} |->
                       IF t = f THEN Zeroed ELSE SetEntry(v, low, Mapping(f))[t]]
  BY <1>2, <1>3 DEF AddTable
<1>5. WalksInv' /\ SameUse
  BY <1>3, <1>4, NewTable DEF SameUse, IInv
<1>6. CallsInv'
  BY <1>1 DEF IInv, CallsInv
<1> QED
  BY <1>1, <1>5, <1>6, UseKept

LEMMA DemandWrites ==
  ASSUME IInv, DemandPage
  PROVE  /\ pc = "alloc" /\ i < num /\ UNCHANGED <<tlb, vp, num, owned, free, ret, retired>>
         /\ \/ pc' = "halted" /\ UNCHANGED <<table, kern_heap_top, i>>
            \/ \E v \in Space, e \in Entry :
                 /\ v = kern_heap_top /\ ~Live(v)
                 /\ Written(v, e) /\ ~e.present /\ e.demand /\ WalksInv'
                 /\ kern_heap_top' = kern_heap_top + 1 /\ i' = i + 1 /\ pc' = pc
<1>1. /\ pc = "alloc" /\ i < num /\ ~(LowestLevel(kern_heap_top) > L1)
      /\ UNCHANGED <<tlb, vp, num, owned, free, ret, retired>>
  BY DEF DemandPage, NeedsTable, frames
<1>2. PICK v \in Space : v = kern_heap_top
  BY SpaceFacts, <1>1 DEF IInv, CallsInv
<1>3. CASE Mapped(v) \/ Demanded(v)
  <2>1. pc' = "halted" /\ UNCHANGED <<table, kern_heap_top, i>>
    BY <1>2, <1>3 DEF DemandPage
  <2> QED
    BY <1>1, <2>1
<1>4. CASE ~(Mapped(v) \/ Demanded(v))
  <2>1. /\ table' = SetEntry(v, L1, [EntryOf(v, L1) EXCEPT !.demand = TRUE])
        /\ kern_heap_top' = kern_heap_top + 1 /\ i' = i + 1 /\ pc' = pc
    BY <1>2, <1>4 DEF DemandPage
  <2>2. TablesTo(v)[1] # NULL /\ TablesTo(v)[0] = NULL
    BY <1>1, <1>2, <1>4, AnswerFacts DEF Answers
  <2>3. EntryOf(v, L1) \in Entry /\ ~EntryOf(v, L1).present
    BY <2>2, LastEntry DEF IInv
  <2>4. [EntryOf(v, L1) EXCEPT !.demand = TRUE] \in Entry
    BY <2>3 DEF Entry
  <2>5. PICK e \in Entry : e = [EntryOf(v, L1) EXCEPT !.demand = TRUE]
    BY <2>4
  <2>6. ~e.present /\ e.demand
    BY <2>3, <2>5 DEF Entry
  <2>7. Written(v, e)
    BY <2>1, <2>2, <2>5, <2>6, WriteEntry DEF IInv
  <2>8. WalksInv'
    <3>1. owned' \cup free' = Usable /\ owned' \cap free' = {} /\ owned' = owned \ {NULL}
      BY <1>1, Names DEF IInv, WalksInv, TablesInv
    <3> QED
      BY <2>2, <2>6, <2>7, <3>1, WriteInvariance DEF IInv
  <2>9. ~Live(v)
    BY <1>4 DEF Live
  <2> QED
    BY <1>1, <1>2, <2>1, <2>6, <2>7, <2>8, <2>9
<1> QED
  BY <1>3, <1>4

LEMMA DemandPageStep == ASSUME IInv, DemandPage PROVE IInv'
<1>1. pc = "alloc" /\ i < num /\ UNCHANGED <<tlb, vp, num, owned, free, ret, retired>>
  BY DemandWrites
<1>2. CASE pc' = "halted" /\ UNCHANGED <<table, kern_heap_top, i>>
  <2>1. CallsInv'
    BY <1>1, <1>2 DEF IInv, CallsInv
  <2>2. \A w \in DOMAIN tlb : w \in Space
    BY SpaceFacts DEF IInv, UseInv, CallsInv
  <2> QED
    BY <1>1, <1>2, <2>1, <2>2, CallStep
<1>3. CASE \E v \in Space, e \in Entry :
             /\ v = kern_heap_top /\ ~Live(v)
             /\ Written(v, e) /\ ~e.present /\ e.demand /\ WalksInv'
             /\ kern_heap_top' = kern_heap_top + 1 /\ i' = i + 1 /\ pc' = pc
  <2>1. PICK v \in Space, e \in Entry :
          /\ v = kern_heap_top /\ ~Live(v)
          /\ Written(v, e) /\ ~e.present /\ e.demand /\ WalksInv'
          /\ kern_heap_top' = kern_heap_top + 1 /\ i' = i + 1 /\ pc' = pc
    BY <1>3
  <2>2. CallsInv'
    BY <1>1, <2>1, SpaceFacts DEF IInv, CallsInv
  <2>3. ASSUME NEW w \in Space PROVE Live(w)' <=> Live(w) \/ w = v
    BY <2>1 DEF Live, Written
  <2>4. UseInv'
    <3>1. retired' \subseteq HeapBase .. kern_heap_top' - 1 /\ DOMAIN tlb' \subseteq HeapBase .. kern_heap_top' - 1
      BY <1>1, <2>1 DEF IInv, UseInv, CallsInv
    <3>2. v \notin retired
      BY <2>1, SpaceFacts DEF IInv, UseInv
    <3>3. \A w \in Space : Live(w)' <=> w < kern_heap_top' /\ w \notin retired'
      BY <1>1, <2>1, <2>3, <3>2, SpaceFacts DEF IInv, UseInv
    <3> QED
      BY <3>1, <3>3 DEF UseInv
  <2>5. LiveTranslationsTrue'
    <3>1. \A w \in DOMAIN tlb : w \in Space /\ w # v
      BY <2>1, SpaceFacts DEF IInv, UseInv, CallsInv
    <3> QED
      BY <1>1, <2>1, <3>1 DEF IInv, LiveTranslationsTrue, Written
  <2> QED
    BY <2>1, <2>2, <2>4, <2>5 DEF IInv
<1> QED
  BY <1>2, <1>3, DemandWrites

\* A page in use and no other can be freed.
LEMMA FreedPage ==
  ASSUME IInv, FreePage, NEW v \in Space, v = vp + i
  PROVE  \/ /\ Mapped(v) /\ FreeMapped(v)
            /\ retired' = retired \cup {v} /\ i' = i + 1 /\ pc' = pc
         \/ /\ ~Mapped(v) /\ DemandedOnly(v) /\ Demanded(v)
            /\ table' = SetEntry(v, L1, [EntryOf(v, L1) EXCEPT !.demand = FALSE])
            /\ retired' = retired \cup {v} /\ i' = i + 1 /\ pc' = pc
            /\ UNCHANGED <<tlb, free, owned, ret>>
         \/ /\ ~Mapped(v) /\ ~DemandedOnly(v) /\ pc' = "halted"
            /\ UNCHANGED <<table, tlb, i, free, owned, ret, retired>>
<1>1. DemandedOnly(v) => ~Mapped(v) /\ Demanded(v)
  BY DEF DemandedOnly, Demanded, Mapped, L1, PHYSICAL
<1> QED
  BY <1>1 DEF FreePage, frames

\* What freeing page v does to the rest.
LEMMA Retired ==
  ASSUME IInv, NEW v \in Space, NEW e \in Entry, WalksInv', Written(v, e), ~e.present, ~e.demand,
         Live(v), CallsInv', retired' = retired \cup {v}, UNCHANGED kern_heap_top,
         DOMAIN tlb' \subseteq DOMAIN tlb, \A w \in DOMAIN tlb' : tlb'[w] = tlb[w]
  PROVE  IInv'
<1>1. v < kern_heap_top /\ v \in Nat /\ v >= HeapBase
  BY SpaceFacts DEF IInv, UseInv
<1>2. \A w \in Space : Live(w)' <=> Live(w) /\ w # v
  BY DEF Live, Written
<1>3. UseInv'
  <2>1. retired' \subseteq HeapBase .. kern_heap_top' - 1 /\ DOMAIN tlb' \subseteq HeapBase .. kern_heap_top' - 1
    <3>1. kern_heap_top \in Nat
      BY SpaceFacts DEF IInv, CallsInv
    <3>2. v \in HeapBase .. kern_heap_top - 1
      BY <1>1, <3>1, SpaceFacts
    <3>3. /\ retired \subseteq HeapBase .. kern_heap_top - 1
          /\ DOMAIN tlb \subseteq HeapBase .. kern_heap_top - 1
      BY DEF IInv, UseInv
    <3> QED
      BY <3>2, <3>3
  <2>2. \A w \in Space : Live(w)' <=> w < kern_heap_top' /\ w \notin retired'
    BY <1>2 DEF IInv, UseInv
  <2> QED
    BY <2>1, <2>2 DEF UseInv
<1>4. LiveTranslationsTrue'
  <2>1. \A w \in DOMAIN tlb : w \in Space
    BY SpaceFacts DEF IInv, UseInv, CallsInv
  <2>2. ASSUME NEW w \in DOMAIN tlb', Live(w)'
        PROVE  Mapped(w)' /\ tlb'[w] = FrameOf(w)'
    <3>1. w \in Space /\ w # v /\ Live(w) /\ w \in DOMAIN tlb
      BY <1>2, <2>1, <2>2
    <3>2. Mapped(w) /\ tlb[w] = FrameOf(w)
      BY <3>1 DEF IInv, LiveTranslationsTrue, Live
    <3> QED
      BY <3>1, <3>2 DEF Written
  <2> QED
    BY <2>2 DEF LiveTranslationsTrue, Live
<1> QED
  BY <1>3, <1>4 DEF IInv

LEMMA FreeMappedWrites ==
  ASSUME IInv, NEW v \in Space, Mapped(v), FreeMapped(v)
  PROVE  WalksInv' /\ \E e \in Entry : Written(v, e) /\ ~e.present /\ ~e.demand
<1>1. /\ table' = SetEntry(v, L1, [EntryOf(v, L1) EXCEPT !.present = FALSE, !.writeable = FALSE])
      /\ FrameOf(v) \in owned /\ owned' = owned \ {FrameOf(v)} /\ free' = free \cup {FrameOf(v)}
  BY DEF FreeMapped, FA!Free
<1>2. TablesTo(v)[0] # NULL /\ FrameOf(v) = TablesTo(v)[0]
  BY AnswerFacts DEF Answers
<1>3. TablesTo(v)[1] # NULL
  <2>1. TablesTo(v)[1 - 1] = Below(TablesTo(v)[1], IndexAt(v, 1))
    BY WalkSteps DEF Walks
  <2> QED
    BY <1>2, <2>1 DEF Below
<1>4. EntryOf(v, L1) \in Entry /\ EntryOf(v, L1).present /\ ~EntryOf(v, L1).demand
  BY <1>2, <1>3, LastEntry DEF IInv
<1>5. PICK e \in Entry : e = [EntryOf(v, L1) EXCEPT !.present = FALSE, !.writeable = FALSE]
  <2>1. [EntryOf(v, L1) EXCEPT !.present = FALSE, !.writeable = FALSE] \in Entry
    BY <1>4 DEF Entry
  <2> QED
    BY <2>1
<1>6. ~e.present /\ ~e.demand
  BY <1>4, <1>5 DEF Entry
<1>7. Written(v, e)
  BY <1>1, <1>3, <1>5, <1>6, WriteEntry DEF IInv
<1>8. WalksInv'
  <2>1. PICK old \in owned : old = TablesTo(v)[0]
    BY <1>1, <1>2
  <2>2. owned' \cup free' = Usable /\ owned' \cap free' = {} /\ owned' = owned \ {old}
    BY <1>1, <1>2, <2>1 DEF IInv, WalksInv, TablesInv
  <2> QED
    BY <1>3, <1>6, <1>7, <2>1, <2>2, WriteInvariance DEF IInv
<1> QED
  BY <1>6, <1>7, <1>8

LEMMA FreeDemandedWrites ==
  ASSUME IInv, NEW v \in Space, Demanded(v),
         table' = SetEntry(v, L1, [EntryOf(v, L1) EXCEPT !.demand = FALSE]),
         UNCHANGED <<free, owned>>
  PROVE  WalksInv' /\ \E e \in Entry : Written(v, e) /\ ~e.present /\ ~e.demand
<1>1. TablesTo(v)[0] = NULL /\ TablesTo(v)[1] # NULL
  BY AnswerFacts DEF Answers, Demanded
<1>2. EntryOf(v, L1) \in Entry /\ ~EntryOf(v, L1).present
  BY <1>1, LastEntry DEF IInv
<1>3. PICK e \in Entry : e = [EntryOf(v, L1) EXCEPT !.demand = FALSE]
  <2>1. [EntryOf(v, L1) EXCEPT !.demand = FALSE] \in Entry
    BY <1>2 DEF Entry
  <2> QED
    BY <2>1
<1>4. ~e.present /\ ~e.demand
  BY <1>2, <1>3 DEF Entry
<1>5. Written(v, e)
  BY <1>1, <1>3, <1>4, WriteEntry DEF IInv
<1>6. WalksInv'
  <2>1. owned' \cup free' = Usable /\ owned' \cap free' = {} /\ owned' = owned \ {NULL}
    BY Names DEF IInv, WalksInv, TablesInv
  <2> QED
    BY <1>1, <1>4, <1>5, <2>1, WriteInvariance DEF IInv
<1> QED
  BY <1>4, <1>5, <1>6

\* An iteration of MMU_free_pages retires a page in use or halts.
LEMMA FreeWrites ==
  ASSUME IInv, FreePage
  PROVE  /\ pc = "free" /\ i < num /\ UNCHANGED <<kern_heap_top, vp, num>>
         /\ \/ \E v \in Space, e \in Entry :
                 /\ v = vp + i /\ Live(v) /\ Written(v, e) /\ ~e.present /\ ~e.demand /\ WalksInv'
                 /\ retired' = retired \cup {v} /\ i' = i + 1 /\ pc' = pc
                 /\ DOMAIN tlb' \subseteq DOMAIN tlb /\ \A w \in DOMAIN tlb' : tlb'[w] = tlb[w]
            \/ pc' = "halted" /\ UNCHANGED <<table, tlb, i, free, owned, ret, retired>>
<1>1. pc = "free" /\ i < num /\ UNCHANGED <<kern_heap_top, vp, num>>
  BY DEF FreePage
<1>2. PICK v \in Space : v = vp + i
  <2>1. vp + i \in HeapBase .. HeapBase + HeapPages + MaxRange - 1
    BY <1>1, SpaceFacts DEF IInv, CallsInv, Heap
  <2> QED
    BY <2>1, SpaceFacts
<1>3. CASE Mapped(v) /\ FreeMapped(v) /\ retired' = retired \cup {v} /\ i' = i + 1 /\ pc' = pc
  <2>1. WalksInv' /\ \E e \in Entry : Written(v, e) /\ ~e.present /\ ~e.demand
    BY <1>3, FreeMappedWrites
  <2>2. DOMAIN tlb' \subseteq DOMAIN tlb /\ \A w \in DOMAIN tlb' : tlb'[w] = tlb[w]
    BY <1>3 DEF FreeMapped
  <2> QED
    BY <1>1, <1>2, <1>3, <2>1, <2>2 DEF Live
<1>4. CASE /\ ~Mapped(v) /\ DemandedOnly(v) /\ Demanded(v)
           /\ table' = SetEntry(v, L1, [EntryOf(v, L1) EXCEPT !.demand = FALSE])
           /\ retired' = retired \cup {v} /\ i' = i + 1 /\ pc' = pc
           /\ UNCHANGED <<tlb, free, owned, ret>>
  <2>1. WalksInv' /\ \E e \in Entry : Written(v, e) /\ ~e.present /\ ~e.demand
    BY <1>4, FreeDemandedWrites
  <2> QED
    BY <1>1, <1>2, <1>4, <2>1 DEF Live
<1>5. CASE /\ ~Mapped(v) /\ ~DemandedOnly(v) /\ pc' = "halted"
           /\ UNCHANGED <<table, tlb, i, free, owned, ret, retired>>
  BY <1>1, <1>5
<1> QED
  BY <1>2, <1>3, <1>4, <1>5, FreedPage

LEMMA FreePageStep == ASSUME IInv, FreePage PROVE IInv'
<1>1. pc = "free" /\ i < num /\ UNCHANGED <<kern_heap_top, vp, num>>
  BY FreeWrites
<1>2. CASE \E v \in Space, e \in Entry :
             /\ v = vp + i /\ Live(v) /\ Written(v, e) /\ ~e.present /\ ~e.demand /\ WalksInv'
             /\ retired' = retired \cup {v} /\ i' = i + 1 /\ pc' = pc
             /\ DOMAIN tlb' \subseteq DOMAIN tlb /\ \A w \in DOMAIN tlb' : tlb'[w] = tlb[w]
  <2>1. CallsInv'
    BY <1>1, <1>2 DEF IInv, CallsInv
  <2> QED
    BY <1>1, <1>2, <2>1, Retired
<1>3. CASE pc' = "halted" /\ UNCHANGED <<table, tlb, i, free, owned, ret, retired>>
  <2>1. CallsInv'
    BY <1>1, <1>3 DEF IInv, CallsInv
  <2>2. WalksInv' /\ SameUse
    BY <1>3, SameTables, SameFrames DEF IInv
  <2> QED
    BY <1>1, <1>3, <2>1, <2>2, UseKept
<1> QED
  BY <1>2, <1>3, FreeWrites

\* The page fault handler gives a page that has been allocated a frame.
LEMMA FaultWrites ==
  ASSUME IInv, NEW v \in Heap, FaultOnDemand(v)
  PROVE  /\ v \in Space /\ v \notin DOMAIN tlb /\ ~Mapped(v) /\ Demanded(v) /\ WalksInv'
         /\ UNCHANGED <<tlb, kern_heap_top, pc, vp, num, i, retired>>
         /\ \E e \in Entry : Written(v, e) /\ e.present /\ e.addr \in Usable \ owned
<1>1. /\ v \notin DOMAIN tlb /\ ~Mapped(v) /\ Demanded(v)
      /\ UNCHANGED <<tlb, kern_heap_top, pc, vp, num, i, retired>>
  BY DEF FaultOnDemand, Faults, call
<1>2. PICK f \in Usable : FA!Alloc(f) /\ table' = SetEntry(v, L1, Mapping(f))
  BY DEF FaultOnDemand
<1>3. v \in Space
  BY SpaceFacts
<1>4. TablesTo(v)[0] = NULL /\ TablesTo(v)[1] # NULL
  BY <1>1, <1>3, AnswerFacts DEF Answers, Demanded
<1>5. PICK e \in Entry : e = Mapping(f)
  BY DEF Mapping, Entry
<1>6. e.present /\ ~e.demand /\ e.addr = f /\ f # NULL
  BY <1>5, Names DEF Mapping
<1>7. Written(v, e)
  BY <1>2, <1>3, <1>4, <1>5, <1>6, WriteEntry DEF IInv
<1>8. f \in free /\ free' = free \ {f} /\ owned' = owned \cup {f}
  BY <1>2 DEF FA!Alloc
<1>9. owned' \cup free' = Usable /\ owned' \cap free' = {} /\ f \notin owned
  BY <1>8 DEF IInv, WalksInv, TablesInv
<1>10. WalksInv'
  BY <1>3, <1>4, <1>6, <1>7, <1>8, <1>9, WriteInvariance DEF IInv
<1> QED
  BY <1>1, <1>3, <1>6, <1>7, <1>9, <1>10

LEMMA FaultOnDemandStep ==
  ASSUME IInv, NEW v \in Heap, FaultOnDemand(v)
  PROVE  IInv'
<1>1. /\ v \in Space /\ v \notin DOMAIN tlb /\ ~Mapped(v) /\ Demanded(v) /\ WalksInv'
      /\ UNCHANGED <<tlb, kern_heap_top, pc, vp, num, i, retired>>
  BY FaultWrites
<1>2. PICK e \in Entry : Written(v, e) /\ e.present
  BY FaultWrites
<1>3. CallsInv'
  BY <1>1 DEF IInv, CallsInv
<1>4. \A w \in Space : Live(w)' <=> Live(w)
  BY <1>1, <1>2 DEF Written, Live
<1>5. UseInv'
  BY <1>1, <1>4 DEF IInv, UseInv
<1>6. LiveTranslationsTrue'
  <2>1. \A w \in DOMAIN tlb : w \in Space
    BY SpaceFacts DEF IInv, UseInv, CallsInv
  <2>2. \A w \in DOMAIN tlb : w # v
    BY <1>1
  <2> QED
    BY <1>1, <1>2, <2>1, <2>2 DEF IInv, LiveTranslationsTrue, Written
<1> QED
  BY <1>1, <1>3, <1>5, <1>6 DEF IInv

LEMMA AccessStep ==
  ASSUME IInv, NEW v \in Heap, Access(v) \/ Evict(v)
  PROVE  IInv'
<1>1. v \in Space /\ \A w \in DOMAIN tlb : w \in Space
  BY SpaceFacts DEF IInv, UseInv, CallsInv
<1>2. CASE Translate(v)
  <2>1. /\ v \notin DOMAIN tlb /\ Mapped(v)
        /\ tlb' = [w \in DOMAIN tlb \cup {v} |-> IF w = v THEN FrameOf(v) ELSE tlb[w]]
        /\ UNCHANGED <<table, kern_heap_top, pc, vp, num, i, free, owned, ret, retired>>
    BY <1>2 DEF Translate, call, frames
  <2>2. CallsInv'
    BY <2>1 DEF IInv, CallsInv
  <2> QED
    BY <1>1, <2>1, <2>2, CallStep
<1>3. CASE Evict(v)
  <2>1. /\ tlb' = [w \in DOMAIN tlb \ {v} |-> tlb[w]]
        /\ UNCHANGED <<table, kern_heap_top, pc, vp, num, i, free, owned, ret, retired>>
    BY <1>3 DEF Evict, call, frames
  <2>2. CallsInv'
    BY <2>1 DEF IInv, CallsInv
  <2> QED
    BY <1>1, <2>1, <2>2, CallStep
<1>4. CASE FaultOnDemand(v)
  BY <1>4, FaultOnDemandStep
<1>5. CASE FaultMapsNull(v)
  <2>1. pc' = "null_frame" /\ UNCHANGED <<table, tlb, kern_heap_top, vp, num, i, free, owned, retired>>
    BY <1>5 DEF FaultMapsNull, call, FA!AllocFails
  <2>2. CallsInv'
    BY <2>1 DEF IInv, CallsInv
  <2> QED
    BY <1>1, <2>1, <2>2, CallStep
<1>6. CASE FaultUnhandled(v)
  <2>1. pc' = "halted" /\ UNCHANGED <<table, tlb, kern_heap_top, vp, num, i, free, owned, ret, retired>>
    BY <1>6 DEF FaultUnhandled, call, frames
  <2>2. CallsInv'
    BY <2>1 DEF IInv, CallsInv
  <2> QED
    BY <1>1, <2>1, <2>2, CallStep
<1> QED
  BY <1>2, <1>3, <1>4, <1>5, <1>6 DEF Access

LEMMA HeapStep == ASSUME IInv, [Next]_vars PROVE IInv'
<1>1. \A w \in DOMAIN tlb : w \in Space
  BY SpaceFacts DEF IInv, UseInv, CallsInv
<1>2. CASE \E n \in 1 .. MaxRange : AllocPages(n)
  <2>1. PICK n \in 1 .. MaxRange : AllocPages(n)
    BY <1>2
  <2>2. /\ kern_heap_top + n <= HeapBase + HeapPages
        /\ pc' = "alloc" /\ vp' = kern_heap_top /\ num' = n /\ i' = 0
        /\ UNCHANGED <<table, tlb, kern_heap_top, free, owned, ret, retired>>
    BY <2>1 DEF AllocPages, frames
  <2>3. CallsInv'
    BY <2>2, SpaceFacts DEF IInv, CallsInv, Heap
  <2> QED
    BY <1>1, <2>2, <2>3, CallStep
<1>3. CASE \E n \in 1 .. MaxRange : \E v \in Heap : FreePages(v, n)
  <2>1. PICK n \in 1 .. MaxRange, v \in Heap : FreePages(v, n)
    BY <1>3
  <2>2. /\ pc' = "free" /\ vp' = v /\ num' = n /\ i' = 0
        /\ UNCHANGED <<table, tlb, kern_heap_top, free, owned, ret, retired>>
    BY <2>1 DEF FreePages, frames
  <2>3. CallsInv'
    BY <2>2, SpaceFacts DEF IInv, CallsInv
  <2> QED
    BY <1>1, <2>2, <2>3, CallStep
<1>4. CASE \E aligned \in BOOLEAN, n \in 0 .. MaxRange : FreeRefused(aligned, n)
  <2>1. pc' = "halted" /\ UNCHANGED <<table, tlb, kern_heap_top, vp, num, i, free, owned, ret, retired>>
    BY <1>4 DEF FreeRefused, call, frames
  <2>2. CallsInv'
    BY <2>1 DEF IInv, CallsInv
  <2> QED
    BY <1>1, <2>1, <2>2, CallStep
<1>5. CASE AddTable
  BY <1>5, AddTableStep
<1>6. CASE AddTableAtNull
  <2>1. pc' = "null_frame" /\ UNCHANGED <<table, tlb, kern_heap_top, vp, num, i, free, owned, retired>>
    BY <1>6 DEF AddTableAtNull, call, FA!AllocFails
  <2>2. CallsInv'
    BY <2>1 DEF IInv, CallsInv
  <2> QED
    BY <1>1, <2>1, <2>2, CallStep
<1>7. CASE DemandPage
  BY <1>7, DemandPageStep
<1>8. CASE FreePage
  BY <1>8, FreePageStep
<1>9. CASE Return
  <2>1. pc' = "ready" /\ UNCHANGED <<table, tlb, kern_heap_top, vp, num, i, free, owned, ret, retired>>
    BY <1>9 DEF Return, call, frames
  <2>2. CallsInv'
    BY <2>1 DEF IInv, CallsInv
  <2> QED
    BY <1>1, <2>1, <2>2, CallStep
<1>10. CASE \E v \in Heap : Access(v) \/ Evict(v)
  BY <1>10, AccessStep
<1>11. CASE UNCHANGED vars
  <2>1. UNCHANGED <<table, tlb, kern_heap_top, pc, vp, num, i, free, owned, ret, retired>>
    BY <1>11 DEF vars
  <2>2. CallsInv'
    BY <2>1 DEF IInv, CallsInv
  <2> QED
    BY <1>1, <2>1, <2>2, CallStep
<1> QED
  BY <1>2, <1>3, <1>4, <1>5, <1>6, <1>7, <1>8, <1>9, <1>10, <1>11
  DEF Next, Loop

LEMMA HeapInvariance == Spec => []IInv
BY HeapInit, HeapStep, PTL DEF Spec

-----------------------------------------------------------------------------
(* The properties.                                                         *)

\* No frame is mapped twice, used as a table and as a page, leaked, or still
\* mapped when alloc_virtual_page, page_fault_handler or MMU_free_pages are done
\* with it.
THEOREM FramesOnce == Spec => []FramesReferencedOnce
<1>1. ASSUME IInv PROVE FramesReferencedOnce
  <2>1. \A l \in Links : l[1] \in DOMAIN table /\ l[2] \in Index /\ l = <<l[1], l[2]>>
                         /\ table[l[1]][l[2]].present
    BY DEF Links
  <2>2. \A t \in DOMAIN table, x \in Index : table[t][x].present => <<t, x>> \in Links
    BY DEF Links
  <2>3. {LinkTo(l) : l \in Links} \subseteq owned
    BY <1>1, <2>1 DEF IInv, WalksInv, TablesInv, LinkTo
  <2>4. ASSUME NEW f \in owned PROVE \E l \in Links : LinkTo(l) = f
    <3>1. PICK t \in DOMAIN table, x \in Index : table[t][x].present /\ table[t][x].addr = f
      BY <1>1 DEF IInv, WalksInv, OnceInv
    <3>2. <<t, x>> \in Links /\ LinkTo(<<t, x>>) = f
      BY <2>2, <3>1 DEF LinkTo
    <3> QED
      BY <3>2
  <2>5. ASSUME NEW k \in Links, NEW l \in Links, LinkTo(k) = LinkTo(l) PROVE k = l
    <3>1. table[k[1]][k[2]].addr = table[l[1]][l[2]].addr
      BY <2>5 DEF LinkTo
    <3>2. k[1] = l[1] /\ k[2] = l[2]
      BY <1>1, <2>1, <3>1 DEF IInv, WalksInv, OnceInv
    <3> QED
      BY <2>1, <3>2
  <2> QED
    BY <2>3, <2>4, <2>5 DEF FramesReferencedOnce
<1> QED
  BY <1>1, HeapInvariance, PTL

\* What the tables show as allocated is what MMU_alloc_pages handed out and
\* MMU_free_pages did not take back.
THEOREM TablesMatch == Spec => []TablesMatchCalls
<1>1. ASSUME IInv PROVE TablesMatchCalls
  <2>1. HeapBase .. kern_heap_top - 1 \subseteq Heap
    BY <1>1, SpaceFacts DEF IInv, CallsInv, Heap
  <2>2. \A v \in Heap : Demanded(v) \/ Mapped(v) <=> v < kern_heap_top /\ v \notin retired
    BY <1>1, SpaceFacts DEF IInv, UseInv, Live
  <2>3. \A v \in Heap : v < kern_heap_top <=> v \in HeapBase .. kern_heap_top - 1
    BY <1>1, SpaceFacts DEF IInv, CallsInv, Heap
  <2> QED
    BY <2>1, <2>2, <2>3 DEF TablesMatchCalls
<1> QED
  BY <1>1, HeapInvariance, PTL

\* A page in use is never reached through a stale translation, although
\* MMU_free_pages invalidates that of the first page only.
THEOREM TranslationsTrue == Spec => []LiveTranslationsTrue
BY HeapInvariance, PTL DEF IInv

\* MMU_free_pages gives back no page that is not allocated: it halts.
THEOREM DoubleFreesHalt == Spec => DoubleFreeHalts
<1> DEFINE Halts == \A v \in Heap : v \in retired \/ v >= kern_heap_top =>
                      ~(pc = "free" /\ v = vp + i /\ i' = i + 1)
<1>1. ASSUME IInv, [Next]_vars PROVE [Halts]_vars
  <2> SUFFICES ASSUME NEW v \in Heap, v \in retired \/ v >= kern_heap_top,
                      pc = "free", v = vp + i, i' = i + 1
               PROVE  FALSE
    OBVIOUS
  <2>1. v \in Space /\ kern_heap_top \in Nat /\ v \in Nat
    BY <1>1, SpaceFacts DEF IInv, CallsInv
  <2>2. ~Live(v)
    BY <1>1, <2>1 DEF IInv, UseInv
  <2>3. i \in Nat
    BY <1>1, SpaceFacts DEF IInv, CallsInv
  <2>4. FreePage
    <3>1. i' # i
      BY <2>3
    <3>2. ~ UNCHANGED vars
      BY <3>1 DEF vars
    <3>3. ~AddTable /\ ~AddTableAtNull /\ ~DemandPage /\ ~Return
      BY <3>1 DEF AddTable, AddTableAtNull, NeedsTable, DemandPage, Return, call
    <3>4. \A n \in 1 .. MaxRange : ~AllocPages(n) /\ \A w \in Heap : ~FreePages(w, n)
      BY DEF AllocPages, FreePages
    <3>5. \A aligned \in BOOLEAN, n \in 0 .. MaxRange : ~FreeRefused(aligned, n)
      BY DEF FreeRefused
    <3>6. \A w \in Heap : ~Access(w) /\ ~Evict(w)
      BY DEF Access, Evict, Translate, FaultOnDemand, FaultMapsNull, FaultUnhandled, Faults
    <3> QED
      BY <1>1, <3>2, <3>3, <3>4, <3>5, <3>6 DEF Next, Loop
  <2>5. i' = i \/ Live(v)
    BY <1>1, <2>1, <2>4, FreedPage DEF Live
  <2> QED
    BY <2>2, <2>3, <2>5
<1>2. IInv /\ [Next]_vars => [Halts]_vars
  BY <1>1
<1> QED
  BY <1>2, HeapInvariance, PTL DEF Spec, DoubleFreeHalts

-----------------------------------------------------------------------------
(* The page tables implement PageHeap.                                     *)

LivePages == {v \in Heap : Demanded(v) \/ Mapped(v)}
Backed == {v \in Heap : Mapped(v)}
Backing == [v \in Backed |-> FrameOf(v)]

\* Every other step leaves what the pages are as it was.
LEMMA OtherSteps ==
  ASSUME IInv, [Next]_vars
  PROVE  \/ DemandPage \/ FreePage \/ \E v \in Heap : FaultOnDemand(v)
         \/ SameUse /\ UNCHANGED retired
<1>1. CASE AddTable
  BY <1>1, AddTableStep DEF AddTable
<1>2. CASE \/ \E n \in 1 .. MaxRange : AllocPages(n) \/ \E v \in Heap : FreePages(v, n)
           \/ \E aligned \in BOOLEAN, n \in 0 .. MaxRange : FreeRefused(aligned, n)
           \/ AddTableAtNull \/ Return \/ UNCHANGED vars
  <2>1. UNCHANGED <<table, retired>>
    BY <1>2 DEF AllocPages, FreePages, FreeRefused, AddTableAtNull, Return, vars
  <2> QED
    BY <2>1, SameTables
<1>3. CASE \E v \in Heap : Translate(v) \/ Evict(v) \/ FaultMapsNull(v) \/ FaultUnhandled(v)
  <2>1. UNCHANGED <<table, retired>>
    BY <1>3 DEF Translate, Evict, FaultMapsNull, FaultUnhandled
  <2> QED
    BY <2>1, SameTables
<1> QED
  BY <1>1, <1>2, <1>3 DEF Next, Loop, Access

LEMMA DemandAllocates ==
  ASSUME IInv, DemandPage
  PROVE  \/ UNCHANGED <<LivePages, Backing, retired>>
         \/ \E v \in Heap : v \notin LivePages \cup retired /\ LivePages' = LivePages \cup {v}
                            /\ UNCHANGED <<Backing, retired>>
<1>1. pc = "alloc" /\ i < num /\ UNCHANGED retired
  BY DemandWrites
<1>2. CASE UNCHANGED table
  <2>1. SameUse
    BY <1>2, SameTables
  <2> QED
    BY <1>1, <2>1, SpaceFacts DEF SameUse, LivePages, Backing, Backed
<1>3. CASE \E v \in Space, e \in Entry : v = kern_heap_top /\ ~Live(v) /\ Written(v, e) /\ ~e.present /\ e.demand
  <2>1. PICK v \in Space, e \in Entry :
          v = kern_heap_top /\ ~Live(v) /\ Written(v, e) /\ ~e.present /\ e.demand
    BY <1>3
  <2>2. v \in Heap
    BY <1>1, <2>1, SpaceFacts DEF IInv, CallsInv, Heap
  <2>3. v \notin LivePages \cup retired
    BY <2>1, SpaceFacts DEF IInv, UseInv, CallsInv, LivePages, Live
  <2>4. LivePages' = LivePages \cup {v}
    BY <2>1, <2>2, SpaceFacts DEF LivePages, Live, Written
  <2>5. Backing' = Backing
    <3>1. \A w \in Space : (Mapped(w)' <=> Mapped(w)) /\ (Mapped(w) => FrameOf(w)' = FrameOf(w))
      BY <2>1 DEF Written, Live
    <3> QED
      BY <3>1, SpaceFacts DEF Backing, Backed
  <2> QED
    BY <1>1, <2>2, <2>3, <2>4, <2>5
<1> QED
  BY <1>2, <1>3, DemandWrites

LEMMA FreeRetires ==
  ASSUME IInv, FreePage
  PROVE  \/ UNCHANGED <<LivePages, Backing, retired>>
         \/ \E v \in LivePages : /\ LivePages' = LivePages \ {v} /\ retired' = retired \cup {v}
                                 /\ Backing' = [w \in Backed \ {v} |-> Backing[w]]
<1>1. CASE UNCHANGED <<table, retired>>
  <2>1. SameUse
    BY <1>1, SameTables
  <2> QED
    BY <1>1, <2>1, SpaceFacts DEF SameUse, LivePages, Backing, Backed
<1>2. CASE \E v \in Space, e \in Entry :
             Live(v) /\ Written(v, e) /\ ~e.present /\ ~e.demand /\ retired' = retired \cup {v}
  <2>1. PICK v \in Space, e \in Entry :
          Live(v) /\ Written(v, e) /\ ~e.present /\ ~e.demand /\ retired' = retired \cup {v}
    BY <1>2
  <2>2. v \in Heap
    BY <2>1, SpaceFacts DEF IInv, UseInv, CallsInv, Heap
  <2>3. v \in LivePages /\ LivePages' = LivePages \ {v}
    BY <2>1, <2>2, SpaceFacts DEF LivePages, Live, Written
  <2>4. Backing' = [w \in Backed \ {v} |-> Backing[w]]
    <3>1. Backed' = Backed \ {v}
      BY <2>1, SpaceFacts DEF Backed, Written
    <3>2. \A w \in Backed \ {v} : FrameOf(w)' = FrameOf(w)
      BY <2>1, SpaceFacts DEF Backed, Written
    <3> QED
      BY <3>1, <3>2 DEF Backing
  <2> QED
    BY <2>1, <2>3, <2>4
<1> QED
  BY <1>1, <1>2, FreeWrites

LEMMA FaultTouches ==
  ASSUME IInv, NEW v \in Heap, FaultOnDemand(v)
  PROVE  /\ UNCHANGED <<LivePages, retired>> /\ v \in LivePages \ Backed
         /\ \E f \in Usable :
              /\ \A w \in Backed : Backing[w] # f
              /\ Backing' = [w \in Backed \cup {v} |-> IF w = v THEN f ELSE Backing[w]]
<1>1. v \in Space /\ ~Mapped(v) /\ Demanded(v) /\ UNCHANGED retired
  BY FaultWrites
<1>2. PICK e \in Entry : Written(v, e) /\ e.present /\ e.addr \in Usable \ owned
  BY FaultWrites
<1>3. LivePages' = LivePages /\ v \in LivePages \ Backed
  BY <1>1, <1>2, SpaceFacts DEF LivePages, Backed, Written
<1>4. Backed' = Backed \cup {v}
  BY <1>2, SpaceFacts DEF Backed, Written
<1>5. FrameOf(v)' = e.addr /\ \A w \in Backed : w # v => FrameOf(w)' = FrameOf(w)
  BY <1>1, <1>2, SpaceFacts DEF Backed, Written
<1>6. Backing' = [w \in Backed \cup {v} |-> IF w = v THEN e.addr ELSE Backing[w]]
  BY <1>4, <1>5 DEF Backing
<1>7. ASSUME NEW w \in Backed PROVE Backing[w] # e.addr
  <2>1. w \in Space /\ Mapped(w) /\ Backing[w] = FrameOf(w)
    BY SpaceFacts DEF Backed, Backing
  <2>2. TablesTo(w)[1 - 1] # NULL /\ FrameOf(w) = TablesTo(w)[1 - 1]
    BY <2>1, AnswerFacts DEF Answers
  <2>3. TablesTo(w)[1 - 1] \in owned
    BY <2>1, <2>2, LinkOf DEF IInv
  <2> QED
    BY <1>2, <2>1, <2>2, <2>3
<1> QED
  BY <1>1, <1>2, <1>3, <1>6, <1>7

\* Whatever is allocated, touched and freed, the page tables do as PageHeap does:
\* no page is handed out twice, and every page in use has a frame of its own.
THEOREM ImplementsHeap == Spec => ImplementsPromise
<1>1. Init => Promise!Init
  <2> SUFFICES ASSUME Init PROVE Promise!Init
    OBVIOUS
  <2>1. IInv /\ kern_heap_top = HeapBase /\ retired = {}
    BY HeapInit DEF Init
  <2>2. LivePages = {} /\ Backed = {}
    BY <2>1, SpaceFacts DEF IInv, UseInv, LivePages, Backed, Live
  <2> QED
    BY <2>1, <2>2 DEF Promise!Init, LivePages, Backed
<1>2. ASSUME IInv, [Next]_vars
      PROVE  Promise!Next \/ (LivePages' = LivePages /\ retired' = retired /\ Backing' = Backing)
  <2>1. CASE DemandPage
    <3>1. CASE UNCHANGED <<LivePages, Backing, retired>>
      BY <3>1
    <3>2. CASE \E v \in Heap : v \notin LivePages \cup retired /\ LivePages' = LivePages \cup {v}
                               /\ UNCHANGED <<Backing, retired>>
      <4>1. \E v \in Heap : Promise!Allocate(v)
        BY <3>2 DEF Promise!Allocate, LivePages, Backing, Backed
      <4> QED
        BY <4>1 DEF Promise!Next
    <3> QED
      BY <2>1, <3>1, <3>2, DemandAllocates, <1>2
  <2>2. CASE FreePage
    <3>1. CASE UNCHANGED <<LivePages, Backing, retired>>
      BY <3>1
    <3>2. CASE \E v \in LivePages : /\ LivePages' = LivePages \ {v} /\ retired' = retired \cup {v}
                                    /\ Backing' = [w \in Backed \ {v} |-> Backing[w]]
      <4>1. \E v \in Heap : Promise!Retire(v)
        BY <3>2 DEF Promise!Retire, LivePages, Backing, Backed
      <4> QED
        BY <4>1 DEF Promise!Next
    <3> QED
      BY <2>2, <3>1, <3>2, FreeRetires, <1>2
  <2>3. CASE \E v \in Heap : FaultOnDemand(v)
    <3>1. PICK v \in Heap : FaultOnDemand(v)
      BY <2>3
    <3>2. /\ UNCHANGED <<LivePages, retired>> /\ v \in LivePages \ Backed
          /\ \E f \in Usable :
               /\ \A w \in Backed : Backing[w] # f
               /\ Backing' = [w \in Backed \cup {v} |-> IF w = v THEN f ELSE Backing[w]]
      BY <1>2, <3>1, FaultTouches
    <3>3. \E f \in Usable : Promise!Touch(v, f)
      BY <3>2 DEF Promise!Touch, LivePages, Backing, Backed
    <3> QED
      BY <3>3 DEF Promise!Next
  <2>4. CASE SameUse /\ UNCHANGED retired
    BY <2>4, SpaceFacts DEF SameUse, LivePages, Backing, Backed
  <2> QED
    BY <1>2, <2>1, <2>2, <2>3, <2>4, OtherSteps
<1>3. ASSUME IInv, [Next]_vars
      PROVE  \/ Promise!Next
             \/ /\ {v \in Heap : Demanded(v) \/ Mapped(v)}' = {v \in Heap : Demanded(v) \/ Mapped(v)}
                /\ retired' = retired
                /\ [v \in {w \in Heap : Mapped(w)} |-> FrameOf(v)]' =
                     [v \in {w \in Heap : Mapped(w)} |-> FrameOf(v)]
  BY <1>2, <1>3 DEF LivePages, Backing, Backed
<1>4. IInv /\ [Next]_vars =>
        [Promise!Next]_<<{v \in Heap : Demanded(v) \/ Mapped(v)}, retired,
                         [v \in {w \in Heap : Mapped(w)} |-> FrameOf(v)]>>
  BY <1>3
<1> QED
  BY <1>1, <1>4, HeapInvariance, PTL DEF Spec, ImplementsPromise, Promise!Spec
=============================================================================
