----------------------------- MODULE MemoryProofs -----------------------------
(***************************************************************************)
(* What holds of the stage-2 tables, the world switch, the budgets, the    *)
(* quotas and migration for every size of a table, every limit and every   *)
(* number of partitions and callers.                                       *)
(***************************************************************************)
EXTENDS Memory, Stage2Mmu, Quotas, FiniteSetTheorems, WellFoundedInduction, TLAPS

-----------------------------------------------------------------------------
(* Induction. *)

\* A nonempty set of naturals has a least element.
LEMMA LeastNatural ==
  ASSUME NEW T \in SUBSET Nat, T # {}
  PROVE  \E m \in T : \A x \in T : m <= x
<1> DEFINE R == OpToRel(<, Nat)
<1>1. IsWellFoundedOn(R, Nat)
  BY NatLessThanWellFounded
<1>2. \A x, y \in Nat : x < y => <<x, y>> \in R
  BY DEF OpToRel
<1> HIDE DEF R
<1>3. PICK m \in T : \A y \in T : ~ (<<y, m>> \in R)
  BY <1>1, WFMin
<1>4. ASSUME NEW x \in T PROVE m <= x
  <2>1. x \in Nat /\ m \in Nat /\ ~(x < m)
    BY <1>2, <1>3
  <2>2. QED
    BY <2>1
<1>5. QED
  BY <1>4

\* Induction up to n, over a set.
LEMMA InductionTo ==
  ASSUME NEW n \in Nat, NEW S, 0 \in S, \A i \in 0 .. n - 1 : i \in S => i + 1 \in S
  PROVE  0 .. n \subseteq S
<1> DEFINE T == (0 .. n) \ S
<1> SUFFICES ASSUME T # {} PROVE FALSE
  OBVIOUS
<1>1. PICK m \in T : \A x \in T : m <= x
  <2>1. T \in SUBSET Nat
    OBVIOUS
  <2> HIDE DEF T
  <2>2. QED
    BY <2>1, LeastNatural
<1>2. m # 0 /\ m - 1 \in 0 .. n - 1
  BY <1>1
<1>3. m - 1 \in S
  BY <1>1, <1>2
<1>4. (m - 1) + 1 = m
  BY <1>2
<1>5. QED
  BY <1>1, <1>2, <1>3, <1>4

-----------------------------------------------------------------------------
(* Stage-2 tables. *)

\* Host blocks an entry may name: those mapped, and a guest block mapped to itself.
HostFrame == Frame \cup BlockEntry \cup {0}
TableEntry == [valid : BOOLEAN, frame : HostFrame]
PageTable ==
  [l1 : [L1 -> 0 .. MAX_L2_TABLES], next_l2 : 0 .. MAX_L2_TABLES,
   l2 : [0 .. MAX_L2_TABLES - 1 -> [L2 -> TableEntry]]]

\* Level-1 entries name different level-2 tables, all of them handed out.
TableSound(pt) ==
  /\ pt \in PageTable
  /\ \A i \in L1 : pt.l1[i] # MAX_L2_TABLES => pt.l1[i] < pt.next_l2
  /\ \A i, j \in L1 : i # j /\ pt.l1[i] = pt.l1[j] => pt.l1[i] = MAX_L2_TABLES

\* The tables translate as t says.
Told(pt, t) == \A b \in BlockEntry : stage2_translate(pt, b) = t[b]

\* A number is what its quotient and its remainder by m make up.
Joined(m, q, r) == m * q + r

LEMMA QuotientRemainder ==
  ASSUME NEW m \in Nat \ {0}, NEW d \in Nat
  PROVE  d \div m \in Nat /\ d % m \in 0 .. m - 1 /\ d = Joined(m, d \div m, d % m)
<1>1. ASSUME NEW q, NEW r, q = d \div m, r = d % m
      PROVE  q \in Nat /\ r \in 0 .. m - 1 /\ d = Joined(m, q, r)
  BY <1>1, SMT DEF Joined
<1>2. QED
  BY <1>1, Zenon

\* The indices of a block are in their ranges, and tell blocks apart.
LEMMA Indices ==
  ASSUME NEW b \in BlockEntry
  PROVE  /\ l1_index(b) \in L1 /\ l2_index(b) \in L2
         /\ \A c \in BlockEntry :
              l1_index(b) = l1_index(c) /\ l2_index(b) = l2_index(c) => b = c
<1>1. L1Entries \in Nat \ {0} /\ L2Entries \in Nat \ {0} /\ b \in Nat /\ b < L1Entries * L2Entries
  <2>1. L1Entries \in Nat \ {0} /\ L2Entries \in Nat \ {0}
    BY TableSizes
  <2>2. L1Entries * L2Entries \in Nat
    BY <2>1
  <2> DEFINE S == L1Entries * L2Entries
  <2>3. b \in 0 .. S - 1
    BY DEF BlockEntry
  <2> HIDE DEF S
  <2>4. b \in Nat /\ b < S
    BY <2>2, <2>3 DEF S
  <2>5. QED
    BY <2>1, <2>4 DEF S
<1>2. ASSUME NEW c \in Nat, c < L1Entries * L2Entries, NEW p \in Nat, NEW r \in 0 .. L2Entries - 1,
             c = Joined(L2Entries, p, r)
      PROVE  p \in 0 .. L1Entries - 1 /\ p % L1Entries = p
  <2>1. p < L1Entries
    <3>1. SUFFICES ASSUME p >= L1Entries PROVE FALSE
      BY <1>1
    <3>2. L2Entries * p >= L2Entries * L1Entries
      BY <1>1, <3>1, SMT
    <3>3. L2Entries * L1Entries = L1Entries * L2Entries
      BY <1>1, SMT
    <3>4. L2Entries * p \in Nat /\ L1Entries * L2Entries \in Nat
      BY <1>1, SMT
    <3>5. QED
      BY <1>2, <3>2, <3>3, <3>4 DEF Joined
  <2>2. QED
    BY <1>1, <2>1, SMT
<1>3. ASSUME NEW c \in Nat, c < L1Entries * L2Entries
      PROVE  /\ c = Joined(L2Entries, c \div L2Entries, c % L2Entries)
             /\ c % L2Entries \in 0 .. L2Entries - 1
             /\ c \div L2Entries \in 0 .. L1Entries - 1
             /\ (c \div L2Entries) % L1Entries = c \div L2Entries
  BY <1>1, <1>2, <1>3, QuotientRemainder, Zenon
<1>4. l1_index(b) \in L1 /\ l2_index(b) \in L2
  <2>1. b % L2Entries \in 0 .. L2Entries - 1 /\ b \div L2Entries \in 0 .. L1Entries - 1
        /\ (b \div L2Entries) % L1Entries = b \div L2Entries
    BY <1>1, <1>3, Zenon
  <2>2. QED
    BY <2>1, Zenon DEF l1_index, l2_index, L1, L2
<1>5. ASSUME NEW c \in BlockEntry, l1_index(b) = l1_index(c), l2_index(b) = l2_index(c)
      PROVE  b = c
  <2>1. c \in Nat /\ c < L1Entries * L2Entries
    <3>1. L1Entries * L2Entries \in Nat
      BY <1>1
    <3> DEFINE S == L1Entries * L2Entries
    <3>2. c \in 0 .. S - 1
      BY DEF BlockEntry
    <3> HIDE DEF S
    <3>3. c \in Nat /\ c < S
      BY <3>1, <3>2 DEF S
    <3>4. QED
      BY <3>3 DEF S
  <2>2. b \div L2Entries = c \div L2Entries
    <3>1. (b \div L2Entries) % L1Entries = b \div L2Entries
      BY <1>1, <1>3, Zenon
    <3>2. (c \div L2Entries) % L1Entries = c \div L2Entries
      BY <1>3, <2>1, Zenon
    <3>3. (b \div L2Entries) % L1Entries = (c \div L2Entries) % L1Entries
      BY <1>5, Zenon DEF l1_index
    <3>4. QED
      BY <3>1, <3>2, <3>3, Zenon
  <2>3. b % L2Entries = c % L2Entries
    BY <1>5, Zenon DEF l2_index
  <2>4. b = Joined(L2Entries, b \div L2Entries, b % L2Entries)
    BY <1>1, <1>3, Zenon
  <2>5. c = Joined(L2Entries, c \div L2Entries, c % L2Entries)
    BY <1>3, <2>1, Zenon
  <2>6. QED
    BY <2>2, <2>3, <2>4, <2>5, Zenon
<1>6. QED
  BY <1>4, <1>5

\* A level-2 table taken for a level-1 entry that has none changes no translation.
LEMMA TakeTable ==
  ASSUME NEW pt, NEW b \in BlockEntry, TableSound(pt), ~HasTable(pt, b),
         pt.next_l2 < MAX_L2_TABLES
  PROVE  /\ TableSound(alloc_l2_for(pt, b)) /\ HasTable(alloc_l2_for(pt, b), b)
         /\ ~Entry(alloc_l2_for(pt, b), b).valid
         /\ \A c \in BlockEntry :
              stage2_translate(alloc_l2_for(pt, b), c) = stage2_translate(pt, c)
<1> DEFINE q == alloc_l2_for(pt, b)
           i == l1_index(b)
           n == pt.next_l2
           zero == [j \in L2 |-> Invalid]
<1>1. /\ pt.l1 \in [L1 -> 0 .. MAX_L2_TABLES] /\ n \in 0 .. MAX_L2_TABLES
      /\ pt.l2 \in [0 .. MAX_L2_TABLES - 1 -> [L2 -> TableEntry]]
      /\ MAX_L2_TABLES \in Nat \ {0} /\ n < MAX_L2_TABLES
      /\ i \in L1 /\ pt.l1[i] = MAX_L2_TABLES
  BY TableSizes, Indices DEF TableSound, PageTable, HasTable
<1>2. zero \in [L2 -> TableEntry]
  BY DEF TableEntry, HostFrame, Invalid
<1>3. q = [l1 |-> [pt.l1 EXCEPT ![i] = n], next_l2 |-> n + 1, l2 |-> [pt.l2 EXCEPT ![n] = zero]]
  <2>1. pt = [l1 |-> pt.l1, next_l2 |-> pt.next_l2, l2 |-> pt.l2]
    BY DEF TableSound, PageTable
  <2>2. pt.next_l2 \in 0 .. MAX_L2_TABLES /\ q = alloc_l2_for(pt, b)
    BY DEF TableSound, PageTable
  <2>3. alloc_l2_for(pt, b) =
          [[[pt EXCEPT !.l1 = [pt.l1 EXCEPT ![i] = n]] EXCEPT !.next_l2 = n + 1]
             EXCEPT !.l2 = [pt.l2 EXCEPT ![n] = zero]]
    BY <2>1 DEF alloc_l2_for
  <2>4. QED
    BY <2>1, <2>3
<1> HIDE DEF q, zero
<1>4. /\ q.l1 \in [L1 -> 0 .. MAX_L2_TABLES] /\ q.next_l2 = n + 1
      /\ q.l2 \in [0 .. MAX_L2_TABLES - 1 -> [L2 -> TableEntry]]
      /\ q.l1[i] = n /\ q.l2[n] = zero
      /\ \A j \in L1 : j # i => q.l1[j] = pt.l1[j]
      /\ \A k \in 0 .. MAX_L2_TABLES - 1 : k # n => q.l2[k] = pt.l2[k]
  BY <1>1, <1>2, <1>3
<1>5. q \in PageTable
  BY <1>1, <1>3, <1>4 DEF PageTable
<1>6. \A j \in L1 : j # i /\ pt.l1[j] # MAX_L2_TABLES => pt.l1[j] < n
  BY DEF TableSound
<1>7. ASSUME NEW j \in L1, q.l1[j] # MAX_L2_TABLES PROVE q.l1[j] < q.next_l2
  BY <1>1, <1>4, <1>6, <1>7
<1>8. ASSUME NEW j \in L1, NEW k \in L1, j # k, q.l1[j] = q.l1[k] PROVE q.l1[j] = MAX_L2_TABLES
  BY <1>1, <1>4, <1>6, <1>8 DEF TableSound
<1>9. HasTable(q, b) /\ ~Entry(q, b).valid
  BY <1>1, <1>4, Indices DEF HasTable, Entry, zero, Invalid
<1>10. ASSUME NEW c \in BlockEntry PROVE stage2_translate(q, c) = stage2_translate(pt, c)
  <2>1. l1_index(c) \in L1 /\ l2_index(c) \in L2
    BY Indices
  <2>2. CASE l1_index(c) = i
    BY <1>1, <1>4, <2>1, <2>2 DEF stage2_translate, HasTable, Entry, zero, Invalid
  <2>3. CASE l1_index(c) # i
    <3>1. q.l1[l1_index(c)] = pt.l1[l1_index(c)]
      BY <1>4, <2>1, <2>3
    <3>2. HasTable(pt, c) => Entry(q, c) = Entry(pt, c)
      <4>1. SUFFICES ASSUME HasTable(pt, c) PROVE Entry(q, c) = Entry(pt, c)
        OBVIOUS
      <4>2. pt.l1[l1_index(c)] \in 0 .. MAX_L2_TABLES - 1 /\ pt.l1[l1_index(c)] # n
        BY <1>1, <1>6, <2>1, <2>3, <4>1 DEF HasTable
      <4>3. QED
        BY <1>4, <3>1, <4>2 DEF Entry
    <3>3. HasTable(q, c) = HasTable(pt, c)
      BY <3>1 DEF HasTable
    <3>4. QED
      BY <3>2, <3>3 DEF stage2_translate
  <2>4. QED
    BY <2>2, <2>3
<1>11. QED
  BY <1>5, <1>7, <1>8, <1>9, <1>10 DEF TableSound, q

\* Writing the entry of a block changes the translation of that block only.
LEMMA WriteEntry ==
  ASSUME NEW pt, NEW b \in BlockEntry, TableSound(pt), HasTable(pt, b), NEW e \in TableEntry,
         NEW q, q = [pt EXCEPT !.l2[pt.l1[l1_index(b)]][l2_index(b)] = e]
  PROVE  /\ TableSound(q)
         /\ stage2_translate(q, b) = IF e.valid THEN {e.frame} ELSE {}
         /\ \A c \in BlockEntry : c # b => stage2_translate(q, c) = stage2_translate(pt, c)
<1> DEFINE i == l1_index(b)
           k == pt.l1[l1_index(b)]
           new == [pt.l2[k] EXCEPT ![l2_index(b)] = e]
<1>1. /\ pt.l1 \in [L1 -> 0 .. MAX_L2_TABLES] /\ pt.next_l2 \in 0 .. MAX_L2_TABLES
      /\ pt.l2 \in [0 .. MAX_L2_TABLES - 1 -> [L2 -> TableEntry]]
      /\ MAX_L2_TABLES \in Nat \ {0}
      /\ i \in L1 /\ l2_index(b) \in L2 /\ k \in 0 .. MAX_L2_TABLES - 1
  BY TableSizes, Indices DEF TableSound, PageTable, HasTable
<1>2. new \in [L2 -> TableEntry]
  BY <1>1
<1>3. q = [l1 |-> pt.l1, next_l2 |-> pt.next_l2, l2 |-> [pt.l2 EXCEPT ![k] = new]]
  BY <1>1 DEF TableSound, PageTable
<1> HIDE DEF new
<1>4. /\ q.l1 = pt.l1 /\ q.next_l2 = pt.next_l2 /\ q.l2[k] = new
      /\ q.l2 \in [0 .. MAX_L2_TABLES - 1 -> [L2 -> TableEntry]]
      /\ \A j \in 0 .. MAX_L2_TABLES - 1 : j # k => q.l2[j] = pt.l2[j]
  BY <1>1, <1>2, <1>3
<1>5. TableSound(q)
  BY <1>1, <1>3, <1>4 DEF TableSound, PageTable
<1>6. stage2_translate(q, b) = IF e.valid THEN {e.frame} ELSE {}
  <2>1. HasTable(q, b)
    BY <1>4, TableSound(pt), HasTable(pt, b) DEF HasTable
  <2>2. new[l2_index(b)] = e
    BY <1>1 DEF new
  <2>3. Entry(q, b) = e
    BY <1>4, <2>2 DEF Entry
  <2>4. QED
    BY <2>1, <2>3, Zenon DEF stage2_translate
<1>7. ASSUME NEW c \in BlockEntry, c # b PROVE stage2_translate(q, c) = stage2_translate(pt, c)
  <2>1. l1_index(c) \in L1 /\ l2_index(c) \in L2
    BY Indices
  <2>2. HasTable(q, c) = HasTable(pt, c)
    BY <1>4 DEF HasTable
  <2>3. ASSUME HasTable(pt, c) PROVE Entry(q, c) = Entry(pt, c)
    <3>1. pt.l1[l1_index(c)] \in 0 .. MAX_L2_TABLES - 1
      BY <1>1, <2>1, <2>3 DEF HasTable
    <3>2. CASE l1_index(c) = i
      <4>1. l2_index(c) # l2_index(b)
        BY <1>7, <3>2, Indices
      <4>2. QED
        BY <1>1, <1>4, <2>1, <3>2, <4>1 DEF Entry, new
    <3>3. CASE l1_index(c) # i
      <4>1. pt.l1[l1_index(c)] # k
        BY <1>1, <2>1, <2>3, <3>3 DEF TableSound, HasTable
      <4>2. QED
        BY <1>4, <3>1, <4>1 DEF Entry
    <3>4. QED
      BY <3>2, <3>3
  <2>4. QED
    BY <2>2, <2>3 DEF stage2_translate
<1>8. QED
  BY <1>5, <1>6, <1>7

\* map_2mb_block maps the block if it was unmapped and there was room, and otherwise
\* changes no translation.
LEMMA MapBlock ==
  ASSUME NEW pt, NEW b \in BlockEntry, NEW f \in HostFrame, TableSound(pt),
         NEW r, r = map_2mb_block(pt, b, f)
  PROVE  /\ r.ok \in BOOLEAN /\ TableSound(r.pt)
         /\ r.ok => stage2_translate(pt, b) = {} /\ stage2_translate(r.pt, b) = {f}
         /\ \A c \in BlockEntry : (c # b \/ ~r.ok) =>
              stage2_translate(r.pt, c) = stage2_translate(pt, c)
<1> DEFINE ready == IF HasTable(pt, b) THEN pt ELSE alloc_l2_for(pt, b)
           e == [valid |-> TRUE, frame |-> f]
           q == [ready EXCEPT !.l2[ready.l1[l1_index(b)]][l2_index(b)] = e]
<1>1. CASE ~HasTable(pt, b) /\ pt.next_l2 >= MAX_L2_TABLES
  BY <1>1 DEF map_2mb_block
<1>2. CASE ~(~HasTable(pt, b) /\ pt.next_l2 >= MAX_L2_TABLES)
  <2>1. /\ TableSound(ready) /\ HasTable(ready, b)
        /\ \A c \in BlockEntry : stage2_translate(ready, c) = stage2_translate(pt, c)
    <3>1. pt.next_l2 \in Nat /\ MAX_L2_TABLES \in Nat
      BY TableSizes DEF TableSound, PageTable
    <3>2. CASE HasTable(pt, b)
      BY <3>2
    <3>3. CASE ~HasTable(pt, b)
      BY <1>2, <3>1, <3>3, TakeTable
    <3>4. QED
      BY <3>2, <3>3
  <2>2. r = IF Entry(ready, b).valid THEN [ok |-> FALSE, pt |-> ready]
            ELSE [ok |-> TRUE, pt |-> q]
    BY <1>2, Zenon DEF map_2mb_block
  <2> HIDE DEF ready
  <2>3. CASE Entry(ready, b).valid
    BY <2>1, <2>2, <2>3
  <2>4. CASE ~Entry(ready, b).valid
    <3>1. e \in TableEntry /\ e.valid /\ e.frame = f
      BY DEF TableEntry
    <3>2. r.ok /\ r.pt = q
      BY <2>2, <2>4
    <3> HIDE DEF e
    <3>3. /\ TableSound(q) /\ stage2_translate(q, b) = {f}
          /\ \A c \in BlockEntry : c # b => stage2_translate(q, c) = stage2_translate(ready, c)
      BY <2>1, <3>1, WriteEntry
    <3>4. stage2_translate(ready, b) = {}
      BY <2>4 DEF stage2_translate
    <3> HIDE DEF q
    <3>5. QED
      BY <2>1, <2>2, <2>4, <3>2, <3>3, <3>4
  <2>5. QED
    BY <2>3, <2>4
<1>3. QED
  BY <1>1, <1>2

-----------------------------------------------------------------------------
(* identity_map: one block after the other, a recursive function. *)

\* g holds the tables after each of the first n blocks.
AfterEach(pt, n, g) ==
  g = [b \in 0 .. n |-> IF b = 0 THEN [ok |-> TRUE, pt |-> pt, n |-> 0]
                        ELSE IdentityStep(g[b - 1], b - 1)]

\* r is a state identity_map may be in before block b: the blocks before r.n, unmapped
\* at the start, map to themselves, and nothing else has changed.
Reached(pt, b, r) ==
  /\ r.ok \in BOOLEAN /\ TableSound(r.pt)
  /\ r.n \in 0 .. b /\ (r.ok => r.n = b)
  /\ \A c \in BlockEntry :
       /\ c < r.n => stage2_translate(pt, c) = {} /\ stage2_translate(r.pt, c) = {c}
       /\ c >= r.n => stage2_translate(r.pt, c) = stage2_translate(pt, c)

\* There is such a function, for any number of blocks.
LEMMA AfterEachExists ==
  ASSUME NEW pt, NEW n \in Nat
  PROVE  \E g : AfterEach(pt, n, g)
<1> DEFINE S == {k \in 0 .. n : \E g : AfterEach(pt, k, g)}
<1>1. 0 \in S
  <2> DEFINE g == [b \in 0 .. 0 |-> [ok |-> TRUE, pt |-> pt, n |-> 0]]
  <2>1. AfterEach(pt, 0, g)
    BY DEF AfterEach
  <2>2. QED
    BY <2>1
<1>2. ASSUME NEW k \in 0 .. n - 1, k \in S PROVE k + 1 \in S
  <2>1. PICK g : AfterEach(pt, k, g)
    BY <1>2
  <2> DEFINE h == [b \in 0 .. k + 1 |-> IF b <= k THEN g[b] ELSE IdentityStep(g[k], k)]
  <2>2. ASSUME NEW b \in 0 .. k + 1
        PROVE  h[b] = IF b = 0 THEN [ok |-> TRUE, pt |-> pt, n |-> 0]
                      ELSE IdentityStep(h[b - 1], b - 1)
    <3>1. CASE b <= k
      <4>1. b \in 0 .. k /\ h[b] = g[b]
        BY <3>1
      <4>2. b # 0 => h[b - 1] = g[b - 1]
        BY <3>1
      <4> HIDE DEF h
      <4>3. g[b] = IF b = 0 THEN [ok |-> TRUE, pt |-> pt, n |-> 0]
                   ELSE IdentityStep(g[b - 1], b - 1)
        BY <2>1, <4>1 DEF AfterEach
      <4>4. QED
        BY <4>1, <4>2, <4>3, Zenon
    <3>2. CASE ~(b <= k)
      <4>1. b = k + 1 /\ b # 0 /\ b - 1 = k
        BY <3>2
      <4>2. h[k + 1] = IdentityStep(g[k], k) /\ h[k] = g[k]
        OBVIOUS
      <4> HIDE DEF h
      <4>3. QED
        BY <4>1, <4>2
    <3>3. QED
      BY <3>1, <3>2
  <2>3. AfterEach(pt, k + 1, h)
    <3>1. h = [b \in 0 .. k + 1 |-> h[b]]
      OBVIOUS
    <3> HIDE DEF h
    <3>2. QED
      BY <2>2, <3>1, Zenon DEF AfterEach
  <2>4. QED
    BY <2>3
<1>3. 0 .. n \subseteq S
  <2> HIDE DEF S
  <2>1. QED
    BY <1>1, <1>2, InductionTo
<1>4. n \in S
  BY <1>3
<1>5. QED
  BY <1>4

\* One block more.
LEMMA ReachedStep ==
  ASSUME NEW pt, NEW b \in BlockEntry, NEW r, Reached(pt, b, r)
  PROVE  Reached(pt, b + 1, IdentityStep(r, b))
<1> DEFINE m == map_2mb_block(r.pt, b, b)
<1>1. b \in Nat /\ BlockEntry \subseteq Nat
  <2> DEFINE S == L1Entries * L2Entries
  <2>1. BlockEntry = 0 .. S - 1
    BY DEF BlockEntry
  <2> HIDE DEF S
  <2>2. QED
    BY <2>1
<1>2. r.ok \in BOOLEAN /\ r.n \in 0 .. b /\ TableSound(r.pt)
  BY DEF Reached
<1>3. CASE ~r.ok
  <2>1. IdentityStep(r, b) = r
    BY <1>3, Zenon DEF IdentityStep
  <2>2. QED
    <3>1. r.n \in 0 .. b + 1
      BY <1>1, <1>2
    <3>2. Reached(pt, b + 1, r)
      BY <1>3, <3>1, Zenon DEF Reached
    <3>3. QED
      BY <2>1, <3>2
<1>4. CASE r.ok
  <2>1. r.n = b
    BY <1>4 DEF Reached
  <2>2. IdentityStep(r, b) = [ok |-> m.ok, pt |-> m.pt, n |-> IF m.ok THEN b + 1 ELSE b]
    BY <1>4, Zenon DEF IdentityStep
  <2>3. b \in HostFrame
    BY DEF HostFrame
  <2> HIDE DEF m
  <2>4. /\ m.ok \in BOOLEAN /\ TableSound(m.pt)
        /\ m.ok => stage2_translate(r.pt, b) = {} /\ stage2_translate(m.pt, b) = {b}
        /\ \A c \in BlockEntry : (c # b \/ ~m.ok) =>
             stage2_translate(m.pt, c) = stage2_translate(r.pt, c)
    BY <1>2, <2>3, MapBlock DEF m
  <2>5. CASE m.ok
    BY <1>1, <2>1, <2>2, <2>4, <2>5 DEF Reached
  <2>6. CASE ~m.ok
    BY <1>1, <2>1, <2>2, <2>4, <2>6 DEF Reached
  <2>7. QED
    BY <2>4, <2>5, <2>6
<1>5. QED
  BY <1>2, <1>3, <1>4

\* After n blocks.
LEMMA IdentityReached ==
  ASSUME NEW pt, TableSound(pt), NEW n \in Nat, 0 .. n - 1 \subseteq BlockEntry,
         NEW g, AfterEach(pt, n, g)
  PROVE  Reached(pt, n, g[n])
<1> DEFINE S == {k \in 0 .. n : Reached(pt, k, g[k])}
<1>1. 0 \in S
  <2>1. g[0] = [ok |-> TRUE, pt |-> pt, n |-> 0]
    BY DEF AfterEach
  <2>2. BlockEntry \subseteq Nat
    <3> DEFINE T == L1Entries * L2Entries
    <3>1. BlockEntry = 0 .. T - 1
      BY DEF BlockEntry
    <3> HIDE DEF T
    <3>2. QED
      BY <3>1
  <2>3. QED
    <3>1. g[0].ok = TRUE /\ g[0].pt = pt /\ g[0].n = 0
      BY <2>1
    <3>2. \A c \in BlockEntry : ~(c < 0)
      BY <2>2
    <3>3. 0 \in 0 .. 0 /\ 0 \in 0 .. n
      OBVIOUS
    <3>4. Reached(pt, 0, g[0])
      BY <3>1, <3>2, <3>3, Zenon DEF Reached
    <3>5. QED
      BY <3>3, <3>4
<1>2. ASSUME NEW k \in 0 .. n - 1, k \in S PROVE k + 1 \in S
  <2>1. k + 1 \in 0 .. n /\ k + 1 # 0 /\ (k + 1) - 1 = k
    OBVIOUS
  <2>2. g[k + 1] = IdentityStep(g[k], k)
    BY <2>1 DEF AfterEach
  <2>3. QED
    BY <1>2, <2>1, <2>2, ReachedStep
<1>3. 0 .. n \subseteq S
  <2> HIDE DEF S
  <2>1. QED
    BY <1>1, <1>2, InductionTo
<1>4. QED
  BY <1>3

-----------------------------------------------------------------------------
(* The tables, the TLB and what the partitions were told. *)

Translation == [vm : Vm, block : BlockEntry, frame : HostFrame]

MmuInv ==
  /\ s2 \in [Vm -> PageTable]
  /\ intended \in [Vm -> [BlockEntry -> SUBSET HostFrame]]
  /\ \A v \in Vm : TableSound(s2[v]) /\ Told(s2[v], intended[v])
  /\ vttbr \in Vm /\ owed \subseteq Vm
  /\ tlb \subseteq Translation
  /\ StaleOnlyWhileOwed

\* Tables of one partition replaced: the rest holds if they are sound, say what was told,
\* and keep every translation they had, unless a flush is owed.
LEMMA TablesReplaced ==
  ASSUME MmuInv, NEW v \in Vm, NEW pt, NEW t \in [BlockEntry -> SUBSET HostFrame],
         TableSound(pt), Told(pt, t),
         \/ v \in owed'
         \/ \A c \in BlockEntry : stage2_translate(s2[v], c) \subseteq stage2_translate(pt, c),
         s2' = [s2 EXCEPT ![v] = pt], intended' = [intended EXCEPT ![v] = t],
         tlb' = tlb, vttbr' = vttbr, owed \subseteq owed', owed' \subseteq Vm
  PROVE  MmuInv'
<1>1. pt \in PageTable
  BY DEF TableSound
<1>2. s2' \in [Vm -> PageTable] /\ intended' \in [Vm -> [BlockEntry -> SUBSET HostFrame]]
  BY <1>1 DEF MmuInv
<1>3. /\ s2'[v] = pt /\ intended'[v] = t
      /\ \A w \in Vm : w # v => s2'[w] = s2[w] /\ intended'[w] = intended[w]
  BY DEF MmuInv
<1>4. ASSUME NEW w \in Vm PROVE TableSound(s2'[w]) /\ Told(s2'[w], intended'[w])
  BY <1>3, Zenon DEF MmuInv
<1>5. ASSUME NEW e \in tlb
      PROVE  e.frame \in stage2_translate(s2'[e.vm], e.block) \/ e.vm \in owed'
  <2>1. e.vm \in Vm /\ e.block \in BlockEntry
    BY DEF MmuInv, Translation
  <2>2. e.frame \in stage2_translate(s2[e.vm], e.block) \/ e.vm \in owed
    BY DEF MmuInv, StaleOnlyWhileOwed
  <2>3. CASE e.vm = v
    BY <1>3, <2>1, <2>2, <2>3
  <2>4. CASE e.vm # v
    BY <1>3, <2>1, <2>2, <2>4
  <2>5. QED
    BY <2>3, <2>4
<1>6. QED
  BY <1>2, <1>4, <1>5 DEF MmuInv, StaleOnlyWhileOwed

\* An invalidation, whatever tables are installed then.
LEMMA Invalidated ==
  ASSUME MmuInv, NEW v \in Vm, invalidate_stage2_tlb(v), vttbr' \in Vm,
         UNCHANGED <<s2, intended>>
  PROVE  MmuInv'
<1>1. tlb' \subseteq tlb /\ owed' \subseteq owed /\ \A e \in tlb' : e.vm # v
  BY DEF invalidate_stage2_tlb, Others
<1>2. ASSUME NEW e \in tlb'
      PROVE  e.frame \in stage2_translate(s2[e.vm], e.block) \/ e.vm \in owed'
  BY <1>1 DEF MmuInv, StaleOnlyWhileOwed, invalidate_stage2_tlb
<1>3. QED
  BY <1>1, <1>2 DEF MmuInv, StaleOnlyWhileOwed

\* map_ram_2mb and map_device_2mb.
LEMMA MapKeeps ==
  ASSUME MmuInv, NEW v \in Vm, NEW b \in BlockEntry, NEW f \in Frame, Map(v, b, f)
  PROVE  MmuInv'
<1> DEFINE r == map_2mb_block(s2[v], b, f)
           t == IF r.ok THEN [intended[v] EXCEPT ![b] = {f}] ELSE intended[v]
<1>1. f \in HostFrame /\ TableSound(s2[v]) /\ Told(s2[v], intended[v])
  BY DEF HostFrame, MmuInv
<1>2. intended[v] \in [BlockEntry -> SUBSET HostFrame]
  BY DEF MmuInv
<1>3. /\ s2' = [s2 EXCEPT ![v] = r.pt]
      /\ intended' = IF r.ok THEN [intended EXCEPT ![v][b] = {f}] ELSE intended
      /\ tlb' = tlb /\ vttbr' = vttbr /\ owed' = owed
  BY DEF Map
<1> HIDE DEF r
<1>4. /\ r.ok \in BOOLEAN /\ TableSound(r.pt)
      /\ r.ok => stage2_translate(s2[v], b) = {} /\ stage2_translate(r.pt, b) = {f}
      /\ \A c \in BlockEntry : (c # b \/ ~r.ok) =>
           stage2_translate(r.pt, c) = stage2_translate(s2[v], c)
  BY <1>1, MapBlock DEF r
<1>5. t \in [BlockEntry -> SUBSET HostFrame]
  BY <1>1, <1>2
<1>6. intended' = [intended EXCEPT ![v] = t]
  BY <1>2, <1>3, <1>4 DEF MmuInv
<1>7. Told(r.pt, t)
  <2>1. ASSUME NEW c \in BlockEntry PROVE stage2_translate(r.pt, c) = t[c]
    <3>1. CASE r.ok /\ c = b
      BY <1>2, <1>4, <3>1
    <3>2. CASE ~(r.ok /\ c = b)
      <4>1. t[c] = intended[v][c]
        BY <1>2, <3>2
      <4>2. stage2_translate(r.pt, c) = stage2_translate(s2[v], c)
        BY <1>4, <3>2
      <4>3. QED
        BY <1>1, <4>1, <4>2, Zenon DEF Told
    <3>3. QED
      BY <3>1, <3>2
  <2>2. QED
    BY <2>1 DEF Told
<1>8. \A c \in BlockEntry : stage2_translate(s2[v], c) \subseteq stage2_translate(r.pt, c)
  BY <1>4
<1> HIDE DEF t
<1>9. owed \subseteq owed' /\ owed' \subseteq Vm
  BY <1>3 DEF MmuInv
<1>10. QED
  BY <1>3, <1>4, <1>5, <1>6, <1>7, <1>8, <1>9, TablesReplaced, Zenon

\* unmap_page: the translation is gone, and its flush is owed.
LEMMA UnmapKeeps ==
  ASSUME MmuInv, NEW v \in Vm, NEW b \in BlockEntry, unmap_page(v, b)
  PROVE  MmuInv'
<1> DEFINE q == [s2[v] EXCEPT !.l2[s2[v].l1[l1_index(b)]][l2_index(b)] = Invalid]
           t == [intended[v] EXCEPT ![b] = {}]
<1>1. /\ TableSound(s2[v]) /\ Told(s2[v], intended[v])
      /\ intended[v] \in [BlockEntry -> SUBSET HostFrame]
  BY DEF MmuInv
<1>2. HasTable(s2[v], b)
  BY DEF unmap_page, stage2_translate
<1>3. Invalid \in TableEntry /\ ~Invalid.valid
  BY DEF Invalid, TableEntry, HostFrame
<1>4. /\ s2' = [s2 EXCEPT ![v] = q] /\ intended' = [intended EXCEPT ![v] = t]
      /\ tlb' = tlb /\ vttbr' = vttbr /\ owed' = owed \cup {v}
  BY DEF unmap_page, MmuInv
<1>5. /\ TableSound(q) /\ stage2_translate(q, b) = {}
      /\ \A c \in BlockEntry : c # b => stage2_translate(q, c) = stage2_translate(s2[v], c)
  BY <1>1, <1>2, <1>3, WriteEntry
<1> HIDE DEF q
<1>6. t \in [BlockEntry -> SUBSET HostFrame]
  BY <1>1
<1>7. Told(q, t)
  BY <1>1, <1>5 DEF Told
<1> HIDE DEF t
<1>8. v \in owed' /\ owed \subseteq owed' /\ owed' \subseteq Vm
  BY <1>4 DEF MmuInv
<1>9. QED
  BY <1>4, <1>5, <1>6, <1>7, <1>8, TablesReplaced, Zenon

\* identity_map, however far it came.
LEMMA IdentityKeeps ==
  ASSUME MmuInv, NEW v \in Vm, NEW last \in BlockEntry, identity_map(v, 0, last)
  PROVE  MmuInv'
<1> DEFINE g == CHOOSE f : f = [b \in 0 .. last + 1 |->
                                  IF b = 0 THEN [ok |-> TRUE, pt |-> s2[v], n |-> 0]
                                  ELSE IdentityStep(f[b - 1], b - 1)]
           end == g[last + 1]
           t == [b \in BlockEntry |-> IF b \in 0 .. end.n - 1 THEN {b} ELSE intended[v][b]]
<1>1. /\ s2' = [s2 EXCEPT ![v] = end.pt] /\ intended' = [intended EXCEPT ![v] = t]
      /\ tlb' = tlb /\ vttbr' = vttbr /\ owed' = owed
  BY Zenon DEF identity_map, mmuVars
<1>2. BlockEntry \subseteq Nat /\ \A k \in Nat : k <= last => k \in BlockEntry
  <2> DEFINE S == L1Entries * L2Entries
  <2>1. BlockEntry = 0 .. S - 1 /\ S \in Nat
    BY TableSizes DEF BlockEntry
  <2> HIDE DEF S
  <2>2. QED
    BY <2>1
<1>3. last + 1 \in Nat /\ 0 .. (last + 1) - 1 \subseteq BlockEntry
  BY <1>2
<1>4. AfterEach(s2[v], last + 1, g)
  <2>1. \E f : AfterEach(s2[v], last + 1, f)
    BY <1>3, AfterEachExists
  <2>2. QED
    BY <2>1, Zenon DEF AfterEach
<1> HIDE DEF g
<1>5. /\ TableSound(s2[v]) /\ Told(s2[v], intended[v])
      /\ intended[v] \in [BlockEntry -> SUBSET HostFrame]
  BY DEF MmuInv
<1>6. Reached(s2[v], last + 1, end)
  BY <1>3, <1>4, <1>5, IdentityReached
<1> HIDE DEF end
<1>7. /\ TableSound(end.pt) /\ end.n \in Nat
      /\ \A c \in BlockEntry :
           /\ c < end.n => stage2_translate(s2[v], c) = {} /\ stage2_translate(end.pt, c) = {c}
           /\ c >= end.n => stage2_translate(end.pt, c) = stage2_translate(s2[v], c)
  <2>1. end.n \in 0 .. last + 1
    BY <1>6, Zenon DEF Reached
  <2>2. end.n \in Nat
    BY <1>3, <2>1
  <2>3. QED
    BY <1>6, <2>2, Zenon DEF Reached
<1>8. t \in [BlockEntry -> SUBSET HostFrame]
  BY <1>5 DEF HostFrame
<1>9. Told(end.pt, t)
  <2>1. ASSUME NEW c \in BlockEntry PROVE stage2_translate(end.pt, c) = t[c]
    <3>1. c \in Nat /\ t[c] = IF c \in 0 .. end.n - 1 THEN {c} ELSE intended[v][c]
      BY <1>2
    <3>2. stage2_translate(s2[v], c) = intended[v][c]
      BY <1>5 DEF Told
    <3> HIDE DEF t
    <3>3. CASE c < end.n
      BY <1>7, <3>1, <3>3
    <3>4. CASE c >= end.n
      BY <1>7, <3>1, <3>2, <3>4
    <3> QED BY <1>7, <3>1, <3>3, <3>4
  <2> HIDE DEF t
  <2> QED BY <2>1 DEF Told
<1>10. \A c \in BlockEntry : stage2_translate(s2[v], c) \subseteq stage2_translate(end.pt, c)
  <2> SUFFICES ASSUME NEW c \in BlockEntry
               PROVE  stage2_translate(s2[v], c) \subseteq stage2_translate(end.pt, c)
    OBVIOUS
  <2>1. c \in Nat
    BY <1>2
  <2>2. CASE c < end.n
    BY <1>7, <2>2
  <2>3. CASE c >= end.n
    BY <1>7, <2>3
  <2> QED BY <1>7, <2>1, <2>2, <2>3
<1> HIDE DEF t
<1>11. owed \subseteq owed' /\ owed' \subseteq Vm
  BY <1>1 DEF MmuInv
<1>12. QED
  BY <1>1, <1>7, <1>8, <1>9, <1>10, <1>11, TablesReplaced, Zenon

\* The guest's walk is cached as the tables have it.
LEMMA WalkKeeps ==
  ASSUME MmuInv, NEW b \in BlockEntry, Walk(b)
  PROVE  MmuInv'
<1>1. PICK f \in stage2_translate(s2[vttbr], b) :
        tlb' = tlb \cup {[vm |-> vttbr, block |-> b, frame |-> f]}
  BY DEF Walk
<1>2. UNCHANGED <<s2, intended, vttbr, owed>> /\ vttbr \in Vm
  BY DEF Walk, MmuInv
<1>3. f \in HostFrame
  <2>1. stage2_translate(s2[vttbr], b) = intended[vttbr][b]
    BY <1>2 DEF MmuInv, Told
  <2>2. intended[vttbr][b] \subseteq HostFrame
    BY <1>2 DEF MmuInv
  <2>3. QED
    BY <1>1, <2>1, <2>2
<1>4. tlb' \subseteq Translation
  BY <1>1, <1>2, <1>3 DEF MmuInv, Translation
<1>5. StaleOnlyWhileOwed'
  <2>1. ASSUME NEW e \in tlb'
        PROVE  e.frame \in stage2_translate(s2[e.vm], e.block) \/ e.vm \in owed
    BY <1>1, <2>1 DEF MmuInv, StaleOnlyWhileOwed
  <2>2. QED
    BY <1>2, <2>1 DEF StaleOnlyWhileOwed
<1>6. QED
  BY <1>2, <1>4, <1>5 DEF MmuInv

LEMMA MmuInitially == Stage2Init => MmuInv
<1> SUFFICES ASSUME Stage2Init PROVE MmuInv
  OBVIOUS
<1> DEFINE new == Stage2PageTableNew
<1>1. MAX_L2_TABLES \in Nat \ {0}
  BY TableSizes
<1>2. TableSound(new)
  <2>1. Invalid \in TableEntry
    BY DEF Invalid, TableEntry, HostFrame
  <2>2. [t \in 0 .. MAX_L2_TABLES - 1 |-> [j \in L2 |-> Invalid]]
          \in [0 .. MAX_L2_TABLES - 1 -> [L2 -> TableEntry]]
    BY <2>1
  <2>3. QED
    BY <1>1, <2>2 DEF TableSound, PageTable, Stage2PageTableNew
<1>3. Told(new, [b \in BlockEntry |-> {}])
  BY Indices DEF Told, stage2_translate, HasTable, Stage2PageTableNew
<1> HIDE DEF new
<1>4. /\ s2 = [v \in Vm |-> new] /\ intended = [v \in Vm |-> [b \in BlockEntry |-> {}]]
      /\ tlb = {} /\ owed = {} /\ vttbr \in Vm
  BY DEF Stage2Init, new
<1>5. QED
  BY <1>2, <1>3, <1>4 DEF MmuInv, StaleOnlyWhileOwed, TableSound

LEMMA MmuStep == MmuInv /\ [MmuNext \/ SwitchNext]_stage2Vars => MmuInv'
<1> SUFFICES ASSUME MmuInv, [MmuNext \/ SwitchNext]_stage2Vars PROVE MmuInv'
  OBVIOUS
<1>1. ASSUME NEW v \in Vm, NEW b \in BlockEntry, NEW f \in Frame, Map(v, b, f) PROVE MmuInv'
  BY <1>1, MapKeeps
<1>2. ASSUME NEW v \in Vm, NEW b \in BlockEntry, unmap_page(v, b) PROVE MmuInv'
  BY <1>2, UnmapKeeps
<1>3. ASSUME NEW v \in Vm, NEW last \in BlockEntry, identity_map(v, 0, last) PROVE MmuInv'
  BY <1>3, IdentityKeeps
<1>4. ASSUME flush_tlb PROVE MmuInv'
  <2>1. vttbr \in Vm /\ vttbr' \in Vm
    BY <1>4 DEF flush_tlb, MmuInv
  <2>2. QED
    BY <1>4, <2>1, Invalidated DEF flush_tlb
<1>5. ASSUME NEW v \in Vm, install(v) PROVE MmuInv'
  <2>1. vttbr' \in Vm
    BY <1>5 DEF install
  <2>2. QED
    BY <1>5, <2>1, Invalidated DEF install
<1>6. ASSUME NEW b \in BlockEntry, Walk(b) PROVE MmuInv'
  BY <1>6, WalkKeeps
<1>7. ASSUME UNCHANGED mmuVars PROVE MmuInv'
  BY <1>7 DEF mmuVars, MmuInv, StaleOnlyWhileOwed
<1>8. ASSUME NEW from \in Vm, NEW to \in Vm, context_switch_vmid(from, to) PROVE MmuInv'
  <2>1. vttbr \in Vm /\ UNCHANGED <<s2, intended, vttbr>> /\ vttbr' \in Vm
    BY <1>8 DEF context_switch_vmid, MmuInv
  <2>2. invalidate_stage2_tlb(vttbr)
    BY <1>8, Zenon DEF context_switch_vmid
  <2>3. QED
    BY <2>1, <2>2, Invalidated
<1>9. CASE MmuNext
  BY <1>1, <1>2, <1>3, <1>4, <1>5, <1>6, <1>9 DEF MmuNext
<1>10. CASE SwitchNext
  BY <1>7, <1>8, <1>10 DEF SwitchNext, GuestRuns
<1>11. CASE UNCHANGED stage2Vars
  BY <1>7, <1>11 DEF stage2Vars
<1>12. QED
  BY <1>9, <1>10, <1>11

(* A guest sees what it was given: every block translates to the frame its partition
   was last told of, no two regions of a guest share a level-2 table, and a stale
   translation is left in the TLB only while its flush is owed (aarch64/mmu.rs). *)
THEOREM StageTwoHolds == Stage2Spec => []StageTwoSound
<1>1. MmuInv => StageTwoSound
  BY DEF MmuInv, StageTwoSound, TablesAsTold, Told, TableSound
<1>2. QED
  BY <1>1, MmuInitially, MmuStep, PTL DEF Stage2Spec

-----------------------------------------------------------------------------
(* The world switch. *)

Register == GuestReg \cup {CHOOSE r \in GuestReg : TRUE}
Registers == [low : Register, high : Register, sp : Register, hyp : BOOLEAN, mode : Mode]

\* What is saved for a vCPU is what it was stopped with, up to a mode it may not have.
SwitchInv ==
  /\ cpu \in Registers /\ stopped \in [Vm -> Registers]
  /\ saved \in [Vm -> [regs : Registers, base : SUBSET Vm]]
  /\ \A v \in Vm : Sanitized(saved[v].regs) = Sanitized(stopped[v])

LEMMA SanitizedTwice ==
  ASSUME NEW c \in Registers
  PROVE  /\ Sanitized(c) \in Registers /\ Sanitized(Sanitized(c)) = Sanitized(c)
         /\ Sanitized(c).mode = sanitize_spsr(c.mode) /\ Sanitized(c).mode # "EL2h"
         /\ Sanitized(c).hyp = c.hyp /\ Sanitized(c).sp = c.sp /\ Sanitized(c).high = c.high
BY DEF Sanitized, Registers, Mode, sanitize_spsr

\* Two guests differ, the stored arrays, and what is loaded: x0 to x17, and x20 to x27
\* when the address is in x29, may be anybody's.
LEMMA Switched ==
  ASSUME SwitchInv, NEW from \in Vm, NEW to \in Vm, context_switch_vmid(from, to)
  PROVE  LET clean == Sanitized(saved[to].regs) IN
         /\ saved' = [saved EXCEPT ![to].regs = clean, ![from] = [regs |-> cpu, base |-> {to}]]
         /\ stopped' = [stopped EXCEPT ![from] = cpu]
         /\ from # to /\ ~saved[to].regs.hyp /\ clean \in Registers
         /\ \E low, high \in GuestReg :
               /\ cpu' = [clean EXCEPT !.low = low, !.high = high]
               /\ toReg # "x29" => high = saved'[to].regs.high
<1> DEFINE clean == Sanitized(saved[to].regs)
<1>1. saved[to].regs \in Registers /\ clean \in Registers
  BY SanitizedTwice DEF SwitchInv
<1>2. /\ saved' = [saved EXCEPT ![to].regs = clean, ![from] = [regs |-> cpu, base |-> {to}]]
      /\ stopped' = [stopped EXCEPT ![from] = cpu]
      /\ from # to /\ ~saved[to].regs.hyp
  BY DEF context_switch_vmid, context_switch, context_switch_inner, Stored, AddressOf, validate_elr
<1>3. PICK low \in GuestReg, high \in GuestReg :
         /\ high \in Through(IF toReg = "x29" THEN saved[to].base ELSE {to}, saved', "high")
         /\ cpu' = [clean EXCEPT !.low = low, !.high = high]
  BY DEF context_switch_vmid, context_switch, context_switch_inner, AddressOf
<1>4. toReg # "x29" => high = saved'[to].regs.high
  BY <1>3 DEF Through
<1>5. QED
  BY <1>1, <1>2, <1>3, <1>4

LEMMA SwitchInitially == Stage2Init => SwitchInv
<1> SUFFICES ASSUME Stage2Init PROVE SwitchInv
  OBVIOUS
<1> DEFINE r == CHOOSE x \in GuestReg : TRUE
           start == [low |-> r, high |-> r, sp |-> r, hyp |-> FALSE, mode |-> "EL1h"]
<1>1. start \in Registers
  BY DEF Registers, Register, Mode
<1>2. /\ cpu = start /\ stopped = [v \in Vm |-> start]
      /\ saved = [v \in Vm |-> [regs |-> start, base |-> {}]]
  BY DEF Stage2Init
<1> HIDE DEF start
<1>3. QED
  BY <1>1, <1>2 DEF SwitchInv

LEMMA SwitchStep == SwitchInv /\ [MmuNext \/ SwitchNext]_stage2Vars => SwitchInv'
<1> SUFFICES ASSUME SwitchInv, [MmuNext \/ SwitchNext]_stage2Vars PROVE SwitchInv'
  OBVIOUS
<1>1. ASSUME UNCHANGED cpuVars PROVE SwitchInv'
  BY <1>1 DEF cpuVars, SwitchInv
<1>2. ASSUME NEW from \in Vm, NEW to \in Vm, context_switch_vmid(from, to) PROVE SwitchInv'
  <2> DEFINE clean == Sanitized(saved[to].regs)
  <2>1. /\ saved' = [saved EXCEPT ![to].regs = clean, ![from] = [regs |-> cpu, base |-> {to}]]
        /\ stopped' = [stopped EXCEPT ![from] = cpu]
        /\ from # to /\ clean \in Registers
    BY <1>2, Switched
  <2>2. PICK low \in GuestReg, high \in GuestReg :
           /\ cpu' = [clean EXCEPT !.low = low, !.high = high]
           /\ toReg # "x29" => high = saved'[to].regs.high
    BY <1>2, Switched
  <2>3. Sanitized(clean) = clean /\ clean = Sanitized(stopped[to])
    BY SanitizedTwice DEF SwitchInv
  <2> HIDE DEF clean
  <2>4. cpu' \in Registers
    BY <2>1, <2>2 DEF Registers, Register
  <2>5. /\ stopped' \in [Vm -> Registers]
        /\ saved' \in [Vm -> [regs : Registers, base : SUBSET Vm]]
    BY <2>1 DEF SwitchInv
  <2>6. ASSUME NEW v \in Vm PROVE Sanitized(saved'[v].regs) = Sanitized(stopped'[v])
    <3>1. CASE v = from
      BY <2>1, <3>1 DEF SwitchInv
    <3>2. CASE v = to
      <4>1. saved'[v].regs = clean /\ stopped'[v] = stopped[to]
        BY <2>1, <3>2 DEF SwitchInv
      <4>2. QED
        BY <2>3, <4>1
    <3>3. CASE v # to /\ v # from
      BY <2>1, <3>3 DEF SwitchInv
    <3>4. QED
      BY <3>1, <3>2, <3>3
  <2>7. QED
    BY <2>4, <2>5, <2>6 DEF SwitchInv
<1>3. ASSUME NEW c \in Context, GuestRuns(c) PROVE SwitchInv'
  BY <1>3 DEF GuestRuns, SwitchInv, Context, Registers, Register
<1>4. CASE MmuNext
  BY <1>1, <1>4 DEF MmuNext, Map, unmap_page, identity_map, flush_tlb, install, Walk
<1>5. CASE SwitchNext
  BY <1>2, <1>3, <1>5 DEF SwitchNext
<1>6. CASE UNCHANGED stage2Vars
  BY <1>1, <1>6 DEF stage2Vars
<1>7. QED
  BY <1>4, <1>5, <1>6

(* Wherever the compiler keeps the incoming array's address, a vCPU resumes with the
   stack pointers, link and return address it was stopped with, its mode made safe and
   never in hypervisor space, and what was stored is all that was there: context_switch
   (aarch64/boot.rs). *)
THEOREM ResumesHolds == Stage2Spec => ResumesInPlace
<1> DEFINE A == \A from, to \in Vm : context_switch_vmid(from, to) =>
                  /\ cpu'.sp = stopped[to].sp /\ ~stopped[to].hyp /\ ~cpu'.hyp
                  /\ cpu'.mode = sanitize_spsr(stopped[to].mode) /\ cpu'.mode # "EL2h"
                  /\ toReg # "x29" => cpu'.high = stopped[to].high
                  /\ saved'[from].regs = cpu /\ saved'[to].regs = Sanitized(stopped[to])
<1>1. SwitchInv => A
  <2> SUFFICES ASSUME SwitchInv, NEW from \in Vm, NEW to \in Vm, context_switch_vmid(from, to)
               PROVE  /\ cpu'.sp = stopped[to].sp /\ ~stopped[to].hyp /\ ~cpu'.hyp
                      /\ cpu'.mode = sanitize_spsr(stopped[to].mode) /\ cpu'.mode # "EL2h"
                      /\ toReg # "x29" => cpu'.high = stopped[to].high
                      /\ saved'[from].regs = cpu
                      /\ saved'[to].regs = Sanitized(stopped[to])
    OBVIOUS
  <2> DEFINE clean == Sanitized(saved[to].regs)
  <2>1. /\ saved' = [saved EXCEPT ![to].regs = clean, ![from] = [regs |-> cpu, base |-> {to}]]
        /\ from # to /\ ~saved[to].regs.hyp /\ clean \in Registers
    BY Switched
  <2>2. PICK low \in GuestReg, high \in GuestReg :
           /\ cpu' = [clean EXCEPT !.low = low, !.high = high]
           /\ toReg # "x29" => high = saved'[to].regs.high
    BY Switched
  <2>3. /\ clean = Sanitized(stopped[to]) /\ stopped[to] \in Registers
        /\ saved[to].regs \in Registers
    BY DEF SwitchInv
  <2>4. /\ clean.sp = stopped[to].sp /\ clean.hyp = stopped[to].hyp
        /\ clean.mode = sanitize_spsr(stopped[to].mode) /\ clean.mode # "EL2h"
        /\ clean.high = stopped[to].high /\ clean.hyp = saved[to].regs.hyp
    BY <2>3, SanitizedTwice
  <2> HIDE DEF clean
  <2>5. saved'[from].regs = cpu /\ saved'[to].regs = clean
    BY <2>1 DEF SwitchInv
  <2>6. /\ cpu'.sp = clean.sp /\ cpu'.hyp = clean.hyp /\ cpu'.mode = clean.mode
        /\ cpu'.high = high
    BY <2>1, <2>2 DEF Registers
  <2>7. QED
    BY <2>1, <2>2, <2>3, <2>4, <2>5, <2>6
<1>2. SwitchInv /\ [MmuNext \/ SwitchNext]_stage2Vars => [A]_stage2Vars
  BY <1>1
<1>3. QED
  BY <1>2, SwitchInitially, SwitchStep, PTL DEF Stage2Spec, ResumesInPlace

-----------------------------------------------------------------------------
(* The books of an epoch. *)

GpuContext == [status : {"Initializing", "Ready", "Error"}, active : Nat, allocated : Nat,
               queue : [depth : Nat, submitted : Nat, completed : Nat]]

BudgetInv ==
  /\ book \in {"gpu", "quota", "gpuquota"}
  /\ spent \in [Meters -> Nat] /\ granted \in [Meters -> Nat] /\ leaked \in [Meters -> Nat]
  /\ \A r \in Meters : r # "compute" => leaked[r] = 0
  /\ gpu \in GpuContext
  /\ BooksBalance

\* The counters alone, which a step may change apart from the context.
Balanced(s, g, l) ==
  /\ s \in [Meters -> Nat] /\ g \in [Meters -> Nat] /\ l \in [Meters -> Nat]
  /\ \A r \in Meters : s[r] = g[r] + l[r] /\ s[r] <= Limit /\ (r # "compute" => l[r] = 0)

QueueSound(q) ==
  /\ q \in [depth : Nat, submitted : Nat, completed : Nat]
  /\ q.submitted = q.completed + q.depth /\ q.depth <= max_depth

ContextSound(k, c, s) ==
  /\ c.status \in {"Initializing", "Ready", "Error"} /\ c.active \in Nat /\ c.allocated \in Nat
  /\ c = [status |-> c.status, active |-> c.active, allocated |-> c.allocated, queue |-> c.queue]
  /\ QueueSound(c.queue)
  /\ k = "gpu" => c.allocated = s["memory"]

LEMMA BudgetParts ==
  BudgetInv <=> /\ book \in {"gpu", "quota", "gpuquota"}
                /\ Balanced(spent, granted, leaked) /\ ContextSound(book, gpu, spent)
BY DEF BudgetInv, BooksBalance, Balanced, ContextSound, QueueSound, GpuContext, Meters

\* A charge that fits, of what was granted as well.
LEMMA ChargeBalances ==
  ASSUME NEW s, NEW g, NEW l, Balanced(s, g, l), NEW r \in Meters, NEW n \in Nat, Fits(s, r, n)
  PROVE  /\ Balanced(Charged(s, r, n), Charged(g, r, n), l)
         /\ \A q \in Meters : Charged(s, r, n)[q] = IF q = r THEN s[q] + n ELSE s[q]
<1>1. /\ \A q \in Meters : Charged(s, r, n)[q] = IF q = r THEN s[q] + n ELSE s[q]
      /\ \A q \in Meters : Charged(g, r, n)[q] = IF q = r THEN g[q] + n ELSE g[q]
  BY DEF Charged, Balanced
<1>2. Charged(s, r, n) \in [Meters -> Nat] /\ Charged(g, r, n) \in [Meters -> Nat]
  BY DEF Charged, Balanced
<1>3. s[r] + n <= Limit
  BY DEF Fits
<1>4. ASSUME NEW q \in Meters
      PROVE  Charged(s, r, n)[q] = Charged(g, r, n)[q] + l[q] /\ Charged(s, r, n)[q] <= Limit
  <2>1. s[q] = g[q] + l[q] /\ s[q] <= Limit /\ s[q] \in Nat /\ g[q] \in Nat /\ l[q] \in Nat
    BY DEF Balanced
  <2>2. QED
    BY <1>1, <1>3, <2>1, LimitIsCount
<1>5. QED
  BY <1>1, <1>2, <1>4 DEF Balanced

\* A charge refused later, which stays: what record_kernel_launch leaves.
LEMMA LeakBalances ==
  ASSUME NEW s, NEW g, NEW l, Balanced(s, g, l), NEW n \in Nat, Fits(s, "compute", n)
  PROVE  /\ Balanced(Charged(s, "compute", n), g, Charged(l, "compute", n))
         /\ Charged(s, "compute", n)["memory"] = s["memory"]
<1>0. "compute" \in Meters /\ "memory" \in Meters
  BY DEF Meters
<1>1. /\ \A q \in Meters : Charged(s, "compute", n)[q] = IF q = "compute" THEN s[q] + n ELSE s[q]
      /\ \A q \in Meters : Charged(l, "compute", n)[q] = IF q = "compute" THEN l[q] + n ELSE l[q]
  BY DEF Charged, Balanced
<1>2. Charged(s, "compute", n) \in [Meters -> Nat] /\ Charged(l, "compute", n) \in [Meters -> Nat]
  BY <1>0 DEF Charged, Balanced
<1>3. s["compute"] + n <= Limit
  BY DEF Fits
<1>4. ASSUME NEW q \in Meters
      PROVE  /\ Charged(s, "compute", n)[q] = g[q] + Charged(l, "compute", n)[q]
             /\ Charged(s, "compute", n)[q] <= Limit
             /\ q # "compute" => Charged(l, "compute", n)[q] = 0
  <2>1. /\ s[q] = g[q] + l[q] /\ s[q] <= Limit /\ (q # "compute" => l[q] = 0)
        /\ s[q] \in Nat /\ g[q] \in Nat /\ l[q] \in Nat
    BY DEF Balanced
  <2>2. QED
    BY <1>1, <1>3, <2>1, LimitIsCount
<1>5. QED
  BY <1>0, <1>1, <1>2, <1>4 DEF Balanced

\* Memory given back, of what was granted as well: both stop at zero together, since
\* nothing of it ever leaks.
LEMMA FreeBalances ==
  ASSUME NEW s, NEW g, NEW l, Balanced(s, g, l), NEW n \in Nat
  PROVE  /\ Balanced([s EXCEPT !["memory"] = Less(@, n)], [g EXCEPT !["memory"] = Less(@, n)], l)
         /\ [s EXCEPT !["memory"] = Less(@, n)]["memory"] = Less(s["memory"], n)
<1> DEFINE ss == [s EXCEPT !["memory"] = Less(s["memory"], n)]
           gg == [g EXCEPT !["memory"] = Less(g["memory"], n)]
<1>1. "memory" \in Meters /\ s["memory"] \in Nat /\ g["memory"] = s["memory"]
      /\ s \in [Meters -> Nat] /\ g \in [Meters -> Nat] /\ l \in [Meters -> Nat]
  BY DEF Balanced, Meters
<1>2. Less(s["memory"], n) \in Nat /\ Less(s["memory"], n) <= s["memory"]
  BY <1>1 DEF Less
<1>3. ss \in [Meters -> Nat] /\ gg \in [Meters -> Nat]
  BY <1>1, <1>2
<1>4. ASSUME NEW q \in Meters PROVE ss[q] = gg[q] + l[q] /\ ss[q] <= Limit
  <2>1. s[q] = g[q] + l[q] /\ s[q] <= Limit /\ (q = "memory" => l[q] = 0) /\ l[q] \in Nat
    BY DEF Balanced
  <2>2. CASE q = "memory"
    BY <1>1, <1>2, <2>1, <2>2, LimitIsCount
  <2>3. CASE q # "memory"
    BY <1>1, <2>1, <2>3
  <2>4. QED
    BY <2>2, <2>3
<1>5. QED
  BY <1>1, <1>3, <1>4 DEF Balanced

\* try_launch charges all three counters where its pre-check agrees, and none otherwise.
LEMMA LaunchBalances ==
  ASSUME NEW g, NEW l, Balanced(spent, g, l), NEW c \in Nat, NEW t \in Nat, Ready
  PROVE  /\ check_budget(c, t) =>
              /\ Balanced(Launched(spent, c, t),
                          Charged(Charged(Charged(g, "compute", c), "transfer", t), "launches", 1), l)
              /\ Launched(spent, c, t)["memory"] = spent["memory"]
         /\ ~check_budget(c, t) => Launched(spent, c, t) = spent
<1> DEFINE one == Charged(spent, "compute", c)
           two == Charged(one, "transfer", t)
           all == Charged(two, "launches", 1)
           may == Fits(spent, "compute", c) /\ Fits(one, "transfer", t) /\ two["launches"] < Limit
<1>0. {"compute", "memory", "transfer", "launches"} \subseteq Meters
  BY DEF Meters
<1>1. \A r \in Meters : spent[r] \in Nat /\ spent[r] <= Limit
  BY DEF Balanced
<1>2. /\ Fits(spent, "compute", c) <=> check_compute(c)
      /\ Fits(spent, "transfer", t) <=> check_transfer(t)
  BY <1>0, <1>1, LimitIsCount DEF check_compute, check_transfer, Fits
<1>3. Launched(spent, c, t) = IF may THEN all ELSE spent
  <2>1. /\ spent \in [Meters -> Nat] /\ DOMAIN one = Meters /\ DOMAIN two = Meters
        /\ \A q \in Meters \ {"compute"} : one[q] = spent[q]
        /\ \A q \in Meters \ {"compute", "transfer"} : two[q] = spent[q]
    BY <1>0 DEF Balanced, Charged
  <2>2. two["launches"] \in Nat /\ Limit \in Nat
    BY <1>0, <2>1, LimitIsCount DEF Meters
  <2> HIDE DEF one, two, all
  <2>3. /\ Restored(one, spent, {"compute"}) = spent
        /\ Restored(two, spent, {"compute", "transfer"}) = spent
    BY <2>1 DEF Restored
  <2>4. Launched(spent, c, t) =
          IF ~Fits(spent, "compute", c) THEN spent
          ELSE IF ~Fits(one, "transfer", t) THEN Restored(one, spent, {"compute"})
          ELSE IF two["launches"] >= Limit THEN Restored(two, spent, {"compute", "transfer"})
          ELSE all
    BY Zenon DEF Launched, one, two, all
  <2> QED BY <2>2, <2>3, <2>4
<1>4. ASSUME Fits(spent, "compute", c)
      PROVE  /\ Balanced(one, Charged(g, "compute", c), l)
             /\ one["memory"] = spent["memory"] /\ one["transfer"] = spent["transfer"]
             /\ one["launches"] = spent["launches"]
  <2>1. /\ Balanced(one, Charged(g, "compute", c), l)
        /\ \A q \in Meters : one[q] = IF q = "compute" THEN spent[q] + c ELSE spent[q]
    BY <1>0, <1>4, ChargeBalances
  <2> HIDE DEF one
  <2>2. QED
    BY <1>0, <2>1
<1> HIDE DEF one
<1>5. ASSUME Fits(spent, "compute", c), Fits(one, "transfer", t)
      PROVE  /\ Balanced(two, Charged(Charged(g, "compute", c), "transfer", t), l)
             /\ two["memory"] = spent["memory"] /\ two["launches"] = spent["launches"]
  <2>1. /\ Balanced(two, Charged(Charged(g, "compute", c), "transfer", t), l)
        /\ \A q \in Meters : two[q] = IF q = "transfer" THEN one[q] + t ELSE one[q]
    BY <1>0, <1>4, <1>5, ChargeBalances
  <2> HIDE DEF two
  <2>2. QED
    BY <1>0, <1>4, <1>5, <2>1
<1> HIDE DEF two
<1>6. may <=> check_budget(c, t)
  <2>1. Fits(spent, "compute", c) => (Fits(one, "transfer", t) <=> Fits(spent, "transfer", t))
    BY <1>4 DEF Fits
  <2>2. Fits(spent, "compute", c) /\ Fits(one, "transfer", t) => two["launches"] = spent["launches"]
    BY <1>5
  <2>3. QED
    BY <1>2, <2>1, <2>2 DEF check_budget, check_launch
<1>7. ASSUME may
      PROVE  /\ Balanced(all, Charged(Charged(Charged(g, "compute", c), "transfer", t), "launches", 1), l)
             /\ all["memory"] = spent["memory"]
  <2>1. Fits(two, "launches", 1)
    BY <1>0, <1>1, <1>5, <1>7, LimitIsCount DEF Fits
  <2>2. /\ Balanced(all, Charged(Charged(Charged(g, "compute", c), "transfer", t), "launches", 1), l)
        /\ \A q \in Meters : all[q] = IF q = "launches" THEN two[q] + 1 ELSE two[q]
    BY <1>0, <1>5, <1>7, <2>1, ChargeBalances
  <2> HIDE DEF all
  <2>3. QED
    BY <1>0, <1>5, <1>7, <2>2
<1> HIDE DEF all, may
<1>8. QED
  BY <1>3, <1>6, <1>7

\* A step keeps the invariant if it keeps its parts.
LEMMA BudgetFrame ==
  ASSUME BudgetInv, book' = book, Balanced(spent', granted', leaked'),
         ContextSound(book, gpu', spent')
  PROVE  BudgetInv'
BY DEF BudgetInv, BooksBalance, Balanced, ContextSound, QueueSound, GpuContext, Meters

LEMMA GrantKeeps ==
  ASSUME BudgetInv, NEW r \in Meters, NEW n \in Nat, Grant(r, n)
  PROVE  /\ Balanced(spent', granted', leaked') /\ book' = book
         /\ spent'["memory"] = IF r = "memory" /\ Fits(spent, r, n) THEN spent["memory"] + n
                               ELSE spent["memory"]
<1>1. "memory" \in Meters /\ Balanced(spent, granted, leaked) /\ book' = book /\ leaked' = leaked
  BY BudgetParts DEF Meters, Grant
<1>2. CASE Fits(spent, r, n)
  <2>1. spent' = Charged(spent, r, n) /\ granted' = Charged(granted, r, n)
    BY <1>2, Zenon DEF Grant
  <2>2. QED
    BY <1>1, <1>2, <2>1, ChargeBalances
<1>3. CASE ~Fits(spent, r, n)
  <2>1. spent' = spent /\ granted' = granted
    BY <1>3, Zenon DEF Grant
  <2>2. QED
    BY <1>1, <1>3, <2>1
<1>4. QED
  BY <1>2, <1>3

\* A context with one field set, and its budget's memory counter as it was.
LEMMA ContextField ==
  ASSUME NEW k, NEW c, NEW s, NEW u, ContextSound(k, c, s), u["memory"] = s["memory"]
  PROVE  /\ ContextSound(k, c, u)
         /\ \A a \in Nat : ContextSound(k, [c EXCEPT !.active = a], u)
         /\ \A t \in {"Initializing", "Ready", "Error"} : ContextSound(k, [c EXCEPT !.status = t], u)
         /\ \A q : QueueSound(q) => ContextSound(k, [c EXCEPT !.queue = q], u)
BY DEF ContextSound

LEMMA ContextAllocated ==
  ASSUME NEW k, NEW c, NEW s, NEW u, ContextSound(k, c, s), u["memory"] \in Nat
  PROVE  ContextSound(k, [c EXCEPT !.allocated = u["memory"]], u)
BY DEF ContextSound

\* A command taken, and a command done.
LEMMA QueueMoves ==
  ASSUME NEW q, QueueSound(q)
  PROVE  /\ ~(q.depth >= max_depth) =>
              QueueSound([q EXCEPT !.depth = q.depth + 1, !.submitted = q.submitted + 1])
         /\ q.depth > 0 =>
              QueueSound([q EXCEPT !.depth = q.depth - 1, !.completed = q.completed + 1])
<1>1. PICK d \in Nat, s \in Nat, k \in Nat : q = [depth |-> d, submitted |-> s, completed |-> k]
  BY DEF QueueSound
<1>2. [q EXCEPT !.depth = q.depth + 1, !.submitted = q.submitted + 1]
        = [depth |-> d + 1, submitted |-> s + 1, completed |-> k]
  <2> DEFINE one == [q EXCEPT !.depth = q.depth + 1]
  <2>1. q.submitted = s
    BY <1>1
  <2>2. one = [depth |-> d + 1, submitted |-> s, completed |-> k]
    BY <1>1
  <2>3. [q EXCEPT !.depth = q.depth + 1, !.submitted = q.submitted + 1]
          = [one EXCEPT !.submitted = q.submitted + 1]
    OBVIOUS
  <2> HIDE DEF one
  <2>4. [one EXCEPT !.submitted = q.submitted + 1]
          = [depth |-> d + 1, submitted |-> s + 1, completed |-> k]
    BY <2>1, <2>2
  <2>5. QED
    BY <2>3, <2>4, Zenon
<1>3. [q EXCEPT !.depth = q.depth - 1, !.completed = q.completed + 1]
        = [depth |-> d - 1, submitted |-> s, completed |-> k + 1]
  <2> DEFINE one == [q EXCEPT !.depth = q.depth - 1]
  <2>1. q.completed = k
    BY <1>1
  <2>2. one = [depth |-> d - 1, submitted |-> s, completed |-> k]
    BY <1>1
  <2>3. [q EXCEPT !.depth = q.depth - 1, !.completed = q.completed + 1]
          = [one EXCEPT !.completed = q.completed + 1]
    OBVIOUS
  <2> HIDE DEF one
  <2>4. [one EXCEPT !.completed = q.completed + 1]
          = [depth |-> d - 1, submitted |-> s, completed |-> k + 1]
    BY <2>1, <2>2
  <2>5. QED
    BY <2>3, <2>4, Zenon
<1>4. s = k + d /\ d <= max_depth /\ max_depth \in Nat
  BY <1>1, DepthIsCount DEF QueueSound
<1>5. ASSUME ~(d >= max_depth)
      PROVE  QueueSound([depth |-> d + 1, submitted |-> s + 1, completed |-> k])
  BY <1>4, <1>5 DEF QueueSound
<1>6. ASSUME d > 0
      PROVE  QueueSound([depth |-> d - 1, submitted |-> s, completed |-> k + 1])
  BY <1>4, <1>6 DEF QueueSound
<1>7. q.depth = d
  BY <1>1
<1>8. QED
  BY <1>2, <1>3, <1>5, <1>6, <1>7

LEMMA BudgetInitially == BudgetInit => BudgetInv
<1> SUFFICES ASSUME BudgetInit PROVE BudgetInv
  OBVIOUS
<1>1. Idle0 \in [Meters -> Nat] /\ \A r \in Meters : Idle0[r] = 0
  BY DEF Idle0
<1>2. max_depth \in Nat /\ Limit \in Nat
  BY LimitIsCount, DepthIsCount
<1>3. QED
  BY <1>1, <1>2 DEF BudgetInit, BudgetInv, BooksBalance, GpuContext, GpuContextNew, Queue0, Meters

LEMMA BudgetStep == BudgetInv /\ [BudgetNext]_budgetVars => BudgetInv'
<1> SUFFICES ASSUME BudgetInv, [BudgetNext]_budgetVars PROVE BudgetInv'
  OBVIOUS
<1>0. /\ book \in {"gpu", "quota", "gpuquota"} /\ Balanced(spent, granted, leaked)
      /\ ContextSound(book, gpu, spent)
      /\ {"compute", "memory", "transfer", "launches"} \subseteq Meters
      /\ spent["memory"] \in Nat /\ gpu.active \in Nat
      /\ (book = "gpu" => gpu.allocated = spent["memory"])
      /\ gpu.status \in {"Initializing", "Ready", "Error"}
  <2>1. {"compute", "memory", "transfer", "launches"} \subseteq Meters
    BY DEF Meters
  <2>2. QED
    BY <2>1, BudgetParts DEF Balanced, ContextSound
<1>1. Amount \subseteq Nat
  BY AmountIsCount, LimitIsCount
<1>2. ASSUME book' = book, gpu' = gpu, Balanced(spent', granted', leaked'),
             spent'["memory"] = spent["memory"] \/ book # "gpu"
      PROVE  BudgetInv'
  <2>1. ContextSound(book, gpu', spent')
    BY <1>0, <1>2 DEF ContextSound
  <2>2. QED
    BY <1>2, <2>1, BudgetFrame
<1>3. ASSUME NEW r \in Meters, NEW n \in Amount, Grant(r, n), gpu' = gpu,
             r # "memory" \/ book # "gpu"
      PROVE  BudgetInv'
  <2>1. n \in Nat
    BY <1>1
  <2>2. /\ Balanced(spent', granted', leaked') /\ book' = book
        /\ spent'["memory"] = IF r = "memory" /\ Fits(spent, r, n) THEN spent["memory"] + n
                              ELSE spent["memory"]
    BY <1>3, <2>1, GrantKeeps
  <2>3. QED
    BY <1>2, <1>3, <2>2
<1>4. ASSUME NEW s \in {"Ready", "Error"}, SetStatus(s) PROVE BudgetInv'
  <2>1. UNCHANGED <<book, spent, granted, leaked>> /\ gpu' = [gpu EXCEPT !.status = s]
    BY <1>4 DEF SetStatus
  <2>2. ContextSound(book, gpu', spent')
    BY <1>0, <2>1, ContextField
  <2>3. QED
    BY <1>0, <2>1, <2>2, BudgetFrame
<1>5. ASSUME NEW c \in Amount, NEW t \in Amount, try_launch(c, t) PROVE BudgetInv'
  <2>1. c \in Nat /\ t \in Nat /\ Ready /\ UNCHANGED <<book, leaked>>
        /\ spent' = Launched(spent, c, t)
    BY <1>1, <1>5 DEF try_launch
  <2>2. CASE check_budget(c, t)
    <3>1. /\ granted' = Charged(Charged(Charged(granted, "compute", c), "transfer", t), "launches", 1)
          /\ gpu' = [gpu EXCEPT !.active = gpu.active + 1]
      BY <1>5, <2>2, Zenon DEF try_launch
    <3>2. Balanced(spent', granted', leaked') /\ spent'["memory"] = spent["memory"]
      BY <1>0, <2>1, <2>2, <3>1, LaunchBalances
    <3>3. gpu.active + 1 \in Nat
      BY <1>0
    <3>4. ContextSound(book, gpu', spent')
      BY <1>0, <3>1, <3>2, <3>3, ContextField
    <3>5. QED
      BY <2>1, <3>2, <3>4, BudgetFrame
  <2>3. CASE ~check_budget(c, t)
    <3>1. UNCHANGED <<granted, gpu>>
      BY <1>5, <2>3, Zenon DEF try_launch
    <3>2. spent' = spent
      BY <1>0, <2>1, <2>3, LaunchBalances
    <3>3. QED
      BY <1>0, <1>2, <2>1, <3>1, <3>2
  <2>4. QED
    BY <2>2, <2>3
<1>6. ASSUME NEW c \in Amount, record_kernel_launch(c) PROVE BudgetInv'
  <2>1. /\ c \in Nat /\ Ready /\ Fits(spent, "compute", c) /\ book' = book
    BY <1>1, <1>6 DEF record_kernel_launch
  <2>2. CASE check_launch
    <3> DEFINE one == Charged(spent, "compute", c)
               grant == Charged(granted, "compute", c)
    <3>1. /\ spent' = Charged(one, "launches", 1) /\ granted' = Charged(grant, "launches", 1)
          /\ gpu' = [gpu EXCEPT !.active = gpu.active + 1] /\ leaked' = leaked
      BY <1>6, <2>2, Zenon DEF record_kernel_launch
    <3>2. /\ Balanced(one, grant, leaked)
          /\ \A q \in Meters : one[q] = IF q = "compute" THEN spent[q] + c ELSE spent[q]
      BY <1>0, <2>1, ChargeBalances
    <3> HIDE DEF one, grant
    <3>3. one["launches"] = spent["launches"] /\ one["memory"] = spent["memory"]
          /\ spent["launches"] \in Nat
      BY <1>0, <3>2 DEF Balanced
    <3>4. Fits(one, "launches", 1)
      BY <2>2, <3>3, LimitIsCount DEF check_launch, Fits
    <3>5. Balanced(spent', granted', leaked') /\ spent'["memory"] = spent["memory"]
      BY <1>0, <3>1, <3>2, <3>3, <3>4, ChargeBalances
    <3>6. gpu.active + 1 \in Nat
      BY <1>0
    <3>7. ContextSound(book, gpu', spent')
      <4>1. \A a \in Nat : ContextSound(book, [gpu EXCEPT !.active = a], spent')
        BY <1>0, <3>5, ContextField
      <4>2. QED
        BY <3>1, <3>6, <4>1
    <3>8. QED
      BY <2>1, <3>5, <3>7, BudgetFrame
  <2>3. CASE ~check_launch
    <3>1. /\ spent' = Charged(spent, "compute", c) /\ leaked' = Charged(leaked, "compute", c)
          /\ UNCHANGED <<granted, gpu>>
      BY <1>6, <2>3, Zenon DEF record_kernel_launch
    <3>2. Balanced(spent', granted', leaked') /\ spent'["memory"] = spent["memory"]
      BY <1>0, <2>1, <3>1, LeakBalances
    <3>3. QED
      BY <1>2, <2>1, <3>1, <3>2
  <2>4. QED
    BY <2>2, <2>3
<1>7. ASSUME NEW n \in Amount, try_alloc(n) PROVE BudgetInv'
  <2>1. n \in Nat /\ book = "gpu" /\ Grant("memory", n)
        /\ gpu' = IF Fits(spent, "memory", n)
                  THEN [gpu EXCEPT !.allocated = Capped(gpu.allocated + n)] ELSE gpu
    BY <1>1, <1>7 DEF try_alloc, Ready
  <2>2. /\ Balanced(spent', granted', leaked') /\ book' = book
        /\ spent'["memory"] = IF Fits(spent, "memory", n) THEN spent["memory"] + n
                              ELSE spent["memory"]
    BY <1>0, <2>1, GrantKeeps
  <2>3. CASE Fits(spent, "memory", n)
    <3>1. Capped(gpu.allocated + n) = spent'["memory"] /\ spent'["memory"] \in Nat
      BY <1>0, <2>1, <2>2, <2>3 DEF Fits, Capped
    <3>2. ContextSound(book, gpu', spent')
      BY <1>0, <2>1, <2>3, <3>1, ContextAllocated
    <3>3. QED
      BY <2>2, <3>2, BudgetFrame
  <2>4. CASE ~Fits(spent, "memory", n)
    BY <1>2, <2>1, <2>2, <2>4
  <2>5. QED
    BY <2>3, <2>4
<1>8. ASSUME NEW n \in Amount, record_memory_free(n) \/ release_memory(n) PROVE BudgetInv'
  <2>1. /\ n \in Nat /\ UNCHANGED <<book, leaked>>
        /\ spent' = [spent EXCEPT !["memory"] = Less(@, n)]
        /\ granted' = [granted EXCEPT !["memory"] = Less(@, n)]
    BY <1>1, <1>8 DEF record_memory_free, release_memory
  <2>2. Balanced(spent', granted', leaked') /\ spent'["memory"] = Less(spent["memory"], n)
    BY <1>0, <2>1, FreeBalances
  <2>3. CASE record_memory_free(n)
    <3>1. book = "gpu" /\ gpu' = [gpu EXCEPT !.allocated = Less(gpu.allocated, n)]
      BY <2>3 DEF record_memory_free, Ready
    <3>2. gpu' = [gpu EXCEPT !.allocated = spent'["memory"]] /\ spent'["memory"] \in Nat
      BY <1>0, <2>1, <2>2, <3>1 DEF Less
    <3>3. ContextSound(book, gpu', spent')
      BY <1>0, <3>2, ContextAllocated
    <3>4. QED
      BY <2>1, <2>2, <3>3, BudgetFrame
  <2>4. CASE release_memory(n)
    BY <1>2, <2>1, <2>2, <2>4 DEF release_memory, Quota
  <2>5. QED
    BY <1>8, <2>3, <2>4
<1>9. ASSUME record_kernel_complete PROVE BudgetInv'
  <2>1. /\ UNCHANGED <<book, spent, granted, leaked>>
        /\ gpu' = [gpu EXCEPT !.active = Less(gpu.active, 1)]
    BY <1>9 DEF record_kernel_complete
  <2>2. Less(gpu.active, 1) \in Nat
    BY <1>0 DEF Less
  <2>3. ContextSound(book, gpu', spent')
    BY <1>0, <2>1, <2>2, ContextField
  <2>4. QED
    BY <1>0, <2>1, <2>3, BudgetFrame
<1>10. ASSUME reset_epoch PROVE BudgetInv'
  <2>1. /\ spent' = [Idle0 EXCEPT !["memory"] = spent["memory"]]
        /\ granted' = [Idle0 EXCEPT !["memory"] = granted["memory"]]
        /\ leaked' = Idle0 /\ UNCHANGED <<book, gpu>>
    BY <1>10 DEF reset_epoch, Kept
  <2>2. Idle0 \in [Meters -> Nat] /\ \A r \in Meters : Idle0[r] = 0
    BY DEF Idle0
  <2>3. spent["memory"] = granted["memory"] /\ spent["memory"] <= Limit
    BY <1>0 DEF Balanced
  <2>4. Balanced(spent', granted', leaked') /\ spent'["memory"] = spent["memory"]
    BY <1>0, <2>1, <2>2, <2>3, LimitIsCount DEF Balanced
  <2>5. QED
    BY <1>2, <2>1, <2>4
<1>11. ASSUME NEW c, gpu_enqueue(c) PROVE BudgetInv'
  <2>1. /\ UNCHANGED <<book, spent, granted, leaked>> /\ ~(gpu.queue.depth >= max_depth)
        /\ gpu' = [gpu EXCEPT !.queue = [gpu.queue EXCEPT !.depth = gpu.queue.depth + 1,
                                                          !.submitted = gpu.queue.submitted + 1]]
    BY <1>0, <1>11 DEF gpu_enqueue, is_full, ContextSound, QueueSound
  <2>2. QueueSound([gpu.queue EXCEPT !.depth = gpu.queue.depth + 1,
                                     !.submitted = gpu.queue.submitted + 1])
    BY <1>0, <2>1, QueueMoves DEF ContextSound
  <2>3. ContextSound(book, gpu', spent')
    BY <1>0, <2>1, <2>2, ContextField
  <2>4. QED
    BY <1>0, <2>1, <2>3, BudgetFrame
<1>12. ASSUME complete_one PROVE BudgetInv'
  <2>1. /\ UNCHANGED <<book, spent, granted, leaked>> /\ gpu.queue.depth > 0
        /\ gpu' = [gpu EXCEPT !.queue = [gpu.queue EXCEPT !.depth = gpu.queue.depth - 1,
                                                          !.completed = gpu.queue.completed + 1]]
    BY <1>0, <1>12 DEF complete_one, ContextSound, QueueSound
  <2>2. QueueSound([gpu.queue EXCEPT !.depth = gpu.queue.depth - 1,
                                     !.completed = gpu.queue.completed + 1])
    BY <1>0, <2>1, QueueMoves DEF ContextSound
  <2>3. ContextSound(book, gpu', spent')
    BY <1>0, <2>1, <2>2, ContextField
  <2>4. QED
    BY <1>0, <2>1, <2>3, BudgetFrame
<1>13. ASSUME NEW n \in Amount,
              try_transfer(n) \/ check_cpu_time(n) \/ quota_memory(n) \/ check_dma(n)
                \/ quota_compute(n) \/ quota_transfer(n)
       PROVE  BudgetInv'
  <2>1. gpu' = gpu
    BY <1>13 DEF try_transfer, check_cpu_time, quota_memory, check_dma, quota_compute,
                 quota_transfer
  <2>2. \/ Grant("compute", n)
        \/ Grant("transfer", n)
        \/ Grant("memory", n) /\ Quota
    <3>1. try_transfer(n) \/ check_dma(n) \/ quota_transfer(n) => Grant("transfer", n)
      BY Zenon DEF try_transfer, check_dma, quota_transfer
    <3>2. check_cpu_time(n) \/ quota_compute(n) => Grant("compute", n)
      BY Zenon DEF check_cpu_time, quota_compute
    <3>3. quota_memory(n) => Grant("memory", n) /\ Quota
      BY Zenon DEF quota_memory
    <3>4. QED
      BY <1>13, <3>1, <3>2, <3>3, Zenon
  <2>3. QED
    BY <1>0, <1>3, <2>1, <2>2 DEF Quota
<1>14. ASSUME check_ipc \/ quota_launch PROVE BudgetInv'
  <2>1. gpu' = gpu /\ Grant("launches", 1)
    BY <1>14 DEF check_ipc, quota_launch
  <2>2. /\ Balanced(spent', granted', leaked') /\ book' = book
        /\ spent'["memory"] = spent["memory"]
    BY <1>0, <2>1, GrantKeeps
  <2>3. QED
    BY <1>2, <2>1, <2>2
<1>15. CASE UNCHANGED budgetVars
  BY <1>0, <1>2, <1>15 DEF budgetVars
<1>16. CASE BudgetNext
  <2>1. \/ \E s \in {"Ready", "Error"} : SetStatus(s)
        \/ \E c, t \in Amount : try_launch(c, t)
        \/ \E n \in Amount : record_kernel_launch(n) \/ try_alloc(n)
        \/ \E n \in Amount : record_memory_free(n) \/ release_memory(n)
        \/ \E n \in Amount : try_transfer(n) \/ check_cpu_time(n) \/ quota_memory(n)
             \/ check_dma(n) \/ quota_compute(n) \/ quota_transfer(n)
        \/ check_ipc \/ quota_launch
        \/ record_kernel_complete \/ reset_epoch
        \/ \E c : gpu_enqueue(c)
        \/ complete_one
    BY <1>16, Zenon DEF BudgetNext
  <2>2. QED
    BY <1>4, <1>5, <1>6, <1>7, <1>8, <1>9, <1>10, <1>11, <1>12, <1>13, <1>14, <2>1, Zenon
<1>17. QED
  BY <1>15, <1>16

-----------------------------------------------------------------------------
(* The quotas of partitions. *)

\* What a caller's last check allowed, when it allowed something.
CheckedSound(known, k) ==
  /\ k[1] \in known /\ k[2] \in ResourceKind /\ k[3] \in Nat /\ k[4] \in Nat
  /\ (k[4] + k[3]) % CpuWord <= QuotaMax

QuotaInv ==
  /\ usage \in [Registered -> [ResourceKind -> Nat]]
  /\ checked \in [QuotaCaller -> {checked[c] : c \in QuotaCaller}]
  /\ \A c \in QuotaCaller : checked[c] # NoCheck => CheckedSound(Registered, checked[c])
  /\ \A p \in Registered, r \in ResourceKind : usage[p][r] > QuotaMax => <<p, r>> \in excused

\* A sum within the quota modulo 2^64 that did not wrap is within the quota, and then
\* neither cutting the amount nor saturating the counter changes it.
LEMMA SumWithin ==
  ASSUME NEW r \in ResourceKind, NEW u \in Nat, NEW n \in Nat,
         (u + n) % CpuWord <= QuotaMax, u + n < CpuWord
  PROVE  /\ u + n <= QuotaMax
         /\ Saturated(u + (n % Width(r)), Width(r)) = u + n
         /\ Saturated(u + n, Width(r)) = u + n
<1>1. /\ QuotaMax \in Nat /\ CountWord \in Nat /\ CpuWord \in Nat
      /\ QuotaMax < CountWord /\ CountWord <= CpuWord
  BY QuotaWidths
<1>2. (u + n) % CpuWord = u + n
  BY <1>1
<1>3. u + n <= QuotaMax
  BY <1>2
<1> DEFINE w == Width(r)
<1>4. w \in Nat /\ QuotaMax < w
  BY <1>1 DEF Width
<1> HIDE DEF w
<1>5. n % w = n
  BY <1>1, <1>3, <1>4
<1>6. Saturated(u + n, w) = u + n
  BY <1>1, <1>3, <1>4 DEF Saturated
<1>7. QED
  BY <1>3, <1>5, <1>6 DEF w

\* A counter is saturated to a natural number.
LEMMA SaturatedNat ==
  ASSUME NEW r \in ResourceKind, NEW k \in Nat
  PROVE  /\ Saturated(k, Width(r)) \in Nat
         /\ Saturated(k % Width(r), Width(r)) \in Nat
         /\ k % Width(r) \in Nat
<1> DEFINE w == Width(r)
<1>1. w \in Nat /\ w > 0
  BY QuotaWidths DEF Width
<1> HIDE DEF w
<1>2. k % w \in Nat
  BY <1>1
<1>3. Saturated(k, w) \in Nat /\ Saturated(k % w, w) \in Nat
  BY <1>1, <1>2 DEF Saturated
<1>4. QED
  BY <1>2, <1>3 DEF w

\* One counter is set, within the quota or with an excuse.
LEMMA CounterSet ==
  ASSUME QuotaInv, NEW p \in Registered, NEW r \in ResourceKind, NEW k \in Nat,
         usage' = [usage EXCEPT ![p][r] = k],
         excused \subseteq excused', k <= QuotaMax \/ <<p, r>> \in excused',
         checked' \in [QuotaCaller -> {checked'[c] : c \in QuotaCaller}],
         \A c \in QuotaCaller : checked'[c] # NoCheck => checked'[c] = checked[c]
  PROVE  QuotaInv'
<1>1. usage \in [Registered -> [ResourceKind -> Nat]]
  BY DEF QuotaInv
<1>2. usage' = [usage EXCEPT ![p] = [usage[p] EXCEPT ![r] = k]]
  BY <1>1
<1>3. Registered' = Registered /\ usage' \in [Registered -> [ResourceKind -> Nat]]
  <2>1. usage[p] \in [ResourceKind -> Nat]
    BY <1>1
  <2>2. [usage[p] EXCEPT ![r] = k] \in [ResourceKind -> Nat]
    BY <2>1
  <2>3. usage' \in [Registered -> [ResourceKind -> Nat]]
    BY <1>1, <1>2, <2>2
  <2>4. DOMAIN usage' = DOMAIN usage
    BY <1>2
  <2>5. QED
    BY <2>3, <2>4 DEF Registered
<1>4. ASSUME NEW q \in Registered, NEW s \in ResourceKind
      PROVE  usage'[q][s] = IF q = p /\ s = r THEN k ELSE usage[q][s]
  BY <1>1, <1>2
<1>5. ASSUME NEW q \in Registered, NEW s \in ResourceKind, usage'[q][s] > QuotaMax
      PROVE  <<q, s>> \in excused'
  <2>1. CASE q = p /\ s = r
    BY <1>4, <1>5, <2>1, QuotaWidths
  <2>2. CASE ~(q = p /\ s = r)
    BY <1>4, <1>5, <2>2 DEF QuotaInv
  <2>3. QED
    BY <2>1, <2>2
<1>6. \A c \in QuotaCaller : checked'[c] # NoCheck => CheckedSound(Registered', checked'[c])
  BY <1>3, Zenon DEF QuotaInv, CheckedSound
<1>7. QED
  BY <1>3, <1>5, <1>6 DEF QuotaInv

LEMMA QuotaInitially == QuotaInit => QuotaInv
BY DEF QuotaInit, QuotaInv, Registered

LEMMA QuotaStep == QuotaInv /\ [QuotaNext \/ MigrationNext]_quotaVars => QuotaInv'
<1> SUFFICES ASSUME QuotaInv, [QuotaNext \/ MigrationNext]_quotaVars PROVE QuotaInv'
  OBVIOUS
<1>0. /\ usage \in [Registered -> [ResourceKind -> Nat]]
      /\ checked \in [QuotaCaller -> {checked[c] : c \in QuotaCaller}]
      /\ QuotaMax \in Nat /\ CpuWord \in Nat /\ CpuWord > 0
  BY QuotaWidths DEF QuotaInv
<1>1. ASSUME UNCHANGED <<usage, checked, excused>> PROVE QuotaInv'
  BY <1>1 DEF QuotaInv, CheckedSound, Registered
<1>2. ASSUME NEW p \in QuotaPartition, quota_register(p) PROVE QuotaInv'
  <2>1. /\ p \notin Registered /\ UNCHANGED <<checked, excused>>
        /\ usage' = [q \in Registered \cup {p} |->
                       IF q = p THEN [r \in ResourceKind |-> 0] ELSE usage[q]]
    BY <1>2 DEF quota_register
  <2>2. Registered' = Registered \cup {p}
    BY <2>1 DEF Registered
  <2>3. usage' \in [Registered' -> [ResourceKind -> Nat]]
    BY <1>0, <2>1, <2>2
  <2>4. ASSUME NEW q \in Registered', NEW r \in ResourceKind, usage'[q][r] > QuotaMax
        PROVE  <<q, r>> \in excused'
    BY <1>0, <2>1, <2>2, <2>4 DEF QuotaInv
  <2>5. \A c \in QuotaCaller : checked'[c] # NoCheck => CheckedSound(Registered', checked'[c])
    BY <2>1, <2>2 DEF QuotaInv, CheckedSound
  <2>6. QED
    BY <1>0, <2>1, <2>3, <2>4, <2>5 DEF QuotaInv
<1>3. ASSUME NEW c \in QuotaCaller, NEW p \in QuotaPartition, NEW r \in ResourceKind,
             NEW n \in UseAmount, check_quota(c, p, r, n)
      PROVE  QuotaInv'
  <2> DEFINE k == <<p, r, n, usage[p][r]>>
  <2>1. /\ p \in Registered /\ (usage[p][r] + n) % CpuWord <= QuotaMax
        /\ checked' = [checked EXCEPT ![c] = k] /\ UNCHANGED <<usage, excused>>
    BY <1>3 DEF check_quota, within_budget
  <2>2. n \in Nat /\ usage[p][r] \in Nat
    BY <1>0, <2>1, QuotaAmounts
  <2>3. CheckedSound(Registered, k)
    BY <2>1, <2>2 DEF CheckedSound
  <2> HIDE DEF k
  <2>4. /\ checked'[c] = k
        /\ \A d \in QuotaCaller : d # c => checked'[d] = checked[d]
        /\ checked' \in [QuotaCaller -> {checked'[d] : d \in QuotaCaller}]
    BY <1>0, <2>1
  <2>5. \A d \in QuotaCaller : checked'[d] # NoCheck => CheckedSound(Registered, checked'[d])
    BY <2>3, <2>4 DEF QuotaInv
  <2>6. \A d \in QuotaCaller : checked'[d] # NoCheck => CheckedSound(Registered', checked'[d])
    BY <2>1, <2>5 DEF CheckedSound, Registered
  <2>7. QED
    BY <1>0, <2>1, <2>4, <2>6 DEF QuotaInv, Registered
<1>4. ASSUME NEW c \in QuotaCaller, record_usage(c) PROVE QuotaInv'
  <2> DEFINE p == checked[c][1]
             r == checked[c][2]
             n == checked[c][3]
             k == Saturated(usage[p][r] + (n % Width(r)), Width(r))
  <2>1. /\ checked[c] # NoCheck /\ checked' = [checked EXCEPT ![c] = NoCheck]
        /\ usage' = [usage EXCEPT ![p][r] = k]
        /\ excused' = IF usage[p][r] # checked[c][4] \/ usage[p][r] + n >= CpuWord
                      THEN excused \cup {<<p, r>>} ELSE excused
    BY <1>0, <1>4 DEF record_usage
  <2>2. CheckedSound(Registered, checked[c])
    BY <2>1 DEF QuotaInv
  <2> DEFINE u == usage[p][r]
             v == checked[c][4]
  <2>3. p \in Registered /\ r \in ResourceKind /\ n \in Nat /\ (v + n) % CpuWord <= QuotaMax
    BY <2>2 DEF CheckedSound
  <2>4. u \in Nat
    BY <1>0, <2>3
  <2> HIDE DEF p, r, n, v
  <2>5. k \in Nat
    <3>1. n % Width(r) \in Nat
      BY <2>3, SaturatedNat
    <3>2. u + (n % Width(r)) \in Nat
      BY <2>4, <3>1
    <3>3. QED
      BY <2>3, <3>2, SaturatedNat
  <2>6. excused \subseteq excused' /\ (k <= QuotaMax \/ <<p, r>> \in excused')
    <3>1. CASE u # v \/ u + n >= CpuWord
      BY <2>1, <3>1 DEF v
    <3>2. CASE ~(u # v \/ u + n >= CpuWord)
      <4>1. u + n < CpuWord /\ (u + n) % CpuWord <= QuotaMax
        <5>1. u = v /\ u + n < CpuWord
          BY <1>0, <2>3, <2>4, <3>2
        <5>2. QED
          BY <2>3, <5>1
      <4>2. k <= QuotaMax
        BY <2>3, <2>4, <4>1, SumWithin
      <4>3. excused' = excused
        BY <2>1, <3>2 DEF v
      <4>4. QED
        BY <4>2, <4>3
    <3>3. QED
      BY <3>1, <3>2
  <2>7. /\ checked' \in [QuotaCaller -> {checked'[d] : d \in QuotaCaller}]
        /\ \A d \in QuotaCaller : checked'[d] # NoCheck => checked'[d] = checked[d]
    BY <1>0, <2>1
  <2> HIDE DEF k
  <2>8. QED
    BY <2>1, <2>3, <2>5, <2>6, <2>7, CounterSet
<1>5. ASSUME NEW p, NEW r \in ResourceKind, NEW n \in Nat, CheckAndRecord(p, r, n) PROVE QuotaInv'
  <2> DEFINE u == usage[p][r]
             k == Saturated(u + n, Width(r))
  <2>1. /\ p \in Registered /\ Within(u, r, n) /\ checked' = checked
        /\ usage' = [usage EXCEPT ![p][r] = k]
        /\ excused' = IF u + n >= CpuWord THEN excused \cup {<<p, r>>} ELSE excused
    BY <1>0, <1>5 DEF CheckAndRecord
  <2>2. u \in Nat
    BY <1>0, <2>1
  <2> HIDE DEF u
  <2>3. k \in Nat
    BY <2>2, SaturatedNat
  <2>4. excused \subseteq excused' /\ (k <= QuotaMax \/ <<p, r>> \in excused')
    <3>1. CASE u + n >= CpuWord
      BY <2>1, <3>1
    <3>2. CASE ~(u + n >= CpuWord)
      <4>1. u + n < CpuWord
        BY <1>0, <2>2, <3>2
      <4>2. (u + n) % CpuWord <= QuotaMax
        <5>1. (u + n) % CpuWord = u + n
          BY <1>0, <2>2, <4>1
        <5>2. QED
          BY <2>1, <5>1 DEF Within
      <4>3. k <= QuotaMax
        BY <2>2, <4>1, <4>2, SumWithin
      <4>4. QED
        BY <2>1, <3>2, <4>3
    <3>3. QED
      BY <3>1, <3>2
  <2> HIDE DEF k
  <2>5. /\ checked' \in [QuotaCaller -> {checked'[d] : d \in QuotaCaller}]
        /\ \A d \in QuotaCaller : checked'[d] # NoCheck => checked'[d] = checked[d]
    BY <1>0, <2>1
  <2>6. usage' = [usage EXCEPT ![p][r] = k]
    BY <2>1
  <2>7. QED
    BY <2>1, <2>3, <2>4, <2>5, <2>6, CounterSet
<1>6. ASSUME reset_epoch_counters PROVE QuotaInv'
  <2>1. /\ usage' = [p \in Registered |-> [usage[p] EXCEPT !["Cpu"] = 0, !["Ipc"] = 0]]
        /\ excused' = {e \in excused : e[2] \notin {"Cpu", "Ipc"}} /\ checked' = checked
    BY <1>6 DEF reset_epoch_counters
  <2>2. Registered' = Registered
    BY <2>1 DEF Registered
  <2>3. ASSUME NEW p \in Registered
        PROVE  /\ usage'[p] \in [ResourceKind -> Nat]
               /\ \A r \in ResourceKind :
                    usage'[p][r] = IF r \in {"Cpu", "Ipc"} THEN 0 ELSE usage[p][r]
    BY <1>0, <2>1
  <2>4. usage' \in [Registered -> [ResourceKind -> Nat]]
    BY <2>1, <2>3
  <2>5. ASSUME NEW p \in Registered, NEW r \in ResourceKind, usage'[p][r] > QuotaMax
        PROVE  <<p, r>> \in excused'
    <3>1. r \notin {"Cpu", "Ipc"} /\ <<p, r>> \in excused
      BY <1>0, <2>3, <2>5 DEF QuotaInv
    <3>2. QED
      BY <2>1, <3>1
  <2>6. \A c \in QuotaCaller : checked'[c] # NoCheck => CheckedSound(Registered', checked'[c])
    BY <2>1, <2>2 DEF QuotaInv, CheckedSound
  <2>7. QED
    BY <1>0, <2>1, <2>2, <2>4, <2>5, <2>6 DEF QuotaInv
<1>7. CASE QuotaNext
  <2>1. UseAmount \subseteq Nat /\ 1 \in Nat /\ {"Cpu", "Memory", "Ipc"} \subseteq ResourceKind
    BY QuotaAmounts, QuotaWidths DEF ResourceKind
  <2>2. QED
    BY <1>2, <1>3, <1>4, <1>5, <1>6, <1>7, <2>1
      DEF QuotaNext, check_and_record_cpu, check_and_record_memory, check_and_record_ipc
<1>8. CASE MigrationNext
  BY <1>1, <1>8 DEF MigrationNext, migration_begin, advance, abort, Tick
<1>9. CASE UNCHANGED quotaVars
  BY <1>1, <1>9 DEF quotaVars
<1>10. QED
  BY <1>7, <1>8, <1>9

-----------------------------------------------------------------------------
(* Migration. *)

Unfinished == {"Serializing", "PausingComms", "TransferringRegions", "UpdatingEdges",
               "UpdatingGraph", "Verifying", "Resuming"}

MigrationInv ==
  /\ migration \in [state : Unfinished \cup {"None", "Complete", "Aborted"},
                    start_ns : {migration.start_ns}]
  /\ MoveWitnessedOnce

\* After a phase that is not the last comes another phase.
LEMMA NextPhase ==
  ASSUME NEW s \in Unfinished
  PROVE  next_phase(s) \in Unfinished \cup {"Complete"}
<1> DEFINE i == CHOOSE i \in DOMAIN Phases : Phases[i] = s
<1>1. DOMAIN Phases = 1 .. 8
  BY DEF Phases
<1>2. \E j \in 1 .. 8 : Phases[j] = s
  BY DEF Phases, Unfinished
<1>3. i \in 1 .. 8 /\ Phases[i] = s
  BY <1>1, <1>2
<1> HIDE DEF i
<1>4. i # 8
  BY <1>3 DEF Phases, Unfinished
<1>5. Phases[i + 1] \in Unfinished \cup {"Complete"}
  BY <1>3, <1>4 DEF Phases, Unfinished
<1>6. QED
  BY <1>5 DEF next_phase, i

LEMMA MigrationInitially == QuotaInit => MigrationInv
BY DEF QuotaInit, MigrationInv, MoveWitnessedOnce

LEMMA MigrationStep == MigrationInv /\ [QuotaNext \/ MigrationNext]_quotaVars => MigrationInv'
<1> SUFFICES ASSUME MigrationInv, [QuotaNext \/ MigrationNext]_quotaVars PROVE MigrationInv'
  OBVIOUS
<1>1. ASSUME UNCHANGED <<migration, moved>> PROVE MigrationInv'
  BY <1>1 DEF MigrationInv, MoveWitnessedOnce
<1>2. ASSUME NEW src, NEW dst, migration_begin(src, dst) PROVE MigrationInv'
  BY <1>2 DEF migration_begin, MigrationInv, MoveWitnessedOnce, Unfinished
<1>3. ASSUME advance \/ abort
      PROVE  migration.state \in Unfinished /\ moved = <<>>
  BY <1>3 DEF advance, abort, is_terminal, MigrationInv, MoveWitnessedOnce, Unfinished
<1>4. ASSUME abort PROVE MigrationInv'
  <2>1. moved' = <<"MigrationTimeout">> /\ migration' = [migration EXCEPT !.state = "Aborted"]
    <3>1. moved = <<>>
      BY <1>3, <1>4
    <3>2. moved' = Append(moved, "MigrationTimeout") /\ migration' = [migration EXCEPT !.state = "Aborted"]
      BY <1>4 DEF abort
    <3>3. QED
      BY <3>1, <3>2
  <2>2. QED
    BY <2>1 DEF MigrationInv, MoveWitnessedOnce
<1>5. ASSUME advance PROVE MigrationInv'
  <2> DEFINE next == next_phase(migration.state)
  <2>1. /\ migration' = [migration EXCEPT !.state = IF Late THEN "Aborted" ELSE next]
        /\ moved' = IF Late THEN Append(moved, "MigrationTimeout")
                    ELSE IF next = "Complete" THEN Append(moved, "PartitionMigrate") ELSE moved
    BY <1>5, Zenon DEF advance
  <2>2. next \in Unfinished \cup {"Complete"}
    BY <1>3, <1>5, NextPhase
  <2> HIDE DEF next
  <2>3. CASE Late
    BY <1>3, <1>5, <2>1, <2>3 DEF MigrationInv, MoveWitnessedOnce
  <2>4. CASE ~Late /\ next = "Complete"
    BY <1>3, <1>5, <2>1, <2>4 DEF MigrationInv, MoveWitnessedOnce
  <2>5. CASE ~Late /\ next # "Complete"
    BY <1>3, <1>5, <2>1, <2>2, <2>5 DEF MigrationInv, MoveWitnessedOnce, Unfinished
  <2>6. QED
    BY <2>3, <2>4, <2>5
<1>6. CASE QuotaNext
  BY <1>1, <1>6 DEF QuotaNext, quota_register, check_and_record_ipc, check_and_record_cpu,
    check_and_record_memory, CheckAndRecord, check_quota, record_usage, reset_epoch_counters
<1>7. CASE MigrationNext
  BY <1>1, <1>2, <1>4, <1>5, <1>7 DEF MigrationNext, Tick
<1>8. CASE UNCHANGED quotaVars
  BY <1>1, <1>8 DEF quotaVars
<1>9. QED
  BY <1>6, <1>7, <1>8

(* Accounts are exact: a book charges what it granted and what a refused launch left,
   never more than its limit; a partition is over a quota only by a stale check or a
   wrapped sum; and a move is witnessed once (budget.rs, quota.rs, migration.rs). *)
THEOREM AccountsHold == BudgetSpec /\ QuotaSpec => []QuotasHold
<1>1. BudgetInv /\ QuotaInv /\ MigrationInv => QuotasHold
  BY DEF QuotasHold, BudgetInv, QuotaInv, MigrationInv, OverOnlyByStaleCheck, enforce_quota
<1>2. BudgetSpec => []BudgetInv
  BY BudgetInitially, BudgetStep, PTL DEF BudgetSpec
<1>3. QuotaSpec => []QuotaInv
  BY QuotaInitially, QuotaStep, PTL DEF QuotaSpec
<1>4. QuotaSpec => []MigrationInv
  BY MigrationInitially, MigrationStep, PTL DEF QuotaSpec
<1>5. QED
  BY <1>1, <1>2, <1>3, <1>4, PTL

-----------------------------------------------------------------------------
(* Regions.  Slots are numbers, and the first of some is one of them. *)

LEMMA FirstSlot ==
  ASSUME NEW n \in Nat, NEW S \in SUBSET (1 .. n), S # {}
  PROVE  Min(S) \in S
<1>1. S \in SUBSET Nat
  OBVIOUS
<1>2. \E m \in S : \A x \in S : m <= x
  BY <1>1, LeastNatural
<1> QED BY <1>2 DEF Min

Region ==
  [id : Nat, owner : RegionOwner, guest_base : Nat, host_base : Nat, page_count : Nat \ {0}]

RegionsTyped ==
  /\ regions \in [RegionSlot -> {Empty} \cup Region]
  /\ next_id \in Nat

\* Guest pages within a partition, and host pages of all, are no two regions'.
Apart ==
  \A i, j \in Occupied : i # j => ~ SharesGuest(regions[i], regions[j])
                                  /\ ~ SharesHost(regions[i], regions[j])

RegionsInv == RegionsTyped /\ Apart

LEMMA RegionNotEmpty == Empty \notin Region
<1> SUFFICES ASSUME Empty \in Region PROVE FALSE
  OBVIOUS
<1>1. DOMAIN Empty = {"id"}
  BY DEF Empty
<1>2. "owner" \in DOMAIN Empty
  BY DEF Region
<1> QED BY <1>1, <1>2

LEMMA OccupiedRegion ==
  ASSUME RegionsTyped, NEW i \in Occupied
  PROVE  i \in RegionSlot /\ regions[i] \in Region
BY DEF RegionsTyped, Occupied

\* Sharing pages is mutual.
LEMMA SharingMutual ==
  ASSUME NEW r \in Region, NEW s \in Region
  PROVE  /\ SharesGuest(r, s) <=> SharesGuest(s, r)
         /\ SharesHost(r, s) <=> SharesHost(s, r)
BY DEF Region, SharesGuest, SharesHost, Overlap

\* A region that fits is put into a slot of its own.
LEMMA CreatedKeeps ==
  ASSUME RegionsInv, NEW r \in Region, RegionFits(r), regions' = Created(r), next_id' \in Nat
  PROVE  RegionsInv'
<1>1. RegionSlot \ Occupied # {}
  <2> SUFFICES ASSUME RegionSlot \subseteq Occupied PROVE FALSE
    OBVIOUS
  <2>1. Occupied = 1 .. MaxRegions
    BY DEF Occupied, RegionSlot
  <2>2. 1 \in Int /\ MaxRegions \in Int /\ MaxRegions \in Nat
    BY RegionAssumption
  <2>3. Cardinality(1 .. MaxRegions) = IF 1 > MaxRegions THEN 0 ELSE MaxRegions - 1 + 1
    BY <2>2, FS_Interval
  <2>4. Cardinality(Occupied) = MaxRegions
    BY <2>1, <2>2, <2>3
  <2> QED BY <2>2, <2>4 DEF RegionFits
<1> DEFINE new == Min(RegionSlot \ Occupied)
<1>2. new \in RegionSlot \ Occupied
  BY <1>1, FirstSlot, RegionAssumption DEF RegionSlot
<1> HIDE DEF new
<1>3. regions' = [regions EXCEPT ![new] = r]
  BY DEF Created, new
<1>4. RegionsTyped'
  BY <1>2, <1>3 DEF RegionsInv, RegionsTyped
<1>5. /\ Occupied' = Occupied \cup {new} /\ regions'[new] = r
      /\ \A i \in Occupied : i # new /\ regions'[i] = regions[i]
  BY <1>2, <1>3, RegionNotEmpty DEF RegionsInv, RegionsTyped, Occupied
<1>6. ASSUME NEW i \in Occupied
      PROVE  /\ ~ SharesGuest(r, regions[i]) /\ ~ SharesHost(r, regions[i])
             /\ ~ SharesGuest(regions[i], r) /\ ~ SharesHost(regions[i], r)
  BY OccupiedRegion, SharingMutual DEF RegionFits, RegionsInv
<1>7. Apart'
  BY <1>5, <1>6 DEF RegionsInv, Apart
<1> QED BY <1>4, <1>7 DEF RegionsInv

LEMMA RegionsInitially == RegionsInit => RegionsInv
BY DEF RegionsInit, RegionsInv, RegionsTyped, Apart, Occupied

LEMMA ConfigIsRegion ==
  ASSUME NEW r \in Config
  PROVE  r \in Region /\ \A n \in Nat : [r EXCEPT !.id = n] \in Region
BY RegionAssumption DEF Config, Region

LEMMA RegionsStep == RegionsInv /\ [RegionsNext]_regionVars => RegionsInv'
<1> SUFFICES ASSUME RegionsInv, [RegionsNext]_regionVars PROVE RegionsInv'
  OBVIOUS
<1> USE DEF RegionsInv
<1>1. ASSUME NEW r \in Config, create(r) PROVE RegionsInv'
  BY <1>1, ConfigIsRegion, CreatedKeeps DEF create, RegionsTyped
<1>2. ASSUME NEW r \in Config, create_auto_id(r) PROVE RegionsInv'
  <2> DEFINE s == [r EXCEPT !.id = next_id]
  <2>1. s \in Region /\ next_id' \in Nat
    BY <1>2, ConfigIsRegion DEF create_auto_id, RegionsTyped
  <2>2. RegionFits(r) <=> RegionFits(s)
    BY ConfigIsRegion DEF RegionFits, SharesGuest, SharesHost, Region
  <2>3. CASE RegionFits(r)
    BY <1>2, <2>1, <2>2, <2>3, CreatedKeeps DEF create_auto_id
  <2>4. CASE ~ RegionFits(r)
    BY <1>2, <2>1, <2>4 DEF create_auto_id, RegionsTyped, Apart, Occupied
  <2> QED BY <2>3, <2>4
<1>3. ASSUME NEW id, destroy(id) PROVE RegionsInv'
  <2> DEFINE gone == Min(WithId(id))
  <2>1. regions' = [regions EXCEPT ![gone] = Empty] /\ next_id' = next_id
    BY <1>3 DEF destroy
  <2>2. Occupied' \subseteq Occupied /\ \A i \in Occupied' : regions'[i] = regions[i]
    BY <2>1 DEF RegionsTyped, Occupied
  <2> QED BY <2>1, <2>2 DEF RegionsTyped, Apart
<1>4. ASSUME NEW id, NEW p \in RegionOwner, transfer(id, p) PROVE RegionsInv'
  <2> DEFINE idx == Min(WithId(id))
             given == [regions[idx] EXCEPT !.owner = p]
  <2>1. idx \in Occupied
    <3>1. WithId(id) \in SUBSET (1 .. MaxRegions) /\ WithId(id) # {}
      BY <1>4 DEF WithId, Occupied, RegionSlot, transfer
    <3> QED BY <3>1, FirstSlot, RegionAssumption DEF WithId
  <2>2. /\ regions' = [regions EXCEPT ![idx] = given] /\ next_id' = next_id
        /\ \A i \in Occupied \ {idx} : ~ SharesGuest(given, regions[i])
    BY <1>4 DEF transfer
  <2> HIDE DEF idx
  <2>3. regions[idx] \in Region /\ given \in Region
    BY <2>1, OccupiedRegion DEF Region
  <2>4. \A s \in Region : /\ SharesHost(given, s) <=> SharesHost(regions[idx], s)
                          /\ SharesHost(s, given) <=> SharesHost(s, regions[idx])
    BY <2>3 DEF SharesHost, Region
  <2> HIDE DEF given
  <2>5. /\ Occupied' = Occupied /\ regions'[idx] = given
        /\ \A i \in Occupied \ {idx} : regions'[i] = regions[i]
    BY <2>1, <2>2, <2>3, RegionNotEmpty DEF RegionsTyped, Occupied
  <2>6. RegionsTyped'
    BY <2>1, <2>2, <2>3 DEF RegionsTyped
  <2>7. ASSUME NEW i \in Occupied \ {idx}
        PROVE  /\ ~ SharesGuest(given, regions[i]) /\ ~ SharesGuest(regions[i], given)
               /\ ~ SharesHost(given, regions[i]) /\ ~ SharesHost(regions[i], given)
    BY <2>1, <2>2, <2>3, <2>4, OccupiedRegion, SharingMutual DEF Apart
  <2>8. Apart'
    BY <2>5, <2>7 DEF Apart
  <2> QED BY <2>6, <2>8
<1>5. CASE UNCHANGED regionVars
  BY <1>5 DEF regionVars, RegionsTyped, Apart, Occupied
<1> QED BY <1>1, <1>2, <1>3, <1>4, <1>5 DEF RegionsNext

\* Two regions that translate a page to the same one are one.
LEMMA RegionsIsolate == RegionsInv => Isolation
<1> SUFFICES ASSUME RegionsInv PROVE Isolation
  OBVIOUS
<1> USE DEF RegionsInv
<1> DEFINE pages == UNION {Mapped(regions[i]) : i \in Occupied}
           Mine(p, g) == {j \in Occupied : regions[j].owner = p /\ g \in Mapped(regions[j])}
           host(i, g) == regions[i].host_base + (g - regions[i].guest_base)
<1>1. pages \subseteq Nat
  <2>1. ASSUME NEW i \in Occupied PROVE Mapped(regions[i]) \subseteq Nat
    BY OccupiedRegion DEF Mapped, Region
  <2> QED BY <2>1
<1>2. \A p, g : translate(p, g) = {host(i, g) : i \in Mine(p, g)}
  BY DEF translate
<1> HIDE DEF pages
<1>3. ASSUME NEW p \in RegionOwner, NEW g \in pages PROVE Cardinality(translate(p, g)) <= 1
  <2>1. ASSUME NEW i \in Mine(p, g), NEW j \in Mine(p, g) PROVE i = j
    <3>1. regions[i] \in Region /\ regions[j] \in Region /\ g \in Nat
      BY <1>1, OccupiedRegion
    <3>2. SharesGuest(regions[i], regions[j])
      BY <3>1 DEF SharesGuest, Overlap, Mapped, Region
    <3> QED BY <3>2 DEF Apart
  <2>2. CASE Mine(p, g) = {}
    <3>1. translate(p, g) = {}
      BY <1>2, <2>2
    <3> QED BY <3>1, FS_EmptySet
  <2>3. CASE Mine(p, g) # {}
    <3>1. PICK i \in Mine(p, g) : TRUE
      BY <2>3
    <3>2. Mine(p, g) = {i}
      BY <2>1, <3>1
    <3> HIDE DEF Mine, host
    <3>3. translate(p, g) = {host(i, g)}
      BY <1>2, <3>2
    <3>4. Cardinality({host(i, g)}) = 1
      BY FS_Singleton
    <3> QED BY <3>3, <3>4
  <2> QED BY <2>2, <2>3
<1>4. ASSUME NEW p \in RegionOwner, NEW q \in RegionOwner, NEW g \in pages, NEW h \in pages,
             translate(p, g) \cap translate(q, h) # {}
      PROVE  p = q /\ g = h
  <2>1. PICK i \in Mine(p, g), j \in Mine(q, h) : host(i, g) = host(j, h)
    BY <1>2, <1>4
  <2>2. regions[i] \in Region /\ regions[j] \in Region /\ g \in Nat /\ h \in Nat
    BY <1>1, OccupiedRegion
  <2>3. SharesHost(regions[i], regions[j])
    BY <2>1, <2>2 DEF SharesHost, Overlap, Mapped, Region
  <2>4. i = j
    BY <2>3 DEF Apart
  <2> QED BY <2>1, <2>2, <2>4 DEF Region
<1> QED BY <1>3, <1>4 DEF Isolation, pages

(* Whatever regions are created with whatever ids, given away and destroyed, a guest   *)
(* page has one host page at most and no two guest pages share one                     *)
(* (rvm-memory: region.rs).                                                            *)
THEOREM IsolationHolds == RegionsSpec => []Isolation
<1>1. RegionsSpec => []RegionsInv
  BY RegionsInitially, RegionsStep, PTL DEF RegionsSpec
<1> QED BY <1>1, RegionsIsolate, PTL

-----------------------------------------------------------------------------
(* Tiers. *)

Score == 0 .. MaxScore
TierState ==
  [region_id : RegionId, tier : Tier, last_access_epoch : Nat, cut_value : Score,
   recency_score : Score]

\* An id is in one slot only.
TiersInv ==
  /\ tiers \in [TierSlot -> {Untracked} \cup TierState] /\ current_epoch \in Nat
  /\ \A i, j \in Tracked : tiers[i].region_id = tiers[j].region_id => i = j

LEMMA TierStateTracked == Untracked \notin TierState
<1> SUFFICES ASSUME Untracked \in TierState PROVE FALSE
  OBVIOUS
<1>1. DOMAIN Untracked = {"region_id"}
  BY DEF Untracked
<1>2. "tier" \in DOMAIN Untracked
  BY DEF TierState
<1> QED BY <1>1, <1>2

LEMMA SmallerOf ==
  ASSUME NEW a \in Int, NEW b \in Int
  PROVE  Min({a, b}) = IF a <= b THEN a ELSE b
<1> DEFINE m == IF a <= b THEN a ELSE b
<1>1. m \in {a, b} /\ \A y \in {a, b} : m <= y
  OBVIOUS
<1>2. \A x \in {a, b} : (\A y \in {a, b} : x <= y) => x = m
  OBVIOUS
<1> HIDE DEF m
<1>3. (CHOOSE x \in {a, b} : \A y \in {a, b} : x <= y) = m
  BY <1>1, <1>2
<1>4. Min({a, b}) = m
  BY <1>3 DEF Min
<1> QED BY <1>4 DEF m

LEMMA LargerOf ==
  ASSUME NEW a \in Int, NEW b \in Int
  PROVE  Max({a, b}) = IF a >= b THEN a ELSE b
<1> DEFINE m == IF a >= b THEN a ELSE b
<1>1. m \in {a, b} /\ \A y \in {a, b} : m >= y
  OBVIOUS
<1>2. \A x \in {a, b} : (\A y \in {a, b} : x >= y) => x = m
  OBVIOUS
<1> HIDE DEF m
<1>3. (CHOOSE x \in {a, b} : \A y \in {a, b} : x >= y) = m
  BY <1>1, <1>2
<1>4. Max({a, b}) = m
  BY <1>3 DEF Max
<1> QED BY <1>4 DEF m

LEMMA Clamps ==
  ASSUME NEW n \in Nat
  PROVE  Clamp(n) \in Score
<1>1. Clamp(n) = IF n <= MaxScore THEN n ELSE MaxScore
  BY RegionAssumption, SmallerOf DEF Clamp
<1> QED BY <1>1, RegionAssumption DEF Score

LEMMA Decays ==
  ASSUME NEW n \in Score, NEW amount \in Nat
  PROVE  Max({n - amount, 0}) \in Score
<1>1. n \in 0 .. MaxScore /\ MaxScore \in Nat /\ n - amount \in Int
  BY RegionAssumption DEF Score
<1> DEFINE rest == n - amount
<1>2. Max({rest, 0}) = IF rest >= 0 THEN rest ELSE 0
  <2> HIDE DEF rest
  <2> QED BY <1>1, LargerOf DEF rest
<1> QED BY <1>1, <1>2 DEF Score

\* A step that keeps every tracked slot and its id.
LEMMA SlotsKept ==
  ASSUME TiersInv, NEW f, tiers' = [i \in TierSlot |-> IF i \in Tracked THEN f[i] ELSE tiers[i]],
         \A i \in Tracked : f[i] \in TierState /\ f[i].region_id = tiers[i].region_id,
         current_epoch' \in Nat
  PROVE  TiersInv' /\ Tracked' = Tracked
<1>1. tiers' \in [TierSlot -> {Untracked} \cup TierState]
  BY DEF TiersInv, Tracked
<1>2. Tracked' = Tracked /\ \A i \in Tracked : tiers'[i] = f[i]
  BY TierStateTracked DEF TiersInv, Tracked
<1> QED BY <1>1, <1>2 DEF TiersInv

LEMMA OneSlotKept ==
  ASSUME TiersInv, NEW i \in Tracked, NEW r \in TierState, r.region_id = tiers[i].region_id,
         tiers' = [tiers EXCEPT ![i] = r], UNCHANGED current_epoch
  PROVE  TiersInv' /\ Tracked' = Tracked /\ tiers'[i] = r
<1> DEFINE f == [j \in Tracked |-> IF j = i THEN r ELSE tiers[j]]
<1>1. Tracked \subseteq TierSlot /\ \A j \in Tracked : tiers[j] \in TierState
  BY DEF TiersInv, Tracked
<1>2. tiers' = [j \in TierSlot |-> IF j \in Tracked THEN f[j] ELSE tiers[j]]
  BY <1>1 DEF TiersInv
<1>3. \A j \in Tracked : f[j] \in TierState /\ f[j].region_id = tiers[j].region_id
  BY <1>1
<1>4. current_epoch' \in Nat
  BY DEF TiersInv
<1> HIDE DEF f
<1>5. TiersInv' /\ Tracked' = Tracked
  BY <1>2, <1>3, <1>4, SlotsKept
<1> QED BY <1>1, <1>5 DEF TiersInv

LEMMA TiersInitially == TiersInit => TiersInv
BY DEF TiersInit, TiersInv, Tracked

\* Only a promotion raises a tier, from a tier that is not Cold, to one whose score it has.
Raised(i) ==
  /\ tiers[i].tier # Cold
  /\ residency_score(tiers'[i]) >= promotion_threshold(tiers'[i].tier)
TiersMove ==
  /\ TiersInv'
  /\ \A i \in Tracked \cap Tracked' : tiers'[i].tier < tiers[i].tier => Raised(i)

LEMMA TiersStep == TiersInv /\ [TiersNext]_tierVars => TiersMove
<1> SUFFICES ASSUME TiersInv, [TiersNext]_tierVars PROVE TiersMove
  OBVIOUS
<1> USE RegionAssumption
<1>0. /\ Tracked \subseteq TierSlot /\ \A j \in Tracked : tiers[j] \in TierState /\ tiers[j].tier \in Nat
      /\ current_epoch \in Nat
  BY DEF TiersInv, Tracked, TierState, Tier, Hot, Cold
<1>1. CASE advance_epoch
  <2>1. current_epoch' \in Nat
    <3>1. current_epoch' = IF current_epoch + 1 <= MaxEpoch THEN current_epoch + 1 ELSE MaxEpoch
      BY <1>0, <1>1, SmallerOf DEF advance_epoch
    <3> QED BY <1>0, <3>1
  <2>2. TiersInv'
    BY <1>1, <2>1 DEF advance_epoch, TiersInv, Tracked
  <2> QED BY <1>0, <1>1, <2>2 DEF advance_epoch, TiersMove
<1>2. ASSUME NEW id \in RegionId, NEW t \in Tier, register(id, t) PROVE TiersMove
  <2> DEFINE new == Min(TierSlot \ Tracked)
             r == [region_id |-> id, tier |-> t, last_access_epoch |-> current_epoch,
                   cut_value |-> 0, recency_score |-> Midpoint]
  <2>1. TierSlot \ Tracked # {}
    <3> SUFFICES ASSUME TierSlot \subseteq Tracked PROVE FALSE
      OBVIOUS
    <3>1. Tracked = 1 .. MaxTiered
      BY <1>0 DEF TierSlot
    <3>2. Cardinality(1 .. MaxTiered) = MaxTiered
      <4>1. 1 \in Int /\ MaxTiered \in Int
        BY RegionAssumption
      <4>2. Cardinality(1 .. MaxTiered) = IF 1 > MaxTiered THEN 0 ELSE MaxTiered - 1 + 1
        BY <4>1, FS_Interval
      <4> QED BY <4>2, RegionAssumption
    <3> QED BY <1>2, <3>1, <3>2 DEF register
  <2>2. new \in TierSlot \ Tracked
    BY <2>1, FirstSlot DEF TierSlot
  <2>3. tiers' = [tiers EXCEPT ![new] = r] /\ current_epoch' = current_epoch
    BY <1>2 DEF register
  <2>4. \A i \in Tracked : tiers[i].region_id # id
    BY <1>2 DEF register, TierSlotOf
  <2>5. r \in TierState
    BY <1>0 DEF TierState, Score
  <2> HIDE DEF new, r
  <2>6. /\ Tracked' = Tracked \cup {new} /\ tiers'[new] = r
        /\ \A i \in Tracked : i # new /\ tiers'[i] = tiers[i]
    BY <2>2, <2>3, <2>5, TierStateTracked DEF TiersInv, Tracked
  <2>7. r.region_id = id
    BY DEF r
  <2>8. TiersInv'
    BY <2>2, <2>3, <2>4, <2>5, <2>6, <2>7 DEF TiersInv
  <2> QED BY <1>0, <2>2, <2>6, <2>8 DEF TiersMove
<1>3. ASSUME NEW id, unregister(id) PROVE TiersMove
  <2>1. PICK i \in TierSlotOf(id) : tiers' = [tiers EXCEPT ![i] = Untracked] /\ UNCHANGED current_epoch
    BY <1>3 DEF unregister
  <2>2. Tracked' \subseteq Tracked /\ \A j \in Tracked' : tiers'[j] = tiers[j]
    BY <2>1 DEF TiersInv, Tracked
  <2>3. TiersInv'
    BY <2>1, <2>2 DEF TiersInv
  <2> QED BY <1>0, <2>2, <2>3 DEF TiersMove
<1>4. ASSUME NEW id, record_access(id) PROVE TiersMove
  <2>1. PICK i \in Tracked : /\ tiers' = [tiers EXCEPT ![i].last_access_epoch = current_epoch,
                                                       ![i].recency_score = Clamp(@ + Boost)]
                             /\ UNCHANGED current_epoch
    BY <1>4 DEF record_access, TierSlotOf
  <2>2. PICK n : n = Clamp(tiers[i].recency_score + Boost)
    OBVIOUS
  <2>3. n \in Score
    BY <1>0, <2>2, Clamps DEF TierState, Score
  <2>4. PICK r : r = [tiers[i] EXCEPT !.last_access_epoch = current_epoch, !.recency_score = n]
    OBVIOUS
  <2>5. tiers' = [tiers EXCEPT ![i] = r]
    BY <1>0, <2>1, <2>2, <2>4 DEF TiersInv, TierState
  <2>6. r \in TierState /\ r.region_id = tiers[i].region_id /\ r.tier = tiers[i].tier
    BY <1>0, <2>3, <2>4 DEF TierState
  <2>7. TiersInv' /\ tiers'[i] = r
    BY <2>1, <2>5, <2>6, OneSlotKept
  <2>8. \A j \in TierSlot \ {i} : tiers'[j] = tiers[j]
    BY <2>5 DEF TiersInv
  <2> QED BY <1>0, <2>6, <2>7, <2>8 DEF TiersMove
<1>5. ASSUME NEW id, NEW cut \in Nat, update_cut_value(id, cut) PROVE TiersMove
  <2>1. PICK i \in Tracked : /\ tiers' = [tiers EXCEPT ![i].cut_value = Clamp(cut)]
                             /\ UNCHANGED current_epoch
    BY <1>5 DEF update_cut_value, TierSlotOf
  <2>2. PICK r : r = [tiers[i] EXCEPT !.cut_value = Clamp(cut)]
    OBVIOUS
  <2>3. tiers' = [tiers EXCEPT ![i] = r]
    BY <2>1, <2>2
  <2>4. r \in TierState /\ r.region_id = tiers[i].region_id /\ r.tier = tiers[i].tier
    BY <1>0, <2>2, Clamps DEF TierState
  <2>5. TiersInv' /\ tiers'[i] = r
    BY <2>1, <2>3, <2>4, OneSlotKept
  <2>6. \A j \in TierSlot \ {i} : tiers'[j] = tiers[j]
    BY <2>3 DEF TiersInv
  <2> QED BY <1>0, <2>4, <2>5, <2>6 DEF TiersMove
<1>6. ASSUME NEW id, NEW t \in Tier, promote(id, t) PROVE TiersMove
  <2>1. PICK i \in Tracked : /\ t < tiers[i].tier /\ tiers[i].tier # Cold
                             /\ residency_score(tiers[i]) >= promotion_threshold(t)
                             /\ tiers' = [tiers EXCEPT ![i].tier = t, ![i].last_access_epoch = current_epoch]
                             /\ UNCHANGED current_epoch
    BY <1>6 DEF promote, TierSlotOf
  <2>2. PICK r : r = [tiers[i] EXCEPT !.tier = t, !.last_access_epoch = current_epoch]
    OBVIOUS
  <2>3. tiers' = [tiers EXCEPT ![i] = r]
    BY <1>0, <2>1, <2>2 DEF TiersInv, TierState
  <2>4. /\ r \in TierState /\ r.region_id = tiers[i].region_id /\ r.tier = t
        /\ residency_score(r) = residency_score(tiers[i])
    BY <1>0, <2>2 DEF TierState, residency_score
  <2>5. TiersInv' /\ tiers'[i] = r
    BY <2>1, <2>3, <2>4, OneSlotKept
  <2>6. \A j \in TierSlot \ {i} : tiers'[j] = tiers[j]
    BY <2>3 DEF TiersInv
  <2>7. Raised(i)
    BY <2>1, <2>4, <2>5 DEF Raised
  <2> QED BY <1>0, <2>5, <2>6, <2>7 DEF TiersMove
<1>7. ASSUME NEW id, NEW t \in Tier, demote(id, t) PROVE TiersMove
  <2>1. PICK i \in Tracked : /\ t > tiers[i].tier /\ tiers' = [tiers EXCEPT ![i].tier = t]
                             /\ UNCHANGED current_epoch
    BY <1>7 DEF demote, TierSlotOf
  <2>2. PICK r : r = [tiers[i] EXCEPT !.tier = t]
    OBVIOUS
  <2>3. tiers' = [tiers EXCEPT ![i] = r]
    BY <2>1, <2>2
  <2>4. r \in TierState /\ r.region_id = tiers[i].region_id /\ r.tier = t
    BY <1>0, <2>2 DEF TierState
  <2>5. TiersInv' /\ tiers'[i] = r
    BY <2>1, <2>3, <2>4, OneSlotKept
  <2>6. \A j \in TierSlot \ {i} : tiers'[j] = tiers[j]
    BY <2>3 DEF TiersInv
  <2>7. ~ (t < tiers[i].tier)
    BY <1>0, <2>1 DEF Tier, Hot, Cold
  <2> QED BY <1>0, <2>4, <2>5, <2>6, <2>7 DEF TiersMove
<1>8. ASSUME NEW amount \in DecayAmount, decay_recency(amount) PROVE TiersMove
  <2> DEFINE f == [i \in Tracked |-> [tiers[i] EXCEPT !.recency_score = Max({@ - amount, 0})]]
  <2>1. /\ tiers' = [i \in TierSlot |-> IF i \in Tracked THEN f[i] ELSE tiers[i]]
        /\ current_epoch' = current_epoch
    BY <1>8 DEF decay_recency
  <2>2. ASSUME NEW i \in Tracked
        PROVE  f[i] \in TierState /\ f[i].region_id = tiers[i].region_id /\ f[i].tier = tiers[i].tier
    <3>1. PICK n : n = Max({tiers[i].recency_score - amount, 0})
      OBVIOUS
    <3>2. n \in Score
      BY <1>0, <3>1, Decays DEF TierState
    <3>3. f[i] = [tiers[i] EXCEPT !.recency_score = n]
      BY <3>1
    <3> QED BY <1>0, <3>2, <3>3 DEF TierState
  <2> HIDE DEF f
  <2>3. TiersInv' /\ Tracked' = Tracked
    BY <1>0, <2>1, <2>2, SlotsKept
  <2>4. \A i \in Tracked : tiers'[i].tier = tiers[i].tier
    BY <1>0, <2>1, <2>2
  <2> QED BY <1>0, <2>3, <2>4 DEF TiersMove
<1>9. CASE UNCHANGED tierVars
  <2>1. TiersInv'
    BY <1>9 DEF tierVars, TiersInv, Tracked
  <2> QED BY <1>0, <1>9, <2>1 DEF tierVars, TiersMove
<1>10. \A cut \in {0, MaxScore + 1} : cut \in Nat
  OBVIOUS
<1> QED BY <1>1, <1>2, <1>3, <1>4, <1>5, <1>6, <1>7, <1>8, <1>9, <1>10 DEF TiersNext

\* A score that lets a region into a tier is not below the one that puts it out.
Settled ==
  \A i \in Tracked : residency_score(tiers[i]) >= promotion_threshold(tiers[i].tier) =>
    \A c \in find_demotion_candidates(MaxTiered) : c[1] # tiers[i].region_id

LEMMA PromotedIsSettled == TiersInv => Settled
<1> SUFFICES ASSUME TiersInv, NEW i \in Tracked,
                    residency_score(tiers[i]) >= promotion_threshold(tiers[i].tier),
                    NEW c \in find_demotion_candidates(MaxTiered)
             PROVE  c[1] # tiers[i].region_id
  BY DEF Settled
<1>1. tiers[i] \in TierState
  BY DEF TiersInv, Tracked
<1>2. residency_score(tiers[i]) \in Nat /\ residency_score(tiers[i]) <= 2 * MaxScore
  BY <1>1, RegionAssumption DEF TierState, Score, residency_score
<1>3. tiers[i].tier \in {Hot, Warm}
  BY <1>1, <1>2, RegionAssumption DEF TierState, promotion_threshold, Tier, Hot, Warm, Cold
<1>4. ~ (residency_score(tiers[i]) < demotion_threshold(tiers[i].tier))
  BY <1>2, <1>3, RegionAssumption DEF promotion_threshold, demotion_threshold, Hot, Warm, Dormant
<1>5. PICK j \in Tracked : /\ residency_score(tiers[j]) < demotion_threshold(tiers[j].tier)
                           /\ c = <<tiers[j].region_id, tiers[j].tier + 1>>
  BY DEF find_demotion_candidates
<1>6. i # j
  BY <1>4, <1>5
<1> QED BY <1>5, <1>6 DEF TiersInv

(* With any scores, boosts and decays, and thresholds with a gap between them: a       *)
(* promoted region is not proposed for demotion in the same state, and nothing is      *)
(* promoted out of Cold (rvm-memory: tier.rs).                                         *)
THEOREM NoThrashHolds == TiersSpec => NoThrash
<1>1. TiersInv /\ [TiersNext]_tierVars => TiersInv'
  BY TiersStep DEF TiersMove
<1>2. TiersInv /\ Settled' /\ [TiersNext]_tierVars =>
        \A i \in Tracked \cap Tracked' :
           tiers'[i].tier < tiers[i].tier =>
             /\ tiers[i].tier # Cold
             /\ \A c \in find_demotion_candidates(MaxTiered)' : c[1] # tiers'[i].region_id
  BY TiersStep DEF TiersMove, Raised, Settled
<1> QED BY <1>1, <1>2, TiersInitially, PromotedIsSettled, PTL DEF TiersSpec, NoThrash

=============================================================================
