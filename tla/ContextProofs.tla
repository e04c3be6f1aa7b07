--------------------------- MODULE ContextProofs ---------------------------
(***************************************************************************)
(* Proofs about the witness log, the receipts made of it and the context   *)
(* store above it.                                                         *)
(*                                                                         *)
(* For every capacity, every chain hash and every body: the witness ring   *)
(* keeps exactly the newest N records, each at the position its sequence   *)
(* number names, and whoever reads it gets those records, in order, as a   *)
(* chain that verifies.                                                    *)
(*                                                                         *)
(* For every ring capacity, threshold and hash: the runtime's state is the *)
(* one the store would resume from, the backlog of unsealed records obeys  *)
(* the drainer's bound, a seal that follows no failed one finds its whole  *)
(* epoch in the ring, and the store is a truthful account of the log.      *)
(*                                                                         *)
(* For every set of names, scopes and answers: the in-memory resolver is a *)
(* compare-and-swap register whose forgotten objects stay unreachable, the *)
(* capabilities attenuate and disclose nothing outside their scope, and    *)
(* the records of a page's requests account for what the page changed.     *)
(***************************************************************************)
EXTENDS MC_Context, WellFoundedInduction, FiniteSetTheorems, SequenceTheorems, TLAPS

-----------------------------------------------------------------------------
(* Arithmetic of ring positions. *)

(* Division with remainder, by a positive number. *)
LEMMA DivMod ==
  ASSUME NEW n \in Nat \ {0}, NEW a \in Nat
  PROVE  /\ a % n = a - n * (a \div n)
         /\ a % n \in 0 .. n - 1
         /\ a \div n \in Int
<1>1. a % n \in 0 .. n - 1
  BY SMT
<1>2. a \div n \in Int
  BY SMT
<1>3. a % n = a - n * (a \div n)
  BY SMT
<1> QED BY <1>1, <1>2, <1>3

(* Two sequence numbers less than n apart never share a ring position. *)
LEMMA ModWindow ==
  ASSUME NEW n \in Nat \ {0}, NEW a \in Nat, NEW b \in Nat, a < b, b - a < n
  PROVE  a % n # b % n
<1> DEFINE p == a \div n
           q == b \div n
           d == q - p
<1>1. a % n = a - n * p /\ b % n = b - n * q /\ p \in Int /\ q \in Int
  BY DivMod
<1>2. SUFFICES ASSUME a % n = b % n PROVE FALSE
  OBVIOUS
<1>3. a % n \in Int /\ b % n \in Int
  BY DivMod
<1>4. b - a = n * q - n * p
  <2> HIDE DEF p, q, d
  <2> QED BY <1>1, <1>2, <1>3, SMT
<1>5. n * q - n * p = n * d
  <2>1. n \in Int /\ p \in Int /\ q \in Int
    BY <1>1
  <2> HIDE DEF p, q
  <2> QED BY <2>1, SMT
<1>6. d \in Int
  BY <1>1
<1>7. d >= 1 => n * d >= n
  <2> HIDE DEF d
  <2> QED BY <1>6, SMT
<1>8. d <= 0 => n * d <= 0
  <2> HIDE DEF d
  <2> QED BY <1>6, SMT
<1>9. b - a = n * d
  BY <1>4, <1>5
<1> HIDE DEF d
<1> QED BY <1>6, <1>7, <1>8, <1>9, SMT

(* The remainder is determined by its range. *)
LEMMA ModUnique ==
  ASSUME NEW n \in Nat \ {0}, NEW x \in Nat, NEW k \in Int, NEW y \in 0 .. n - 1,
         x = n * k + y
  PROVE  x % n = y
<1> DEFINE p == x \div n
           z == x % n
           d == k - p
<1>1. z = x - n * p /\ z \in 0 .. n - 1 /\ p \in Int
  BY DivMod
<1>2. n * k - n * p = n * d
  <2> HIDE DEF p
  <2> QED BY <1>1, SMT
<1> HIDE DEF p, z
<1>3. z - y = n * d
  <2>1. n * k \in Int /\ n * p \in Int /\ n * d \in Int
    BY <1>1
  <2>2. z \in Int /\ y \in Int
    BY <1>1
  <2> QED BY <1>1, <1>2, <2>1, <2>2, SMT
<1>4. d \in Int
  BY <1>1
<1> HIDE DEF d
<1>5. d >= 1 => n * d >= n
  BY <1>4, SMT
<1>6. d <= 0 - 1 => n * d <= 0 - n
  BY <1>4, SMT
<1>7. d = 0
  BY <1>1, <1>3, <1>4, <1>5, <1>6, SMT
<1>8. z = y
  BY <1>1, <1>3, <1>7, SMT
<1> QED BY <1>8 DEF z

(* The write position moves with the sequence number. *)
LEMMA ModSucc ==
  ASSUME NEW n \in Nat \ {0}, NEW a \in Nat
  PROVE  (a + 1) % n = ((a % n) + 1) % n
<1> DEFINE p == a \div n
           r == a % n
<1>1. r = a - n * p /\ r \in 0 .. n - 1 /\ p \in Int
  BY DivMod
<1> HIDE DEF p, r
<1>2. CASE r + 1 < n
  <2>1. (r + 1) % n = r + 1
    BY <1>1, <1>2, SMT
  <2>2. a + 1 = n * p + (r + 1)
    BY <1>1, SMT
  <2>3. (a + 1) % n = r + 1
    <3>1. a + 1 \in Nat /\ r + 1 \in 0 .. n - 1 /\ p \in Int
      BY <1>1, <1>2, SMT
    <3> QED BY <2>2, <3>1, ModUnique
  <2> QED BY <2>1, <2>3 DEF r
<1>3. CASE r + 1 = n
  <2>1. (r + 1) % n = 0
    BY <1>3, SMT
  <2>2. a + 1 = n * (p + 1) + 0
    BY <1>1, <1>3, SMT
  <2>3. (a + 1) % n = 0
    <3>1. p + 1 \in Int /\ a + 1 \in Nat /\ 0 \in 0 .. n - 1
      BY <1>1
    <3> QED BY <2>2, <3>1, ModUnique
  <2> QED BY <2>1, <2>3 DEF r
<1> QED BY <1>1, <1>2, <1>3, SMT

(* Positions count from any position, and a whole turn changes nothing.    *)
LEMMA ModShift ==
  ASSUME NEW n \in Nat \ {0}, NEW a \in Nat, NEW b \in Nat
  PROVE  ((a % n) + b) % n = (a + b) % n /\ (a + n) % n = a % n
<1> DEFINE p == a \div n
           r == a % n
           c == r + b
           k == c \div n
           x == c % n
<1>1. r = a - n * p /\ r \in 0 .. n - 1 /\ p \in Int
  BY DivMod
<1>2. c \in Nat
  BY <1>1
<1>3. x = c - n * k /\ x \in 0 .. n - 1 /\ k \in Int
  BY <1>2, DivMod
<1>4. (a + b) % n = x
  <2> HIDE DEF p, r, k, x
  <2>1. a + b = n * (p + k) + x
    BY <1>1, <1>3, SMT
  <2>2. a + b \in Nat /\ p + k \in Int
    BY <1>1, <1>3
  <2> QED BY <1>3, <2>1, <2>2, ModUnique
<1>5. (a + n) % n = r
  <2> HIDE DEF p, r
  <2>1. a + n = n * (p + 1) + r
    BY <1>1, SMT
  <2>2. a + n \in Nat /\ p + 1 \in Int
    BY <1>1
  <2> QED BY <1>1, <2>1, <2>2, ModUnique
<1> QED BY <1>4, <1>5

-----------------------------------------------------------------------------
(* The invariant, of any log and the history of its records. *)

LogType ==
  [records : [0 .. N - 1 -> Record], write_pos : 0 .. N - 1,
   chain_hash : Hash, sequence : Nat, total_emitted : Nat]

Item == [record : Record, before : Hash]

\* The counters move together.
Counters(l, h) ==
  /\ Len(h) = l.sequence
  /\ l.total_emitted = l.sequence
  /\ l.write_pos = l.sequence % N

Newest(l, h) ==
  /\ \A s \in RetainedStart(l) .. l.sequence - 1 : l.records[s % N] = h[s + 1].record
  /\ \A s \in 0 .. l.sequence - 1 : h[s + 1].record.sequence = s

Ring(l, h) == l \in LogType /\ h \in Seq(Item) /\ Counters(l, h) /\ Newest(l, h)

(* A record prepared for an append is well typed and carries the next      *)
(* sequence number.                                                        *)
LEMMA ChainedType ==
  ASSUME NEW l \in LogType, l.sequence <= MaxSequence, NEW body \in Body
  PROVE  /\ Chained(l, body) \in Record
         /\ Chained(l, body).sequence = l.sequence
         /\ Signed(Chained(l, body)) \in Record
         /\ Signed(Chained(l, body)).sequence = l.sequence
<1>1. /\ Fold(l.chain_hash) \in Digest
      /\ Fold(ChainHash(l.chain_hash, l.sequence)) \in Digest
  BY HashAssumption, CapacityAssumption DEF LogType
<1>2. NoAux \in Signature \cup {NoAux}
  OBVIOUS
<1>3. Chained(l, body) \in Record /\ Chained(l, body).sequence = l.sequence
  BY <1>1, <1>2 DEF Chained, Record, LogType
<1>4. Covered(Chained(l, body)) \in Signature
  BY <1>3 DEF Covered, Signature, Record
<1> HIDE DEF NoAux
<1>5. /\ Signed(Chained(l, body)) \in Record
      /\ Signed(Chained(l, body)).sequence = l.sequence
  BY <1>3, <1>4 DEF Signed, Record
<1> QED BY <1>3, <1>5

(* The empty log satisfies the invariant (WitnessLog::new). *)
LEMMA NewRing == Ring(NewLog, <<>>)
<1>1. ZeroedRecord \in Record
  BY HashAssumption DEF ZeroedRecord, Record
<1>2. NewLog \in LogType
  BY <1>1, HashAssumption, CapacityAssumption DEF NewLog, LogType
<1>3. 0 % N = 0
  BY CapacityAssumption, SMT
<1>4. Counters(NewLog, <<>>)
  BY <1>3, CapacityAssumption DEF NewLog, Counters
<1>5. Newest(NewLog, <<>>)
  BY CapacityAssumption DEF NewLog, Newest, RetainedStart
<1> QED BY <1>2, <1>4, <1>5 DEF Ring

(* Appending a record preserves the invariant: it overwrites the one       *)
(* position that holds a record N sequence numbers old.                    *)
LEMMA StoredRing ==
  ASSUME NEW l, NEW h, Ring(l, h), l.sequence <= MaxSequence,
         NEW r \in Record, r.sequence = l.sequence
  PROVE  Ring(Stored(l, r), Append(h, Remembered(l, r)))
<1> DEFINE q == l.sequence
           m == Stored(l, r)
           g == Append(h, Remembered(l, r))
<1>0. /\ N \in Nat \ {0} /\ q \in Nat /\ MaxSequence \in Nat
      /\ l \in LogType /\ h \in Seq(Item) /\ Len(h) = q /\ l.write_pos = q % N
      /\ l.total_emitted = q
  BY CapacityAssumption DEF Ring, LogType, Counters
<1>1. g = Append(h, [record |-> r, before |-> l.chain_hash])
  BY DEF Remembered
<1>2. /\ m.records = [l.records EXCEPT ![l.write_pos] = r]
      /\ m.write_pos = (l.write_pos + 1) % N
      /\ m.chain_hash = ChainHash(l.chain_hash, q)
      /\ m.sequence = q + 1
      /\ m.total_emitted = l.total_emitted + 1
  BY DEF Stored
<1>3. (l.write_pos + 1) % N \in 0 .. N - 1
  <2>1. l.write_pos + 1 \in Nat
    BY <1>0 DEF LogType
  <2> QED BY <1>0, <2>1, DivMod
<1>4. ChainHash(l.chain_hash, q) \in Hash
  BY <1>0, HashAssumption DEF LogType
<1>5. [l.records EXCEPT ![l.write_pos] = r] \in [0 .. N - 1 -> Record]
  BY <1>0 DEF LogType
<1>6. m \in LogType
  BY <1>0, <1>3, <1>4, <1>5 DEF Stored, LogType
<1>7. [record |-> r, before |-> l.chain_hash] \in Item
  BY <1>0 DEF Item, LogType
<1>8. /\ g \in Seq(Item) /\ Len(g) = q + 1 /\ g[q + 1].record = r
      /\ \A s \in 0 .. q - 1 : g[s + 1] = h[s + 1]
  BY <1>0, <1>1, <1>7
<1> HIDE DEF m, g
<1>9. Counters(m, g)
  <2>1. (q + 1) % N = ((q % N) + 1) % N
    BY <1>0, ModSucc
  <2> QED BY <1>0, <1>2, <1>8, <2>1 DEF Counters
<1>10. \A s \in 0 .. m.sequence - 1 : g[s + 1].record.sequence = s
  <2>1. \A s \in 0 .. q - 1 : h[s + 1].record.sequence = s
    BY DEF Ring, Newest
  <2>2. ASSUME NEW s \in 0 .. q PROVE g[s + 1].record.sequence = s
    <3>1. s = q \/ s \in 0 .. q - 1
      BY <1>0
    <3> QED BY <1>8, <2>1, <3>1
  <2> QED BY <1>0, <1>2, <2>2
<1>11. ASSUME NEW s \in RetainedStart(m) .. m.sequence - 1
       PROVE  m.records[s % N] = g[s + 1].record
  <2>1. s \in Nat /\ s <= q /\ q - s < N
    BY <1>0, <1>2 DEF RetainedStart
  <2>2. s % N \in 0 .. N - 1 /\ q % N \in 0 .. N - 1
    BY <1>0, <2>1, DivMod
  <2>3. CASE s = q
    BY <1>0, <1>2, <1>8, <2>2, <2>3 DEF LogType
  <2>4. CASE s < q
    <3>1. s % N # q % N
      BY <1>0, <2>1, <2>4, ModWindow
    <3>2. s \in RetainedStart(l) .. l.sequence - 1
      BY <1>0, <1>2, <2>1, <2>4 DEF RetainedStart
    <3>3. m.records[s % N] = l.records[s % N]
      BY <1>0, <1>2, <2>2, <3>1 DEF LogType
    <3>4. l.records[s % N] = h[s + 1].record
      BY <3>2 DEF Ring, Newest
    <3>5. g[s + 1] = h[s + 1]
      <4>1. s \in 0 .. q - 1
        BY <1>0, <2>1, <2>4
      <4> QED BY <1>8, <4>1
    <3> QED BY <3>3, <3>4, <3>5
  <2> QED BY <1>0, <2>1, <2>3, <2>4
<1>12. Newest(m, g)
  BY <1>10, <1>11 DEF Newest
<1>13. Ring(m, g)
  BY <1>6, <1>8, <1>9, <1>12 DEF Ring, m, g
<1> QED BY <1>13 DEF m, g

-----------------------------------------------------------------------------
(* The log on its own. *)

(* Ring is an inductive invariant of the log: append and signed_append     *)
(* preserve it.                                                            *)
THEOREM RingInvariant == Spec => []Ring(log, history)
<1>1. Init => Ring(log, history)
  BY NewRing DEF Init
<1>2. Ring(log, history) /\ [Next]_vars => Ring(log, history)'
  <2> SUFFICES ASSUME Ring(log, history), [Next]_vars PROVE Ring(log', history')
    BY DEF Ring, LogType, Item, Counters, Newest, RetainedStart
  <2>1. ASSUME NEW body \in Body, LogAppend(body) \/ SignedAppend(body)
        PROVE  Ring(log', history')
    <3>1. PICK r : Append1(r) /\ (r = Chained(log, body) \/ r = Signed(Chained(log, body)))
      BY <2>1 DEF LogAppend, SignedAppend
    <3>2. /\ log.sequence <= MaxSequence
          /\ log' = Stored(log, r) /\ history' = Append(history, Remembered(log, r))
      BY <3>1, CapacityAssumption DEF Append1, Ring, LogType
    <3>3. r \in Record /\ r.sequence = log.sequence
      BY <3>1, <3>2, ChainedType DEF Ring
    <3> QED BY <3>2, <3>3, StoredRing
  <2>2. CASE UNCHANGED vars
    BY <2>2 DEF vars
  <2> QED BY <2>1, <2>2 DEF Next
<1> QED BY <1>1, <1>2, PTL DEF Spec

(* The log is well typed at all times. *)
THEOREM LogTypeCorrect == Spec => []TypeOK
<1>1. Ring(log, history) => TypeOK
  BY DEF Ring, LogType, Item, TypeOK
<1> QED BY <1>1, RingInvariant, PTL

(* The ring holds exactly the newest N records at all times, each at the   *)
(* position of its sequence number, whatever N, the hash and the bodies.   *)
THEOREM RingHolds == Spec => []RingHoldsNewest
<1>1. Ring(log, history) => RingHoldsNewest
  BY DEF Ring, Counters, Newest, RingHoldsNewest, Retained
<1> QED BY <1>1, RingInvariant, PTL

-----------------------------------------------------------------------------
(* Induction.  The chain hash is a recursive function; what it computes is *)
(* proved by it.                                                           *)

(* A nonempty set of naturals has a least element.                         *)
LEMMA LeastNatural ==
  ASSUME NEW T \in SUBSET Nat, T # {}
  PROVE  \E m \in T : \A x \in T : m <= x
<1> DEFINE R == OpToRel(<, Nat)
<1>1. IsWellFoundedOn(R, Nat)
  BY NatLessThanWellFounded
<1>2. \A x, y \in Nat : x < y => <<x, y>> \in R
  BY DEF OpToRel
<1> HIDE DEF R
<1>3. PICK m \in T : \A y \in T : ~ (<<y, m>> \in R)
  BY <1>1, WFMin
<1>4. ASSUME NEW x \in T PROVE m <= x
  <2>1. x \in Nat /\ m \in Nat /\ ~(x < m)
    BY <1>2, <1>3
  <2> QED BY <2>1
<1> QED BY <1>4

(* Induction up to n, over a set.                                          *)
LEMMA InductionTo ==
  ASSUME NEW n \in Nat, NEW S, 0 \in S, \A i \in 0 .. n - 1 : i \in S => i + 1 \in S
  PROVE  0 .. n \subseteq S
<1> DEFINE T == (0 .. n) \ S
<1> SUFFICES ASSUME T # {} PROVE FALSE
  OBVIOUS
<1>1. PICK m \in T : \A x \in T : m <= x
  <2>1. T \in SUBSET Nat
    OBVIOUS
  <2> HIDE DEF T
  <2> QED BY <2>1, LeastNatural
<1>2. m # 0 /\ m - 1 \in 0 .. n - 1
  BY <1>1
<1>3. m - 1 \in S
  BY <1>1, <1>2
<1>4. (m - 1) + 1 = m
  BY <1>2
<1> QED BY <1>1, <1>2, <1>3, <1>4

(* ChainFrom is what its definition says, given any function that is.      *)
LEMMA ChainFromEquation ==
  ASSUME NEW n \in Nat, NEW s \in Nat, NEW start, NEW b,
         b = [i \in 0 .. n |-> IF i = 0 THEN start ELSE ChainHash(b[i - 1], s + i - 1)]
  PROVE  \A i \in 0 .. n :
           ChainFrom(start, s, n)[i] =
             IF i = 0 THEN start ELSE ChainHash(ChainFrom(start, s, n)[i - 1], s + i - 1)
<1> DEFINE hash == ChainFrom(start, s, n)
<1>1. hash = [i \in 0 .. n |-> IF i = 0 THEN start ELSE ChainHash(hash[i - 1], s + i - 1)]
  BY DEF ChainFrom
<1> HIDE DEF hash
<1>2. \A i \in 0 .. n : hash[i] = IF i = 0 THEN start ELSE ChainHash(hash[i - 1], s + i - 1)
  BY <1>1
<1> QED BY <1>2 DEF hash

(* The hashes a verifier recomputes are the boundaries b the log passed.   *)
LEMMA ChainFromIs ==
  ASSUME NEW n \in Nat, NEW s \in Nat, NEW V, NEW b \in [0 .. n -> V],
         \A i \in 1 .. n : b[i] = ChainHash(b[i - 1], s + i - 1)
  PROVE  \A i \in 0 .. n : ChainFrom(b[0], s, n)[i] = b[i]
<1> DEFINE hash == ChainFrom(b[0], s, n)
           S == {i \in 0 .. n : hash[i] = b[i]}
<1>1. b = [i \in 0 .. n |-> IF i = 0 THEN b[0] ELSE ChainHash(b[i - 1], s + i - 1)]
  <2>1. ASSUME NEW i \in 0 .. n
        PROVE  b[i] = IF i = 0 THEN b[0] ELSE ChainHash(b[i - 1], s + i - 1)
    BY i = 0 \/ i \in 1 .. n
  <2> QED BY <2>1
<1>2. \A i \in 0 .. n : hash[i] = IF i = 0 THEN b[0] ELSE ChainHash(hash[i - 1], s + i - 1)
  BY <1>1, ChainFromEquation
<1> HIDE DEF hash
<1>3. 0 \in S
  BY <1>2
<1>4. ASSUME NEW i \in 0 .. n - 1, i \in S PROVE i + 1 \in S
  <2>1. i + 1 \in 1 .. n /\ (i + 1) - 1 = i
    OBVIOUS
  <2>2. hash[i + 1] = ChainHash(hash[i], s + i)
    <3>1. i + 1 \in 0 .. n /\ i + 1 # 0 /\ s + (i + 1) - 1 = s + i
      OBVIOUS
    <3> QED BY <1>2, <2>1, <3>1
  <2>3. b[i + 1] = ChainHash(b[i], s + i)
    <3>1. s + (i + 1) - 1 = s + i
      OBVIOUS
    <3> QED BY <2>1, <3>1
  <2> QED BY <1>4, <2>1, <2>2, <2>3
<1>5. 0 .. n \subseteq S
  <2> HIDE DEF S
  <2> QED BY <1>3, <1>4, InductionTo
<1> QED BY <1>5 DEF hash
-----------------------------------------------------------------------------
(* The chain, of any log and its history. *)

\* The full chain hash in force before the record with sequence number s.
Boundary(l, h, s) == IF s < l.sequence THEN h[s + 1].before ELSE l.chain_hash

\* A record carries the fold of the hash before it and of the hash after it, and a
\* signature that covers both.
LinkedAt(l, h, s) ==
  /\ h[s + 1].record.prev_hash = Fold(Boundary(l, h, s))
  /\ h[s + 1].record.record_hash = Fold(Boundary(l, h, s + 1))
  /\ Boundary(l, h, s + 1) = ChainHash(Boundary(l, h, s), s)
  /\ h[s + 1].record.aux # NoAux => SignatureValid(h[s + 1].record)

LinkedRecords(l, h) ==
  /\ Boundary(l, h, 0) = 0
  /\ \A s \in 0 .. l.sequence - 1 : LinkedAt(l, h, s)

(* What append and signed_append fill in.                                  *)
LEMMA ChainedFields ==
  ASSUME NEW l, NEW body, NEW r, r \in {Chained(l, body), Signed(Chained(l, body))}
  PROVE  /\ r.prev_hash = Fold(l.chain_hash)
         /\ r.record_hash = Fold(ChainHash(l.chain_hash, l.sequence))
         /\ r.aux # NoAux => SignatureValid(r)
<1>1. CASE r = Chained(l, body)
  BY <1>1 DEF Chained
<1>2. CASE r = Signed(Chained(l, body))
  <2>1. /\ r.sequence = l.sequence /\ r.prev_hash = Fold(l.chain_hash)
        /\ r.record_hash = Fold(ChainHash(l.chain_hash, l.sequence)) /\ r.body = body
        /\ r.aux = <<l.sequence, Fold(l.chain_hash),
                     Fold(ChainHash(l.chain_hash, l.sequence)), body>>
    BY <1>2 DEF Chained, Signed, Covered
  <2> QED BY <2>1 DEF SignatureValid, Covered
<1> QED BY <1>1, <1>2

(* Appending a record extends the chain and leaves what was linked before. *)
LEMMA StoredLinked ==
  ASSUME NEW l, NEW h, Ring(l, h), LinkedRecords(l, h), NEW body,
         NEW r, r \in {Chained(l, body), Signed(Chained(l, body))}
  PROVE  LinkedRecords(Stored(l, r), Append(h, Remembered(l, r)))
<1> DEFINE q == l.sequence
           m == Stored(l, r)
           g == Append(h, Remembered(l, r))
<1>1. q \in Nat /\ h \in Seq(Item) /\ Len(h) = q
  BY DEF Ring, LogType, Counters
<1>2. m.sequence = q + 1 /\ m.chain_hash = ChainHash(l.chain_hash, q)
  BY DEF Stored
<1>3. /\ g[q + 1].record = r /\ g[q + 1].before = l.chain_hash
      /\ \A s \in 0 .. q - 1 : g[s + 1] = h[s + 1]
  <2>1. g = Append(h, [record |-> r, before |-> l.chain_hash])
    BY DEF Remembered
  <2> HIDE DEF g
  <2>2. g[q + 1] = [record |-> r, before |-> l.chain_hash]
    BY <1>1, <2>1
  <2>3. \A s \in 0 .. q - 1 : g[s + 1] = h[s + 1]
    BY <1>1, <2>1
  <2> QED BY <2>2, <2>3
<1> HIDE DEF m, g
<1>4. Boundary(m, g, q + 1) = ChainHash(l.chain_hash, q)
  BY <1>1, <1>2 DEF Boundary
<1>5. \A s \in 0 .. q : Boundary(m, g, s) = Boundary(l, h, s)
  <2> SUFFICES ASSUME NEW s \in 0 .. q PROVE Boundary(m, g, s) = Boundary(l, h, s)
    OBVIOUS
  <2>1. CASE s = q
    BY <1>1, <1>2, <1>3, <2>1 DEF Boundary
  <2>2. CASE s # q
    <3>1. s \in 0 .. q - 1 /\ s < q /\ s < q + 1
      BY <1>1, <2>2
    <3> QED BY <1>2, <1>3, <3>1 DEF Boundary
  <2> QED BY <2>1, <2>2
<1>6. Boundary(l, h, q) = l.chain_hash
  BY <1>1 DEF Boundary
<1>7. LinkedAt(m, g, q)
  <2>1. q \in 0 .. q
    BY <1>1
  <2> QED BY <1>3, <1>4, <1>5, <1>6, <2>1, ChainedFields DEF LinkedAt
<1>8. ASSUME NEW s \in 0 .. q - 1 PROVE LinkedAt(m, g, s)
  <2>1. LinkedAt(l, h, s)
    BY DEF LinkedRecords
  <2>2. s \in 0 .. q /\ s + 1 \in 0 .. q
    BY <1>1
  <2> QED BY <1>3, <1>5, <2>1, <2>2 DEF LinkedAt
<1>9. Boundary(m, g, 0) = 0
  BY <1>1, <1>5 DEF LinkedRecords
<1>10. ASSUME NEW s \in 0 .. m.sequence - 1 PROVE LinkedAt(m, g, s)
  <2>1. s = q \/ s \in 0 .. q - 1
    BY <1>1, <1>2
  <2> QED BY <1>7, <1>8, <2>1
<1>11. LinkedRecords(m, g)
  BY <1>9, <1>10 DEF LinkedRecords
<1> QED BY <1>11 DEF m, g

-----------------------------------------------------------------------------
(* Reading. *)

(* Whoever starts at any boundary with the hash in force there and has the *)
(* records from it on can verify them all.                                 *)
LEMMA SuffixVerifies ==
  ASSUME NEW l, NEW h, Ring(l, h), LinkedRecords(l, h), NEW s \in 0 .. l.sequence - 1
  PROVE  VerifyChainFrom([i \in 1 .. l.sequence - s |-> h[s + i].record], Boundary(l, h, s), s)
<1> DEFINE q == l.sequence
           n == q - s
           recs == [i \in 1 .. n |-> h[s + i].record]
           b == [i \in 0 .. n |-> Boundary(l, h, s + i)]
           hash == ChainFrom(Boundary(l, h, s), s, n)
<1>1. q \in Nat /\ s \in Nat /\ s < q /\ n \in Nat \ {0}
  BY DEF Ring, LogType
<1>2. \A i \in 1 .. n : LinkedAt(l, h, s + i - 1) /\ (s + i - 1) + 1 = s + i
  <2> SUFFICES ASSUME NEW i \in 1 .. n PROVE LinkedAt(l, h, s + i - 1) /\ (s + i - 1) + 1 = s + i
    OBVIOUS
  <2>1. s + i - 1 \in 0 .. q - 1 /\ (s + i - 1) + 1 = s + i
    BY <1>1
  <2> QED BY <2>1 DEF LinkedRecords
<1>3. \A i \in 0 .. n : hash[i] = Boundary(l, h, s + i)
  <2>1. b \in [0 .. n -> {Boundary(l, h, s + i) : i \in 0 .. n}]
    OBVIOUS
  <2>2. \A i \in 1 .. n : b[i] = ChainHash(b[i - 1], s + i - 1)
    <3> SUFFICES ASSUME NEW i \in 1 .. n PROVE b[i] = ChainHash(b[i - 1], s + i - 1)
      OBVIOUS
    <3>1. i \in 0 .. n /\ i - 1 \in 0 .. n /\ s + (i - 1) = s + i - 1
      BY <1>1
    <3>2. b[i] = Boundary(l, h, s + i) /\ b[i - 1] = Boundary(l, h, s + i - 1)
      BY <3>1
    <3> QED BY <1>2, <3>2 DEF LinkedAt
  <2>3. b[0] = Boundary(l, h, s)
    BY <1>1
  <2>4. \A i \in 0 .. n : b[i] = Boundary(l, h, s + i)
    OBVIOUS
  <2> HIDE DEF b, n, q
  <2>5. \A i \in 0 .. n : ChainFrom(b[0], s, n)[i] = b[i]
    <3>1. n \in Nat /\ s \in Nat
      BY <1>1
    <3> QED BY <2>1, <2>2, <3>1, ChainFromIs
  <2> QED BY <2>3, <2>4, <2>5
<1>4. recs \in Seq(Record) /\ Len(recs) = n /\ recs # <<>>
  <2>1. \A i \in 1 .. n : h[s + i].record \in Record
    <3> SUFFICES ASSUME NEW i \in 1 .. n PROVE h[s + i].record \in Record
      OBVIOUS
    <3>1. s + i \in 1 .. q
      BY <1>1
    <3>2. h[s + i] \in Item
      BY <3>1 DEF Ring, Counters
    <3> QED BY <3>2 DEF Item
  <2>2. recs \in Seq(Record) /\ Len(recs) = n
    BY <1>1, <2>1
  <2> HIDE DEF recs
  <2> QED BY <1>1, <2>2
<1>5. ASSUME NEW i \in 1 .. n
      PROVE  /\ recs[i].sequence = s + i - 1
             /\ recs[i].prev_hash = Fold(hash[i - 1])
             /\ recs[i].record_hash = Fold(hash[i])
  <2>1. recs[i] = h[s + i].record
    OBVIOUS
  <2>2. i - 1 \in 0 .. n /\ i \in 0 .. n /\ s + (i - 1) = s + i - 1 /\ s + i - 1 \in 0 .. q - 1
    BY <1>1
  <2>3. hash[i - 1] = Boundary(l, h, s + i - 1) /\ hash[i] = Boundary(l, h, s + i)
    BY <1>3, <2>2
  <2>4. h[s + i].record.sequence = s + i - 1
    <3>1. h[(s + i - 1) + 1].record.sequence = s + i - 1
      BY <2>2 DEF Ring, Newest
    <3> QED BY <1>2, <3>1
  <2> HIDE DEF recs, hash
  <2> QED BY <1>2, <2>1, <2>3, <2>4 DEF LinkedAt
<1> HIDE DEF recs
<1>6. VerifyChainFrom(recs, Boundary(l, h, s), s)
  BY <1>4, <1>5 DEF VerifyChainFrom
<1> QED BY <1>6 DEF recs

(* snapshot returns the newest records, however often the ring wrapped and *)
(* however small the buffer.                                               *)
LEMMA SnapshotReads ==
  ASSUME NEW l, NEW h, Ring(l, h), NEW size \in Nat,
         NEW n, n = Least(size, Available(l))
  PROVE  /\ n \in 0 .. l.sequence /\ n <= N
         /\ Snapshot(l, size) = [i \in 1 .. n |-> h[l.sequence - n + i].record]
<1> DEFINE q == l.sequence
           start == IF l.total_emitted >= N THEN l.write_pos ELSE 0
           at(i) == (start + (Available(l) - n) + i - 1) % N
<1>1. /\ N \in Nat \ {0} /\ q \in Nat /\ l.total_emitted = q /\ l.write_pos = q % N
      /\ Available(l) = IF q >= N THEN N ELSE q
  BY CapacityAssumption DEF Ring, LogType, Counters, Available
<1>2. n \in 0 .. q /\ n <= N
  BY <1>1 DEF Least
<1>3. ASSUME NEW i \in 1 .. n PROVE l.records[at(i)] = h[q - n + i].record
  <2>1. q - n + i - 1 \in Nat /\ q - n + i - 1 \in RetainedStart(l) .. q - 1
        /\ (q - n + i - 1) + 1 = q - n + i
    BY <1>1, <1>2 DEF RetainedStart
  <2>2. at(i) = (q - n + i - 1) % N
    <3>1. CASE q >= N
      <4>1. N - n + i - 1 \in Nat /\ q + (N - n + i - 1) = (q - n + i - 1) + N
        BY <1>1, <1>2
      <4>2. q % N \in Int /\ (q % N) + (N - n) + i - 1 = (q % N) + (N - n + i - 1)
        <5>1. q % N \in Int
          BY <1>1, DivMod
        <5> QED BY <1>1, <1>2, <5>1
      <4>3. at(i) = ((q % N) + (N - n + i - 1)) % N
        BY <1>1, <3>1, <4>2
      <4>4. ((q % N) + (N - n + i - 1)) % N = (q + (N - n + i - 1)) % N
        BY <1>1, <4>1, ModShift
      <4>5. ((q - n + i - 1) + N) % N = (q - n + i - 1) % N
        BY <1>1, <2>1, ModShift
      <4> QED BY <4>1, <4>3, <4>4, <4>5
    <3>2. CASE ~(q >= N)
      <4>1. start = 0 /\ Available(l) = q
        BY <1>1, <3>2
      <4>2. 0 + (q - n) + i - 1 = q - n + i - 1
        BY <1>1, <1>2
      <4> QED BY <4>1, <4>2
    <3> QED BY <3>1, <3>2
  <2>3. l.records[(q - n + i - 1) % N] = h[(q - n + i - 1) + 1].record
    BY <2>1 DEF Ring, Newest
  <2> QED BY <2>1, <2>2, <2>3
<1>4. Snapshot(l, size) = [i \in 1 .. n |-> l.records[at(i)]]
  BY DEF Snapshot
<1> HIDE DEF at
<1> QED BY <1>2, <1>3, <1>4

(* verify_chain, which starts at sequence 0, accepts what a full snapshot  *)
(* returns exactly until the ring has wrapped.                             *)
LEMMA FullSnapshotVerifies ==
  ASSUME NEW l, NEW h, Ring(l, h), LinkedRecords(l, h)
  PROVE  VerifyChain(Snapshot(l, N)) <=> l.sequence \in 1 .. N
<1> DEFINE q == l.sequence
           n == Least(N, Available(l))
           recs == [i \in 1 .. n |-> h[q - n + i].record]
<1>1. N \in Nat \ {0} /\ q \in Nat /\ n = IF q >= N THEN N ELSE q
  BY CapacityAssumption DEF Ring, LogType, Counters, Available, Least
<1>2. Snapshot(l, N) = recs
  <2>1. N \in Nat /\ n = Least(N, Available(l))
    BY <1>1
  <2> HIDE DEF n
  <2> QED BY <2>1, SnapshotReads
<1>3. CASE q \in 1 .. N
  <2>1. n = q - 0 /\ 0 \in 0 .. q - 1
    BY <1>1, <1>3
  <2>2. recs = [i \in 1 .. q - 0 |-> h[0 + i].record]
    BY <1>1, <2>1
  <2>3. VerifyChainFrom(recs, Boundary(l, h, 0), 0)
    BY <2>1, <2>2, SuffixVerifies
  <2> QED BY <1>2, <1>3, <2>3 DEF VerifyChain, LinkedRecords
<1>4. CASE q = 0
  <2>1. recs = <<>>
    BY <1>1, <1>4
  <2> QED BY <1>2, <1>4, <2>1 DEF VerifyChain, VerifyChainFrom
<1>5. CASE q > N
  <2>1. n = N /\ 1 \in 1 .. n /\ q - n \in 0 .. q - 1 /\ q - n # 0
    BY <1>1, <1>5
  <2>2. h[(q - n) + 1].record.sequence = q - n
    BY <2>1 DEF Ring, Newest
  <2>3. recs[1].sequence = q - n
    BY <2>1, <2>2
  <2>4. Len(recs) = n
    BY <1>1
  <2> HIDE DEF recs, n
  <2>5. ~VerifyChainFrom(recs, 0, 0)
    <3>1. SUFFICES ASSUME VerifyChainFrom(recs, 0, 0) PROVE FALSE
      OBVIOUS
    <3>2. recs[1].sequence = 0 + 1 - 1
      BY <2>1, <2>4, <3>1 DEF VerifyChainFrom
    <3> QED BY <2>1, <2>3, <3>2
  <2> QED BY <1>1, <1>2, <1>5, <2>5 DEF VerifyChain
<1> QED BY <1>1, <1>3, <1>4, <1>5

(* snapshot_since, from a boundary that was captured at sequence s.        *)
LEMMA SinceReads ==
  ASSUME NEW l, NEW h, Ring(l, h), LinkedRecords(l, h), NEW s \in 0 .. l.sequence,
         NEW size \in {N - 1, N}, NEW cp, cp.next_sequence = s,
         cp.chain_hash = Boundary(l, h, s)
  PROVE  LET err == SnapshotSinceError(l, cp, size)
             recs == SnapshotSinceRecords(l, cp)
         IN /\ (err # "none") <=> (l.sequence - s > size)
            /\ err # "SequenceMismatch"
            /\ err = "none" /\ s < l.sequence =>
                 /\ recs = [i \in 1 .. l.sequence - s |-> h[s + i].record]
                 /\ VerifyChainFrom(recs, cp.chain_hash, s)
<1> DEFINE q == l.sequence
           err == SnapshotSinceError(l, cp, size)
           recs == SnapshotSinceRecords(l, cp)
<1>1. N \in Nat \ {0} /\ q \in Nat /\ s \in Nat /\ s <= q
  BY CapacityAssumption DEF Ring, LogType
<1>2. ~(s > q)
  BY <1>1
<1>3. s < RetainedStart(l) => q - s > size
  BY <1>1 DEF RetainedStart
<1>4. ~(s < RetainedStart(l)) =>
        \A x \in s .. q - 1 : l.records[x % N] = h[x + 1].record /\ h[x + 1].record.sequence = x
  <2> SUFFICES ASSUME ~(s < RetainedStart(l)), NEW x \in s .. q - 1
               PROVE  l.records[x % N] = h[x + 1].record /\ h[x + 1].record.sequence = x
    OBVIOUS
  <2>1. x \in RetainedStart(l) .. q - 1 /\ x \in 0 .. q - 1
    BY <1>1 DEF RetainedStart
  <2> QED BY <2>1 DEF Ring, Newest
<1>5. err = IF s < RetainedStart(l) THEN "RecordsOverwritten"
            ELSE IF size < q - s THEN "OutputTooSmall"
            ELSE IF \E x \in s .. q - 1 : l.records[x % N].sequence # x THEN "SequenceMismatch"
            ELSE "none"
  BY <1>2 DEF SnapshotSinceError
<1>6. err # "SequenceMismatch"
  BY <1>4, <1>5
<1>7. (err # "none") <=> (q - s > size)
  <2>1. size \in Int
    BY <1>1
  <2> HIDE DEF err
  <2> QED BY <1>1, <1>3, <1>5, <1>6, <2>1
<1>8. ASSUME err = "none", s < q
      PROVE  /\ recs = [i \in 1 .. q - s |-> h[s + i].record]
             /\ VerifyChainFrom(recs, cp.chain_hash, s)
  <2>1. ~(s < RetainedStart(l))
    BY <1>5, <1>8
  <2>2. ASSUME NEW i \in 1 .. q - s PROVE l.records[(s + i - 1) % N] = h[s + i].record
    <3>1. s + i - 1 \in s .. q - 1 /\ (s + i - 1) + 1 = s + i
      BY <1>1
    <3>2. l.records[(s + i - 1) % N] = h[(s + i - 1) + 1].record
      BY <1>4, <2>1, <3>1
    <3> QED BY <3>1, <3>2
  <2>3. recs = [i \in 1 .. q - s |-> h[s + i].record]
    BY <2>2 DEF SnapshotSinceRecords
  <2>4. s \in 0 .. q - 1
    BY <1>1, <1>8
  <2> QED BY <2>3, <2>4, SuffixVerifies
<1> QED BY <1>6, <1>7, <1>8

-----------------------------------------------------------------------------
(* What readers of the log get. *)

(* The chain is linked at all times, besides the ring: every record holds  *)
(* the folds of the hashes around it and, if signed, a valid signature.    *)
THEOREM LinkedInvariant == Spec => [](Ring(log, history) /\ LinkedRecords(log, history))
<1>1. Init => LinkedRecords(log, history)
  BY CapacityAssumption DEF Init, LinkedRecords, Boundary, NewLog
<1>2. Ring(log, history) /\ LinkedRecords(log, history) /\ [Next]_vars => LinkedRecords(log, history)'
  <2> SUFFICES ASSUME Ring(log, history), LinkedRecords(log, history), [Next]_vars
               PROVE  LinkedRecords(log', history')
    BY DEF LinkedRecords, LinkedAt, Boundary
  <2>1. ASSUME NEW body \in Body, LogAppend(body) \/ SignedAppend(body)
        PROVE  LinkedRecords(log', history')
    <3>1. PICK r \in {Chained(log, body), Signed(Chained(log, body))} : Append1(r)
      BY <2>1 DEF LogAppend, SignedAppend
    <3>2. log' = Stored(log, r) /\ history' = Append(history, Remembered(log, r))
      BY <3>1 DEF Append1
    <3> QED BY <3>2, StoredLinked
  <2>2. CASE UNCHANGED vars
    BY <2>2 DEF vars
  <2> QED BY <2>1, <2>2 DEF Next
<1> QED BY <1>1, <1>2, RingInvariant, PTL DEF Spec

(* For every capacity and every hash: a snapshot into a buffer of any size *)
(* holds the newest records, oldest first; a checkpoint of any age is      *)
(* served with every record since, which verify as a chain from its hash,  *)
(* or refused exactly when one of them is gone or does not fit; and a      *)
(* retained signature verifies (log.rs, replay.rs).                        *)
THEOREM LogReadsHolds == Spec => []LogReads
<1>1. Ring(log, history) /\ LinkedRecords(log, history) => LogReads
  <2> SUFFICES ASSUME Ring(log, history), LinkedRecords(log, history) PROVE LogReads
    OBVIOUS
  <2>1. N \in Nat \ {0} /\ log.sequence \in Nat /\ Len(history) = log.sequence
    BY CapacityAssumption DEF Ring, LogType, Counters
  <2>2. SnapshotIsNewest
    <3>1. ASSUME NEW size \in 0 .. N + 1
          PROVE  LET n == Least(size, Available(log)) IN
                   Snapshot(log, size) = [i \in 1 .. n |-> history[Len(history) - n + i].record]
      BY <2>1, SnapshotReads
    <3> QED BY <3>1, FullSnapshotVerifies DEF SnapshotIsNewest
  <2>3. SnapshotSinceAllOrNothing
    <3> SUFFICES ASSUME NEW s \in 0 .. log.sequence, NEW size \in {N - 1, N}
                 PROVE  LET cp == [next_sequence |-> s,
                                   chain_hash |-> IF s < log.sequence THEN history[s + 1].before
                                                                      ELSE log.chain_hash]
                            err == SnapshotSinceError(log, cp, size)
                            recs == SnapshotSinceRecords(log, cp)
                        IN /\ (err # "none") <=> (log.sequence - s > size)
                           /\ err # "SequenceMismatch"
                           /\ err = "none" /\ s < log.sequence =>
                                /\ recs = [i \in 1 .. log.sequence - s |-> history[s + i].record]
                                /\ VerifyChainFrom(recs, cp.chain_hash, s)
      BY DEF SnapshotSinceAllOrNothing
    <3> DEFINE cp == [next_sequence |-> s,
                      chain_hash |-> IF s < log.sequence THEN history[s + 1].before
                                                         ELSE log.chain_hash]
    <3>1. cp.next_sequence = s /\ cp.chain_hash = Boundary(log, history, s)
      BY DEF Boundary
    <3> HIDE DEF cp
    <3>2. LET err == SnapshotSinceError(log, cp, size)
              recs == SnapshotSinceRecords(log, cp)
          IN /\ (err # "none") <=> (log.sequence - s > size)
             /\ err # "SequenceMismatch"
             /\ err = "none" /\ s < log.sequence =>
                  /\ recs = [i \in 1 .. log.sequence - s |-> history[s + i].record]
                  /\ VerifyChainFrom(recs, cp.chain_hash, s)
      BY <3>1, SinceReads
    <3> QED BY <3>2 DEF cp
  <2>4. SignaturesVerify
    <3> SUFFICES ASSUME NEW s \in Retained, log.records[s % N].aux # NoAux
                 PROVE  SignatureValid(log.records[s % N])
      BY DEF SignaturesVerify
    <3>1. s \in RetainedStart(log) .. log.sequence - 1 /\ s \in 0 .. log.sequence - 1
      BY <2>1 DEF Retained, RetainedStart
    <3>2. log.records[s % N] = history[s + 1].record
      BY <3>1 DEF Ring, Newest
    <3> QED BY <3>1, <3>2 DEF LinkedRecords, LinkedAt
  <2> QED BY <2>2, <2>3, <2>4 DEF LogReads
<1> QED BY <1>1, LinkedInvariant, PTL

-----------------------------------------------------------------------------
(* Runtime, cursor and store. *)

NextSequence == receipt_chain.next_checkpoint.next_sequence

RInv ==
  /\ Ring(log, history)
  /\ log.sequence <= MaxSequence
  /\ RuntimeAtCursor
  /\ NextSequence \in Nat

(* Emitting one record keeps the ring intact and counts it. *)
LEMMA EmitRing ==
  ASSUME NEW w, Ring(w.log, w.history), w.log.sequence <= MaxSequence,
         NEW body \in {"decision", "outcome", "seal"}
  PROVE  /\ Ring(Emit(w, body).log, Emit(w, body).history)
         /\ Emit(w, body).log.sequence = w.log.sequence + 1
<1> DEFINE r == Chained(w.log, body)
<1>1. body \in Body
  BY DrainerAssumption
<1>2. r \in Record /\ r.sequence = w.log.sequence
  BY <1>1, ChainedType DEF Ring
<1>3. /\ Emit(w, body).log = Stored(w.log, r)
      /\ Emit(w, body).history = Append(w.history, Remembered(w.log, r))
  BY DEF Emit
<1>4. Stored(w.log, r).sequence = w.log.sequence + 1
  BY DEF Stored
<1> HIDE DEF r
<1> QED BY <1>2, <1>3, <1>4, StoredRing

(* What one record more does to the invariant's view of the log. *)
LEMMA OneRecord ==
  ASSUME RInv, SetWitness(Emit(Witness, "decision"))
  PROVE  /\ Ring(log', history') /\ log'.sequence = log.sequence + 1
         /\ log'.sequence <= MaxSequence
<1>1. Witness.log = log /\ Witness.history = history
  BY DEF Witness
<1> QED BY <1>1, EmitRing DEF SetWitness, RInv

(* The same for two records. *)
LEMMA TwoRecords ==
  ASSUME RInv, NEW second \in {"outcome", "seal"},
         SetWitness(Emit(Emit(Witness, "decision"), second))
  PROVE  /\ Ring(log', history') /\ log'.sequence = log.sequence + 2
         /\ log'.sequence <= MaxSequence
<1> DEFINE v == Emit(Witness, "decision")
<1>1. Witness.log = log /\ Witness.history = history
  BY DEF Witness
<1>2. Ring(v.log, v.history) /\ v.log.sequence = log.sequence + 1
  BY <1>1, EmitRing DEF RInv
<1>3. log.sequence \in Nat /\ MaxSequence \in Nat
  BY CapacityAssumption DEF RInv, Ring, LogType
<1>4. CASE log.sequence + 1 <= MaxSequence
  <2> HIDE DEF v
  <2>1. /\ Ring(Emit(v, second).log, Emit(v, second).history)
        /\ Emit(v, second).log.sequence = v.log.sequence + 1
    BY <1>2, <1>4, EmitRing
  <2>2. log' = Emit(v, second).log /\ history' = Emit(v, second).history
        /\ Emit(v, second).log.sequence <= MaxSequence
    BY DEF SetWitness, v
  <2> QED BY <1>2, <1>3, <2>1, <2>2
<1>5. CASE ~(log.sequence + 1 <= MaxSequence)
  <2>1. Emit(v, second).log.sequence = v.log.sequence + 1
    BY DEF Emit, Stored
  <2>2. Emit(v, second).log.sequence <= MaxSequence
    BY DEF SetWitness
  <2> QED BY <1>2, <1>3, <1>5, <2>1, <2>2
<1> QED BY <1>4, <1>5

(* A refused or failed seal costs one record. *)
LEMMA FailedSeal ==
  ASSUME RInv, SetWitness(Emit(Witness, "decision")), UNCHANGED <<receipt_chain, durable>>
  PROVE  RInv'
<1>1. Ring(log', history') /\ log'.sequence <= MaxSequence
  BY OneRecord
<1>2. RuntimeAtCursor' /\ NextSequence' = NextSequence
  BY DEF durable, RInv, RuntimeAtCursor, NextSequence
<1>3. Ring(log, history)'
  BY <1>1 DEF Ring, LogType, Item, Counters, Newest, RetainedStart
<1> QED BY <1>1, <1>2, <1>3 DEF RInv

(* The invariant holds when the service first starts. *)
LEMMA InitR == RInit => RInv
<1> SUFFICES ASSUME RInit PROVE RInv
  OBVIOUS
<1>1. Ring(log, history)
  BY NewRing DEF RInit, Init
<1>2. NextSequence = 0 /\ log.sequence = 0
  BY DEF RInit, Init, NextSequence, Genesis, Checkpoint, NewLog
<1>3. RuntimeAtCursor
  BY DEF RInit, RuntimeAtCursor
<1> QED BY <1>1, <1>2, <1>3, CapacityAssumption DEF RInv, RInit

(* A request adds one record or two. *)
LEMMA RequestR == RInv /\ Request => RInv'
<1> SUFFICES ASSUME RInv, Request PROVE RInv'
  OBVIOUS
<1>1. Ring(log', history') /\ log'.sequence <= MaxSequence
  BY OneRecord, TwoRecords DEF Request
<1>2. RuntimeAtCursor' /\ NextSequence' = NextSequence
  BY DEF Request, durable, RInv, RuntimeAtCursor, NextSequence
<1>3. Ring(log, history)'
  BY <1>1 DEF Ring, LogType, Item, Counters, Newest, RetainedStart
<1> QED BY <1>1, <1>2, <1>3 DEF RInv

(* A successful seal moves store and runtime together. *)
LEMMA SealR == RInv /\ Seal => RInv'
<1> SUFFICES ASSUME RInv, Seal PROVE RInv'
  OBVIOUS
<1> DEFINE w == Emit(Witness, "decision")
           f == Following(w.log, SealFromLog(w.log, receipt_chain))
<1>1. receipt_chain' = f /\ cursor' = <<f>> /\ SetWitness(Emit(w, "seal"))
  BY DEF Seal, Commit
<1>2. Ring(log', history') /\ log'.sequence <= MaxSequence
  BY <1>1, TwoRecords
<1>3. w.log.sequence = log.sequence + 1
  BY DEF Emit, Stored, Witness
<1>4. f.next_checkpoint.next_sequence = log.sequence + 1
  BY <1>3 DEF Following, Checkpoint
<1> HIDE DEF f
<1>5. RuntimeAtCursor'
  BY <1>1 DEF RuntimeAtCursor
<1>6. NextSequence' = log.sequence + 1
  BY <1>1, <1>4 DEF NextSequence
<1>7. log.sequence \in Nat
  BY DEF RInv, Ring, LogType
<1>8. Ring(log, history)'
  BY <1>2 DEF Ring, LogType, Item, Counters, Newest, RetainedStart
<1> QED BY <1>1, <1>2, <1>5, <1>6, <1>7, <1>8 DEF RInv

(* A restart resumes from the durable cursor with an empty log. *)
LEMMA RestartR == RInv /\ Restart => RInv'
<1> SUFFICES ASSUME RInv, Restart PROVE RInv'
  OBVIOUS
<1>1. receipt_chain' = receipt_chain /\ cursor' = cursor
  BY DEF Restart, durable, RInv, RuntimeAtCursor
<1>2. log' = NewLog /\ history' = <<>>
  BY DEF Restart
<1>3. log'.sequence = 0
  BY <1>2 DEF NewLog
<1>4. Ring(log, history)'
  BY <1>2, NewRing DEF Ring, LogType, Item, Counters, Newest, RetainedStart
<1>5. RuntimeAtCursor' /\ NextSequence' = NextSequence
  BY <1>1 DEF RInv, RuntimeAtCursor, NextSequence
<1> QED BY <1>3, <1>4, <1>5, CapacityAssumption DEF RInv

(* RInv is an inductive invariant of the receipt chain. *)
THEOREM ReceiptInvariant == RSpec => []RInv
<1>1. RInv /\ [RNext]_rvars => RInv'
  <2> SUFFICES ASSUME RInv, [RNext]_rvars PROVE RInv'
    OBVIOUS
  <2>1. CASE Request
    BY <2>1, RequestR
  <2>2. CASE SealRefused
    BY <2>2, FailedSeal DEF SealRefused
  <2>3. CASE SealFails
    BY <2>3, FailedSeal DEF SealFails
  <2>4. CASE SealNotPersisted
    BY <2>4, FailedSeal DEF SealNotPersisted
  <2>5. CASE Seal
    BY <2>5, SealR
  <2>6. CASE Restart
    BY <2>6, RestartR
  <2>7. CASE UNCHANGED rvars
    BY <2>7 DEF rvars, RInv, Ring, LogType, Item, Counters, Newest, RetainedStart,
                RuntimeAtCursor, NextSequence
  <2> QED BY <2>1, <2>2, <2>3, <2>4, <2>5, <2>6, <2>7 DEF RNext
<1> QED BY <1>1, InitR, PTL DEF RSpec

(* The runtime's receipt state is always the one a restart would load from *)
(* the durable store.                                                      *)
THEOREM RuntimeAtCursorHolds == RSpec => []RuntimeAtCursor
<1>1. RInv => RuntimeAtCursor
  BY DEF RInv
<1> QED BY <1>1, ReceiptInvariant, PTL

(* Three records more leave a ring with room for them all that is unsealed. *)
LEMMA AdmittedFits == RInv => AdmitLeavesRoom
<1> SUFFICES ASSUME RInv, Admit PROVE AdmitLeavesRoom
  BY DEF AdmitLeavesRoom
<1> DEFINE u == Emit(Witness, "decision")
           v == Emit(u, "outcome")
           w == Emit(v, "decision")
           cp == receipt_chain.next_checkpoint
<1>1. /\ log.sequence \in Nat /\ MaxUnsealed \in Nat /\ N \in Nat
      /\ cp.next_sequence \in Nat /\ log.total_emitted = log.sequence
  BY DrainerAssumption, CapacityAssumption DEF RInv, Ring, LogType, Counters, NextSequence
<1>2. Witness.log = log /\ Witness.history = history
  BY DEF Witness
<1>3. w.log.sequence = log.sequence + 3
  BY <1>1, <1>2 DEF Emit, Stored
<1>4. SnapshotSinceError(w.log, cp, N) \notin {"RecordsOverwritten", "OutputTooSmall"}
  <2>1. CASE cp.next_sequence > w.log.sequence
    BY <2>1 DEF SnapshotSinceError
  <2>2. CASE ~(cp.next_sequence > w.log.sequence)
    <3>1. w.log.sequence - cp.next_sequence <= N
      BY <1>1, <1>3, <2>2 DEF Admit, Pending
    <3>2. ~(cp.next_sequence < RetainedStart(w.log)) /\ ~(N < w.log.sequence - cp.next_sequence)
      BY <1>1, <1>3, <3>1 DEF RetainedStart
    <3> QED BY <2>2, <3>2 DEF SnapshotSinceError
  <2> QED BY <2>1, <2>2
<1> QED BY <1>4 DEF AdmitLeavesRoom

(* For every capacity and threshold: the runtime is where the durable      *)
(* cursor is, whatever was refused, failed or restarted, and a drainer     *)
(* that admits a request leaves room for it and for the seal after it.     *)
THEOREM CursorHolds == RSpec => []CursorSound
<1>1. RInv => AdmitLeavesRoom
  BY AdmittedFits
<1> QED BY <1>1, ReceiptInvariant, RuntimeAtCursorHolds, PTL DEF CursorSound

-----------------------------------------------------------------------------
(* The store as an account of the log. *)

Sealed == IF cursor = <<>> THEN 0 ELSE cursor[1].next_epoch_id

\* The table is one chain, and the cursor follows its last receipt.
ChainInv ==
  /\ Sealed \in Nat
  /\ Epochs = 0 .. Sealed - 1
  /\ cursor = <<>> => Sealed = 0
  /\ cursor # <<>> => Sealed > 0 /\ CursorMatches(receipts[Sealed - 1], cursor[1])
  /\ \A e \in Epochs :
       /\ receipts[e].epoch_id = e
       /\ IF e = 0 THEN VerifyGenesis(receipts[e])
                   ELSE VerifySuccessor(receipts[e], receipts[e - 1])

\* A receipt holds the records of its range, which lies below sequence q of history h.
Truthful(r, q, h) ==
  /\ r.first_sequence \in Nat /\ r.last_sequence \in Nat
  /\ r.record_count = r.last_sequence - r.first_sequence + 1
  /\ r.last_sequence < q
  /\ r.witness_root = [i \in 1 .. r.record_count |-> h[r.first_sequence + i].record]

\* From epoch `from` on, those sealed since the service started.
Account(rs, from, q, h) == \A e \in DOMAIN rs : e >= from => Truthful(rs[e], q, h)

Claimed(q, h) == {s \in 0 .. q - 1 : h[s + 1].record.body = "seal"}

NewlyClaimed(q, p, h) == {s \in q .. p - 1 : h[s + 1].record.body = "seal"}

Claims(rs, from, q, h) ==
  Claimed(q, h) = {rs[e].last_sequence + 1 : e \in {x \in DOMAIN rs : x >= from}}

StoreInv ==
  /\ RInv
  /\ ChainInv
  /\ resumed_at \in 0 .. Sealed
  /\ Account(receipts, resumed_at, log.sequence, history)
  /\ Claims(receipts, resumed_at, log.sequence, history)

(* What one operation appends to the history, and that it changes nothing  *)
(* of what was there.                                                      *)
LEMMA OneAppended ==
  ASSUME RInv, SetWitness(Emit(Witness, "decision"))
  PROVE  /\ log.sequence \in Nat /\ log'.sequence = log.sequence + 1
         /\ \A i \in 1 .. log.sequence : history'[i] = history[i]
         /\ history'[log.sequence + 1].record.body = "decision"
<1>1. /\ history \in Seq(Item) /\ Len(history) = log.sequence /\ log.sequence \in Nat
  BY DEF RInv, Ring, LogType, Counters
<1>2. history' = Append(history, Remembered(log, Chained(log, "decision")))
  BY DEF SetWitness, Emit, Witness
<1>3. Remembered(log, Chained(log, "decision")).record.body = "decision"
  BY DEF Remembered, Chained
<1>4. log'.sequence = log.sequence + 1
  BY OneRecord
<1> QED BY <1>1, <1>2, <1>3, <1>4

(* The same for an operation that appends two.                             *)
LEMMA TwoAppended ==
  ASSUME RInv, NEW second \in {"outcome", "seal"},
         SetWitness(Emit(Emit(Witness, "decision"), second))
  PROVE  /\ log.sequence \in Nat /\ log'.sequence = log.sequence + 2
         /\ \A i \in 1 .. log.sequence : history'[i] = history[i]
         /\ history'[log.sequence + 1] = Remembered(log, Chained(log, "decision"))
         /\ history'[log.sequence + 1].record.body = "decision"
         /\ history'[log.sequence + 2].record.body = second
<1> DEFINE v == Emit(Witness, "decision")
           a == Remembered(log, Chained(log, "decision"))
           b == Remembered(v.log, Chained(v.log, second))
<1>1. /\ history \in Seq(Item) /\ Len(history) = log.sequence /\ log.sequence \in Nat
  BY DEF RInv, Ring, LogType, Counters
<1>2. history' = Append(Append(history, a), b)
  BY DEF SetWitness, Emit, Witness
<1>3. a.record.body = "decision" /\ b.record.body = second
  BY DEF Remembered, Chained
<1>4. log'.sequence = log.sequence + 2
  BY TwoRecords
<1> HIDE DEF a, b
<1>5. /\ Append(history, a)[log.sequence + 1] = a /\ Len(Append(history, a)) = log.sequence + 1
      /\ Append(history, a) \in Seq(Item \cup {a})
      /\ \A i \in 1 .. log.sequence : Append(history, a)[i] = history[i]
  BY <1>1
<1>6. /\ history'[log.sequence + 2] = b
      /\ \A i \in 1 .. log.sequence + 1 : history'[i] = Append(history, a)[i]
  <2> DEFINE g == Append(history, a)
  <2>1. g \in Seq(Item \cup {a}) /\ Len(g) = log.sequence + 1 /\ history' = Append(g, b)
    BY <1>2, <1>5
  <2> HIDE DEF g
  <2>2. /\ history'[log.sequence + 2] = b
        /\ \A i \in 1 .. log.sequence + 1 : history'[i] = g[i]
    BY <2>1, <1>1
  <2> QED BY <2>2 DEF g
<1>7. \A i \in 1 .. log.sequence : history'[i] = history[i]
  BY <1>1, <1>5, <1>6
<1>8. history'[log.sequence + 1] = a
  BY <1>1, <1>5, <1>6
<1> QED BY <1>1, <1>3, <1>4, <1>6, <1>7, <1>8 DEF a

(* A receipt tells of old records, so new ones do not concern it.          *)
LEMMA StillTruthful ==
  ASSUME NEW q \in Nat, NEW p \in Nat, q <= p, NEW h, NEW g, NEW r,
         \A i \in 1 .. q : g[i] = h[i], Truthful(r, q, h)
  PROVE  Truthful(r, p, g)
<1>1. /\ r.first_sequence \in Nat /\ r.last_sequence \in Nat
      /\ r.record_count = r.last_sequence - r.first_sequence + 1 /\ r.last_sequence < q
  BY DEF Truthful
<1>2. \A i \in 1 .. r.record_count : r.first_sequence + i \in 1 .. q
  BY <1>1
<1>3. \A i \in 1 .. r.record_count : g[r.first_sequence + i] = h[r.first_sequence + i]
  BY <1>2
<1>4. [i \in 1 .. r.record_count |-> g[r.first_sequence + i].record]
        = [i \in 1 .. r.record_count |-> h[r.first_sequence + i].record]
  BY <1>3
<1>5. r.last_sequence < p
  BY <1>1
<1> QED BY <1>1, <1>4, <1>5 DEF Truthful

(* What is claimed in a longer history: the old claims and the new ones.   *)
LEMMA ClaimsGrow ==
  ASSUME NEW q \in Nat, NEW p \in Nat, q <= p, NEW h, NEW g, \A i \in 1 .. q : g[i] = h[i]
  PROVE  Claimed(p, g) = Claimed(q, h) \cup NewlyClaimed(q, p, g)
<1>1. 0 .. p - 1 = (0 .. q - 1) \cup (q .. p - 1)
  OBVIOUS
<1>2. \A s \in 0 .. q - 1 : g[s + 1] = h[s + 1]
  OBVIOUS
<1> QED BY <1>1, <1>2 DEF Claimed, NewlyClaimed

(* Operations that seal nothing keep the account.                          *)
LEMMA Unclaimed ==
  ASSUME StoreInv, UNCHANGED <<receipts, cursor, resumed_at>>,
         log.sequence \in Nat, log'.sequence \in Nat, log.sequence <= log'.sequence,
         \A i \in 1 .. log.sequence : history'[i] = history[i],
         \A s \in log.sequence .. log'.sequence - 1 : history'[s + 1].record.body # "seal"
  PROVE  /\ ChainInv' /\ resumed_at' \in 0 .. Sealed'
         /\ Account(receipts', resumed_at', log'.sequence, history')
         /\ Claims(receipts', resumed_at', log'.sequence, history')
<1>1. ChainInv'
  BY DEF StoreInv, ChainInv, Sealed, Epochs, CursorMatches, VerifyGenesis, VerifySuccessor
<1>2. Account(receipts', resumed_at', log'.sequence, history')
  BY StillTruthful DEF StoreInv, Account
<1>3. Claimed(log'.sequence, history') = Claimed(log.sequence, history)
  <2>1. NewlyClaimed(log.sequence, log'.sequence, history') = {}
    BY DEF NewlyClaimed
  <2>2. Claimed(log'.sequence, history')
          = Claimed(log.sequence, history) \cup NewlyClaimed(log.sequence, log'.sequence, history')
    <3>1. PICK q, p, g : q \in Nat /\ p \in Nat /\ q = log.sequence /\ p = log'.sequence /\ g = history'
      OBVIOUS
    <3>2. q \in Nat /\ p \in Nat /\ q <= p /\ \A i \in 1 .. q : g[i] = history[i]
      BY <3>1
    <3>3. Claimed(p, g) = Claimed(q, history) \cup NewlyClaimed(q, p, g)
      BY ONLY <3>2, ClaimsGrow
    <3> QED BY <3>1, <3>3
  <2> QED BY <2>1, <2>2
<1>4. Claims(receipts', resumed_at', log'.sequence, history')
  BY <1>3 DEF StoreInv, Claims
<1> QED BY <1>1, <1>2, <1>4 DEF StoreInv, Sealed

(* A request emits a decision and perhaps an outcome.                      *)
LEMMA RequestS == StoreInv /\ Request => StoreInv'
<1> SUFFICES ASSUME StoreInv, Request PROVE StoreInv'
  OBVIOUS
<1>1. RInv'
  BY RequestR DEF StoreInv
<1>2. /\ log.sequence \in Nat /\ log'.sequence \in Nat /\ log.sequence <= log'.sequence
      /\ \A i \in 1 .. log.sequence : history'[i] = history[i]
      /\ \A s \in log.sequence .. log'.sequence - 1 : history'[s + 1].record.body # "seal"
  <2>1. CASE SetWitness(Emit(Witness, "decision"))
    <3>1. /\ log.sequence \in Nat /\ log'.sequence = log.sequence + 1
          /\ \A i \in 1 .. log.sequence : history'[i] = history[i]
          /\ history'[log.sequence + 1].record.body = "decision"
      BY <2>1, OneAppended DEF StoreInv
    <3>2. \A s \in log.sequence .. log'.sequence - 1 : s = log.sequence
      BY <3>1
    <3> QED BY <3>1, <3>2
  <2>2. CASE SetWitness(Emit(Emit(Witness, "decision"), "outcome"))
    <3>1. /\ log.sequence \in Nat /\ log'.sequence = log.sequence + 2
          /\ \A i \in 1 .. log.sequence : history'[i] = history[i]
          /\ history'[log.sequence + 1].record.body = "decision"
          /\ history'[log.sequence + 2].record.body = "outcome"
      BY <2>2, TwoAppended DEF StoreInv
    <3>2. \A s \in log.sequence .. log'.sequence - 1 :
            s + 1 = log.sequence + 1 \/ s + 1 = log.sequence + 2
      BY <3>1
    <3> QED BY <3>1, <3>2
  <2> QED BY <2>1, <2>2 DEF Request
<1>3. UNCHANGED <<receipts, cursor, resumed_at>>
  BY DEF Request, durable
<1> QED BY <1>1, <1>2, <1>3, Unclaimed DEF StoreInv

(* A seal that is refused, fails or is not persisted claims nothing.       *)
LEMMA FailedS ==
  ASSUME StoreInv, SealRefused \/ SealFails \/ SealNotPersisted
  PROVE  StoreInv'
<1>1. /\ SetWitness(Emit(Witness, "decision"))
      /\ UNCHANGED <<receipt_chain, durable, resumed_at>>
  BY DEF SealRefused, SealFails, SealNotPersisted
<1>2. RInv'
  BY <1>1, FailedSeal DEF StoreInv
<1>3. /\ log.sequence \in Nat /\ log'.sequence = log.sequence + 1
      /\ \A i \in 1 .. log.sequence : history'[i] = history[i]
      /\ history'[log.sequence + 1].record.body = "decision"
  BY <1>1, OneAppended DEF StoreInv
<1>4. \A s \in log.sequence .. log'.sequence - 1 : history'[s + 1].record.body # "seal"
  <2>1. \A s \in log.sequence .. log'.sequence - 1 : s = log.sequence
    BY <1>3
  <2> QED BY <1>3, <2>1
<1>5. log'.sequence \in Nat /\ log.sequence <= log'.sequence
  BY <1>3
<1> QED BY <1>1, <1>2, <1>3, <1>4, <1>5, Unclaimed DEF StoreInv, durable

(* A receipt sealed without an error tells of the records since the        *)
(* checkpoint, whatever hash the checkpoint carries.                       *)
LEMMA SealedTruthfully ==
  ASSUME NEW l, NEW h, Ring(l, h), NEW state, state.next_checkpoint.next_sequence \in Nat,
         ~SealError(l, state.next_checkpoint)
  PROVE  /\ Truthful(SealFromLog(l, state), l.sequence, h)
         /\ SealFromLog(l, state).last_sequence = l.sequence - 1
<1> DEFINE cp == state.next_checkpoint
           s == cp.next_sequence
           q == l.sequence
           n == q - s
           recs == SnapshotSinceRecords(l, cp)
           r == SealFromLog(l, state)
<1>1. N \in Nat \ {0} /\ q \in Nat /\ s \in Nat
  BY CapacityAssumption DEF Ring, LogType
<1>2. ~(s > q) /\ ~(s < RetainedStart(l)) /\ recs # <<>>
  BY DEF SealError, SnapshotSinceError
<1>3. n \in Nat /\ recs = [i \in 1 .. n |-> l.records[(s + i - 1) % N]]
  BY <1>1, <1>2 DEF SnapshotSinceRecords
<1>4. n > 0
  <2>1. n = 0 => recs = <<>>
    BY <1>3
  <2> QED BY <1>2, <1>3, <2>1
<1>5. ASSUME NEW i \in 1 .. n
      PROVE  recs[i] = h[s + i].record /\ recs[i].sequence = s + i - 1
  <2>1. s + i - 1 \in RetainedStart(l) .. q - 1 /\ s + i - 1 \in 0 .. q - 1
        /\ (s + i - 1) + 1 = s + i
    <3>1. RetainedStart(l) \in Nat /\ RetainedStart(l) <= s
      BY <1>1, <1>2 DEF RetainedStart
    <3> HIDE DEF q, s, recs, r
    <3> QED BY <1>1, <1>3, <3>1
  <2>2. l.records[(s + i - 1) % N] = h[(s + i - 1) + 1].record
        /\ h[(s + i - 1) + 1].record.sequence = s + i - 1
    BY <2>1 DEF Ring, Newest
  <2>3. recs[i] = l.records[(s + i - 1) % N]
    BY <1>3
  <2> QED BY <2>1, <2>2, <2>3
<1>6. recs = [i \in 1 .. n |-> h[s + i].record] /\ Len(recs) = n
  BY <1>3, <1>5
<1>7. /\ r.first_sequence = recs[1].sequence /\ r.last_sequence = recs[Len(recs)].sequence
      /\ r.record_count = Len(recs) /\ r.witness_root = recs
  BY DEF SealFromLog, MerkleRoot
<1> HIDE DEF recs, r
<1>8. r.first_sequence = s /\ r.last_sequence = q - 1 /\ r.record_count = n
  <2>1. 1 \in 1 .. n /\ n \in 1 .. n
    BY <1>3, <1>4
  <2> QED BY <1>1, <1>5, <1>6, <1>7, <2>1
<1>9. q - 1 \in Nat /\ n = (q - 1) - s + 1
  BY <1>1, <1>3, <1>4
<1>10. Truthful(r, q, h)
  <2>1. r.witness_root = [i \in 1 .. r.record_count |-> h[r.first_sequence + i].record]
    BY <1>6, <1>7, <1>8
  <2>2. /\ r.first_sequence \in Nat /\ r.last_sequence \in Nat
        /\ r.record_count = r.last_sequence - r.first_sequence + 1 /\ r.last_sequence < q
    BY <1>1, <1>8, <1>9
  <2> QED BY <2>1, <2>2 DEF Truthful
<1> QED BY <1>8, <1>10 DEF r

(* A seal that is persisted extends the table by its receipt, which tells  *)
(* of the records since the cursor, and claims it in the record after.     *)
LEMMA SealS == StoreInv /\ Seal => StoreInv'
<1> SUFFICES ASSUME StoreInv, Seal PROVE StoreInv'
  OBVIOUS
<1> DEFINE w == Emit(Witness, "decision")
           r == SealFromLog(w.log, receipt_chain)
           f == Following(w.log, r)
           k == Sealed
           q == log.sequence
<1>0. RInv'
  BY SealR DEF StoreInv
<1>1. /\ ~SealError(w.log, receipt_chain.next_checkpoint)
      /\ CursorMatches(r, f) /\ ExtendsStore(r)
      /\ receipts' = Inserted(r) /\ cursor' = <<f>>
      /\ SetWitness(Emit(w, "seal")) /\ resumed_at' = resumed_at
  BY DEF Seal, AppendVerifiable, Commit
<1>2. /\ q \in Nat /\ log'.sequence = q + 2
      /\ \A i \in 1 .. q : history'[i] = history[i]
      /\ history'[q + 1] = Remembered(log, Chained(log, "decision"))
      /\ history'[q + 1].record.body = "decision"
      /\ history'[q + 2].record.body = "seal"
  BY <1>1, TwoAppended DEF StoreInv
<1>3. Ring(w.log, w.history) /\ w.log.sequence = q + 1
  <2>1. Witness.log = log /\ Witness.history = history
    BY DEF Witness
  <2> QED BY <2>1, EmitRing DEF StoreInv, RInv
<1>4. Truthful(r, q + 1, w.history) /\ r.last_sequence = q
  <2>1. receipt_chain.next_checkpoint.next_sequence \in Nat
    BY DEF StoreInv, RInv, NextSequence
  <2> HIDE DEF w
  <2> QED BY <1>1, <1>2, <1>3, <2>1, SealedTruthfully
<1>5. \A i \in 1 .. q + 1 : history'[i] = w.history[i]
  <2>1. w.history = Append(history, Remembered(log, Chained(log, "decision")))
    BY DEF Emit, Witness
  <2>2. history \in Seq(Item) /\ Len(history) = q
    BY DEF StoreInv, RInv, Ring, Counters
  <2> DEFINE a == Remembered(log, Chained(log, "decision"))
  <2> HIDE DEF a
  <2>3. w.history = Append(history, a) /\ history'[q + 1] = a
    BY <1>2, <2>1 DEF a
  <2>4. w.history[q + 1] = a /\ \A i \in 1 .. q : w.history[i] = history[i]
    <3> HIDE DEF w, q
    <3> QED BY <1>2, <2>2, <2>3
  <2>5. \A i \in 1 .. q + 1 : i = q + 1 \/ i \in 1 .. q
    BY <1>2
  <2> HIDE DEF w, q
  <2> QED BY <1>2, <2>3, <2>4, <2>5
<1>6. Truthful(r, q + 2, history')
  <2>1. q + 1 \in Nat /\ q + 2 \in Nat /\ q + 1 <= q + 2
    BY <1>2
  <2> HIDE DEF r, w, q
  <2> QED BY <1>4, <1>5, <2>1, StillTruthful
<1>7. r.epoch_id = k /\ f.next_epoch_id = k + 1
  BY DEF SealFromLog, Following, Sealed, StoreInv, RInv, RuntimeAtCursor, Genesis
<1> HIDE DEF w, r, f, q
<1>8. /\ k \in Nat /\ Epochs = 0 .. k - 1 /\ k \notin Epochs
      /\ DOMAIN receipts' = 0 .. k /\ receipts'[k] = r
      /\ \A e \in Epochs : receipts'[e] = receipts[e]
      /\ DOMAIN receipts' = Epochs \cup {k}
  <2>1. k \in Nat /\ Epochs = 0 .. k - 1
    BY DEF StoreInv, ChainInv
  <2>2. receipts' = [e \in Epochs \cup {k} |-> IF e = k THEN r ELSE receipts[e]]
    BY <1>1, <1>7 DEF Inserted, Epochs
  <2>3. Epochs \cup {k} = 0 .. k /\ k \notin Epochs
    BY <2>1
  <2> HIDE DEF k
  <2> QED BY <2>1, <2>2, <2>3
<1>9. ChainInv'
  <2>1. Sealed' = k + 1
    BY <1>1, <1>7 DEF Sealed
  <2>2. Epochs' = 0 .. k
    BY <1>8 DEF Epochs
  <2>3. receipts[k - 1] = receipts'[k - 1] \/ k = 0
    BY <1>8
  <2>4. IF k = 0 THEN VerifyGenesis(r) ELSE VerifySuccessor(r, receipts'[k - 1])
    <3>1. CASE cursor = <<>>
      BY <3>1, <1>1 DEF StoreInv, ChainInv, ExtendsStore
    <3>2. CASE cursor # <<>>
      <4>1. k > 0
        BY <3>2 DEF StoreInv, ChainInv
      <4>2. VerifySuccessor(r, receipts[k - 1])
        BY <3>2, <1>1, <1>7 DEF ExtendsStore
      <4> QED BY <2>3, <4>1, <4>2, <1>8
    <3> QED BY <3>1, <3>2
  <2>5. \A e \in 0 .. k : /\ receipts'[e].epoch_id = e
                          /\ IF e = 0 THEN VerifyGenesis(receipts'[e])
                                      ELSE VerifySuccessor(receipts'[e], receipts'[e - 1])
    <3> SUFFICES ASSUME NEW e \in 0 .. k
                 PROVE  /\ receipts'[e].epoch_id = e
                        /\ IF e = 0 THEN VerifyGenesis(receipts'[e])
                                    ELSE VerifySuccessor(receipts'[e], receipts'[e - 1])
      OBVIOUS
    <3>1. CASE e = k
      BY <3>1, <1>7, <1>8, <2>4
    <3>2. CASE e # k
      <4>1. e \in Epochs /\ (e # 0 => e - 1 \in Epochs)
        BY <3>2, <1>8
      <4>2. /\ receipts[e].epoch_id = e
            /\ IF e = 0 THEN VerifyGenesis(receipts[e])
                        ELSE VerifySuccessor(receipts[e], receipts[e - 1])
        BY <4>1 DEF StoreInv, ChainInv
      <4> QED BY <4>1, <4>2, <1>8
    <3> QED BY <3>1, <3>2
  <2>6. cursor' # <<>> /\ cursor'[1] = f
    BY <1>1
  <2>7. CursorMatches(receipts'[k], f)
    BY <1>1, <1>8
  <2>8. k + 1 \in Nat /\ k + 1 > 0 /\ (k + 1) - 1 = k
    BY <1>8
  <2> HIDE DEF k
  <2> QED BY <2>1, <2>2, <2>5, <2>6, <2>7, <2>8
          DEF ChainInv, CursorMatches, VerifyGenesis, VerifySuccessor
<1>10. Account(receipts', resumed_at', log'.sequence, history')
  <2> SUFFICES ASSUME NEW e \in 0 .. k, e >= resumed_at
               PROVE  Truthful(receipts'[e], q + 2, history')
    BY <1>1, <1>2, <1>8 DEF Account
  <2>1. CASE e = k
    BY <2>1, <1>6, <1>8
  <2>2. CASE e # k
    <3>1. e \in Epochs /\ receipts'[e] = receipts[e]
      BY <2>2, <1>8
    <3>2. Truthful(receipts[e], q, history)
      BY <3>1 DEF StoreInv, Account, Epochs, q
    <3>3. q + 2 \in Nat /\ q <= q + 2
      BY <1>2
    <3> QED BY <1>2, <3>1, <3>2, <3>3, StillTruthful
  <2> QED BY <2>1, <2>2
<1>11. Claims(receipts', resumed_at', log'.sequence, history')
  <2>1. Claimed(q + 2, history') = Claimed(q, history) \cup {q + 1}
    <3>1. q + 2 \in Nat /\ q <= q + 2 /\ q .. (q + 2) - 1 = {q, q + 1} /\ (q + 1) + 1 = q + 2
      BY <1>2
    <3>2. NewlyClaimed(q, q + 2, history') = {q + 1}
      BY <1>2, <3>1 DEF NewlyClaimed
    <3>3. Claimed(q + 2, history') = Claimed(q, history) \cup NewlyClaimed(q, q + 2, history')
      <4>1. PICK o, p, g : o \in Nat /\ p \in Nat /\ o = q /\ p = q + 2 /\ g = history'
        BY <3>1, <1>2
      <4>2. o \in Nat /\ p \in Nat /\ o <= p /\ \A i \in 1 .. o : g[i] = history[i]
        BY <1>2, <3>1, <4>1
      <4>3. Claimed(p, g) = Claimed(o, history) \cup NewlyClaimed(o, p, g)
        BY ONLY <4>2, ClaimsGrow
      <4> QED BY <4>1, <4>3
    <3> QED BY <3>2, <3>3
  <2>2. k >= resumed_at
    BY <1>8 DEF StoreInv
  <2>3. {receipts'[e].last_sequence + 1 : e \in {x \in DOMAIN receipts' : x >= resumed_at}}
          = {receipts[e].last_sequence + 1 : e \in {x \in Epochs : x >= resumed_at}} \cup {q + 1}
    BY <1>4, <1>8, <2>2
  <2>4. Claimed(q, history) = {receipts[e].last_sequence + 1 : e \in {x \in Epochs : x >= resumed_at}}
    BY DEF StoreInv, Claims, Epochs, q
  <2> QED BY <1>1, <1>2, <2>1, <2>3, <2>4 DEF Claims
<1>12. resumed_at' \in 0 .. Sealed'
  <2>1. Sealed' = k + 1 /\ k \in Nat /\ resumed_at \in 0 .. k
    BY <1>1, <1>7 DEF Sealed, StoreInv, ChainInv
  <2> HIDE DEF k
  <2> QED BY <1>1, <2>1
<1> QED BY <1>0, <1>9, <1>10, <1>11, <1>12 DEF StoreInv

(* After a restart the log is empty and has nothing to account for.        *)
LEMMA RestartS == StoreInv /\ Restart => StoreInv'
<1> SUFFICES ASSUME StoreInv, Restart PROVE StoreInv'
  OBVIOUS
<1>1. RInv'
  BY RestartR DEF StoreInv
<1>2. /\ UNCHANGED <<receipts, cursor>> /\ log'.sequence = 0 /\ history' = <<>>
      /\ resumed_at' = Cardinality(Epochs)
  BY DEF Restart, durable, NewLog, Epochs
<1>3. ChainInv'
  BY <1>2 DEF StoreInv, ChainInv, Sealed, Epochs, CursorMatches, VerifyGenesis, VerifySuccessor
<1>4. resumed_at' = Sealed /\ Epochs = 0 .. Sealed - 1 /\ Sealed \in Nat
  <2>1. Sealed \in Nat /\ Epochs = 0 .. Sealed - 1
    BY DEF StoreInv, ChainInv
  <2>2. Cardinality(0 .. Sealed - 1) = Sealed
    BY <2>1, FS_Interval
  <2> QED BY <1>2, <2>1, <2>2
<1>5. \A e \in DOMAIN receipts' : ~(e >= resumed_at')
  BY <1>2, <1>4 DEF Epochs
<1>6. Account(receipts', resumed_at', log'.sequence, history')
  BY <1>5 DEF Account
<1>7. Claims(receipts', resumed_at', log'.sequence, history')
  BY <1>2, <1>5 DEF Claims, Claimed
<1>8. resumed_at' \in 0 .. Sealed'
  <2>1. Sealed' = Sealed
    BY <1>2 DEF Sealed
  <2> QED BY <1>4, <2>1
<1> QED BY <1>1, <1>3, <1>6, <1>7, <1>8 DEF StoreInv

(* Table, cursor and log tell one story through every request, seal,       *)
(* failure and restart (receipt_store.rs, runtime.rs).                     *)
THEOREM StoreInvariant == RSpec => []StoreInv
<1>1. RInit => StoreInv
  <2> SUFFICES ASSUME RInit PROVE StoreInv
    OBVIOUS
  <2>1. /\ cursor = <<>> /\ receipts = <<>> /\ resumed_at = 0 /\ log.sequence = 0
    BY DEF RInit, Init, NewLog
  <2>2. Epochs = {}
    BY <2>1 DEF Epochs
  <2>3. ChainInv
    BY <2>1, <2>2 DEF ChainInv, Sealed
  <2>5. resumed_at \in 0 .. Sealed
    BY <2>1 DEF Sealed
  <2>4. /\ Account(receipts, resumed_at, log.sequence, history)
        /\ Claims(receipts, resumed_at, log.sequence, history)
    BY <2>1, <2>2 DEF Account, Claims, Claimed, Epochs
  <2> QED BY <2>3, <2>4, <2>5, InitR DEF StoreInv
<1>2. StoreInv /\ [RNext]_rvars => StoreInv'
  <2> SUFFICES ASSUME StoreInv, [RNext]_rvars PROVE StoreInv'
    OBVIOUS
  <2>1. CASE Request
    BY <2>1, RequestS
  <2>2. CASE SealRefused \/ SealFails \/ SealNotPersisted
    BY <2>2, FailedS
  <2>3. CASE Seal
    BY <2>3, SealS
  <2>4. CASE Restart
    BY <2>4, RestartS
  <2>5. CASE UNCHANGED rvars
    <3>1. /\ UNCHANGED <<log, history, receipts, cursor, resumed_at>>
          /\ UNCHANGED receipt_chain
      BY <2>5 DEF rvars, durable
    <3>2. RInv'
      BY <3>1 DEF StoreInv, RInv, Ring, LogType, Item, Counters, Newest, RetainedStart,
                  RuntimeAtCursor, NextSequence
    <3>3. ChainInv'
      BY <3>1 DEF StoreInv, ChainInv, Sealed, Epochs, CursorMatches, VerifyGenesis, VerifySuccessor
    <3>4. Sealed' = Sealed
      BY <3>1 DEF Sealed
    <3> QED BY <3>1, <3>2, <3>3, <3>4 DEF StoreInv
  <2> QED BY <2>1, <2>2, <2>3, <2>4, <2>5 DEF RNext
<1> QED BY <1>1, <1>2, PTL DEF RSpec

(* For every ring capacity, threshold and hash, and through every failed   *)
(* seal and restart: the durable table is one chain from genesis, the      *)
(* cursor follows its last receipt, each receipt this process sealed holds *)
(* exactly the records of its range, and the log claims a sealed epoch     *)
(* exactly for those.                                                      *)
THEOREM StoreHolds == RSpec => []StoreSound
<1>1. StoreInv => StoreSound
  <2> SUFFICES ASSUME StoreInv PROVE StoreSound
    OBVIOUS
  <2>1. /\ Sealed \in Nat /\ Epochs = 0 .. Sealed - 1
        /\ cursor = <<>> => Sealed = 0
        /\ cursor # <<>> => Sealed > 0 /\ CursorMatches(receipts[Sealed - 1], cursor[1])
        /\ \A e \in Epochs :
             /\ receipts[e].epoch_id = e
             /\ IF e = 0 THEN VerifyGenesis(receipts[e])
                         ELSE VerifySuccessor(receipts[e], receipts[e - 1])
    BY DEF StoreInv, ChainInv
  <2>2. Cardinality(Epochs) = Sealed
    <3>1. Cardinality(0 .. Sealed - 1) = Sealed
      BY <2>1, FS_Interval
    <3> QED BY <2>1, <3>1
  <2>3. (cursor = <<>>) <=> (Epochs = {})
    <3>1. CASE cursor = <<>>
      BY <2>1, <3>1
    <3>2. CASE cursor # <<>>
      <4>1. 0 \in Epochs
        BY <2>1, <3>2
      <4> QED BY <3>2, <4>1
    <3> QED BY <3>1, <3>2
  <2>4. StoreChainIntact
    BY <2>1, <2>2, <2>3 DEF StoreChainIntact
  <2>5. ReceiptsAreTheRecords
    BY DEF StoreInv, Account, Truthful, ReceiptsAreTheRecords, Epochs
  <2>6. SealClaims
    BY DEF StoreInv, Claims, Claimed, SealClaims, Epochs
  <2> QED BY <2>4, <2>5, <2>6 DEF StoreSound
<1> QED BY <1>1, StoreInvariant, PTL

-----------------------------------------------------------------------------
(* The resolver in memory. *)

\* Aliases belong to names, and a live one names a revision.
AliasesTyped ==
  /\ DOMAIN aliases \subseteq Name /\ IsFiniteSet(DOMAIN aliases)
  /\ \A n \in DOMAIN aliases :
       /\ aliases[n] = AliasSnapshot(n, aliases[n].revision, aliases[n].generation,
                                     aliases[n].tombstone)
       /\ aliases[n].generation \in Nat /\ aliases[n].tombstone \in BOOLEAN
       /\ ~aliases[n].tombstone => aliases[n].revision \in ContextRevision

HeldTyped == held = [c \in Owner |-> held[c]]

\* An object other than a tombstone is a name's revision.
ObjectsTyped == \A o \in DOMAIN objects : objects[o] # "tombstone" => o \in Name \X ContextRevision

GoneIsGone ==
  \A o \in gone : o \in Name \X ContextRevision /\ o \in DOMAIN objects /\ objects[o] # "stored"

AliasInv ==
  AliasesTyped /\ HeldTyped /\ ObjectsTyped /\ IsFiniteSet(DOMAIN objects) /\ GoneIsGone /\ rejected = FALSE

\* The mapping of AliasesAreARegister.
Registered(as) ==
  [n \in DOMAIN as |-> [version |-> as[n].generation, closed |-> as[n].tombstone]]
SeenOf(hs) == [c \in Owner |-> [of |-> hs[c].of, version |-> hs[c].generation]]

(* A name is what a target for it names.                                   *)
LEMMA NamesTargets ==
  ASSUME NEW n \in Name, NEW r
  PROVE  /\ Of(Versionless(n)) = n /\ Of(Pinned(n, r)) = n
         /\ Versionless(n).revision = NoRevision
         /\ Of(AliasEntry(n)) = n
BY DEF Of, Versionless, Pinned, Name, AliasEntry, Resolved

(* The tables begin empty.                                                 *)
LEMMA AliasStart == StoreInit => AliasInv /\ Register!RegisterInit
<1> SUFFICES ASSUME StoreInit PROVE AliasInv /\ Register!RegisterInit
  OBVIOUS
<1> USE DEF StoreInit
<1>1. DOMAIN aliases = {} /\ DOMAIN objects = {}
  OBVIOUS
<1>2. AliasInv
  BY <1>1, FS_EmptySet DEF AliasInv, AliasesTyped, HeldTyped, ObjectsTyped, GoneIsGone
<1>3. Register!RegisterInit
  BY <1>1 DEF Register!RegisterInit, Register!Unseen, NoSnapshot
<1> QED BY <1>2, <1>3

(* What a client learns is the register's value: resolve and the entries   *)
(* of listings.                                                            *)
LEMMA LearnStep ==
  ASSUME AliasInv, NEW c \in Owner, NEW k, NEW n \in Name, Learn(c, k, n)
  PROVE  AliasInv' /\ Register!Observe(c, n)
<1>1. n \in DOMAIN aliases /\ ~aliases[n].tombstone
  BY NamesTargets DEF Learn, resolved_for
<1>2. /\ held' = [held EXCEPT ![c] = aliases[n]]
      /\ UNCHANGED <<objects, aliases, rejected, gone>>
  BY DEF Learn
<1>3. aliases[n].of = {n}
  BY <1>1 DEF AliasInv, AliasesTyped, AliasSnapshot
<1>4. SeenOf(held') = [SeenOf(held) EXCEPT ![c] = [of |-> {n}, version |-> aliases[n].generation]]
  <2>1. held'[c] = aliases[n] /\ \A x \in Owner : x # c => held'[x] = held[x]
    BY <1>2 DEF AliasInv, HeldTyped
  <2>2. PICK hs, gs : hs = held /\ gs = held'
    OBVIOUS
  <2>3. /\ gs[c].of = {n} /\ gs[c].generation = aliases[n].generation
        /\ \A x \in Owner : x # c => gs[x] = hs[x]
    BY <1>3, <2>1, <2>2
  <2>4. PICK a : a = aliases[n].generation
    OBVIOUS
  <2>5. SeenOf(gs) = [SeenOf(hs) EXCEPT ![c] = [of |-> {n}, version |-> a]]
    <3>1. \A x \in Owner : [of |-> gs[x].of, version |-> gs[x].generation]
                             = IF x = c THEN [of |-> {n}, version |-> a] ELSE SeenOf(hs)[x]
      BY ONLY <2>3, <2>4 DEF SeenOf
    <3> QED BY ONLY <3>1 DEF SeenOf
  <2> QED BY <2>2, <2>4, <2>5
<1>5. AliasInv'
  <2>1. HeldTyped'
    BY <1>2 DEF AliasInv, HeldTyped
  <2>2. AliasesTyped' /\ ObjectsTyped' /\ GoneIsGone'
    BY <1>2 DEF AliasInv, AliasesTyped, ObjectsTyped, GoneIsGone
  <2> QED BY <1>2, <2>1, <2>2 DEF AliasInv
<1>6. Registered(aliases)[n] = [version |-> aliases[n].generation, closed |-> aliases[n].tombstone]
  BY <1>1 DEF Registered
<1>7. Register!Observe(c, n)
  BY <1>1, <1>2, <1>4, <1>6 DEF Register!Observe, Register!Knows, Registered, SeenOf
<1> QED BY <1>5, <1>7

(* A put stores what was never there.                                      *)
LEMMA PutStep ==
  ASSUME AliasInv, NEW c, NEW k, NEW n \in Name, NEW r \in ContextRevision, PutRequest(c, k, n, r)
  PROVE  AliasInv' /\ UNCHANGED <<aliases, held>>
<1>1. /\ UNCHANGED <<aliases, gone, held, rejected>>
      /\ <<n, r>> \notin DOMAIN objects /\ objects' = With(objects, <<n, r>>, "stored")
  BY DEF PutRequest, put
<1>2. /\ DOMAIN objects' = DOMAIN objects \cup {<<n, r>>}
      /\ \A o \in DOMAIN objects : objects'[o] = objects[o]
  BY <1>1 DEF With
<1>3. IsFiniteSet(DOMAIN objects')
  BY <1>2, FS_AddElement DEF AliasInv
<1>4. GoneIsGone'
  BY <1>1, <1>2 DEF AliasInv, GoneIsGone
<1>5. AliasesTyped' /\ HeldTyped'
  BY <1>1 DEF AliasInv, AliasesTyped, HeldTyped
<1>6. ObjectsTyped'
  BY <1>2 DEF AliasInv, ObjectsTyped
<1> QED BY <1>1, <1>3, <1>4, <1>5, <1>6 DEF AliasInv

(* Writing one alias keeps the types.                                      *)
LEMMA AliasWritten ==
  ASSUME AliasInv, NEW n \in Name, NEW r, NEW g \in Nat, NEW t \in BOOLEAN,
         ~t => r \in ContextRevision,
         DOMAIN aliases' = DOMAIN aliases \cup {n},
         aliases'[n] = AliasSnapshot(n, r, g, t),
         \A x \in DOMAIN aliases : x # n => aliases'[x] = aliases[x]
  PROVE  AliasesTyped'
<1>1. /\ DOMAIN aliases' \subseteq Name /\ IsFiniteSet(DOMAIN aliases')
  BY FS_AddElement DEF AliasInv, AliasesTyped
<1>2. ASSUME NEW x \in DOMAIN aliases'
      PROVE  /\ aliases'[x] = AliasSnapshot(x, aliases'[x].revision, aliases'[x].generation,
                                            aliases'[x].tombstone)
             /\ aliases'[x].generation \in Nat /\ aliases'[x].tombstone \in BOOLEAN
             /\ ~aliases'[x].tombstone => aliases'[x].revision \in ContextRevision
  <2>1. CASE x = n
    BY <2>1 DEF AliasSnapshot
  <2>2. CASE x # n
    BY <2>2 DEF AliasInv, AliasesTyped
  <2> QED BY <2>1, <2>2
<1> QED BY <1>1, <1>2 DEF AliasesTyped

(* A swap that succeeds replaces exactly what its client saw, or creates   *)
(* the name; and the runtime accepts the snapshot it returns.              *)
LEMMA CasStep ==
  ASSUME AliasInv, NEW c \in Owner, NEW k, NEW n \in Name, NEW r \in ContextRevision,
         CasRequest(c, k, n, r)
  PROVE  AliasInv' /\ (Register!CreateName(c, n) \/ Register!Replace(c, n, FALSE))
<1>0. UNCHANGED <<objects, gone>>
  BY DEF CasRequest, compare_and_swap_alias
<1>1. PICK g \in Nat \ {0} :
        /\ \/ n \notin DOMAIN aliases /\ g = 1
              /\ aliases' = With(aliases, n, AliasSnapshot(n, r, g, FALSE))
           \/ n \in DOMAIN aliases /\ ~aliases[n].tombstone /\ held[c] = aliases[n]
              /\ g = aliases[n].generation + 1
              /\ aliases' = [aliases EXCEPT ![n] = AliasSnapshot(n, r, g, FALSE)]
        /\ Follows(c, n, FALSE, g)
  <2>1. CASE /\ ~held[c].tombstone /\ held[c].of = {n} /\ n \in DOMAIN aliases
             /\ compare_and_swap_alias(n, held[c], r)
             /\ Follows(c, n, FALSE, held[c].generation + 1)
    <3>1. /\ ~aliases[n].tombstone /\ held[c] = aliases[n]
          /\ \E next \in checked_next(aliases[n].generation) :
                aliases' = [aliases EXCEPT ![n] = AliasSnapshot(n, r, next, FALSE)]
      BY <2>1 DEF compare_and_swap_alias, Expected
    <3>2. /\ aliases[n].generation \in Nat
          /\ \A next \in checked_next(aliases[n].generation) : next = aliases[n].generation + 1
      BY <2>1 DEF AliasInv, AliasesTyped, checked_next
    <3>3. aliases[n].generation + 1 \in Nat \ {0}
      BY <3>2
    <3> DEFINE g == aliases[n].generation + 1
    <3>4. aliases' = [aliases EXCEPT ![n] = AliasSnapshot(n, r, g, FALSE)]
      BY <3>1, <3>2
    <3>5. Follows(c, n, FALSE, g)
      BY <2>1, <3>1
    <3> HIDE DEF g
    <3>6. n \in DOMAIN aliases /\ g \in Nat \ {0} /\ g = aliases[n].generation + 1
      BY <2>1, <3>3 DEF g
    <3>7. \/ n \notin DOMAIN aliases /\ g = 1
             /\ aliases' = With(aliases, n, AliasSnapshot(n, r, g, FALSE))
          \/ n \in DOMAIN aliases /\ ~aliases[n].tombstone /\ held[c] = aliases[n]
             /\ g = aliases[n].generation + 1
             /\ aliases' = [aliases EXCEPT ![n] = AliasSnapshot(n, r, g, FALSE)]
      BY <3>1, <3>4, <3>6
    <3>8. g \in Nat \ {0}
      BY <3>6
    <3> WITNESS g \in Nat \ {0}
    <3> QED BY ONLY <3>5, <3>7
  <2>2. CASE /\ n \notin DOMAIN aliases
             /\ compare_and_swap_alias(n, NoSnapshot, r)
             /\ Follows(c, n, FALSE, 1)
    <3>1. aliases' = With(aliases, n, AliasSnapshot(n, r, 1, FALSE))
      BY <2>2 DEF compare_and_swap_alias
    <3>2. 1 \in Nat \ {0}
      OBVIOUS
    <3> WITNESS 1 \in Nat \ {0}
    <3> QED BY <2>2, <3>1
  <2> QED BY <2>1, <2>2 DEF CasRequest
<1>2. /\ DOMAIN aliases' = DOMAIN aliases \cup {n}
      /\ aliases'[n] = AliasSnapshot(n, r, g, FALSE)
      /\ \A x \in DOMAIN aliases : x # n => aliases'[x] = aliases[x]
      /\ Registered(aliases') = [x \in DOMAIN Registered(aliases) \cup {n} |->
            IF x = n THEN [version |-> g, closed |-> FALSE] ELSE Registered(aliases)[x]]
  <2>1. /\ DOMAIN aliases' = DOMAIN aliases \cup {n}
        /\ aliases'[n] = AliasSnapshot(n, r, g, FALSE)
        /\ \A x \in DOMAIN aliases : x # n => aliases'[x] = aliases[x]
    BY <1>1 DEF With
  <2>2. PICK as, bs : as = aliases /\ bs = aliases'
    OBVIOUS
  <2>3. /\ DOMAIN bs = DOMAIN as \cup {n} /\ bs[n] = AliasSnapshot(n, r, g, FALSE)
        /\ \A x \in DOMAIN as : x # n => bs[x] = as[x]
    BY <2>1, <2>2
  <2>4. Registered(bs) = [x \in DOMAIN Registered(as) \cup {n} |->
            IF x = n THEN [version |-> g, closed |-> FALSE] ELSE Registered(as)[x]]
    <3>1. \A x \in DOMAIN bs : [version |-> bs[x].generation, closed |-> bs[x].tombstone]
                              = IF x = n THEN [version |-> g, closed |-> FALSE] ELSE Registered(as)[x]
      <4>1. bs[n].generation = g /\ bs[n].tombstone = FALSE
        BY ONLY <2>3 DEF AliasSnapshot
      <4>2. \A x \in DOMAIN as : Registered(as)[x] = [version |-> as[x].generation,
                                                     closed |-> as[x].tombstone]
        BY ONLY DEF Registered
      <4> QED BY ONLY <2>3, <4>1, <4>2
    <3>2. DOMAIN Registered(as) = DOMAIN as
      BY ONLY DEF Registered
    <3> QED BY ONLY <2>3, <3>1, <3>2 DEF Registered
  <2> QED BY <2>1, <2>2, <2>4
<1>3. held' = [held EXCEPT ![c] = aliases'[n]] /\ rejected' = FALSE
  <2>1. aliases'[n].tombstone = FALSE /\ aliases'[n].generation = g
    BY <1>2 DEF AliasSnapshot
  <2> QED BY <1>1, <2>1 DEF Follows, AliasInv
<1>4. SeenOf(held') = [SeenOf(held) EXCEPT ![c] = [of |-> {n}, version |-> g]]
  <2>1. aliases'[n].of = {n} /\ aliases'[n].generation = g
    BY <1>2 DEF AliasSnapshot
  <2>2. held'[c] = aliases'[n] /\ \A x \in Owner : x # c => held'[x] = held[x]
    BY <1>3 DEF AliasInv, HeldTyped
  <2>3. PICK hs, gs : hs = held /\ gs = held'
    OBVIOUS
  <2>4. /\ gs[c].of = {n} /\ gs[c].generation = g
        /\ \A x \in Owner : x # c => gs[x] = hs[x]
    BY <2>1, <2>2, <2>3
  <2>5. SeenOf(gs) = [SeenOf(hs) EXCEPT ![c] = [of |-> {n}, version |-> g]]
    <3>1. \A x \in Owner : [of |-> gs[x].of, version |-> gs[x].generation]
                             = IF x = c THEN [of |-> {n}, version |-> g] ELSE SeenOf(hs)[x]
      BY ONLY <2>4 DEF SeenOf
    <3> QED BY ONLY <3>1 DEF SeenOf
  <2> QED BY <2>3, <2>5
<1>5. AliasInv'
  <2>1. AliasesTyped'
    BY <1>2, AliasWritten
  <2>2. HeldTyped'
    BY <1>3 DEF AliasInv, HeldTyped
  <2> QED BY <1>0, <1>3, <2>1, <2>2 DEF AliasInv, ObjectsTyped, GoneIsGone
<1>6. Registered(aliases')[n] = [version |-> g, closed |-> FALSE]
  BY <1>2 DEF Registered, AliasSnapshot
<1>7. CASE n \notin DOMAIN aliases
  <2>1. g = 1
    BY <1>1, <1>7
  <2>2. Register!CreateName(c, n)
    BY <2>1, <1>2, <1>4, <1>6, <1>7
       DEF Register!CreateName, Register!Write, Register!Knows, Registered, SeenOf
  <2> QED BY <1>5, <2>2
<1>8. CASE n \in DOMAIN aliases
  <2>1. /\ ~aliases[n].tombstone /\ held[c] = aliases[n] /\ g = aliases[n].generation + 1
        /\ aliases[n].of = {n}
    BY <1>1, <1>8 DEF AliasInv, AliasesTyped, AliasSnapshot
  <2>2. SeenOf(held)[c] = [of |-> {n}, version |-> aliases[n].generation]
    BY <2>1 DEF SeenOf
  <2>3. Registered(aliases)[n] = [version |-> aliases[n].generation, closed |-> aliases[n].tombstone]
    BY <1>8 DEF Registered
  <2>4. Register!Replace(c, n, FALSE)
    BY <2>1, <2>2, <2>3, <1>2, <1>4, <1>6, <1>8
       DEF Register!Replace, Register!Saw, Register!Write, Register!Knows, Registered, SeenOf
  <2> QED BY <1>5, <2>4
<1> QED BY <1>7, <1>8

(* A forget closes the name for the client that saw its last value, and    *)
(* every object it had stays unreachable.                                  *)
LEMMA ForgetStep ==
  ASSUME AliasInv, NEW c \in Owner, NEW k, NEW n \in Name, ForgetRequest(c, k, n)
  PROVE  AliasInv' /\ Register!Replace(c, n, TRUE)
<1> DEFINE r == TombstoneRevision(held[c])
<1>0. /\ n \in DOMAIN aliases /\ ~aliases[n].tombstone /\ held[c] = aliases[n]
      /\ insert_tombstone(n, held[c])
      /\ gone' = gone \cup {o \in DOMAIN objects : o[1] = n /\ objects[o] # "tombstone"}
      /\ Follows(c, n, TRUE, held[c].generation + 1)
  BY DEF ForgetRequest, forget, Expected
<1>1. PICK g \in Nat \ {0} : /\ g = aliases[n].generation + 1
                            /\ aliases' = [aliases EXCEPT ![n] = AliasSnapshot(n, r, g, TRUE)]
  <2>1. \E next \in checked_next(aliases[n].generation) :
           aliases' = [aliases EXCEPT ![n] = AliasSnapshot(n, r, next, TRUE)]
    BY DEF ForgetRequest, forget
  <2>2. /\ aliases[n].generation \in Nat
        /\ \A next \in checked_next(aliases[n].generation) : next = aliases[n].generation + 1
    BY <1>0 DEF AliasInv, AliasesTyped, checked_next
  <2>3. aliases[n].generation + 1 \in Nat \ {0}
    BY <2>2
  <2> HIDE DEF r
  <2> QED BY <2>1, <2>2, <2>3
<1> HIDE DEF r
<1>2. /\ DOMAIN aliases' = DOMAIN aliases \cup {n}
      /\ aliases'[n] = AliasSnapshot(n, r, g, TRUE)
      /\ \A x \in DOMAIN aliases : x # n => aliases'[x] = aliases[x]
      /\ Registered(aliases') = [x \in DOMAIN Registered(aliases) \cup {n} |->
            IF x = n THEN [version |-> g, closed |-> TRUE] ELSE Registered(aliases)[x]]
  <2>1. /\ DOMAIN aliases' = DOMAIN aliases \cup {n}
        /\ aliases'[n] = AliasSnapshot(n, r, g, TRUE)
        /\ \A x \in DOMAIN aliases : x # n => aliases'[x] = aliases[x]
    BY <1>0, <1>1
  <2>2. PICK as, bs : as = aliases /\ bs = aliases'
    OBVIOUS
  <2>3. /\ DOMAIN bs = DOMAIN as \cup {n} /\ bs[n] = AliasSnapshot(n, r, g, TRUE)
        /\ \A x \in DOMAIN as : x # n => bs[x] = as[x]
    BY <2>1, <2>2
  <2>4. Registered(bs) = [x \in DOMAIN Registered(as) \cup {n} |->
            IF x = n THEN [version |-> g, closed |-> TRUE] ELSE Registered(as)[x]]
    <3>1. \A x \in DOMAIN bs : [version |-> bs[x].generation, closed |-> bs[x].tombstone]
                              = IF x = n THEN [version |-> g, closed |-> TRUE] ELSE Registered(as)[x]
      <4>1. bs[n].generation = g /\ bs[n].tombstone = TRUE
        BY ONLY <2>3 DEF AliasSnapshot
      <4>2. \A x \in DOMAIN as : Registered(as)[x] = [version |-> as[x].generation,
                                                     closed |-> as[x].tombstone]
        BY ONLY DEF Registered
      <4> QED BY ONLY <2>3, <4>1, <4>2
    <3>2. DOMAIN Registered(as) = DOMAIN as
      BY ONLY DEF Registered
    <3> QED BY ONLY <2>3, <3>1, <3>2 DEF Registered
  <2> QED BY <2>1, <2>2, <2>4
<1>3. held' = [held EXCEPT ![c] = aliases'[n]] /\ rejected' = FALSE
  BY <1>0, <1>1, <1>2 DEF Follows, AliasSnapshot, AliasInv
<1>4. SeenOf(held') = [SeenOf(held) EXCEPT ![c] = [of |-> {n}, version |-> g]]
  <2>1. aliases'[n].of = {n} /\ aliases'[n].generation = g
    BY <1>2 DEF AliasSnapshot
  <2>2. held'[c] = aliases'[n] /\ \A x \in Owner : x # c => held'[x] = held[x]
    BY <1>3 DEF AliasInv, HeldTyped
  <2>3. PICK hs, gs : hs = held /\ gs = held'
    OBVIOUS
  <2>4. /\ gs[c].of = {n} /\ gs[c].generation = g
        /\ \A x \in Owner : x # c => gs[x] = hs[x]
    BY <2>1, <2>2, <2>3
  <2>5. SeenOf(gs) = [SeenOf(hs) EXCEPT ![c] = [of |-> {n}, version |-> g]]
    <3>1. \A x \in Owner : [of |-> gs[x].of, version |-> gs[x].generation]
                             = IF x = c THEN [of |-> {n}, version |-> g] ELSE SeenOf(hs)[x]
      BY ONLY <2>4 DEF SeenOf
    <3> QED BY ONLY <3>1 DEF SeenOf
  <2> QED BY <2>3, <2>5
<1>5. /\ DOMAIN objects' = DOMAIN objects \cup {<<n, r>>}
      /\ objects'[<<n, r>>] = "tombstone"
      /\ \A o \in DOMAIN objects : o # <<n, r>> =>
           objects'[o] = IF o \in Forgotten(n) THEN "forgotten" ELSE objects[o]
  BY <1>0 DEF insert_tombstone, With, r
<1>6. IsFiniteSet(DOMAIN objects')
  BY <1>5, FS_AddElement DEF AliasInv
<1>7. GoneIsGone'
  <2> SUFFICES ASSUME NEW o \in gone'
               PROVE  o \in Name \X ContextRevision /\ o \in DOMAIN objects' /\ objects'[o] # "stored"
    BY DEF GoneIsGone
  <2>0. o \in Name \X ContextRevision /\ o \in DOMAIN objects
    BY <1>0 DEF AliasInv, ObjectsTyped, GoneIsGone
  <2>1. CASE o = <<n, r>>
    BY <2>0, <2>1, <1>5
  <2>2. CASE o # <<n, r>>
    <3>1. o \in Forgotten(n) \/ objects[o] # "stored"
      BY <2>0, <1>0 DEF AliasInv, GoneIsGone, Forgotten
    <3> QED BY <2>0, <2>2, <3>1, <1>5
  <2> QED BY <2>1, <2>2
<1>8. AliasInv'
  <2>1. AliasesTyped'
    BY <1>2, AliasWritten
  <2>2. HeldTyped'
    BY <1>3 DEF AliasInv, HeldTyped
  <2>3. ObjectsTyped'
    BY <1>5 DEF AliasInv, ObjectsTyped, Forgotten
  <2> QED BY <1>3, <1>6, <1>7, <2>1, <2>2, <2>3 DEF AliasInv
<1>9. Register!Replace(c, n, TRUE)
  <2>1. aliases[n].of = {n}
    BY <1>0 DEF AliasInv, AliasesTyped, AliasSnapshot
  <2>2. SeenOf(held)[c] = [of |-> {n}, version |-> aliases[n].generation]
    BY <1>0, <2>1 DEF SeenOf
  <2>3. Registered(aliases)[n] = [version |-> aliases[n].generation, closed |-> aliases[n].tombstone]
    BY <1>0 DEF Registered
  <2>4. Registered(aliases')[n] = [version |-> g, closed |-> TRUE]
    BY <1>2 DEF Registered, AliasSnapshot
  <2> QED BY <2>2, <2>3, <2>4, <1>0, <1>1, <1>2, <1>4
      DEF Register!Replace, Register!Saw, Register!Write, Register!Knows, Registered, SeenOf
<1> QED BY <1>8, <1>9

(* What the resolver answers is stored and named as it is asked.           *)
LEMMA ExactAnswer ==
  ASSUME AliasInv, NEW n \in Name, NEW r \in ContextRevision \cup {NoRevision}, NEW x,
         x \in resolved_for(Pinned(n, r))
  PROVE  /\ x.space = n.space /\ x.path = n.path /\ Of(x) = n
         /\ resolved_for(Pinned(n, r)) = {x}
         /\ Reachable(n, x.revision)
         /\ IF r = NoRevision
            THEN n \in DOMAIN aliases /\ ~aliases[n].tombstone /\ x = AliasEntry(n)
                 /\ x.alias = x.revision /\ x.revision \in ContextRevision
            ELSE x.revision = r /\ x.alias = NoRevision
<1>1. Of(Pinned(n, r)) = n /\ Pinned(n, r).revision = r
  BY DEF Of, Pinned, Name
<1>2. n = [space |-> n.space, path |-> n.path]
  BY DEF Name
<1>3. CASE r # NoRevision
  <2>1. Reachable(n, r) /\ resolved_for(Pinned(n, r)) = {Resolved(n, r, NoRevision)}
    BY <1>1, <1>3 DEF resolved_for
  <2>2. x = Resolved(n, r, NoRevision)
    BY <2>1
  <2> QED BY <1>2, <1>3, <2>1, <2>2 DEF Resolved, Of
<1>4. CASE r = NoRevision
  <2>1. /\ n \in DOMAIN aliases /\ ~aliases[n].tombstone /\ Reachable(n, aliases[n].revision)
        /\ resolved_for(Pinned(n, r)) = {AliasEntry(n)}
    BY <1>1, <1>4 DEF resolved_for, AliasEntry
  <2>2. x = AliasEntry(n) /\ aliases[n].revision \in ContextRevision
    BY <2>1 DEF AliasInv, AliasesTyped
  <2> QED BY <1>2, <1>4, <2>1, <2>2 DEF AliasEntry, Resolved, Of
<1> QED BY <1>3, <1>4

(* And so is every entry of a listing,                                     *)
LEMMA ListedEntry ==
  ASSUME AliasInv, NEW n \in LiveAliases
  PROVE  LET x == AliasEntry(n)
         IN  /\ x.space = n.space /\ x.path = n.path /\ Of(x) = n /\ n \in Name
             /\ Reachable(n, x.revision) /\ x.alias = x.revision
<1>1. n \in Name /\ Reachable(n, aliases[n].revision)
  BY DEF AliasInv, AliasesTyped, LiveAliases
<1>2. n = [space |-> n.space, path |-> n.path]
  BY <1>1 DEF Name
<1> QED BY <1>1, <1>2 DEF AliasEntry, Resolved, Of

(* and of a history.                                                       *)
LEMMA HistoryEntry ==
  ASSUME NEW n \in Name, NEW r, Reachable(n, r)
  PROVE  LET x == Resolved(n, r, NoRevision)
         IN  x.space = n.space /\ x.path = n.path /\ Of(x) = n /\ Reachable(n, x.revision)
             /\ x.alias = NoRevision
<1>1. n = [space |-> n.space, path |-> n.path]
  BY DEF Name
<1> QED BY <1>1 DEF Resolved, Of

(* The answers of the reading operations, entry by entry.                  *)
LEMMA AnsweredEntry ==
  ASSUME AliasInv, NEW n \in Name, NEW r \in ContextRevision \cup {NoRevision}, NEW op,
         NEW lim, NEW S \in Answer(op, Pinned(n, r), lim), NEW x \in S
  PROVE  /\ Reachable(Of(x), x.revision)
         /\ \/ op \notin {"list", "tree", "search", "history"} /\ x \in resolved_for(Pinned(n, r))
            \/ op \in {"list", "tree", "search"} /\ \E m \in LiveAliases :
                 /\ x = AliasEntry(m) /\ is_within(Pinned(n, r), m)
                 /\ op # "search" => /\ Len(m.path) > Len(n.path)
                                     /\ op = "tree" \/ Len(m.path) = Len(n.path) + 1
                 /\ op = "search" => r = NoRevision
            \/ op = "search" /\ r # NoRevision /\ x \in resolved_for(Pinned(n, r))
            \/ op = "history" /\ x.space = n.space /\ x.path = n.path /\ x.alias = NoRevision
<1> DEFINE t == Pinned(n, r)
<1>1. Of(t) = n /\ t.revision = r /\ t.path = n.path
  BY DEF Of, Pinned, Name
<1> HIDE DEF t
<1>2. ASSUME x \in resolved_for(t) PROVE Reachable(Of(x), x.revision)
  BY <1>2, ExactAnswer DEF t
<1>3. ASSUME NEW m \in LiveAliases, x = AliasEntry(m) PROVE Reachable(Of(x), x.revision)
  BY <1>3, ListedEntry
<1>4. ASSUME NEW rs, S \in Truncated(rs, lim) PROVE x \in rs
  BY <1>4 DEF Truncated
<1>5. CASE op \in {"list", "tree"}
  <2>1. S \in enumerate_aliases(t, lim, op = "tree")
    BY <1>5 DEF Answer, t
  <2>2. PICK m \in LiveAliases : /\ x = AliasEntry(m) /\ is_within(t, m)
                                 /\ Len(m.path) > Len(t.path)
                                 /\ op = "tree" \/ Len(m.path) = Len(t.path) + 1
    BY <1>4, <2>1 DEF enumerate_aliases
  <2> QED BY <1>1, <1>3, <1>5, <2>2 DEF t
<1>6. CASE op = "search"
  <2>1. S \in search(t, lim)
    BY <1>6 DEF Answer, t
  <2>2. CASE r # NoRevision
    <3>1. S \in Truncated({y \in resolved_for(t) : MatchScore[y.revision] > 0}, lim)
      BY <1>1, <2>1, <2>2 DEF search
    <3>2. x \in resolved_for(t)
      BY <1>4, <3>1
    <3> QED BY <1>2, <1>6, <2>2, <3>2 DEF t
  <2>3. CASE r = NoRevision
    <3>1. S \in Truncated({AliasEntry(m) : m \in {z \in LiveAliases :
                             is_within(t, z) /\ MatchScore[aliases[z].revision] > 0}}, lim)
      BY <1>1, <2>1, <2>3 DEF search
    <3>2. PICK m \in LiveAliases : x = AliasEntry(m) /\ is_within(t, m)
      BY <1>4, <3>1
    <3> QED BY <1>3, <1>6, <2>3, <3>2 DEF t
  <2> QED BY <2>2, <2>3
<1>7. CASE op = "history"
  <2>1. S \in alias_history(t, lim)
    BY <1>7 DEF Answer, t
  <2>2. S \in Truncated({Resolved(n, y, NoRevision) :
                           y \in {z \in ContextRevision : Reachable(n, z)}}, lim)
    BY <1>1, <2>1 DEF alias_history
  <2>3. PICK y \in ContextRevision : Reachable(n, y) /\ x = Resolved(n, y, NoRevision)
    BY <1>4, <2>2
  <2> QED BY <1>7, <2>3, HistoryEntry
<1>8. CASE op \notin {"list", "tree", "search", "history"}
  <2>1. S = resolved_for(t)
    BY <1>8 DEF Answer, t
  <2> QED BY <1>2, <1>8, <2>1 DEF t
<1> QED BY <1>5, <1>6, <1>7, <1>8

(* Nothing forgotten is answered.                                          *)
LEMMA AliasInvForgotten == AliasInv => ForgottenUnreachable
<1> SUFFICES ASSUME AliasInv, NEW o \in gone, NEW op \in {"read", "tree", "search", "history"},
                    NEW t \in {Pinned(o[1], o[2]), Versionless(o[1])},
                    NEW S \in Answer(op, t, MAX_ENUM_RESULTS), NEW x \in S,
                    <<Of(x), x.revision>> = o
             PROVE  FALSE
  BY DEF ForgottenUnreachable
<1>1. o \in Name \X ContextRevision /\ o \in DOMAIN objects /\ objects[o] # "stored"
  BY DEF AliasInv, GoneIsGone
<1>2. PICK r \in ContextRevision \cup {NoRevision} : t = Pinned(o[1], r)
  BY <1>1 DEF Versionless
<1>3. Reachable(Of(x), x.revision)
  BY <1>1, <1>2, AnsweredEntry
<1> QED BY <1>1, <1>3 DEF Reachable

(* A limited selection is no longer than its limit.                      *)
LEMMA TruncatedBound ==
  ASSUME NEW rs, IsFiniteSet(rs), NEW lim \in Nat, NEW S \in Truncated(rs, lim)
  PROVE  Cardinality(S) <= lim
<1>1. Cardinality(rs) \in Nat
  BY FS_CardinalityType
<1>2. Cardinality(S) = IF Cardinality(rs) < lim THEN Cardinality(rs) ELSE lim
  BY DEF Truncated
<1> QED BY <1>1, <1>2

(* The entries to select from are as many as the tables allow.             *)
LEMMA EntriesFinite ==
  ASSUME AliasInv, NEW M \in SUBSET LiveAliases
  PROVE  IsFiniteSet({AliasEntry(n) : n \in M})
<1> DEFINE rs == {AliasEntry(n) : n \in M}
           f == [n \in M |-> AliasEntry(n)]
<1>1. IsFiniteSet(M)
  <2>1. M \in SUBSET DOMAIN aliases /\ IsFiniteSet(DOMAIN aliases)
    BY DEF AliasInv, AliasesTyped, LiveAliases
  <2> QED BY <2>1, FS_Subset
<1>2. f \in Surjection(M, rs)
  BY DEF Surjection
<1> HIDE DEF f
<1> QED BY <1>1, <1>2, FS_Surjection

(* And so are the objects of a history.                                      *)
LEMMA HistoryFinite ==
  ASSUME AliasInv, NEW n
  PROVE  IsFiniteSet({Resolved(n, r, NoRevision) : r \in {x \in ContextRevision : Reachable(n, x)}})
<1> DEFINE rs == {Resolved(n, r, NoRevision) : r \in {x \in ContextRevision : Reachable(n, x)}}
           M == {o \in DOMAIN objects : \E x \in ContextRevision : Reachable(n, x) /\ o = <<n, x>>}
           f == [o \in M |-> Resolved(n, o[2], NoRevision)]
<1>1. IsFiniteSet(M)
  <2>1. M \in SUBSET DOMAIN objects /\ IsFiniteSet(DOMAIN objects)
    BY DEF AliasInv
  <2> QED BY <2>1, FS_Subset
<1>2. f \in Surjection(M, rs)
  <2>1. \A o \in M : f[o] \in rs
    OBVIOUS
  <2>2. \A y \in rs : \E o \in M : f[o] = y
    <3> SUFFICES ASSUME NEW r \in ContextRevision, Reachable(n, r)
                 PROVE  \E o \in M : f[o] = Resolved(n, r, NoRevision)
      OBVIOUS
    <3>1. <<n, r>> \in M /\ f[<<n, r>>] = Resolved(n, r, NoRevision)
      BY DEF Reachable
    <3> QED BY <3>1
  <2> QED BY <2>1, <2>2 DEF Surjection
<1> HIDE DEF f, M, rs
<1>3. IsFiniteSet(rs)
  BY <1>1, <1>2, FS_Surjection
<1> QED BY <1>3 DEF rs

(* The runtime lets every answer through.                                  *)
LEMMA AliasInvAccepted ==
  ASSUME AliasInv, NEW n \in Name, NEW r \in ContextRevision \cup {NoRevision},
         NEW op \in {"read", "list", "tree", "search", "history"},
         target_shape_is_valid(op, Pinned(n, r)),
         NEW S \in Answer(op, Pinned(n, r), MAX_ENUM_RESULTS)
  PROVE  Accepted(op, Pinned(n, r), S, MAX_ENUM_RESULTS)
<1> DEFINE t == Pinned(n, r)
           lim == MAX_ENUM_RESULTS
<1>1. Of(t) = n /\ t.revision = r /\ t.path = n.path /\ t.space = n.space
  BY DEF Of, Pinned, Name
<1>2. lim \in Nat
  BY StoreAssumption
<1> HIDE DEF t, lim
<1>3. CASE op \in {"list", "tree"}
  <2>1. S \in enumerate_aliases(t, lim, op = "tree")
    BY <1>3 DEF Answer, t, lim
  <2>2. PICK M \in SUBSET LiveAliases : S \in Truncated({AliasEntry(m) : m \in M}, lim)
    BY <2>1 DEF enumerate_aliases
  <2>3. Cardinality(S) <= lim
    BY <1>2, <2>2, EntriesFinite, TruncatedBound
  <2>4. ASSUME NEW x \in S
        PROVE  /\ valid_result_integrity(x) /\ x.alias # NoRevision
               /\ is_within(t, x) /\ Len(x.path) > Len(t.path)
               /\ op = "tree" \/ Len(x.path) = Len(t.path) + 1
    <3>1. PICK m \in LiveAliases :
            /\ x = AliasEntry(m) /\ is_within(t, m)
            /\ Len(m.path) > Len(n.path)
            /\ op = "tree" \/ Len(m.path) = Len(n.path) + 1
      BY <1>3, AnsweredEntry DEF t
    <3>2. x.space = m.space /\ x.path = m.path /\ x.alias = x.revision
      BY <3>1, ListedEntry
    <3>3. x.alias # NoRevision
      <4>1. x.alias = aliases[m].revision
        BY <3>1 DEF AliasEntry, Resolved
      <4>2. aliases[m].revision \in ContextRevision
        BY DEF LiveAliases, AliasInv, AliasesTyped
      <4> QED BY <4>1, <4>2, StoreAssumption
    <3> QED BY <1>1, <3>1, <3>2, <3>3 DEF valid_result_integrity, is_within
  <2>5. valid_enumeration(t, S, lim, op = "tree")
    BY <2>3, <2>4 DEF valid_enumeration
  <2> QED BY <1>3, <2>5 DEF Accepted, t, lim
<1>4. CASE op = "search"
  <2>1. S \in search(t, lim)
    BY <1>4 DEF Answer, t, lim
  <2>2. Cardinality(S) <= lim
    <3>1. CASE r = NoRevision
      <4>1. PICK M \in SUBSET LiveAliases : S \in Truncated({AliasEntry(m) : m \in M}, lim)
        BY <1>1, <2>1, <3>1 DEF search
      <4> QED BY <1>2, <4>1, EntriesFinite, TruncatedBound
    <3>2. CASE r # NoRevision
      <4> DEFINE matching == {y \in resolved_for(t) : MatchScore[y.revision] > 0}
      <4>1. S \in Truncated(matching, lim)
        BY <1>1, <2>1, <3>2 DEF search
      <4>2. matching = {} \/ \E y : matching = {y}
        BY <1>1, <3>2 DEF resolved_for
      <4> HIDE DEF matching
      <4>3. IsFiniteSet(matching)
        <5>1. CASE matching = {}
          BY <5>1, FS_EmptySet
        <5>2. ASSUME NEW y, matching = {y} PROVE IsFiniteSet(matching)
          BY <5>2, FS_Singleton
        <5> QED BY <4>2, <5>1, <5>2
      <4> QED BY <1>2, <4>1, <4>3, TruncatedBound
    <3> QED BY <3>1, <3>2
  <2>3. ASSUME NEW x \in S
        PROVE  IF t.revision = NoRevision THEN is_within(t, x)
               ELSE same_logical_name(t, x) /\ x.revision = t.revision
    <3>1. CASE r = NoRevision
      <4>1. PICK m \in LiveAliases : x = AliasEntry(m) /\ is_within(t, m)
        BY <1>4, <3>1, AnsweredEntry DEF t, lim
      <4> QED BY <1>1, <3>1, <4>1, ListedEntry DEF is_within
    <3>2. CASE r # NoRevision
      <4>1. x \in resolved_for(t)
        BY <1>4, <3>2, AnsweredEntry DEF t, lim
      <4> QED BY <1>1, <3>2, <4>1, ExactAnswer DEF same_logical_name, t
    <3> QED BY <3>1, <3>2
  <2>4. valid_hits(t, S, lim)
    BY <2>2, <2>3 DEF valid_hits
  <2> QED BY <1>4, <2>4 DEF Accepted, t, lim
<1>5. CASE op = "history"
  <2>1. S \in alias_history(t, lim)
    BY <1>5 DEF Answer, t, lim
  <2>2. PICK rs : /\ rs = {Resolved(n, y, NoRevision) :
                            y \in {z \in ContextRevision : Reachable(n, z)}}
                  /\ S \in Truncated(rs, lim) \/ S \in {}
    BY <1>1, <2>1 DEF alias_history
  <2>3. Cardinality(S) <= lim
    <3>1. IsFiniteSet(rs)
      BY <2>2, HistoryFinite
    <3> QED BY <1>2, <2>2, <3>1, TruncatedBound
  <2>4. \A x \in S : valid_result_integrity(x) /\ same_logical_name(t, x)
    BY <1>1, <1>5, AnsweredEntry DEF valid_result_integrity, same_logical_name, t, lim
  <2>5. valid_history(t, S, lim)
    BY <2>3, <2>4 DEF valid_history
  <2> QED BY <1>5, <2>5 DEF Accepted, t, lim
<1>6. CASE op = "read"
  <2>1. S = resolved_for(t) /\ S # {}
    BY <1>6 DEF Answer, t, lim
  <2>2. PICK x : x \in S
    BY <2>1
  <2>3. S = {x}
    BY <2>1, <2>2, ExactAnswer DEF t
  <2>4. Cardinality(S) = 1
    BY <2>3, FS_Singleton
  <2>5. valid_exact_result(t, x)
    BY <1>1, <2>1, <2>2, ExactAnswer, StoreAssumption
       DEF valid_exact_result, valid_result_integrity, same_logical_name, t
  <2> QED BY <1>6, <2>3, <2>4, <2>5 DEF Accepted, t, lim
<1> QED BY <1>3, <1>4, <1>5, <1>6

(* In particular in the shapes RuntimeAcceptsResolver asks about.             *)
LEMMA AliasInvRuntime == AliasInv => RuntimeAcceptsResolver
<1> SUFFICES ASSUME AliasInv, NEW n \in Name, NEW r \in ContextRevision,
                    NEW op \in {"read", "list", "tree", "search", "history"},
                    NEW t \in {Pinned(n, r), Versionless(n)}, target_shape_is_valid(op, t),
                    NEW S \in Answer(op, t, MAX_ENUM_RESULTS)
             PROVE  Accepted(op, t, S, MAX_ENUM_RESULTS)
  BY DEF RuntimeAcceptsResolver, AliasInv
<1>1. PICK q \in ContextRevision \cup {NoRevision} : t = Pinned(n, q)
  BY DEF Versionless
<1> QED BY <1>1, AliasInvAccepted

(* A step of the store.                                                    *)
LEMMA StoreStep ==
  ASSUME AliasInv, [StoreNext \/ (AuthorityNext /\ UNCHANGED storeVars)]_<<authorityVars, storeVars>>
  PROVE  AliasInv' /\ [Register!RegisterNext]_Register!registerVars
<1>1. CASE UNCHANGED storeVars
  <2>1. UNCHANGED <<objects, aliases, held, rejected, gone>>
    BY <1>1 DEF storeVars
  <2>2. AliasInv'
    BY <2>1 DEF AliasInv, AliasesTyped, HeldTyped, ObjectsTyped, GoneIsGone
  <2>3. UNCHANGED Register!registerVars
    BY <2>1 DEF Register!registerVars
  <2> QED BY <2>2, <2>3
<1>2. CASE StoreNext
  <2>1. PICK c \in Owner, k \in DOMAIN tokens, n \in Name :
          \/ Learn(c, k, n)
          \/ \E r \in ContextRevision : PutRequest(c, k, n, r) \/ CasRequest(c, k, n, r)
          \/ ForgetRequest(c, k, n)
    BY <1>2 DEF StoreNext
  <2>2. CASE Learn(c, k, n)
    <3>1. AliasInv' /\ Register!Observe(c, n)
      BY <2>2, LearnStep
    <3> QED BY <3>1 DEF Register!RegisterNext
  <2>3. ASSUME NEW r \in ContextRevision, PutRequest(c, k, n, r)
        PROVE  AliasInv' /\ [Register!RegisterNext]_Register!registerVars
    <3>1. AliasInv' /\ UNCHANGED <<aliases, held>>
      BY <2>3, PutStep
    <3>2. UNCHANGED Register!registerVars
      BY <3>1 DEF Register!registerVars
    <3> QED BY <3>1, <3>2
  <2>4. ASSUME NEW r \in ContextRevision, CasRequest(c, k, n, r)
        PROVE  AliasInv' /\ [Register!RegisterNext]_Register!registerVars
    <3>1. AliasInv' /\ (Register!CreateName(c, n) \/ Register!Replace(c, n, FALSE))
      BY <2>4, CasStep
    <3> QED BY <3>1 DEF Register!RegisterNext
  <2>5. CASE ForgetRequest(c, k, n)
    <3>1. AliasInv' /\ Register!Replace(c, n, TRUE)
      BY <2>5, ForgetStep
    <3> QED BY <3>1 DEF Register!RegisterNext
  <2> QED BY <2>1, <2>2, <2>3, <2>4, <2>5
<1> QED BY <1>1, <1>2 DEF storeVars

(* Invariant of the in-memory resolver: live aliases name revisions, and what  *)
(* was forgotten stays in the table without being stored (resolver.rs,        *)
(* insert_tombstone).                                                         *)
THEOREM AliasInvariant == StoreSpec => []AliasInv
<1>1. StoreInit => AliasInv
  BY AliasStart
<1>2. AliasInv /\ [StoreNext \/ (AuthorityNext /\ UNCHANGED storeVars)]_<<authorityVars, storeVars>>
        => AliasInv'
  BY StoreStep
<1> QED BY <1>1, <1>2, PTL DEF StoreSpec

(* Whatever clients do after a forget, no read, tree, search or history of    *)
(* resolver.rs serves a revision the name had then.                           *)
THEOREM ForgottenHolds == StoreSpec => []ForgottenUnreachable
BY AliasInvariant, AliasInvForgotten, PTL

(* The checks of runtime.rs refuse no answer of resolver.rs and no snapshot   *)
(* it returns, in any reachable state.                                        *)
THEOREM AcceptsHolds == StoreSpec => []RuntimeAcceptsResolver
BY AliasInvariant, AliasInvRuntime, PTL

(* The in-memory resolver implements the register: compare_and_swap_alias     *)
(* and forget overwrite only what their client has seen, and nothing follows  *)
(* a tombstone (resolver.rs).                                                 *)
THEOREM AliasesRefine == StoreSpec => AliasesAreARegister
<1>1. StoreInit => Register!RegisterInit
  BY AliasStart
<1>2. AliasInv /\ [StoreNext \/ (AuthorityNext /\ UNCHANGED storeVars)]_<<authorityVars, storeVars>>
        => [Register!RegisterNext]_Register!registerVars
  BY StoreStep
<1> QED BY <1>1, <1>2, AliasInvariant, PTL DEF StoreSpec, AliasesAreARegister, Register!RegisterSpec

-----------------------------------------------------------------------------
(* Capabilities and their scopes. *)

CapsTyped ==
  /\ next_token \in Nat \ {0} /\ next_token <= MaxTokens + 1 /\ token_epoch \in Nat
  /\ DOMAIN tokens \subseteq 1 .. next_token - 1
  /\ wrapped \subseteq 1 .. next_token - 1
  /\ \A k \in DOMAIN tokens : tokens[k].epoch \in 0 .. token_epoch

\* What a token is or was bound to is a scope; the tokens the wrapped manager held
\* are roots.
ScopesTyped ==
  /\ \A k \in DOMAIN grants : grants[k] \in Scope
  /\ \A k \in DOMAIN tokens : \A a \in tokens[k].lineage : a.scope \in Scope
WrappedRoots == \A k \in DOMAIN tokens : k \in wrapped => tokens[k].lineage = {}

AuthorityInv ==
  CapsTyped /\ ScopesTyped /\ WrappedRoots /\ BoundWhileLive /\ DelegationAttenuates /\ DisclosedInScope

(* Only what is live and of the current epoch is bound.                      *)
LEMMA BoundTokens ==
  ASSUME CapsTyped, BoundWhileLive, NEW k \in DOMAIN grants
  PROVE  /\ k \in DOMAIN tokens /\ tokens[k].epoch = token_epoch
         /\ k \in 1 .. next_token - 1 /\ k # 0
BY DEF CapsTyped, BoundWhileLive

(* No answer, nothing disclosed.                                             *)
LEMMA NothingDisclosed ==
  ASSUME CapsTyped', BoundWhileLive', answer' = NoAnswer
  PROVE  DisclosedInScope'
<1>1. answer'.token = 0
  BY DEF NoAnswer
<1>2. 0 \notin DOMAIN grants'
  BY DEF CapsTyped, BoundWhileLive
<1> QED BY <1>1, <1>2 DEF DisclosedInScope

(* A prefix of a prefix is one.                                              *)
LEMMA PrefixTransitive ==
  ASSUME NEW a \in Path, NEW b \in Path, NEW c \in Path,
         path_has_prefix(a, b), path_has_prefix(b, c)
  PROVE  path_has_prefix(a, c)
<1>1. PICK S, T, U : a \in Seq(S) /\ b \in Seq(T) /\ c \in Seq(U)
  BY PathsAreSequences
<1>2. /\ Len(a) \in Nat /\ Len(b) \in Nat /\ Len(c) \in Nat
      /\ Len(a) >= Len(b) /\ Len(b) >= Len(c)
  BY <1>1 DEF path_has_prefix
<1>3. \A i \in 1 .. Len(b) : b[i] = a[i]
  BY <1>1, <1>2 DEF path_has_prefix
<1>4. \A i \in 1 .. Len(c) : c[i] = b[i]
  BY <1>1, <1>2 DEF path_has_prefix
<1>5. SubSeq(a, 1, Len(c)) = c
  <2>1. \A i \in 1 .. Len(c) : c[i] = a[i]
    BY <1>2, <1>3, <1>4
  <2>2. SubSeq(a, 1, Len(c)) = [i \in 1 .. Len(c) |-> a[i]]
    BY <1>1, <1>2
  <2>3. c = [i \in 1 .. Len(c) |-> c[i]]
    BY <1>1
  <2> QED BY <2>1, <2>2, <2>3
<1> QED BY <1>2, <1>5 DEF path_has_prefix

(* What contains a scope contains all that the scope contains.               *)
LEMMA ContainsTransitive ==
  ASSUME NEW a \in Scope, NEW b \in Scope, NEW c \in Scope, contains_scope(a, b), contains_scope(b, c)
  PROVE  contains_scope(a, c)
<1>1. a.path \in Path /\ b.path \in Path /\ c.path \in Path
  BY DEF Scope
<1>2. path_has_prefix(c.path, b.path) /\ path_has_prefix(b.path, a.path)
  BY DEF contains_scope
<1>3. path_has_prefix(c.path, a.path)
  BY <1>1, <1>2, PrefixTransitive
<1> QED BY <1>3 DEF contains_scope, mask_contains

(* A call that leaves capabilities and bindings alone, and may spend an id.   *)
LEMMA IdStep ==
  ASSUME AuthorityInv, UNCHANGED <<tokens, grants, token_epoch, wrapped>>, answer' = NoAnswer,
         next_token <= MaxTokens, next_token' = next_token + 1
  PROVE  AuthorityInv'
<1>1. CapsTyped'
  BY AuthorityNumbers DEF AuthorityInv, CapsTyped
<1>2. ScopesTyped' /\ WrappedRoots' /\ BoundWhileLive' /\ DelegationAttenuates'
  BY DEF AuthorityInv, ScopesTyped, WrappedRoots, BoundWhileLive, DelegationAttenuates
<1> QED BY <1>1, <1>2, NothingDisclosed DEF AuthorityInv

(* The lineage of a new token is in order, when its parent's scope contains   *)
(* its own: what contained the parent's contains it too.                      *)
LEMMA LineageStep ==
  ASSUME AuthorityInv, NEW parent, NEW rights, NEW scope \in Scope,
         \/ parent = 0
         \/ /\ parent \in DOMAIN grants /\ contains_scope(grants[parent], scope)
            /\ rights \subseteq tokens[parent].rights
  PROVE  \A a \in Lineage(parent) :
           a.scope \in Scope /\ contains_scope(a.scope, scope) /\ rights \subseteq a.rights
<1>1. CASE parent = 0
  BY <1>1 DEF Lineage
<1>2. CASE parent # 0
  <2>1. /\ parent \in DOMAIN grants /\ contains_scope(grants[parent], scope)
        /\ rights \subseteq tokens[parent].rights
        /\ grants[parent] \in Scope /\ parent \in DOMAIN tokens
    BY <1>2, BoundTokens DEF AuthorityInv, ScopesTyped
  <2>2. ASSUME NEW a \in tokens[parent].lineage
        PROVE  a.scope \in Scope /\ contains_scope(a.scope, scope) /\ rights \subseteq a.rights
    <3>1. /\ a.scope \in Scope /\ contains_scope(a.scope, grants[parent])
          /\ tokens[parent].rights \subseteq a.rights
      BY <2>1, <2>2 DEF AuthorityInv, ScopesTyped, DelegationAttenuates
    <3>2. contains_scope(a.scope, scope)
      BY <2>1, <3>1, ContainsTransitive
    <3> QED BY <2>1, <3>1, <3>2
  <2>3. Lineage(parent) = tokens[parent].lineage
          \cup {[id |-> parent, scope |-> grants[parent], rights |-> tokens[parent].rights]}
    BY <1>2 DEF Lineage
  <2> QED BY <2>1, <2>2, <2>3
<1> QED BY <1>1, <1>2

(* A new token, bound to a scope that its parent's contains; or only its id   *)
(* is gone, because the table or the bindings were full.                      *)
LEMMA MintStep ==
  ASSUME AuthorityInv, NEW parent, NEW rights, NEW owner, NEW scope \in Scope,
         Minted(parent, rights, owner, scope),
         \/ parent = 0
         \/ /\ parent \in DOMAIN grants /\ contains_scope(grants[parent], scope)
            /\ rights \subseteq tokens[parent].rights
  PROVE  AuthorityInv'
<1>1. CASE UNCHANGED <<tokens, grants>>
  <2>1. /\ next_token <= MaxTokens /\ next_token' = next_token + 1 /\ answer' = NoAnswer
        /\ UNCHANGED <<token_epoch, wrapped>>
    BY DEF Minted, IdOnly
  <2> QED BY <1>1, <2>1, IdStep
<1>2. CASE ~UNCHANGED <<tokens, grants>>
  <2>0. PICK i \in Slots :
          /\ next_token <= MaxTokens /\ next_token' = next_token + 1 /\ answer' = NoAnswer
          /\ UNCHANGED <<token_epoch, wrapped>>
          /\ tokens' = With(tokens, next_token, Token(i, parent, rights, owner))
          /\ grants' = With(grants, next_token, scope)
    BY <1>2 DEF Minted, IdOnly
  <2> DEFINE token == Token(i, parent, rights, owner)
  <2>1. token.rights = rights /\ token.epoch = token_epoch /\ token.lineage = Lineage(parent)
    BY DEF Token
  <2>2. tokens' = With(tokens, next_token, token)
    BY <2>0
  <2> HIDE DEF token
  <2>3. \A a \in token.lineage :
          a.scope \in Scope /\ contains_scope(a.scope, scope) /\ token.rights \subseteq a.rights
    BY <2>1, LineageStep
  <2>4. /\ DOMAIN tokens' = DOMAIN tokens \cup {next_token} /\ tokens'[next_token] = token
        /\ DOMAIN grants' = DOMAIN grants \cup {next_token} /\ grants'[next_token] = scope
        /\ \A k \in DOMAIN tokens : k # next_token => tokens'[k] = tokens[k]
        /\ \A k \in DOMAIN grants : k # next_token => grants'[k] = grants[k]
    BY <2>0, <2>2 DEF With
  <2>5. next_token \notin DOMAIN tokens /\ next_token \notin DOMAIN grants /\ next_token \notin wrapped
    BY BoundTokens DEF AuthorityInv, CapsTyped
  <2>6. CapsTyped'
    <3>1. ASSUME NEW k \in DOMAIN tokens'
          PROVE  k \in 1 .. next_token' - 1 /\ tokens'[k].epoch \in 0 .. token_epoch'
      <4>1. CASE k = next_token
        BY <2>0, <2>1, <2>4, <4>1 DEF AuthorityInv, CapsTyped
      <4>2. CASE k # next_token
        BY <2>0, <2>4, <4>2 DEF AuthorityInv, CapsTyped
      <4> QED BY <4>1, <4>2
    <3>2. next_token' \in Nat \ {0} /\ next_token' <= MaxTokens + 1 /\ token_epoch' \in Nat
      BY <2>0, AuthorityNumbers DEF AuthorityInv, CapsTyped
    <3>3. wrapped' \subseteq 1 .. next_token' - 1
      BY <2>0 DEF AuthorityInv, CapsTyped
    <3> QED BY <3>1, <3>2, <3>3 DEF CapsTyped
  <2>7. ScopesTyped' /\ WrappedRoots'
    BY <2>0, <2>3, <2>4, <2>5 DEF AuthorityInv, ScopesTyped, WrappedRoots
  <2>8. BoundWhileLive'
    BY <2>0, <2>1, <2>4, <2>5 DEF AuthorityInv, BoundWhileLive
  <2>9. DelegationAttenuates'
    <3>1. ASSUME NEW k \in DOMAIN grants', k # next_token
          PROVE  tokens'[k] = tokens[k] /\ grants'[k] = grants[k] /\ k \in DOMAIN grants
      BY <2>4, <3>1, BoundTokens DEF AuthorityInv
    <3> QED BY <2>3, <2>4, <3>1 DEF AuthorityInv, DelegationAttenuates
  <2> QED BY <2>0, <2>6, <2>7, <2>8, <2>9, NothingDisclosed DEF AuthorityInv
<1> QED BY <1>1, <1>2

(* A grant of a token to another: bound, current, its rights and depth       *)
(* allowing; or refused, and the id is gone.                                 *)
LEMMA DelegateStep ==
  ASSUME AuthorityInv, NEW k \in DOMAIN tokens, NEW scope \in Scope, NEW rights, NEW owner, NEW caller,
         delegate(k, scope, rights, owner, caller)
  PROVE  AuthorityInv'
<1>1. k \in DOMAIN grants /\ contains_scope(grants[k], scope)
  BY DEF delegate
<1>2. CASE Minted(k, rights, owner, scope) /\ rights \subseteq tokens[k].rights
  BY <1>1, <1>2, MintStep
<1>3. CASE IdOnly
  BY <1>3, IdStep DEF IdOnly
<1> QED BY <1>2, <1>3 DEF delegate

(* Binding a token that came with the wrapped manager, which has no           *)
(* ancestors.                                                                 *)
LEMMA BindStep ==
  ASSUME AuthorityInv, NEW k \in DOMAIN tokens, NEW scope \in Scope, bind_existing(k, scope)
  PROVE  AuthorityInv'
<1>0. /\ k \notin DOMAIN grants /\ tokens[k].epoch = token_epoch /\ answer' = NoAnswer
      /\ grants' = With(grants, k, scope)
      /\ UNCHANGED <<tokens, token_epoch, next_token, wrapped>>
  BY DEF bind_existing, verify_p1
<1>1. /\ DOMAIN grants' = DOMAIN grants \cup {k} /\ grants'[k] = scope
      /\ \A x \in DOMAIN grants : x # k => grants'[x] = grants[x]
  BY <1>0 DEF With
<1>2. k \in wrapped /\ tokens[k].lineage = {}
  BY <1>0 DEF AuthorityInv, BoundWhileLive, WrappedRoots
<1>3. CapsTyped' /\ ScopesTyped' /\ WrappedRoots' /\ BoundWhileLive'
  BY <1>0, <1>1, <1>2 DEF AuthorityInv, CapsTyped, ScopesTyped, WrappedRoots, BoundWhileLive
<1>4. DelegationAttenuates'
  <2>1. ASSUME NEW x \in DOMAIN grants', x # k
        PROVE  x \in DOMAIN grants /\ grants'[x] = grants[x]
    BY <1>1, <2>1
  <2> QED BY <1>0, <1>2, <2>1 DEF AuthorityInv, DelegationAttenuates
<1> QED BY <1>0, <1>3, <1>4, NothingDisclosed DEF AuthorityInv

(* A revocation takes some tokens, whichever its walk finds, and their        *)
(* bindings with them; a token it misses still has its ancestors' limits.     *)
LEMMA RevokeStep ==
  ASSUME AuthorityInv, NEW k \in DOMAIN tokens, revoke_token(k)
  PROVE  AuthorityInv' /\ DOMAIN tokens' \subseteq DOMAIN tokens
<1> DEFINE live == DOMAIN tokens \ Collected(k)
<1>0. /\ tokens' = Keep(tokens, live) /\ grants' = Keep(grants, live) /\ answer' = NoAnswer
      /\ UNCHANGED <<token_epoch, next_token, wrapped>>
  BY DEF revoke_token
<1>1. live \subseteq DOMAIN tokens
  OBVIOUS
<1> HIDE DEF live
<1>2. /\ DOMAIN tokens' = live /\ \A c \in live : tokens'[c] = tokens[c]
      /\ DOMAIN grants' = DOMAIN grants \cap live
      /\ \A c \in DOMAIN grants' : grants'[c] = grants[c]
  BY <1>0, <1>1 DEF Keep
<1>3. CapsTyped' /\ ScopesTyped' /\ WrappedRoots'
  BY <1>0, <1>1, <1>2 DEF AuthorityInv, CapsTyped, ScopesTyped, WrappedRoots
<1>4. BoundWhileLive'
  BY <1>0, <1>1, <1>2 DEF AuthorityInv, BoundWhileLive
<1>5. DelegationAttenuates'
  <2>1. ASSUME NEW x \in DOMAIN grants'
        PROVE  x \in DOMAIN grants /\ grants'[x] = grants[x] /\ tokens'[x] = tokens[x]
    BY <1>2
  <2> QED BY <2>1 DEF AuthorityInv, DelegationAttenuates
<1> QED BY <1>0, <1>1, <1>2, <1>3, <1>4, <1>5, NothingDisclosed DEF AuthorityInv

(* A new epoch unbinds everything.                                           *)
LEMMA EpochStep ==
  ASSUME AuthorityInv, increment_epoch
  PROVE  AuthorityInv' /\ tokens' = tokens
<1>0. /\ token_epoch' = token_epoch + 1 /\ grants' = <<>> /\ answer' = NoAnswer
      /\ UNCHANGED <<tokens, next_token, wrapped>>
  BY DEF increment_epoch
<1>1. DOMAIN grants' = {}
  BY <1>0
<1>2. CapsTyped' /\ ScopesTyped' /\ WrappedRoots'
  BY <1>0, <1>1 DEF AuthorityInv, CapsTyped, ScopesTyped, WrappedRoots
<1>3. BoundWhileLive'
  <2>1. \A k \in DOMAIN tokens : tokens[k].epoch # token_epoch + 1
    BY DEF AuthorityInv, CapsTyped
  <2> QED BY <1>0, <1>1, <2>1 DEF BoundWhileLive
<1>4. DelegationAttenuates'
  BY <1>1 DEF DelegationAttenuates
<1> QED BY <1>0, <1>2, <1>3, <1>4, NothingDisclosed DEF AuthorityInv

(* What any answer that the runtime accepts names lies below the target.      *)
LEMMA AcceptedWithin ==
  ASSUME NEW op, NEW t, NEW rs, NEW lim, Accepted(op, t, rs, lim), NEW r \in rs
  PROVE  t.space = r.space /\ (r.path = t.path \/ path_has_prefix(r.path, t.path))
<1>1. CASE op \in {"list", "tree"}
  BY <1>1 DEF Accepted, valid_enumeration, is_within
<1>2. CASE op = "search"
  BY <1>2 DEF Accepted, valid_hits, is_within, same_logical_name
<1>3. CASE op = "history"
  BY <1>3 DEF Accepted, valid_history, same_logical_name
<1>4. CASE op \notin {"list", "tree", "search", "history"}
  BY <1>4 DEF Accepted, valid_exact_result, same_logical_name
<1> QED BY <1>1, <1>2, <1>3, <1>4

(* What reaches the caller lies in the capability's scope.                    *)
LEMMA AskStep ==
  ASSUME AuthorityInv, NEW k \in DOMAIN tokens, NEW t \in Target, NEW op,
         authorize(k, tokens[k].owner, op, t), NEW rs \in Answers, NEW lim, Ask(k, op, t, rs, lim)
  PROVE  AuthorityInv'
<1>0. /\ k \in DOMAIN grants /\ grants[k].space = t.space /\ path_has_prefix(t.path, grants[k].path)
      /\ required_view_bit(op, t.view) \subseteq grants[k].views
  BY DEF authorize, allows, mask_contains
<1>1. /\ Accepted(op, t, rs, lim)
      /\ UNCHANGED <<tokens, grants, token_epoch, next_token, wrapped>>
      /\ answer' = [token |-> k, operation |-> op,
                    disclosed |-> {[space |-> r.space, path |-> r.path, view |-> v] :
                                    r \in rs, v \in required_view_bit(op, t.view)}]
  BY DEF Ask
<1>2. CapsTyped' /\ ScopesTyped' /\ WrappedRoots' /\ BoundWhileLive' /\ DelegationAttenuates'
  BY <1>1 DEF AuthorityInv, CapsTyped, ScopesTyped, WrappedRoots, BoundWhileLive, DelegationAttenuates
<1>3. DisclosedInScope'
  <2> SUFFICES ASSUME NEW r \in rs, NEW v \in required_view_bit(op, t.view)
               PROVE  /\ grants[k].space = r.space
                      /\ path_has_prefix(r.path, grants[k].path)
                      /\ v \in grants[k].views
    <3>1. answer'.token = k /\ grants' = grants
      BY <1>1
    <3>2. ASSUME NEW d \in answer'.disclosed
          PROVE  \E r \in rs, v \in required_view_bit(op, t.view) :
                   d.space = r.space /\ d.path = r.path /\ d.view = v
      BY <1>1
    <3> QED BY <3>1, <3>2 DEF DisclosedInScope
  <2>1. t.space = r.space /\ (r.path = t.path \/ path_has_prefix(r.path, t.path))
    BY <1>1, AcceptedWithin
  <2>2. r.path \in Path /\ t.path \in Path /\ grants[k].path \in Path
    <3>1. r \in Answered
      <4>1. PICK f \in [1 .. MAX_ENUM_RESULTS -> Answered] : rs = {f[i] : i \in DOMAIN f}
        BY DEF Answers
      <4>2. PICK i \in DOMAIN f : r = f[i]
        BY <4>1
      <4> QED BY <4>2
    <3>2. grants[k] \in Scope
      BY <1>0 DEF AuthorityInv, ScopesTyped
    <3> QED BY <3>1, <3>2 DEF Answered, Target, Scope
  <2>3. path_has_prefix(r.path, grants[k].path)
    BY <1>0, <2>1, <2>2, PrefixTransitive
  <2> QED BY <1>0, <2>1, <2>3
<1> QED BY <1>2, <1>3 DEF AuthorityInv

(* The authority begins with roots only, none of them bound.                  *)
LEMMA AuthorityStart == AuthorityInit => AuthorityInv
<1> SUFFICES ASSUME AuthorityInit PROVE AuthorityInv
  OBVIOUS
<1>0. /\ wrapped = {} \/ wrapped = {1}
      /\ DOMAIN tokens = wrapped /\ grants = <<>> /\ token_epoch = 0
      /\ next_token = Cardinality(wrapped) + 1 /\ answer = NoAnswer
      /\ \A k \in wrapped : tokens[k].lineage = {} /\ tokens[k].epoch = 0
  BY DEF AuthorityInit
<1>1. DOMAIN grants = {} /\ next_token = IF wrapped = {} THEN 1 ELSE 2
  <2>1. DOMAIN grants = {}
    <3>1. grants = <<>>
      BY <1>0
    <3> QED BY ONLY <3>1
  <2>2. CASE wrapped = {}
    <3>1. Cardinality(wrapped) = 0
      BY <2>2, FS_EmptySet
    <3> QED BY <1>0, <2>1, <2>2, <3>1
  <2>3. CASE wrapped = {1}
    <3>1. Cardinality(wrapped) = 1
      BY <2>3, FS_Singleton
    <3> QED BY <1>0, <2>1, <2>3, <3>1
  <2> QED BY <1>0, <2>2, <2>3
<1>2. CapsTyped
  BY <1>0, <1>1, AuthorityNumbers DEF CapsTyped
<1>3. ScopesTyped /\ WrappedRoots /\ BoundWhileLive /\ DelegationAttenuates
  BY <1>0, <1>1 DEF ScopesTyped, WrappedRoots, BoundWhileLive, DelegationAttenuates
<1>4. DisclosedInScope
  BY <1>0, <1>1 DEF DisclosedInScope
<1> QED BY <1>2, <1>3, <1>4 DEF AuthorityInv

(* Every call of the authority.                                               *)
LEMMA GrantNextStep ==
  ASSUME AuthorityInv, GrantNext
  PROVE  AuthorityInv'
<1>1. ASSUME NEW s \in Scope, NEW r \in GrantRights, NEW o \in Owner, issue_root(s, r, o)
      PROVE  AuthorityInv'
  BY <1>1, MintStep DEF issue_root
<1>2. ASSUME NEW k \in DOMAIN tokens, NEW s \in Scope, bind_existing(k, s) PROVE AuthorityInv'
  BY <1>2, BindStep
<1>3. ASSUME NEW k \in DOMAIN tokens, NEW t \in Plain, NEW s \in Scope, NEW r \in GrantRights,
             NEW o \in Owner, GrantRequest(k, tokens[k].owner, t, s, r, o)
      PROVE  AuthorityInv'
  BY <1>3, DelegateStep DEF GrantRequest
<1>4. ASSUME NEW k \in DOMAIN tokens, revoke_token(k) PROVE AuthorityInv'
  BY <1>4, RevokeStep
<1>5. ASSUME NEW k \in DOMAIN tokens, NEW t \in Plain, RevokeRequest(k, tokens[k].owner, t)
      PROVE  AuthorityInv'
  BY <1>5, RevokeStep DEF RevokeRequest
<1>6. CASE increment_epoch
  BY <1>6, EpochStep
<1> QED BY <1>1, <1>2, <1>3, <1>4, <1>5, <1>6 DEF GrantNext

(* And every request, for any targets and any answers.                        *)
LEMMA ReadNextStep ==
  ASSUME AuthorityInv, NEW ts \in SUBSET Target, NEW as \in SUBSET Answers, ReadNext(ts, as)
  PROVE  AuthorityInv'
BY AskStep DEF ReadNext

LEMMA AuthorityIdle == AuthorityInv /\ UNCHANGED authorityVars => AuthorityInv'
BY DEF AuthorityInv, CapsTyped, ScopesTyped, WrappedRoots, BoundWhileLive, DelegationAttenuates,
       DisclosedInScope, authorityVars

-----------------------------------------------------------------------------
(* What the page changes, and what the ring counts of it. *)

(* What a swap does to the tables, whoever asked for it.                      *)
LEMMA SwapTables ==
  ASSUME AliasInv, NEW n \in Name, NEW e, NEW r \in ContextRevision, compare_and_swap_alias(n, e, r)
  PROVE  /\ UNCHANGED <<objects, gone>>
         /\ AliasesTyped'
         /\ \E g \in Nat \ {0} :
              /\ DOMAIN aliases' = DOMAIN aliases \cup {n}
              /\ aliases'[n] = AliasSnapshot(n, r, g, FALSE)
              /\ \A x \in DOMAIN aliases : x # n => aliases'[x] = aliases[x]
              /\ \/ n \notin DOMAIN aliases /\ g = 1
                 \/ n \in DOMAIN aliases /\ ~aliases[n].tombstone /\ g = aliases[n].generation + 1
<1>0. UNCHANGED <<objects, gone>>
  BY DEF compare_and_swap_alias
<1>1. PICK g \in Nat \ {0} :
        /\ DOMAIN aliases' = DOMAIN aliases \cup {n}
        /\ aliases'[n] = AliasSnapshot(n, r, g, FALSE)
        /\ \A x \in DOMAIN aliases : x # n => aliases'[x] = aliases[x]
        /\ \/ n \notin DOMAIN aliases /\ g = 1
           \/ n \in DOMAIN aliases /\ ~aliases[n].tombstone /\ g = aliases[n].generation + 1
  <2>1. CASE n \in DOMAIN aliases
    <3>1. /\ ~aliases[n].tombstone
          /\ \E next \in checked_next(aliases[n].generation) :
                aliases' = [aliases EXCEPT ![n] = AliasSnapshot(n, r, next, FALSE)]
      BY <2>1 DEF compare_and_swap_alias
    <3>2. PICK g : /\ g \in checked_next(aliases[n].generation)
                   /\ aliases' = [aliases EXCEPT ![n] = AliasSnapshot(n, r, g, FALSE)]
      BY <3>1
    <3>3. aliases[n].generation \in Nat /\ g = aliases[n].generation + 1
      BY <2>1, <3>2 DEF AliasInv, AliasesTyped, checked_next
    <3>4. g \in Nat \ {0}
      BY <3>3
    <3>5. /\ DOMAIN aliases' = DOMAIN aliases \cup {n}
          /\ aliases'[n] = AliasSnapshot(n, r, g, FALSE)
          /\ \A x \in DOMAIN aliases : x # n => aliases'[x] = aliases[x]
      BY <2>1, <3>2
    <3> QED BY <2>1, <3>1, <3>3, <3>4, <3>5
  <2>2. CASE n \notin DOMAIN aliases
    <3>1. aliases' = With(aliases, n, AliasSnapshot(n, r, 1, FALSE))
      BY <2>2 DEF compare_and_swap_alias
    <3>2. /\ DOMAIN aliases' = DOMAIN aliases \cup {n}
          /\ aliases'[n] = AliasSnapshot(n, r, 1, FALSE)
          /\ \A x \in DOMAIN aliases : x # n => aliases'[x] = aliases[x]
      BY <3>1 DEF With
    <3>3. 1 \in Nat \ {0}
      OBVIOUS
    <3> WITNESS 1 \in Nat \ {0}
    <3> QED BY <2>2, <3>2
  <2> QED BY <2>1, <2>2
<1>2. AliasesTyped'
  BY <1>1, AliasWritten
<1> QED BY <1>0, <1>1, <1>2

(* What a forget does to them.                                               *)
LEMMA ForgetTables ==
  ASSUME AliasInv, NEW n \in Name, NEW e, forget(n, e)
  PROVE  /\ AliasesTyped' /\ ObjectsTyped' /\ GoneIsGone' /\ IsFiniteSet(DOMAIN objects')
         /\ {o \in DOMAIN objects' : objects'[o] # "tombstone"}
              \subseteq {o \in DOMAIN objects : objects[o] # "tombstone"}
         /\ \E r : \E g \in Nat \ {0} :
              /\ DOMAIN aliases' = DOMAIN aliases \cup {n}
              /\ aliases'[n] = AliasSnapshot(n, r, g, TRUE)
              /\ \A x \in DOMAIN aliases : x # n => aliases'[x] = aliases[x]
              /\ n \in DOMAIN aliases /\ ~aliases[n].tombstone /\ g = aliases[n].generation + 1
<1> DEFINE r == TombstoneRevision(e)
<1>0. /\ n \in DOMAIN aliases /\ ~aliases[n].tombstone
      /\ insert_tombstone(n, e)
      /\ gone' = gone \cup {o \in DOMAIN objects : o[1] = n /\ objects[o] # "tombstone"}
  BY DEF forget
<1>1. PICK g : /\ g \in checked_next(aliases[n].generation)
               /\ aliases' = [aliases EXCEPT ![n] = AliasSnapshot(n, r, g, TRUE)]
  BY DEF forget
<1> HIDE DEF r
<1>2. aliases[n].generation \in Nat /\ g = aliases[n].generation + 1
  BY <1>0, <1>1 DEF AliasInv, AliasesTyped, checked_next
<1>3. g \in Nat \ {0}
  BY <1>2
<1>4. /\ DOMAIN aliases' = DOMAIN aliases \cup {n}
      /\ aliases'[n] = AliasSnapshot(n, r, g, TRUE)
      /\ \A x \in DOMAIN aliases : x # n => aliases'[x] = aliases[x]
  BY <1>0, <1>1
<1>5. AliasesTyped'
  BY <1>3, <1>4, AliasWritten
<1>6. /\ DOMAIN objects' = DOMAIN objects \cup {<<n, r>>}
      /\ objects'[<<n, r>>] = "tombstone"
      /\ \A o \in DOMAIN objects : o # <<n, r>> =>
           objects'[o] = IF o \in Forgotten(n) THEN "forgotten" ELSE objects[o]
  BY <1>0 DEF insert_tombstone, With, r
<1>7. IsFiniteSet(DOMAIN objects')
  BY <1>6, FS_AddElement DEF AliasInv
<1>8. {o \in DOMAIN objects' : objects'[o] # "tombstone"}
        \subseteq {o \in DOMAIN objects : objects[o] # "tombstone"}
  BY <1>6 DEF Forgotten
<1>9. GoneIsGone'
  <2> SUFFICES ASSUME NEW o \in gone'
               PROVE  o \in Name \X ContextRevision /\ o \in DOMAIN objects' /\ objects'[o] # "stored"
    BY DEF GoneIsGone
  <2>0. o \in Name \X ContextRevision /\ o \in DOMAIN objects
    BY <1>0 DEF AliasInv, ObjectsTyped, GoneIsGone
  <2>1. CASE o = <<n, r>>
    BY <2>0, <2>1, <1>6
  <2>2. CASE o # <<n, r>>
    <3>1. o \in Forgotten(n) \/ objects[o] # "stored"
      BY <2>0, <1>0 DEF AliasInv, GoneIsGone, Forgotten
    <3> QED BY <2>0, <2>2, <3>1, <1>6
  <2> QED BY <2>1, <2>2
<1>10. ObjectsTyped'
  BY <1>6 DEF AliasInv, ObjectsTyped, Forgotten
<1> QED BY <1>0, <1>2, <1>3, <1>4, <1>5, <1>7, <1>8, <1>9, <1>10

(* One more generation of one name: one move more.                            *)
MovesIn(gs) == UNION {{n} \X (1 .. gs[n]) : n \in DOMAIN gs}
GenerationsOf(as) == [n \in DOMAIN as |-> as[n].generation]
TombsOf(as) == {n \in DOMAIN as : as[n].tombstone}

LEMMA MovePair ==
  ASSUME NEW gs, NEW m
  PROVE  m \in MovesIn(gs) <=> \E x \in DOMAIN gs : \E i \in 1 .. gs[x] : m = <<x, i>>
BY DEF MovesIn

LEMMA MoveMade ==
  ASSUME NEW gs, NEW hs, NEW n, NEW g \in Nat \ {0},
         \A x \in DOMAIN gs : gs[x] \in Nat,
         DOMAIN hs = DOMAIN gs \cup {n}, hs[n] = g, \A x \in DOMAIN gs : x # n => hs[x] = gs[x],
         n \notin DOMAIN gs => g = 1, n \in DOMAIN gs => g = gs[n] + 1,
         IsFiniteSet(MovesIn(gs))
  PROVE  IsFiniteSet(MovesIn(hs)) /\ Cardinality(MovesIn(hs)) = Cardinality(MovesIn(gs)) + 1
<1>1. ASSUME NEW x \in DOMAIN hs, NEW i \in 1 .. hs[x]
      PROVE  <<x, i>> = <<n, g>> \/ (x \in DOMAIN gs /\ i \in 1 .. gs[x])
  <2>1. CASE x = n
    <3>1. CASE n \in DOMAIN gs
      BY <2>1, <3>1
    <3>2. CASE n \notin DOMAIN gs
      BY <2>1, <3>2
    <3> QED BY <3>1, <3>2
  <2>2. CASE x # n
    BY <2>2
  <2> QED BY <2>1, <2>2
<1>2. ASSUME NEW x \in DOMAIN gs, NEW i \in 1 .. gs[x]
      PROVE  x \in DOMAIN hs /\ i \in 1 .. hs[x] /\ <<x, i>> # <<n, g>>
  <2>1. CASE x = n
    BY <2>1
  <2>2. CASE x # n
    BY <2>2
  <2> QED BY <2>1, <2>2
<1>3. n \in DOMAIN hs /\ g \in 1 .. hs[n]
  OBVIOUS
<1>4. MovesIn(hs) = MovesIn(gs) \cup {<<n, g>>}
  <2>1. ASSUME NEW m \in MovesIn(hs) PROVE m \in MovesIn(gs) \cup {<<n, g>>}
    BY ONLY <1>1, <2>1, MovePair
  <2>2. ASSUME NEW m \in MovesIn(gs) PROVE m \in MovesIn(hs)
    BY ONLY <1>2, <2>2, MovePair
  <2>3. <<n, g>> \in MovesIn(hs)
    BY ONLY <1>3, MovePair
  <2> QED BY ONLY <2>1, <2>2, <2>3
<1>5. <<n, g>> \notin MovesIn(gs)
  BY ONLY <1>2, MovePair
<1>6. PICK S, T, m : S = MovesIn(gs) /\ T = MovesIn(hs) /\ m = <<n, g>>
  OBVIOUS
<1>7. IsFiniteSet(S) /\ T = S \cup {m} /\ m \notin S
  BY <1>4, <1>5, <1>6
<1>8. IsFiniteSet(T) /\ Cardinality(T) = Cardinality(S) + 1
  BY ONLY <1>7, FS_AddElement
<1> QED BY <1>6, <1>8

(* Whoever writes an alias makes one move, and a tombstone if it is one.      *)
LEMMA AliasCounted ==
  ASSUME AliasInv, IsFiniteSet(AliasMoves), NEW n \in Name, NEW r, NEW g \in Nat \ {0},
         NEW t \in BOOLEAN,
         DOMAIN aliases' = DOMAIN aliases \cup {n},
         aliases'[n] = AliasSnapshot(n, r, g, t),
         \A x \in DOMAIN aliases : x # n => aliases'[x] = aliases[x],
         \/ n \notin DOMAIN aliases /\ g = 1
         \/ n \in DOMAIN aliases /\ ~aliases[n].tombstone /\ g = aliases[n].generation + 1
  PROVE  /\ IsFiniteSet(AliasMoves') /\ Cardinality(AliasMoves') = Cardinality(AliasMoves) + 1
         /\ ~t => TombsOf(aliases') = TombsOf(aliases)
         /\ t => Cardinality(TombsOf(aliases')) = Cardinality(TombsOf(aliases)) + 1
<1> DEFINE gs == GenerationsOf(aliases)
           hs == GenerationsOf(aliases')
<1>0. aliases'[n].generation = g /\ aliases'[n].tombstone = t
  BY DEF AliasSnapshot
<1>1. AliasMoves = MovesIn(gs) /\ AliasMoves' = MovesIn(hs)
  BY DEF AliasMoves, MovesIn, GenerationsOf
<1>2. /\ DOMAIN gs = DOMAIN aliases /\ DOMAIN hs = DOMAIN aliases'
      /\ \A x \in DOMAIN aliases : gs[x] = aliases[x].generation
      /\ \A x \in DOMAIN aliases' : hs[x] = aliases'[x].generation
  BY DEF GenerationsOf
<1>3. \A x \in DOMAIN aliases : aliases[x].generation \in Nat
  BY DEF AliasInv, AliasesTyped
<1> HIDE DEF gs, hs
<1>4. /\ \A x \in DOMAIN gs : gs[x] \in Nat
      /\ DOMAIN hs = DOMAIN gs \cup {n} /\ hs[n] = g
      /\ \A x \in DOMAIN gs : x # n => hs[x] = gs[x]
      /\ n \notin DOMAIN gs => g = 1
      /\ n \in DOMAIN gs => g = gs[n] + 1
  BY <1>0, <1>2, <1>3
<1>5. IsFiniteSet(MovesIn(hs)) /\ Cardinality(MovesIn(hs)) = Cardinality(MovesIn(gs)) + 1
  BY <1>1, <1>4, MoveMade
<1>6. IsFiniteSet(TombsOf(aliases)) /\ n \notin TombsOf(aliases)
  <2>1. TombsOf(aliases) \subseteq DOMAIN aliases /\ IsFiniteSet(DOMAIN aliases)
    BY DEF TombsOf, AliasInv, AliasesTyped
  <2> QED BY <2>1, FS_Subset DEF TombsOf
<1>7. ASSUME ~t PROVE TombsOf(aliases') = TombsOf(aliases)
  BY <1>0, <1>7 DEF TombsOf
<1>8. ASSUME t PROVE Cardinality(TombsOf(aliases')) = Cardinality(TombsOf(aliases)) + 1
  <2>1. TombsOf(aliases') = TombsOf(aliases) \cup {n}
    BY <1>0, <1>8 DEF TombsOf
  <2> QED BY <1>6, <2>1, FS_AddElement
<1> QED BY <1>1, <1>5, <1>7, <1>8

\* The page's trail.
StoredOf(os) == {o \in DOMAIN os : os[o] # "tombstone"}
TrailTyped ==
  /\ trail.next \in Nat /\ \A a \in ChangeKind : trail.done[a] \in Nat
  /\ direct \in Nat /\ reported \in Nat

\* Completions come after decisions.
DecisionsFirst ==
  /\ reported <= trail.next
  /\ 2 * (trail.done["ContextPut"] + trail.done["ContextAliasUpdate"]
            + trail.done["ContextForget"] + trail.done["CapabilityGrant"]) <= trail.next

\* What the tables hold and what the records count.
MovesCounted ==
  /\ IsFiniteSet(AliasMoves)
  /\ Cardinality(AliasMoves) = trail.done["ContextAliasUpdate"] + trail.done["ContextForget"]
  /\ Cardinality(TombsOf(aliases)) = trail.done["ContextForget"]
PutsCounted == Cardinality(StoredOf(objects)) <= trail.done["ContextPut"]
TokensCounted == Cardinality(DOMAIN tokens) <= direct + trail.done["CapabilityGrant"]

PageInv ==
  AliasInv /\ AuthorityInv /\ TrailTyped /\ DecisionsFirst /\ MovesCounted /\ PutsCounted /\ TokensCounted

(* A refusal leaves one record and no completion.                             *)
LEMMA RefusedTrail ==
  ASSUME TrailTyped, DecisionsFirst, Refused, UNCHANGED direct
  PROVE  /\ TrailTyped' /\ DecisionsFirst'
         /\ \A a \in ChangeKind : trail'.done[a] = trail.done[a]
<1>1. trail' = [trail EXCEPT !.next = @ + 1] /\ reported' = 0
  BY DEF Refused
<1>2. trail'.next = trail.next + 1 /\ trail'.done = trail.done
  BY <1>1
<1>3. TrailTyped'
  BY <1>1, <1>2 DEF TrailTyped
<1>4. {"ContextPut", "ContextAliasUpdate", "ContextForget", "CapabilityGrant"} \subseteq ChangeKind
  BY DEF ChangeKind
<1>5. DecisionsFirst'
  BY <1>1, <1>2, <1>4 DEF TrailTyped, DecisionsFirst
<1> QED BY <1>2, <1>3, <1>5

(* A completed call leaves two, and counts if it changed something.           *)
LEMMA CompletedTrail ==
  ASSUME TrailTyped, DecisionsFirst, NEW op, Completed(op), UNCHANGED direct
  PROVE  /\ TrailTyped' /\ DecisionsFirst'
         /\ \A a \in ChangeKind :
              trail'.done[a] = trail.done[a] + IF a = action_kind(op) THEN 1 ELSE 0
<1>0. PICK b : b = action_kind(op)
  OBVIOUS
<1>1. /\ trail' = [next |-> trail.next + 2,
                   done |-> [a \in ChangeKind |-> trail.done[a] + IF a = b THEN 1 ELSE 0]]
      /\ reported' = trail'.next
  BY <1>0 DEF Completed
<1>2. /\ trail'.next = trail.next + 2
      /\ \A a \in ChangeKind : trail'.done[a] = trail.done[a] + IF a = b THEN 1 ELSE 0
  BY <1>1
<1>3. TrailTyped'
  BY <1>1, <1>2 DEF TrailTyped
<1>4. {"ContextPut", "ContextAliasUpdate", "ContextForget", "CapabilityGrant"} \subseteq ChangeKind
  BY DEF ChangeKind
<1>5. DecisionsFirst'
  <2>1. /\ trail.done["ContextPut"] \in Nat /\ trail.done["ContextAliasUpdate"] \in Nat
        /\ trail.done["ContextForget"] \in Nat /\ trail.done["CapabilityGrant"] \in Nat
        /\ trail.next \in Nat
    BY <1>4 DEF TrailTyped
  <2>2. PICK p, q, f, c : /\ p = trail.done["ContextPut"] /\ q = trail.done["ContextAliasUpdate"]
                          /\ f = trail.done["ContextForget"] /\ c = trail.done["CapabilityGrant"]
    OBVIOUS
  <2>3. /\ trail'.done["ContextPut"] = p + (IF b = "ContextPut" THEN 1 ELSE 0)
        /\ trail'.done["ContextAliasUpdate"] = q + (IF b = "ContextAliasUpdate" THEN 1 ELSE 0)
        /\ trail'.done["ContextForget"] = f + (IF b = "ContextForget" THEN 1 ELSE 0)
        /\ trail'.done["CapabilityGrant"] = c + (IF b = "CapabilityGrant" THEN 1 ELSE 0)
    BY <1>2, <1>4, <2>2
  <2>4. 2 * (p + q + f + c) <= trail.next
    BY <2>2 DEF DecisionsFirst
  <2>5. 2 * (trail'.done["ContextPut"] + trail'.done["ContextAliasUpdate"]
               + trail'.done["ContextForget"] + trail'.done["CapabilityGrant"]) <= trail.next + 2
    BY ONLY <2>1, <2>2, <2>3, <2>4
  <2>6. reported' <= trail'.next
    BY <1>1, <1>2, <2>1
  <2> QED BY <1>2, <2>5, <2>6 DEF DecisionsFirst
<1> QED BY <1>0, <1>2, <1>3, <1>5

LEMMA TokensFinite == CapsTyped => IsFiniteSet(DOMAIN tokens) /\ Cardinality(DOMAIN tokens) \in Nat
<1> SUFFICES ASSUME CapsTyped PROVE IsFiniteSet(DOMAIN tokens) /\ Cardinality(DOMAIN tokens) \in Nat
  OBVIOUS
<1>1. IsFiniteSet(1 .. next_token - 1)
  BY FS_Interval DEF CapsTyped
<1> QED BY <1>1, FS_Subset, FS_CardinalityType DEF CapsTyped

LEMMA StoredFinite == AliasInv => IsFiniteSet(StoredOf(objects)) /\ Cardinality(StoredOf(objects)) \in Nat
<1> SUFFICES ASSUME AliasInv PROVE IsFiniteSet(StoredOf(objects)) /\ Cardinality(StoredOf(objects)) \in Nat
  OBVIOUS
<1>1. StoredOf(objects) \subseteq DOMAIN objects /\ IsFiniteSet(DOMAIN objects)
  BY DEF StoredOf, AliasInv
<1> QED BY <1>1, FS_Subset, FS_CardinalityType

(* A step that writes no alias, adds nothing and counts nothing.              *)
LEMMA CountsKept ==
  ASSUME PageInv, AliasInv', AuthorityInv', TrailTyped', DecisionsFirst', UNCHANGED <<aliases, direct>>,
         DOMAIN tokens' \subseteq DOMAIN tokens, StoredOf(objects') \subseteq StoredOf(objects),
         \A a \in ChangeKind : trail'.done[a] = trail.done[a]
  PROVE  PageInv'
<1>0. {"ContextPut", "ContextAliasUpdate", "ContextForget", "CapabilityGrant"} \subseteq ChangeKind
  BY DEF ChangeKind
<1>1. MovesCounted'
  BY <1>0 DEF PageInv, MovesCounted, AliasMoves, TombsOf
<1>2. PutsCounted'
  <2>1. IsFiniteSet(StoredOf(objects)) /\ Cardinality(StoredOf(objects)) \in Nat
    BY StoredFinite DEF PageInv
  <2>2. Cardinality(StoredOf(objects')) <= Cardinality(StoredOf(objects))
    BY <2>1, FS_Subset
  <2>3. Cardinality(StoredOf(objects')) \in Nat
    BY <2>1, FS_Subset, FS_CardinalityType
  <2> QED BY <1>0, <2>1, <2>2, <2>3 DEF PageInv, PutsCounted, TrailTyped
<1>3. TokensCounted'
  <2>1. IsFiniteSet(DOMAIN tokens) /\ Cardinality(DOMAIN tokens) \in Nat
    BY TokensFinite DEF PageInv, AuthorityInv
  <2>2. Cardinality(DOMAIN tokens') <= Cardinality(DOMAIN tokens)
    BY <2>1, FS_Subset
  <2>3. Cardinality(DOMAIN tokens') \in Nat
    BY <2>1, FS_Subset, FS_CardinalityType
  <2> QED BY <1>0, <2>1, <2>2, <2>3 DEF PageInv, TokensCounted, TrailTyped
<1> QED BY <1>1, <1>2, <1>3 DEF PageInv

(* What leaves the store's variables alone leaves its invariant.              *)
LEMMA StoreIdle ==
  ASSUME AliasInv, UNCHANGED storeVars
  PROVE  AliasInv' /\ UNCHANGED <<objects, aliases, held, rejected, gone>>
BY DEF AliasInv, AliasesTyped, HeldTyped, ObjectsTyped, GoneIsGone, storeVars

(* A refused call, and a call that completes without counting.                *)
LEMMA RefusedStep ==
  ASSUME PageInv, Refused, Untouched, UNCHANGED direct
  PROVE  PageInv'
<1>1. AliasInv' /\ UNCHANGED <<objects, aliases, held, rejected, gone>>
  BY StoreIdle DEF PageInv, Untouched
<1>2. AuthorityInv' /\ tokens' = tokens
  BY AuthorityIdle DEF PageInv, Untouched, authorityVars
<1>3. /\ TrailTyped' /\ DecisionsFirst'
      /\ \A a \in ChangeKind : trail'.done[a] = trail.done[a]
  BY RefusedTrail DEF PageInv
<1> QED BY <1>1, <1>2, <1>3, CountsKept

LEMMA QuietStep ==
  ASSUME PageInv, NEW op, Completed(op), action_kind(op) \notin ChangeKind, UNCHANGED direct,
         AliasInv', AuthorityInv', UNCHANGED <<aliases, objects>>, DOMAIN tokens' \subseteq DOMAIN tokens
  PROVE  PageInv'
<1>1. /\ TrailTyped' /\ DecisionsFirst'
      /\ \A a \in ChangeKind : trail'.done[a] = trail.done[a] + IF a = action_kind(op) THEN 1 ELSE 0
  BY CompletedTrail DEF PageInv
<1>2. \A a \in ChangeKind : trail'.done[a] = trail.done[a]
  BY <1>1 DEF PageInv, TrailTyped
<1> QED BY <1>1, <1>2, CountsKept

LEMMA Kinds ==
  /\ action_kind("put") = "ContextPut" /\ action_kind("cas") = "ContextAliasUpdate"
  /\ action_kind("forget") = "ContextForget" /\ action_kind("grant") = "CapabilityGrant"
  /\ {"ContextPut", "ContextAliasUpdate", "ContextForget", "CapabilityGrant"} = ChangeKind
  /\ \A op \in {"resolve", "list", "tree", "history", "verify", "read", "search", "execute", "revoke"} :
       action_kind(op) \notin ChangeKind
<1>1. \A op \in {"resolve", "list", "tree", "history", "verify"} : action_kind(op) = "ContextResolve"
  BY DEF action_kind
<1>2. /\ action_kind("read") = "ContextRead" /\ action_kind("search") = "ContextSearch"
      /\ action_kind("execute") = "ContextExecute" /\ action_kind("revoke") = "CapabilityRevoke"
  BY DEF action_kind
<1>3. /\ action_kind("put") = "ContextPut" /\ action_kind("cas") = "ContextAliasUpdate"
      /\ action_kind("forget") = "ContextForget" /\ action_kind("grant") = "CapabilityGrant"
  BY DEF action_kind
<1> QED BY <1>1, <1>2, <1>3 DEF ChangeKind

(* Reading: read, verify, list, tree, search, history and execute.            *)
LEMMA ReadingStep ==
  ASSUME PageInv, NEW k, NEW t, NEW possible,
         NEW op \in {"resolve", "list", "tree", "history", "verify", "read", "search", "execute", "revoke"},
         Governed(k, op, t, possible, Untouched)
  PROVE  PageInv'
<1>1. CASE Refused /\ Untouched /\ UNCHANGED direct
  BY <1>1, RefusedStep
<1>2. CASE Untouched /\ Completed(op) /\ UNCHANGED direct
  <2>1. AliasInv' /\ UNCHANGED <<objects, aliases, held, rejected, gone>>
    BY <1>2, StoreIdle DEF PageInv, Untouched
  <2>2. AuthorityInv' /\ tokens' = tokens
    BY <1>2, AuthorityIdle DEF PageInv, Untouched, authorityVars
  <2> QED BY <1>2, <2>1, <2>2, Kinds, QuietStep
<1> QED BY <1>1, <1>2 DEF Governed

(* Resolving, whose snapshot the page keeps.                                  *)
LEMMA ResolvingStep ==
  ASSUME PageInv, NEW k, NEW t, page_resolve(k, t)
  PROVE  PageInv'
<1> DEFINE kept == IF t.revision = NoRevision THEN [held EXCEPT ![PageActor] = aliases[Of(t)]] ELSE held
<1>1. CASE Refused /\ Untouched /\ UNCHANGED direct
  BY <1>1, RefusedStep
<1>2. CASE /\ Completed("resolve") /\ UNCHANGED direct /\ held' = kept
           /\ UNCHANGED <<objects, aliases, rejected, gone, authorityVars>>
  <2>1. AliasInv'
    <3>1. HeldTyped'
      BY <1>2 DEF PageInv, AliasInv, HeldTyped
    <3> QED BY <1>2, <3>1 DEF PageInv, AliasInv, AliasesTyped, ObjectsTyped, GoneIsGone
  <2>2. AuthorityInv' /\ tokens' = tokens
    BY <1>2, AuthorityIdle DEF PageInv, authorityVars
  <2> QED BY <1>2, <2>1, <2>2, Kinds, QuietStep
<1> QED BY <1>1, <1>2 DEF page_resolve, Governed

(* A put of bytes that are there stores nothing; any other stores one object. *)
LEMMA PuttingStep ==
  ASSUME PageInv, NEW k, NEW n \in Name, NEW r \in ContextRevision, page_put(k, n, r)
  PROVE  PageInv'
<1> DEFINE stored == <<n, r>> \in DOMAIN objects /\ objects[<<n, r>>] = "stored"
<1>1. CASE Refused /\ Untouched /\ UNCHANGED direct
  BY <1>1, RefusedStep
<1>2. CASE /\ Completed("put") /\ UNCHANGED direct /\ UNCHANGED authorityVars
           /\ IF stored THEN UNCHANGED storeVars ELSE put(n, r) /\ UNCHANGED <<held, rejected>>
  <2>0. AuthorityInv' /\ tokens' = tokens
    BY <1>2, AuthorityIdle DEF PageInv, authorityVars
  <2>1. /\ TrailTyped' /\ DecisionsFirst'
        /\ trail'.done["ContextPut"] = trail.done["ContextPut"] + 1
        /\ \A a \in ChangeKind : a # "ContextPut" => trail'.done[a] = trail.done[a]
    <3>1. \A a \in ChangeKind :
            trail'.done[a] = trail.done[a] + IF a = "ContextPut" THEN 1 ELSE 0
      BY <1>2, Kinds, CompletedTrail DEF PageInv
    <3>2. TrailTyped' /\ DecisionsFirst'
      BY <1>2, CompletedTrail DEF PageInv
    <3> QED BY <3>1, <3>2, Kinds DEF PageInv, TrailTyped
  <2>2. /\ AliasInv' /\ aliases' = aliases
        /\ StoredOf(objects') \subseteq StoredOf(objects) \cup {<<n, r>>}
    <3>1. CASE UNCHANGED storeVars
      BY <3>1, StoreIdle DEF PageInv
    <3>2. CASE put(n, r) /\ UNCHANGED <<held, rejected>>
      <4>1. /\ UNCHANGED <<aliases, gone, held, rejected>>
            /\ <<n, r>> \notin DOMAIN objects /\ objects' = With(objects, <<n, r>>, "stored")
        BY <3>2 DEF put
      <4>2. /\ DOMAIN objects' = DOMAIN objects \cup {<<n, r>>}
            /\ \A o \in DOMAIN objects : objects'[o] = objects[o]
        BY <4>1 DEF With
      <4>3. IsFiniteSet(DOMAIN objects')
        BY <4>2, FS_AddElement DEF PageInv, AliasInv
      <4>4. GoneIsGone' /\ AliasesTyped' /\ HeldTyped'
        BY <4>1, <4>2 DEF PageInv, AliasInv, GoneIsGone, AliasesTyped, HeldTyped
      <4>5. ObjectsTyped'
        BY <4>2 DEF PageInv, AliasInv, ObjectsTyped
      <4>6. AliasInv'
        BY <4>1, <4>3, <4>4, <4>5 DEF PageInv, AliasInv
      <4>7. StoredOf(objects') \subseteq StoredOf(objects) \cup {<<n, r>>}
        BY <4>2 DEF StoredOf
      <4> QED BY <4>1, <4>6, <4>7
    <3> QED BY <1>2, <3>1, <3>2
  <2>3. PutsCounted'
    <3>1. IsFiniteSet(StoredOf(objects)) /\ Cardinality(StoredOf(objects)) \in Nat
      BY StoredFinite DEF PageInv
    <3>2. PICK S : S = StoredOf(objects) \cup {<<n, r>>}
      OBVIOUS
    <3>3. IsFiniteSet(S) /\ Cardinality(S) \in Nat /\ Cardinality(S) <= Cardinality(StoredOf(objects)) + 1
      <4>1. /\ IsFiniteSet(S)
            /\ \/ Cardinality(S) = Cardinality(StoredOf(objects))
               \/ Cardinality(S) = Cardinality(StoredOf(objects)) + 1
        BY <3>1, <3>2, FS_AddElement
      <4> QED BY <3>1, <4>1
    <3>4. /\ Cardinality(StoredOf(objects')) <= Cardinality(S)
          /\ Cardinality(StoredOf(objects')) \in Nat
      BY <2>2, <3>2, <3>3, FS_Subset, FS_CardinalityType
    <3>5. trail.done["ContextPut"] \in Nat /\ Cardinality(StoredOf(objects)) <= trail.done["ContextPut"]
      BY Kinds DEF PageInv, PutsCounted, TrailTyped
    <3> QED BY <2>1, <3>1, <3>3, <3>4, <3>5 DEF PutsCounted
  <2>4. MovesCounted'
    BY <2>1, <2>2, Kinds DEF PageInv, MovesCounted, AliasMoves, TombsOf
  <2>5. TokensCounted'
    BY <1>2, <2>0, <2>1, Kinds DEF PageInv, TokensCounted
  <2> QED BY <2>0, <2>1, <2>2, <2>3, <2>4, <2>5 DEF PageInv
<1> QED BY <1>1, <1>2 DEF page_put, Governed

(* A swap moves one alias; a refused one spends the page's snapshot.          *)
LEMMA SwappingStep ==
  ASSUME PageInv, NEW k, NEW n \in Name, NEW r \in ContextRevision, NEW expected,
         page_cas(k, n, r, expected)
  PROVE  PageInv'
<1>0. AuthorityInv' /\ tokens' = tokens /\ UNCHANGED <<direct, rejected>>
  BY AuthorityIdle DEF PageInv, page_cas, authorityVars
<1>1. CASE /\ Refused /\ UNCHANGED <<objects, aliases, gone>>
           /\ held' = [held EXCEPT ![PageActor] = IF expected = NoSnapshot THEN @ ELSE NoSnapshot]
  <2>1. AliasInv'
    <3>1. HeldTyped'
      BY <1>1 DEF PageInv, AliasInv, HeldTyped
    <3> QED BY <1>0, <1>1, <3>1 DEF PageInv, AliasInv, AliasesTyped, ObjectsTyped, GoneIsGone
  <2>2. /\ TrailTyped' /\ DecisionsFirst'
        /\ \A a \in ChangeKind : trail'.done[a] = trail.done[a]
    BY <1>0, <1>1, RefusedTrail DEF PageInv
  <2> QED BY <1>0, <1>1, <2>1, <2>2, CountsKept
<1>2. CASE /\ compare_and_swap_alias(n, expected, r)
           /\ held' = [held EXCEPT ![PageActor] = aliases'[n]]
           /\ Completed("cas")
  <2>1. /\ TrailTyped' /\ DecisionsFirst'
        /\ trail'.done["ContextAliasUpdate"] = trail.done["ContextAliasUpdate"] + 1
        /\ \A a \in ChangeKind : a # "ContextAliasUpdate" => trail'.done[a] = trail.done[a]
    <3>1. \A a \in ChangeKind :
            trail'.done[a] = trail.done[a] + IF a = "ContextAliasUpdate" THEN 1 ELSE 0
      BY <1>0, <1>2, Kinds, CompletedTrail DEF PageInv
    <3>2. TrailTyped' /\ DecisionsFirst'
      BY <1>0, <1>2, CompletedTrail DEF PageInv
    <3> QED BY <3>1, <3>2, Kinds DEF PageInv, TrailTyped
  <2>2. UNCHANGED <<objects, gone>> /\ AliasesTyped'
    BY <1>2, SwapTables DEF PageInv
  <2>3. PICK g \in Nat \ {0} :
          /\ DOMAIN aliases' = DOMAIN aliases \cup {n}
          /\ aliases'[n] = AliasSnapshot(n, r, g, FALSE)
          /\ \A x \in DOMAIN aliases : x # n => aliases'[x] = aliases[x]
          /\ \/ n \notin DOMAIN aliases /\ g = 1
             \/ n \in DOMAIN aliases /\ ~aliases[n].tombstone /\ g = aliases[n].generation + 1
    BY <1>2, SwapTables DEF PageInv
  <2>4. /\ IsFiniteSet(AliasMoves') /\ Cardinality(AliasMoves') = Cardinality(AliasMoves) + 1
        /\ TombsOf(aliases') = TombsOf(aliases)
    BY <2>3, AliasCounted DEF PageInv, MovesCounted
  <2>5. AliasInv'
    <3>1. HeldTyped'
      BY <1>2 DEF PageInv, AliasInv, HeldTyped
    <3> QED BY <1>0, <2>2, <3>1 DEF PageInv, AliasInv, ObjectsTyped, GoneIsGone
  <2>6. MovesCounted'
    <3>1. /\ trail.done["ContextAliasUpdate"] \in Nat /\ trail.done["ContextForget"] \in Nat
          /\ Cardinality(AliasMoves) = trail.done["ContextAliasUpdate"] + trail.done["ContextForget"]
          /\ Cardinality(TombsOf(aliases)) = trail.done["ContextForget"]
      BY Kinds DEF PageInv, TrailTyped, MovesCounted
    <3>2. trail'.done["ContextForget"] = trail.done["ContextForget"]
      BY <2>1, Kinds
    <3> QED BY <2>1, <2>4, <3>1, <3>2 DEF MovesCounted
  <2>7. PutsCounted' /\ TokensCounted'
    BY <1>0, <2>1, <2>2, Kinds DEF PageInv, PutsCounted, TokensCounted
  <2> QED BY <1>0, <2>1, <2>5, <2>6, <2>7 DEF PageInv
<1> QED BY <1>1, <1>2 DEF page_cas

(* A forget moves one alias to its tombstone.                                 *)
LEMMA ForgettingStep ==
  ASSUME PageInv, NEW k, NEW n \in Name, page_forget(k, n)
  PROVE  PageInv'
<1>1. CASE Refused /\ Untouched /\ UNCHANGED direct
  BY <1>1, RefusedStep
<1>2. CASE /\ Completed("forget") /\ UNCHANGED direct
           /\ forget(n, held[PageActor])
           /\ held' = [held EXCEPT ![PageActor] = aliases'[n]]
           /\ UNCHANGED <<rejected, authorityVars>>
  <2>0. AuthorityInv' /\ tokens' = tokens
    BY <1>2, AuthorityIdle DEF PageInv, authorityVars
  <2>1. /\ TrailTyped' /\ DecisionsFirst'
        /\ trail'.done["ContextForget"] = trail.done["ContextForget"] + 1
        /\ \A a \in ChangeKind : a # "ContextForget" => trail'.done[a] = trail.done[a]
    <3>1. \A a \in ChangeKind :
            trail'.done[a] = trail.done[a] + IF a = "ContextForget" THEN 1 ELSE 0
      BY <1>2, Kinds, CompletedTrail DEF PageInv
    <3>2. TrailTyped' /\ DecisionsFirst'
      BY <1>2, CompletedTrail DEF PageInv
    <3> QED BY <3>1, <3>2, Kinds DEF PageInv, TrailTyped
  <2>2. /\ AliasesTyped' /\ ObjectsTyped' /\ GoneIsGone' /\ IsFiniteSet(DOMAIN objects')
        /\ StoredOf(objects') \subseteq StoredOf(objects)
    BY <1>2, ForgetTables DEF PageInv, StoredOf
  <2>3. PICK r : \E g \in Nat \ {0} :
          /\ DOMAIN aliases' = DOMAIN aliases \cup {n}
          /\ aliases'[n] = AliasSnapshot(n, r, g, TRUE)
          /\ \A x \in DOMAIN aliases : x # n => aliases'[x] = aliases[x]
          /\ n \in DOMAIN aliases /\ ~aliases[n].tombstone /\ g = aliases[n].generation + 1
    BY <1>2, ForgetTables DEF PageInv
  <2>4. /\ IsFiniteSet(AliasMoves') /\ Cardinality(AliasMoves') = Cardinality(AliasMoves) + 1
        /\ Cardinality(TombsOf(aliases')) = Cardinality(TombsOf(aliases)) + 1
    BY <2>3, AliasCounted DEF PageInv, MovesCounted
  <2>5. AliasInv'
    <3>1. HeldTyped'
      BY <1>2 DEF PageInv, AliasInv, HeldTyped
    <3> QED BY <1>2, <2>2, <3>1 DEF PageInv, AliasInv
  <2>6. MovesCounted'
    <3>1. /\ trail.done["ContextAliasUpdate"] \in Nat /\ trail.done["ContextForget"] \in Nat
          /\ Cardinality(AliasMoves) = trail.done["ContextAliasUpdate"] + trail.done["ContextForget"]
          /\ Cardinality(TombsOf(aliases)) = trail.done["ContextForget"]
      BY Kinds DEF PageInv, TrailTyped, MovesCounted
    <3>2. trail'.done["ContextAliasUpdate"] = trail.done["ContextAliasUpdate"]
      BY <2>1, Kinds
    <3> QED BY <2>1, <2>4, <3>1, <3>2 DEF MovesCounted
  <2>7. PutsCounted'
    <3>1. IsFiniteSet(StoredOf(objects)) /\ Cardinality(StoredOf(objects)) \in Nat
      BY StoredFinite DEF PageInv
    <3>2. /\ Cardinality(StoredOf(objects')) <= Cardinality(StoredOf(objects))
          /\ Cardinality(StoredOf(objects')) \in Nat
      BY <2>2, <3>1, FS_Subset, FS_CardinalityType
    <3>3. /\ trail.done["ContextPut"] \in Nat
          /\ Cardinality(StoredOf(objects)) <= trail.done["ContextPut"]
          /\ trail'.done["ContextPut"] = trail.done["ContextPut"]
      BY <2>1, Kinds DEF PageInv, PutsCounted, TrailTyped
    <3> QED BY <3>1, <3>2, <3>3 DEF PutsCounted
  <2>8. TokensCounted'
    BY <1>2, <2>0, <2>1, Kinds DEF PageInv, TokensCounted
  <2> QED BY <2>0, <2>1, <2>5, <2>6, <2>7, <2>8 DEF PageInv
<1> QED BY <1>1, <1>2 DEF page_forget, Governed

(* Minting adds the next token, or none.                                      *)
LEMMA MintCount ==
  ASSUME CapsTyped, NEW parent, NEW rights, NEW owner, NEW scope, Minted(parent, rights, owner, scope)
  PROVE  \/ tokens' = tokens
         \/ /\ DOMAIN tokens' = DOMAIN tokens \cup {next_token} /\ DOMAIN tokens' # DOMAIN tokens
            /\ Cardinality(DOMAIN tokens') = Cardinality(DOMAIN tokens) + 1
            /\ Cardinality(DOMAIN tokens' \ DOMAIN tokens) = 1
<1>1. CASE tokens' = tokens
  BY <1>1
<1>2. CASE \E token : tokens' = With(tokens, next_token, token)
  <2>1. DOMAIN tokens' = DOMAIN tokens \cup {next_token}
    BY <1>2 DEF With
  <2>2. next_token \notin DOMAIN tokens
    BY DEF CapsTyped
  <2>3. DOMAIN tokens' \ DOMAIN tokens = {next_token}
    BY <2>1, <2>2
  <2>4. Cardinality(DOMAIN tokens') = Cardinality(DOMAIN tokens) + 1
    BY <2>1, <2>2, TokensFinite, FS_AddElement
  <2>5. Cardinality(DOMAIN tokens' \ DOMAIN tokens) = 1
    BY <2>3, FS_Singleton
  <2> QED BY <2>1, <2>2, <2>4, <2>5
<1> QED BY <1>1, <1>2 DEF Minted, IdOnly

LEMMA DelegateCount ==
  ASSUME CapsTyped, NEW k, NEW scope, NEW rights, NEW owner, NEW caller,
         delegate(k, scope, rights, owner, caller)
  PROVE  \/ tokens' = tokens
         \/ /\ DOMAIN tokens' = DOMAIN tokens \cup {next_token} /\ DOMAIN tokens' # DOMAIN tokens
            /\ Cardinality(DOMAIN tokens') = Cardinality(DOMAIN tokens) + 1
            /\ Cardinality(DOMAIN tokens' \ DOMAIN tokens) = 1
BY MintCount DEF delegate, IdOnly

(* A token made past the runtime is known as such.                            *)
LEMMA DirectStep ==
  ASSUME PageInv, AuthorityInv', UNCHANGED <<storeVars, trail, reported>>,
         direct' = direct + Cardinality(DOMAIN tokens' \ DOMAIN tokens),
         \/ tokens' = tokens
         \/ /\ Cardinality(DOMAIN tokens') = Cardinality(DOMAIN tokens) + 1
            /\ Cardinality(DOMAIN tokens' \ DOMAIN tokens) = 1
  PROVE  PageInv'
<1>1. AliasInv' /\ UNCHANGED <<objects, aliases, held, rejected, gone>>
  BY StoreIdle DEF PageInv
<1>2. /\ Cardinality(DOMAIN tokens') - Cardinality(DOMAIN tokens) = direct' - direct
      /\ direct' \in Nat /\ Cardinality(DOMAIN tokens') \in Nat
  <2>1. direct \in Nat /\ Cardinality(DOMAIN tokens) \in Nat
    BY TokensFinite DEF PageInv, TrailTyped, AuthorityInv
  <2>2. CASE tokens' = tokens
    <3>1. DOMAIN tokens' \ DOMAIN tokens = {}
      BY <2>2
    <3>2. Cardinality(DOMAIN tokens' \ DOMAIN tokens) = 0
      BY <3>1, FS_EmptySet
    <3> QED BY <2>1, <2>2, <3>2
  <2>3. CASE /\ Cardinality(DOMAIN tokens') = Cardinality(DOMAIN tokens) + 1
             /\ Cardinality(DOMAIN tokens' \ DOMAIN tokens) = 1
    BY <2>1, <2>3
  <2> QED BY <2>2, <2>3
<1>3. TrailTyped' /\ DecisionsFirst'
  BY <1>2 DEF PageInv, TrailTyped, DecisionsFirst
<1>4. MovesCounted' /\ PutsCounted'
  BY <1>1 DEF PageInv, MovesCounted, PutsCounted, AliasMoves
<1>5. TokensCounted'
  <2>1. /\ trail.done["CapabilityGrant"] \in Nat /\ direct \in Nat /\ Cardinality(DOMAIN tokens) \in Nat
        /\ Cardinality(DOMAIN tokens) <= direct + trail.done["CapabilityGrant"]
    BY Kinds, TokensFinite DEF PageInv, TrailTyped, AuthorityInv, TokensCounted
  <2> QED BY <1>2, <2>1 DEF TokensCounted
<1> QED BY <1>1, <1>3, <1>4, <1>5 DEF PageInv

(* A witnessed grant counts exactly the token it makes.                       *)
LEMMA GrantingStep ==
  ASSUME PageInv, NEW k \in DOMAIN tokens, NEW t, NEW scope \in Scope, NEW rights, NEW owner,
         page_grant(k, t, scope, rights, owner)
  PROVE  PageInv'
<1>0. UNCHANGED storeVars /\ UNCHANGED direct
  BY DEF page_grant
<1>1. CASE Refused /\ UNCHANGED authorityVars
  BY <1>0, <1>1, RefusedStep DEF Untouched
<1>2. CASE /\ GrantRequest(k, PageActor, t, scope, rights, owner)
           /\ IF DOMAIN tokens' = DOMAIN tokens THEN Refused ELSE Completed("grant")
  <2>1. AliasInv' /\ UNCHANGED <<objects, aliases, held, rejected, gone>>
    BY <1>0, StoreIdle DEF PageInv
  <2>2. delegate(k, scope, rights, owner, PageActor)
    BY <1>2 DEF GrantRequest
  <2>3. AuthorityInv'
    BY <2>2, DelegateStep DEF PageInv
  <2>4. \/ tokens' = tokens
        \/ /\ DOMAIN tokens' # DOMAIN tokens
           /\ Cardinality(DOMAIN tokens') = Cardinality(DOMAIN tokens) + 1
    BY <2>2, DelegateCount DEF PageInv, AuthorityInv
  <2>5. CASE tokens' = tokens
    <3>1. /\ TrailTyped' /\ DecisionsFirst'
          /\ \A a \in ChangeKind : trail'.done[a] = trail.done[a]
      BY <1>0, <1>2, <2>5, RefusedTrail DEF PageInv
    <3> QED BY <1>0, <2>1, <2>3, <2>5, <3>1, CountsKept
  <2>6. CASE /\ DOMAIN tokens' # DOMAIN tokens
             /\ Cardinality(DOMAIN tokens') = Cardinality(DOMAIN tokens) + 1
    <3>1. /\ TrailTyped' /\ DecisionsFirst'
          /\ trail'.done["CapabilityGrant"] = trail.done["CapabilityGrant"] + 1
          /\ \A a \in ChangeKind : a # "CapabilityGrant" => trail'.done[a] = trail.done[a]
      <4>1. \A a \in ChangeKind :
              trail'.done[a] = trail.done[a] + IF a = "CapabilityGrant" THEN 1 ELSE 0
        BY <1>0, <1>2, <2>6, Kinds, CompletedTrail DEF PageInv
      <4>2. TrailTyped' /\ DecisionsFirst'
        BY <1>0, <1>2, <2>6, CompletedTrail DEF PageInv
      <4> QED BY <4>1, <4>2, Kinds DEF PageInv, TrailTyped
    <3>2. MovesCounted' /\ PutsCounted'
      BY <2>1, <3>1, Kinds DEF PageInv, MovesCounted, PutsCounted, AliasMoves, TombsOf
    <3>3. TokensCounted'
      <4>1. /\ trail.done["CapabilityGrant"] \in Nat /\ direct \in Nat /\ Cardinality(DOMAIN tokens) \in Nat
            /\ Cardinality(DOMAIN tokens) <= direct + trail.done["CapabilityGrant"]
        BY Kinds, TokensFinite DEF PageInv, TrailTyped, AuthorityInv, TokensCounted
      <4> QED BY <1>0, <2>6, <3>1, <4>1 DEF TokensCounted
    <3> QED BY <2>1, <2>3, <3>1, <3>2, <3>3 DEF PageInv
  <2> QED BY <2>4, <2>5, <2>6
<1> QED BY <1>1, <1>2 DEF page_grant

(* Revocations, witnessed or not, and rotations take tokens only.             *)
LEMMA RevokingStep ==
  ASSUME PageInv, NEW k \in DOMAIN tokens, NEW t, revoke_governed(k, t)
  PROVE  PageInv'
<1>0. UNCHANGED storeVars /\ UNCHANGED direct
  BY DEF revoke_governed
<1>1. CASE Refused /\ UNCHANGED authorityVars
  BY <1>0, <1>1, RefusedStep DEF Untouched
<1>2. CASE revoke_token(k) /\ Completed("revoke")
  <2>1. AliasInv' /\ UNCHANGED <<objects, aliases, held, rejected, gone>>
    BY <1>0, StoreIdle DEF PageInv
  <2>2. AuthorityInv' /\ DOMAIN tokens' \subseteq DOMAIN tokens
    BY <1>2, RevokeStep DEF PageInv
  <2> QED BY <1>0, <1>2, <2>1, <2>2, Kinds, QuietStep
<1> QED BY <1>1, <1>2 DEF revoke_governed

LEMMA UnwitnessedStep ==
  ASSUME PageInv, AuthorityInv', DOMAIN tokens' \subseteq DOMAIN tokens, UNCHANGED <<storeVars, pageVars>>
  PROVE  PageInv'
<1>1. AliasInv' /\ UNCHANGED <<objects, aliases, held, rejected, gone>>
  BY StoreIdle DEF PageInv
<1>2. UNCHANGED <<trail, direct, reported>>
  BY DEF pageVars
<1>3. TrailTyped' /\ DecisionsFirst'
  BY <1>2 DEF PageInv, TrailTyped, DecisionsFirst
<1> QED BY <1>1, <1>2, <1>3, CountsKept

(* Every call of the page.                                                    *)
LEMMA PageStep ==
  ASSUME PageInv, BrowserNext
  PROVE  PageInv'
<1>1. ASSUME NEW root \in Plain, NEW views \in GrantViews, NEW ops \in OperationSets, NEW o \in Owner,
             \/ page_issue_root(from_uri(root, views), for_operations(ops), o)
             \/ \E k \in DOMAIN tokens :
                  \/ page_delegate(k, from_uri(root, views), for_operations(ops), o)
                  \/ \E t \in Plain : page_grant(k, t, from_uri(root, views), for_operations(ops), o)
      PROVE  PageInv'
  <2> DEFINE s == from_uri(root, views)
             r == for_operations(ops)
  <2>0. s \in Scope
    BY DEF from_uri, Scope, Plain, Target
  <2> HIDE DEF s, r
  <2>1. CASE page_issue_root(s, r, o)
    <3>1. Minted(0, r, o, s)
      BY <2>1 DEF page_issue_root, issue_root
    <3>2. AuthorityInv'
      BY <2>0, <3>1, MintStep DEF PageInv
    <3>3. \/ tokens' = tokens
          \/ /\ Cardinality(DOMAIN tokens') = Cardinality(DOMAIN tokens) + 1
             /\ Cardinality(DOMAIN tokens' \ DOMAIN tokens) = 1
      BY <3>1, MintCount DEF PageInv, AuthorityInv
    <3> QED BY <2>1, <3>2, <3>3, DirectStep DEF page_issue_root
  <2>2. ASSUME NEW k \in DOMAIN tokens, page_delegate(k, s, r, o) PROVE PageInv'
    <3>1. delegate(k, s, r, o, PageActor)
      BY <2>2 DEF page_delegate
    <3>2. AuthorityInv'
      BY <2>0, <3>1, DelegateStep DEF PageInv
    <3>3. \/ tokens' = tokens
          \/ /\ Cardinality(DOMAIN tokens') = Cardinality(DOMAIN tokens) + 1
             /\ Cardinality(DOMAIN tokens' \ DOMAIN tokens) = 1
      BY <3>1, DelegateCount DEF PageInv, AuthorityInv
    <3> QED BY <2>2, <3>2, <3>3, DirectStep DEF page_delegate
  <2>3. ASSUME NEW k \in DOMAIN tokens, NEW t \in Plain, page_grant(k, t, s, r, o) PROVE PageInv'
    BY <2>0, <2>3, GrantingStep
  <2> QED BY <1>1, <2>1, <2>2, <2>3 DEF s, r
<1>2. CASE page_increment_epoch
  BY <1>2, EpochStep, UnwitnessedStep DEF page_increment_epoch, PageInv
<1>3. ASSUME NEW k \in DOMAIN tokens, page_revoke(k) PROVE PageInv'
  BY <1>3, RevokeStep, UnwitnessedStep DEF page_revoke, PageInv
<1>4. ASSUME NEW k \in DOMAIN tokens, NEW t \in Plain, revoke_governed(k, t) PROVE PageInv'
  BY <1>4, RevokingStep
<1>5. ASSUME NEW k \in DOMAIN tokens, NEW n \in Name, page_forget(k, n) PROVE PageInv'
  BY <1>5, ForgettingStep
<1>6. ASSUME NEW k \in DOMAIN tokens, NEW n \in Name, NEW r \in ContextRevision, page_put(k, n, r)
      PROVE  PageInv'
  BY <1>6, PuttingStep
<1>7. ASSUME NEW k \in DOMAIN tokens, NEW n \in Name, NEW r \in ContextRevision, NEW x,
             page_cas(k, n, r, x)
      PROVE  PageInv'
  BY <1>7, SwappingStep
<1>8. ASSUME NEW k \in DOMAIN tokens, NEW t,
             \/ page_resolve(k, t) \/ page_execute(k, t)
             \/ \E op \in {"read", "verify"} : page_read(k, op, t)
             \/ \E op \in {"list", "tree", "search", "history"}, most \in 0 .. MAX_ENUM_RESULTS :
                  page_list(k, op, t, most)
      PROVE  PageInv'
  <2>1. CASE page_resolve(k, t)
    BY <2>1, ResolvingStep
  <2>2. CASE page_execute(k, t)
    BY <2>2, ReadingStep DEF page_execute
  <2>3. ASSUME NEW op \in {"read", "verify"}, page_read(k, op, t) PROVE PageInv'
    BY <2>3, ReadingStep DEF page_read
  <2>4. ASSUME NEW op \in {"list", "tree", "search", "history"}, NEW most, page_list(k, op, t, most)
        PROVE  PageInv'
    BY <2>4, ReadingStep DEF page_list
  <2> QED BY <1>8, <2>1, <2>2, <2>3, <2>4
<1> QED BY <1>1, <1>2, <1>3, <1>4, <1>5, <1>6, <1>7, <1>8 DEF BrowserNext

(* The page begins with nothing done and nothing counted.                     *)
LEMMA PageStart == BrowserInit => PageInv
<1> SUFFICES ASSUME BrowserInit PROVE PageInv
  OBVIOUS
<1>1. AliasInv
  BY AliasStart DEF BrowserInit
<1>2. AuthorityInv
  BY AuthorityStart DEF BrowserInit
<1>3. DOMAIN tokens = {}
  BY DEF BrowserInit, AuthorityInit
<1>5. /\ trail.next = 0 /\ \A a \in ChangeKind : trail.done[a] = 0
      /\ direct = 0 /\ reported = 0
  BY DEF BrowserInit
<1>6. TrailTyped /\ DecisionsFirst
  BY <1>5, Kinds DEF TrailTyped, DecisionsFirst
<1>7. DOMAIN aliases = {} /\ DOMAIN objects = {}
  BY DEF BrowserInit, StoreInit
<1>8. AliasMoves = {} /\ TombsOf(aliases) = {} /\ StoredOf(objects) = {}
  BY <1>7 DEF AliasMoves, TombsOf, StoredOf
<1>9. MovesCounted /\ PutsCounted /\ TokensCounted
  <2>1. IsFiniteSet({}) /\ Cardinality({}) = 0
    BY FS_EmptySet
  <2> QED BY <1>3, <1>5, <1>8, <2>1, Kinds DEF MovesCounted, PutsCounted, TokensCounted
<1> QED BY <1>1, <1>2, <1>6, <1>9 DEF PageInv

(* A name without a view is in the region exactly when an operation that      *)
(* needs no view is in scope.                                                 *)
LEMMA ShadowHolds == ShadowAgrees
<1> SUFFICES ASSUME NEW k \in DOMAIN grants, NEW t \in Target
             PROVE  LET inScope == \E op \in ContextOperation : allows(grants[k], t, op) IN
                    IF t.view = NoView THEN contains_uri(grants[k], t) = inScope
                    ELSE inScope => contains_uri(grants[k], t)
  BY DEF ShadowAgrees
<1> DEFINE Inside == grants[k].space = t.space /\ path_has_prefix(t.path, grants[k].path)
           inScope == \E op \in ContextOperation : allows(grants[k], t, op)
<1>1. contains_uri(grants[k], t) = Inside
  BY DEF contains_uri, contains_scope, from_uri, mask_contains
<1>2. ASSUME NEW op, allows(grants[k], t, op) PROVE Inside
  BY <1>2 DEF allows
<1>3. ASSUME t.view = NoView, Inside PROVE inScope
  <2>1. required_view_bit("put", t.view) = {}
    BY <1>3 DEF required_view_bit
  <2>2. allows(grants[k], t, "put") /\ "put" \in ContextOperation
    BY <1>3, <2>1 DEF allows, mask_contains, ContextOperation
  <2> QED BY <2>2
<1>4. inScope => Inside
  BY <1>2
<1>5. Inside \in BOOLEAN /\ inScope \in BOOLEAN
  OBVIOUS
<1> HIDE DEF Inside, inScope
<1>6. ASSUME t.view = NoView PROVE contains_uri(grants[k], t) = inScope
  BY <1>1, <1>3, <1>4, <1>5, <1>6
<1>7. ASSUME inScope PROVE contains_uri(grants[k], t)
  BY <1>1, <1>4, <1>7
<1> QED BY <1>6, <1>7 DEF inScope

LEMMA PageAccounts == PageInv => TrailAccountsForChanges
<1> SUFFICES ASSUME PageInv PROVE TrailAccountsForChanges
  OBVIOUS
<1> QED BY ShadowHolds
    DEF PageInv, DecisionsFirst, MovesCounted, PutsCounted, TokensCounted, TombsOf, StoredOf,
        TrailAccountsForChanges, next_sequence

-----------------------------------------------------------------------------
(* The three parts together. *)

ContextInv ==
  /\ part = "authority" => AuthorityInv
  /\ part = "store" => AliasInv
  /\ part = "browser" => PageInv

LEMMA ContextStart == ContextInit => ContextInv
<1> SUFFICES ASSUME ContextInit PROVE ContextInv
  OBVIOUS
<1>1. ASSUME part = "authority" PROVE AuthorityInv
  BY <1>1, AuthorityStart DEF ContextInit
<1>2. ASSUME part = "store" PROVE AliasInv
  BY <1>2, AliasStart DEF ContextInit
<1>3. ASSUME part = "browser" PROVE PageInv
  BY <1>3, PageStart DEF ContextInit
<1> QED BY <1>1, <1>2, <1>3 DEF ContextInv

LEMMA ContextStep == ContextInv /\ [ContextNext]_varsContext => ContextInv'
<1> SUFFICES ASSUME ContextInv, [ContextNext]_varsContext PROVE ContextInv'
  OBVIOUS
<1>0. part' = part
  BY DEF ContextNext, varsContext
<1>1. ASSUME part = "authority" PROVE AuthorityInv'
  <2>0. AuthorityInv
    BY <1>1 DEF ContextInv
  <2>1. CASE UNCHANGED browserVars
    BY <2>0, <2>1, AuthorityIdle DEF browserVars
  <2>2. CASE AuthorityPart
    <3>1. GrantNext \/ ReadNext(MCTargets, MCAnswers)
      BY <2>2 DEF AuthorityPart
    <3>2. MCTargets \in SUBSET Target /\ MCAnswers \in SUBSET Answers
      BY DEF MCTargets, MCAnswers
    <3> QED BY <2>0, <3>1, <3>2, GrantNextStep, ReadNextStep
  <2>3. UNCHANGED browserVars \/ AuthorityPart
    BY <1>1 DEF ContextNext, varsContext
  <2> QED BY <2>1, <2>2, <2>3
<1>2. ASSUME part = "store" PROVE AliasInv'
  <2>0. AliasInv
    BY <1>2 DEF ContextInv
  <2>1. CASE UNCHANGED browserVars
    BY <2>0, <2>1, StoreIdle DEF browserVars
  <2>2. CASE StorePart
    BY <2>0, <2>2, StoreStep DEF StorePart
  <2>3. UNCHANGED browserVars \/ StorePart
    BY <1>2 DEF ContextNext, varsContext
  <2> QED BY <2>1, <2>2, <2>3
<1>3. ASSUME part = "browser" PROVE PageInv'
  <2>0. PageInv
    BY <1>3 DEF ContextInv
  <2>1. CASE UNCHANGED browserVars
    <3>1. UNCHANGED storeVars /\ UNCHANGED authorityVars /\ UNCHANGED pageVars
      BY <2>1 DEF browserVars
    <3>2. AuthorityInv' /\ tokens' = tokens
      BY <2>0, <3>1, AuthorityIdle DEF PageInv, authorityVars
    <3> QED BY <2>0, <3>1, <3>2, UnwitnessedStep
  <2>2. CASE BrowserPart
    BY <2>0, <2>2, PageStep DEF BrowserPart
  <2>3. UNCHANGED browserVars \/ BrowserPart
    BY <1>3 DEF ContextNext, varsContext
  <2> QED BY <2>1, <2>2, <2>3
<1> QED BY <1>0, <1>1, <1>2, <1>3 DEF ContextInv

(* Invariant of the capabilities of rvm-context, its store and the page's binding:  *)
(* what is bound is live, current and inside what its ancestors were bound to (capability.rs), *)
(* the alias tables are those of AliasInvariant (resolver.rs), and the records    *)
(* count what the page changed (rvm-context-wasm: lib.rs).                        *)
THEOREM ContextInvariant == ContextSpec => []ContextInv
<1>1. ContextInit => ContextInv
  BY ContextStart
<1>2. ContextInv /\ [ContextNext]_varsContext => ContextInv'
  BY ContextStep
<1> QED BY <1>1, <1>2, PTL DEF ContextSpec

(* Against any resolver a caller sees only what its capability's scope discloses;  *)
(* scopes, views and rights shrink down every lineage, whatever a revocation takes  *)
(* or misses of it; no token the authority minted is live, current and unbound, or   *)
(* bound and gone (capability.rs, runtime.rs); what was forgotten is not served; and *)
(* the ring accounts for what the page changed (lib.rs).                            *)
THEOREM ContextHolds == ContextSpec => []ContextSound
<1>1. ContextInv => ContextSound
  BY AliasInvForgotten, AliasInvRuntime, PageAccounts
     DEF ContextInv, ContextSound, PageInv, AuthorityInv
<1> QED BY <1>1, ContextInvariant, PTL

============================================================================
