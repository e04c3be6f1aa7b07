------------------------- MODULE ProofEngineProofs -------------------------
(***************************************************************************)
(* What replay protection gives for every ring size and every sequence of  *)
(* requests, with the P3 entry points interleaved; and that the nonce      *)
(* state is fair to clients and the log honest about it.  Then, for the    *)
(* gate and the signers: what they leave behind speaks for what it was     *)
(* made over.                                                              *)
(***************************************************************************)
EXTENDS ProofEngine, SecurityGate, FiniteSetTheorems, WellFoundedInduction, TLAPS

USE SizeAssumption, FlagAssumption

\* The residue of a nonce is a position of the ring.
LEMMA HashSlotType ==
  ASSUME NEW n \in Nonce
  PROVE  HashSlot(n) \in Pos
BY DEF Nonce, HashSlot, Pos

\* A later acceptance of another nonce with the residue of the i-th one.
CollidesAfter(i, last) ==
  \E k \in i + 1 .. last :
    accepted[k] # accepted[i] /\ HashSlot(accepted[k]) = HashSlot(accepted[i])

\* An accepted nonce is in the hash index until a colliding one is accepted.
IndexInv ==
  /\ nonce_hash \in [Pos -> Nonce]
  /\ accepted \in Seq(Nonce)
  /\ \A i \in DOMAIN accepted : accepted[i] # 0 =>
       \/ nonce_hash[HashSlot(accepted[i])] = accepted[i]
       \/ CollidesAfter(i, Len(accepted))
  /\ ReplayNeedsCollision

\* Initially nothing is accepted.
LEMMA InitIndex == EngineInit => IndexInv
<1> SUFFICES ASSUME EngineInit PROVE IndexInv
  OBVIOUS
<1>1. nonce_hash \in [Pos -> Nonce]
  BY DEF EngineInit, Nonce
<1>2. accepted = <<>> /\ accepted \in Seq(Nonce) /\ DOMAIN accepted = {}
  BY DEF EngineInit
<1>3. QED
  BY <1>1, <1>2 DEF IndexInv, ReplayNeedsCollision

\* Accepting one more nonce keeps the index invariant.
LEMMA AcceptStep ==
  ASSUME IndexInv, NEW n \in Nonce, ~IsNonceReplayed(n), accepted' = Append(accepted, n),
         n # 0 => nonce_hash' = [nonce_hash EXCEPT ![HashSlot(n)] = n],
         n = 0 => nonce_hash' = nonce_hash
  PROVE  IndexInv'
<1> DEFINE L == Len(accepted)
<1>1. /\ L \in Nat /\ DOMAIN accepted = 1 .. L /\ accepted \in Seq(Nonce)
      /\ accepted' \in Seq(Nonce) /\ Len(accepted') = L + 1
      /\ DOMAIN accepted' = 1 .. L + 1
      /\ accepted'[L + 1] = n
      /\ \A i \in 1 .. L : accepted'[i] = accepted[i] /\ accepted[i] \in Nonce
  BY DEF IndexInv
<1>2. nonce_hash' \in [Pos -> Nonce]
  BY HashSlotType DEF IndexInv
<1>3. n # 0 => nonce_hash[HashSlot(n)] # n
  BY DEF IsNonceReplayed
<1>4. \A i \in 1 .. L : CollidesAfter(i, L) =>
        \E k \in i + 1 .. L : /\ accepted'[k] # accepted'[i]
                              /\ HashSlot(accepted'[k]) = HashSlot(accepted'[i])
  <2> SUFFICES ASSUME NEW i \in 1 .. L, CollidesAfter(i, L)
               PROVE  \E k \in i + 1 .. L : /\ accepted'[k] # accepted'[i]
                                            /\ HashSlot(accepted'[k]) = HashSlot(accepted'[i])
    OBVIOUS
  <2>1. PICK k \in i + 1 .. L :
          accepted[k] # accepted[i] /\ HashSlot(accepted[k]) = HashSlot(accepted[i])
    BY DEF CollidesAfter
  <2>2. k \in 1 .. L
    BY <1>1
  <2>3. QED
    BY <1>1, <2>1, <2>2
<1>5. \A i \in DOMAIN accepted' : accepted'[i] # 0 =>
        \/ nonce_hash'[HashSlot(accepted'[i])] = accepted'[i]
        \/ CollidesAfter(i, Len(accepted))'
  <2> SUFFICES ASSUME NEW i \in 1 .. L + 1, accepted'[i] # 0,
                      nonce_hash'[HashSlot(accepted'[i])] # accepted'[i]
               PROVE  \E k \in i + 1 .. L + 1 :
                        /\ accepted'[k] # accepted'[i]
                        /\ HashSlot(accepted'[k]) = HashSlot(accepted'[i])
    BY <1>1 DEF CollidesAfter
  <2>1. i \in 1 .. L
    <3>1. CASE i = L + 1
      BY <1>1, <3>1, HashSlotType DEF IndexInv
    <3>2. QED
      BY <1>1, <3>1
  <2>2. accepted'[i] = accepted[i] /\ accepted[i] \in Nonce /\ HashSlot(accepted[i]) \in Pos
    BY <1>1, <2>1, HashSlotType
  <2>3. CASE nonce_hash[HashSlot(accepted[i])] = accepted[i]
    <3>1. n # 0 /\ HashSlot(accepted[i]) = HashSlot(n) /\ accepted[i] # n
      BY <2>2, <2>3, HashSlotType DEF IndexInv
    <3>2. L + 1 \in i + 1 .. L + 1
      BY <1>1, <2>1
    <3>3. QED
      BY <1>1, <2>2, <3>1, <3>2
  <2>4. CASE nonce_hash[HashSlot(accepted[i])] # accepted[i]
    <3>1. CollidesAfter(i, L)
      BY <1>1, <2>1, <2>2, <2>4 DEF IndexInv
    <3>2. PICK k \in i + 1 .. L : /\ accepted'[k] # accepted'[i]
                                  /\ HashSlot(accepted'[k]) = HashSlot(accepted'[i])
      BY <1>4, <2>1, <3>1
    <3>3. k \in i + 1 .. L + 1
      BY <1>1
    <3>4. QED
      BY <3>2, <3>3
  <2>5. QED
    BY <2>3, <2>4
<1>6. ReplayNeedsCollision'
  <2> SUFFICES ASSUME NEW i \in 1 .. L + 1, NEW j \in 1 .. L + 1, i < j,
                      accepted'[i] = accepted'[j], accepted'[i] # 0
               PROVE  \E k \in i + 1 .. j - 1 :
                        /\ accepted'[k] # accepted'[i]
                        /\ HashSlot(accepted'[k]) = HashSlot(accepted'[i])
    BY <1>1 DEF ReplayNeedsCollision
  <2>1. i \in 1 .. L /\ accepted'[i] = accepted[i]
    BY <1>1
  <2>2. CASE j = L + 1
    <3>1. accepted[i] = n /\ n # 0
      BY <1>1, <2>1, <2>2
    <3>2. CollidesAfter(i, L)
      BY <1>1, <1>3, <2>1, <3>1 DEF IndexInv
    <3>3. j - 1 = L
      BY <1>1, <2>2
    <3>4. QED
      BY <1>4, <2>1, <3>2, <3>3
  <2>3. CASE j # L + 1
    <3>1. j \in 1 .. L /\ accepted'[j] = accepted[j]
      BY <1>1, <2>3
    <3>2. PICK k \in i + 1 .. j - 1 :
            accepted[k] # accepted[i] /\ HashSlot(accepted[k]) = HashSlot(accepted[i])
      BY <1>1, <2>1, <3>1 DEF IndexInv, ReplayNeedsCollision
    <3>3. k \in 1 .. L
      BY <1>1, <2>1, <3>1
    <3>4. QED
      BY <1>1, <2>1, <3>2, <3>3
  <2>4. QED
    BY <2>2, <2>3
<1>7. QED
  BY <1>1, <1>2, <1>5, <1>6 DEF IndexInv

\* The rules of both evaluators hold of a context or do not.
LEMMA RulesDecide ==
  \A c, holders : RulesHold(c) \in BOOLEAN /\ P2Holds(c, holders) \in BOOLEAN
BY DEF RulesHold, P2Holds

\* The verifier of rvm-cap does with a nonce what the evaluator does (check_nonce,
\* mark_nonce): none of its results depends on which of the two is asked.
LEMMA SameNonceState ==
  ASSUME EngineTypeOK, NEW n \in Nonce, NEW holds, VerifyP2(n, holds)
  PROVE  EvaluateAllRules(n, holds)
<1>1. nonce_hash[HashSlot(n)] \in Nonce
  BY HashSlotType DEF EngineTypeOK
<1>2. check_nonce(n) <=> ~IsNonceReplayed(n)
  BY <1>1, FlagAssumption DEF check_nonce, IsNonceReplayed, EngineTypeOK, Nonce
<1>3. QED
  BY <1>2 DEF VerifyP2, EvaluateAllRules, mark_nonce

\* Every step of the engine accepts one nonce or leaves the nonce state alone.
LEMMA NextIndex == IndexInv /\ EngineTypeOK /\ [EngineNext]_engineVars => IndexInv'
<1> SUFFICES ASSUME IndexInv, EngineTypeOK, [EngineNext]_engineVars PROVE IndexInv'
  OBVIOUS
<1>1. ASSUME UNCHANGED <<nonce_hash, accepted>> PROVE IndexInv'
  BY <1>1 DEF IndexInv, CollidesAfter, ReplayNeedsCollision
<1>2. ASSUME NEW n \in Nonce, NEW rules \in BOOLEAN, EvaluateAllRules(n, rules)
      PROVE  IndexInv'
  <2>1. CASE rules /\ ~IsNonceReplayed(n)
    BY <1>2, <2>1, AcceptStep DEF EvaluateAllRules, RecordNonce
  <2>2. CASE ~(rules /\ ~IsNonceReplayed(n))
    BY <1>1, <1>2, <2>2 DEF EvaluateAllRules, nonces
  <2>3. QED
    BY <2>1, <2>2
<1>3. ASSUME NEW n \in Nonce, NEW p1 \in BOOLEAN, NEW rules \in BOOLEAN,
             VerifyAndWitness(n, p1, rules)
      PROVE  IndexInv'
  BY <1>1, <1>2, <1>3 DEF VerifyAndWitness, nonces
<1>4. ASSUME NEW n \in Nonce, NEW rules \in BOOLEAN, NEW intact \in BOOLEAN,
             VerifyP3(n, rules, intact)
      PROVE  IndexInv'
  BY <1>1, <1>4 DEF VerifyP3, nonces
<1>5. ASSUME NEW intact \in BOOLEAN, VerifyP3WithCap(intact) PROVE IndexInv'
  BY <1>1, <1>5 DEF VerifyP3WithCap, nonces
<1>6. ASSUME NEW n \in Nonce, NEW holds \in BOOLEAN, VerifyP2(n, holds) PROVE IndexInv'
  BY <1>2, <1>6, SameNonceState
<1>7. CASE UNCHANGED engineVars
  BY <1>1, <1>7 DEF engineVars
<1>8. QED
  BY <1>3, <1>4, <1>5, <1>6, <1>7, RulesDecide DEF EngineNext

-----------------------------------------------------------------------------
(* Fairness to clients. *)

\* A nonempty set of naturals has a least element.
LEMMA LeastNatural ==
  ASSUME NEW T \in SUBSET Nat, T # {}
  PROVE  \E m \in T : \A x \in T : m <= x
<1> DEFINE R == OpToRel(<, Nat)
<1>1. IsWellFoundedOn(R, Nat)
  BY NatLessThanWellFounded
<1>2. \A x, y \in Nat : x < y => <<x, y>> \in R
  BY DEF OpToRel
<1> HIDE DEF R
<1>3. PICK m \in T : \A y \in T : ~ (<<y, m>> \in R)
  BY <1>1, WFMin
<1>4. \A x \in T : m <= x
  <2> SUFFICES ASSUME NEW x \in T PROVE m <= x
    OBVIOUS
  <2>1. x \in Nat /\ m \in Nat /\ ~(x < m)
    BY <1>2, <1>3
  <2>2. QED
    BY <2>1
<1>5. QED
  BY <1>4

\* The nonces let through so far.
Accepted == {accepted[i] : i \in DOMAIN accepted}

\* Ring, index and watermark hold accepted nonces only, and every acceptance is
\* witnessed.
FairInv ==
  /\ EngineTypeOK
  /\ RefusedNonceNotBurnt
  /\ nonce_watermark \in {0} \cup Accepted
  /\ AcceptanceWitnessed

\* The watermark moves to a nonce of the ring or stays.
LEMMA WatermarkFromRing ==
  ASSUME NEW ring \in [Pos -> Nonce]
  PROVE  WatermarkAfter(ring) \in {nonce_watermark} \cup {ring[k] : k \in Pos}
<1> DEFINE seen == {ring[k] : k \in Pos} \ {0, U64MAX}
<1>1. CASE seen = {}
  BY <1>1 DEF WatermarkAfter
<1>2. CASE seen # {}
  <2>1. seen \in SUBSET Nat
    BY DEF Nonce
  <2> HIDE DEF seen
  <2>2. \E m \in seen : \A x \in seen : m <= x
    BY <1>2, <2>1, LeastNatural
  <2>3. (CHOOSE m \in seen : \A x \in seen : m <= x) \in seen
    BY <2>2
  <2>4. WatermarkAfter(ring) \in {nonce_watermark} \cup seen
    BY <2>3 DEF WatermarkAfter, seen
  <2>5. QED
    BY <2>4 DEF seen
<1>3. QED
  BY <1>1, <1>2

\* Nothing is accepted initially.
LEMMA InitFair == EngineInit => FairInv
<1> SUFFICES ASSUME EngineInit PROVE FairInv
  OBVIOUS
<1>1. EngineTypeOK
  BY DEF EngineInit, EngineTypeOK, Nonce, Pos
<1>2. RefusedNonceNotBurnt
  BY DEF EngineInit, RefusedNonceNotBurnt, Pos
<1>3. AcceptanceWitnessed
  BY DEF EngineInit, AcceptanceWitnessed, RecordKind
<1>4. QED
  BY <1>1, <1>2, <1>3 DEF FairInv, EngineInit

\* Accepting a nonce, recorded unless it is 0, keeps the nonce state made of accepted
\* nonces.
LEMMA AcceptFair ==
  ASSUME FairInv, NEW n \in Nonce, accepted' = Append(accepted, n),
         IF n # 0 THEN RecordNonce(n)
         ELSE UNCHANGED <<nonce_ring, nonce_hash, nonce_write_pos, nonce_watermark>>
  PROVE  /\ Accepted' = Accepted \cup {n} /\ Len(accepted') = Len(accepted) + 1
         /\ accepted' \in Seq(Nonce)
         /\ nonce_ring' \in [Pos -> Nonce] /\ nonce_hash' \in [Pos -> Nonce]
         /\ nonce_write_pos' \in Pos /\ nonce_watermark' \in Nonce
         /\ RefusedNonceNotBurnt' /\ nonce_watermark' \in {0} \cup Accepted'
<1>1. /\ accepted \in Seq(Nonce) /\ nonce_ring \in [Pos -> Nonce]
      /\ nonce_hash \in [Pos -> Nonce] /\ nonce_write_pos \in Pos
      /\ nonce_watermark \in Nonce /\ nonce_watermark \in {0} \cup Accepted
      /\ \A k \in Pos : nonce_ring[k] \in {0} \cup Accepted /\ nonce_hash[k] \in {0} \cup Accepted
  BY DEF FairInv, EngineTypeOK, RefusedNonceNotBurnt, Accepted
<1>2. /\ accepted' \in Seq(Nonce) /\ Len(accepted') = Len(accepted) + 1
      /\ DOMAIN accepted = 1 .. Len(accepted) /\ DOMAIN accepted' = 1 .. Len(accepted) + 1
      /\ \A i \in 1 .. Len(accepted) : accepted'[i] = accepted[i]
      /\ accepted'[Len(accepted) + 1] = n
      /\ Len(accepted) \in Nat
  BY <1>1
<1>3. Accepted' = Accepted \cup {n}
  <2>1. ASSUME NEW x \in Accepted' PROVE x \in Accepted \cup {n}
    BY <1>2, <2>1 DEF Accepted
  <2>2. ASSUME NEW x \in Accepted PROVE x \in Accepted'
    BY <1>2, <2>2 DEF Accepted
  <2>3. n \in Accepted'
    BY <1>2 DEF Accepted
  <2>4. QED
    BY <2>1, <2>2, <2>3
<1>4. CASE n = 0
  <2>1. UNCHANGED <<nonce_ring, nonce_hash, nonce_write_pos, nonce_watermark>>
    BY <1>4
  <2>2. RefusedNonceNotBurnt'
    BY <1>1, <1>3, <2>1 DEF RefusedNonceNotBurnt, Accepted
  <2>3. QED
    BY <1>1, <1>2, <1>3, <2>1, <2>2
<1>5. CASE n # 0
  <2> DEFINE ring == [nonce_ring EXCEPT ![nonce_write_pos] = n]
  <2>1. /\ nonce_ring' = ring
        /\ nonce_hash' = [nonce_hash EXCEPT ![HashSlot(n)] = n]
        /\ nonce_write_pos' = (nonce_write_pos + 1) % SIZE
        /\ nonce_watermark' \in {nonce_watermark, WatermarkAfter(ring)}
    BY <1>5 DEF RecordNonce
  <2>2. ring \in [Pos -> Nonce] /\ nonce_hash' \in [Pos -> Nonce]
        /\ \A k \in Pos : ring[k] \in {0} \cup Accepted' /\ nonce_hash'[k] \in {0} \cup Accepted'
    BY <1>1, <1>3, <2>1
  <2>3. nonce_write_pos' \in Pos
    BY <1>1, <2>1 DEF Pos
  <2>4. nonce_watermark' \in {nonce_watermark} \cup {ring[k] : k \in Pos}
    <3> HIDE DEF ring
    <3>1. WatermarkAfter(ring) \in {nonce_watermark} \cup {ring[k] : k \in Pos}
      BY <2>2, WatermarkFromRing
    <3>2. QED
      BY <2>1, <3>1
  <2>5. nonce_watermark' \in Nonce /\ nonce_watermark' \in {0} \cup Accepted'
    <3> HIDE DEF ring
    <3>1. QED
      BY <1>1, <1>3, <2>2, <2>4
  <2>6. RefusedNonceNotBurnt'
    BY <2>1, <2>2 DEF RefusedNonceNotBurnt, Accepted
  <2>7. QED
    BY <1>2, <1>3, <2>1, <2>2, <2>3, <2>5, <2>6
<1>6. QED
  BY <1>4, <1>5

\* A witness record more, of one kind.
LEMMA Witnessed ==
  ASSUME FairInv, NEW kind \in RecordKind, EmitWitness(kind)
  PROVE  /\ proofLog' \in [RecordKind -> Nat]
         /\ proofLog'["Verified"] = IF kind = "Verified" THEN proofLog["Verified"] + 1
                                    ELSE proofLog["Verified"]
BY DEF FairInv, EngineTypeOK, EmitWitness, RecordKind

\* A request that accepts nothing and witnesses no success keeps the invariant.
LEMMA RefusedFair ==
  ASSUME FairInv, NEW kind \in RecordKind, kind # "Verified", EmitWitness(kind), UNCHANGED nonces,
         UNCHANGED evaluator
  PROVE  FairInv'
BY Witnessed DEF FairInv, EngineTypeOK, RefusedNonceNotBurnt, Accepted, AcceptanceWitnessed, nonces

\* Every step of the engine keeps it.
LEMMA NextFair == FairInv /\ [EngineNext]_engineVars => FairInv'
<1> SUFFICES ASSUME FairInv, [EngineNext]_engineVars PROVE FairInv'
  OBVIOUS
<1>1. ASSUME NEW n \in Nonce, NEW p1 \in BOOLEAN, NEW rules \in BOOLEAN,
             VerifyAndWitness(n, p1, rules)
      PROVE  FairInv'
  <2>1. CASE p1 /\ rules /\ ~IsNonceReplayed(n)
    <3>1. accepted' = Append(accepted, n)
      BY <1>1, <2>1 DEF VerifyAndWitness, EvaluateAllRules
    <3>2. IF n # 0 THEN RecordNonce(n)
          ELSE UNCHANGED <<nonce_ring, nonce_hash, nonce_write_pos, nonce_watermark>>
      BY <1>1, <2>1 DEF VerifyAndWitness, EvaluateAllRules
    <3>3. EmitWitness("Verified") /\ "Verified" \in RecordKind
      BY <1>1, <2>1 DEF VerifyAndWitness, RecordKind
    <3>4. proofLog' \in [RecordKind -> Nat] /\ proofLog'["Verified"] = proofLog["Verified"] + 1
      BY <3>3, Witnessed
    <3>5. evaluator = "PolicyEvaluator" /\ UNCHANGED evaluator
      BY <1>1 DEF VerifyAndWitness
    <3>6. AcceptanceWitnessed'
      BY <3>1, <3>2, <3>4, <3>5, AcceptFair DEF FairInv, AcceptanceWitnessed
    <3>7. QED
      BY <3>1, <3>2, <3>4, <3>5, <3>6, AcceptFair DEF FairInv, EngineTypeOK
  <2>2. CASE ~(p1 /\ rules /\ ~IsNonceReplayed(n))
    <3>1. /\ UNCHANGED nonces /\ EmitWitness("ProofRejected") /\ "ProofRejected" \in RecordKind
          /\ UNCHANGED evaluator
      BY <1>1, <2>2 DEF VerifyAndWitness, EvaluateAllRules, RecordKind
    <3>2. QED
      BY <3>1, RefusedFair
  <2>3. QED
    BY <2>1, <2>2
<1>2. ASSUME NEW n \in Nonce, NEW rules \in BOOLEAN, NEW intact \in BOOLEAN,
             VerifyP3(n, rules, intact)
      PROVE  FairInv'
  BY <1>2, RefusedFair DEF VerifyP3, P3Verified, RecordKind
<1>3. ASSUME NEW intact \in BOOLEAN, VerifyP3WithCap(intact) PROVE FairInv'
  BY <1>3, RefusedFair DEF VerifyP3WithCap, P3Verified, RecordKind
<1>4. ASSUME NEW n \in Nonce, NEW holds \in BOOLEAN, VerifyP2(n, holds) PROVE FairInv'
  <2>1. evaluator = "ProofVerifier" /\ UNCHANGED <<evaluator, proofLog>>
    BY <1>4 DEF VerifyP2
  <2>2. AcceptanceWitnessed'
    BY <2>1 DEF FairInv, AcceptanceWitnessed
  <2>3. CASE holds /\ ~IsNonceReplayed(n)
    <3>1. accepted' = Append(accepted, n)
      BY <1>4, <2>3, SameNonceState DEF FairInv, EvaluateAllRules
    <3>2. IF n # 0 THEN RecordNonce(n)
          ELSE UNCHANGED <<nonce_ring, nonce_hash, nonce_write_pos, nonce_watermark>>
      BY <1>4, <2>3, SameNonceState DEF FairInv, EvaluateAllRules
    <3>3. QED
      BY <2>1, <2>2, <3>1, <3>2, AcceptFair DEF FairInv, EngineTypeOK
  <2>4. CASE ~(holds /\ ~IsNonceReplayed(n))
    <3>1. UNCHANGED nonces
      BY <1>4, <2>4, SameNonceState DEF FairInv, EvaluateAllRules
    <3>2. QED
      BY <2>1, <2>2, <3>1 DEF FairInv, EngineTypeOK, RefusedNonceNotBurnt, Accepted, nonces
  <2>5. QED
    BY <2>3, <2>4
<1>5. CASE UNCHANGED engineVars
  BY <1>5 DEF engineVars, FairInv, EngineTypeOK, RefusedNonceNotBurnt, Accepted, AcceptanceWitnessed
<1>6. QED
  BY <1>1, <1>2, <1>3, <1>4, <1>5, RulesDecide DEF EngineNext

\* What the invariant says of a nonce above all accepted ones: neither the watermark
\* nor the hash index refuses it.
LEMMA FairAccepts == FairInv => GrowingNonceAccepted
<1> SUFFICES ASSUME FairInv, NEW n \in Nonce \ {0}, \A i \in DOMAIN accepted : accepted[i] < n
             PROVE  ~IsNonceReplayed(n)
  BY DEF GrowingNonceAccepted
<1>1. accepted \in Seq(Nonce) /\ n \in Nat
  BY DEF FairInv, EngineTypeOK, Nonce
<1>2. \A x \in {0} \cup Accepted : x < n
  BY <1>1 DEF Accepted, Nonce
<1>3. nonce_hash[HashSlot(n)] < n
  BY <1>2, HashSlotType DEF FairInv, RefusedNonceNotBurnt, Accepted
<1>4. nonce_watermark < n /\ nonce_watermark \in Nat
  BY <1>2 DEF FairInv, EngineTypeOK, Nonce
<1>5. QED
  BY <1>1, <1>3, <1>4 DEF IsNonceReplayed

\* The inductive invariant of the nonce state, and with it type correctness: the write
\* position never leaves the ring (record_nonce).
THEOREM FairInvariant == EngineSpec => []FairInv
BY InitFair, NextFair, PTL DEF EngineSpec

\* A nonce is accepted a second time only after another nonce with the same residue
\* modulo the ring size (is_nonce_replayed and record_nonce, policy.rs).
THEOREM ReplayNeedsCollisionHolds == EngineSpec => []ReplayNeedsCollision
<1>1. IndexInv => ReplayNeedsCollision
  BY DEF IndexInv
<1>2. FairInv => EngineTypeOK
  BY DEF FairInv
<1>3. QED
  BY <1>1, <1>2, InitIndex, NextIndex, FairInvariant, PTL DEF EngineSpec

\* For every ring size and every sequence of requests: a refusal burns no nonce, a client
\* whose nonces only grow is never refused as a replay, and the log has one record of
\* success for each request let through (evaluate_all_rules, record_nonce, engine.rs).
THEOREM NoncesFairHolds == EngineSpec => []NoncesFair
<1>1. FairInv => NoncesFair
  BY FairAccepts DEF FairInv, NoncesFair
<1>2. QED
  BY <1>1, FairInvariant, PTL

-----------------------------------------------------------------------------
(* Signers. *)

\* Every signer of the log leaves a tag of its own key and of the record it signed.
LEMMA AuxTells ==
  ASSUME NEW v \in Logged, NEW r
  PROVE  aux(v, r).of = r /\ aux(v, r).key = v.key
<1> USE DEF aux, Tag, SignedBytes
<1>1. CASE v.kind = "strict"
  <2>1. v = Signer("strict", <<>>, <<>>)
    BY <1>1 DEF Logged, Full, Signer
  <2> QED BY <1>1, <2>1 DEF StrictSignature, Signer
<1>2. CASE v.kind = "witness"
  BY <1>2 DEF WitnessSignature
<1>3. CASE v.kind \in {"hmac", "dual", "ed25519"}
  BY <1>3 DEF AdapterSign, sign, HmacSign, Ed25519Sign, DualSign, compute_mac
<1>4. v.kind \in {"strict", "witness", "hmac", "dual", "ed25519"}
  BY DEF Logged, Full, Signer
<1> QED BY <1>1, <1>2, <1>3, <1>4

LEMMA FullKinds ==
  ASSUME NEW v \in Full
  PROVE  /\ v.kind \in {"hmac", "dual", "ed25519"} /\ v = Signer(v.kind, v.key, v.public)
         /\ v.kind # "ed25519" => v.public = v.key
BY DEF Full, Signer

\* The first half of a whole signature says the same.
LEMMA SignTells ==
  ASSUME NEW v \in Full, NEW r
  PROVE  sign(v, r)[1].of = r /\ sign(v, r)[1].key = v.key
BY FullKinds DEF sign, HmacSign, Ed25519Sign, DualSign, compute_mac, Tag, SignedBytes

\* What a verifier accepts was made with the key whose public part it holds.
LEMMA VerifyTells ==
  ASSUME NEW v \in Full, NEW r, NEW sig, verify(v, r, sig)
  PROVE  sig[1].of = r /\ sig[1].key = v.public
<1>1. CASE v.kind = "ed25519"
  <2>1. sig = Ed25519Sign([v EXCEPT !.key = v.public], r)
    BY <1>1 DEF verify, Ed25519Verify
  <2>2. [v EXCEPT !.key = v.public].key = v.public
    BY FullKinds DEF Signer
  <2> QED BY <2>1, <2>2 DEF Ed25519Sign, Tag, SignedBytes
<1>2. CASE v.kind # "ed25519"
  BY <1>2, SignTells, FullKinds DEF verify
<1> QED BY <1>1, <1>2

\* Verifiers of one signer_id are one verifier.
LEMMA SameVerifier ==
  ASSUME NEW v \in Full, NEW w \in Full, signer_id(v) = signer_id(w), NEW r, NEW sig
  PROVE  verify(v, r, sig) = verify(w, r, sig)
<1>1. v.kind = w.kind /\ v.public = w.public
  BY FullKinds DEF signer_id
<1>2. CASE v.kind = "ed25519"
  <2>1. [v EXCEPT !.key = v.public] = [w EXCEPT !.key = w.public]
    BY <1>1, FullKinds DEF Signer
  <2> QED BY <1>1, <1>2, <2>1 DEF verify, Ed25519Verify
<1>3. CASE v.kind # "ed25519"
  <2>1. v = w
    BY <1>1, <1>3, FullKinds
  <2> QED BY <2>1
<1> QED BY <1>2, <1>3

\* A signer accepts what it signed, if its public key is that of its secret one.
LEMMA OwnSignature ==
  ASSUME NEW w \in Full, w.public = w.key, NEW r
  PROVE  verify(w, r, sign(w, r))
<1>1. CASE w.kind = "ed25519"
  <2>1. [w EXCEPT !.key = w.public] = w
    BY FullKinds DEF Signer
  <2> QED BY <1>1, <2>1 DEF verify, Ed25519Verify, sign
<1>2. CASE w.kind # "ed25519"
  BY <1>2 DEF verify
<1> QED BY <1>1, <1>2

SignersTyped ==
  /\ \A e \in signed : e.by \in Logged
  /\ preimage \in Seq(Byte)

\* A proof of bytes says the bytes, if they fit.
LEMMA HashProofExact ==
  ASSUME preimage \in Seq(Byte)
  PROVE  verify_proof(hash_proof(preimage, preimage), preimage) <=> Len(preimage) \in 1 .. MAX_DATA
<1> DEFINE n == IF Len(preimage) < MAX_DATA THEN Len(preimage) ELSE MAX_DATA
           data == SubSeq(preimage, 1, n)
<1>1. Len(preimage) \in Nat /\ n \in Nat /\ n <= Len(preimage)
  BY SignerNumbers
<1>2. data \in Seq(Byte) /\ Len(data) = n /\ \A i \in 1 .. n : data[i] = preimage[i]
  BY <1>1
<1>3. verify_proof(hash_proof(preimage, preimage), preimage) <=> data # <<>> /\ data = preimage
  BY DEF verify_proof, hash_proof
<1>4. data # <<>> <=> n # 0
  BY <1>2
<1>5. data = preimage <=> n = Len(preimage)
  BY <1>1, <1>2
<1> QED BY <1>1, <1>3, <1>4, <1>5, SignerNumbers

LEMMA EvidenceOfSigners == SignersTyped => EvidenceHolds
<1> SUFFICES ASSUME SignersTyped PROVE EvidenceHolds
  OBVIOUS
<1>1. ASSUME NEW e \in signed, NEW v \in Logged, aux(v, e.record) = aux(e.by, e.was)
      PROVE  e.record = e.was /\ v.key = e.by.key
  BY <1>1, AuxTells DEF SignersTyped
<1>2. ASSUME NEW e \in signed, e.by \in Full, NEW v \in Full, verify(v, e.record, sign(e.by, e.was))
      PROVE  e.record = e.was /\ v.public = e.by.key
  BY <1>2, SignTells, VerifyTells
<1>3. ASSUME NEW e \in signed, e.by \in Full, NEW v \in Full, signer_id(v) = signer_id(e.by)
      PROVE  verify(v, e.was, sign(e.by, e.was)) = verify(e.by, e.was, sign(e.by, e.was))
  BY <1>3, SameVerifier
<1>4. verify_proof(hash_proof(preimage, preimage), preimage) <=> Len(preimage) \in 1 .. MAX_DATA
  BY HashProofExact DEF SignersTyped
<1> QED BY <1>1, <1>2, <1>3, <1>4, OwnSignature DEF EvidenceHolds

LEMMA SignersStep == SignersTyped /\ SignersNext => SignersTyped'
<1> SUFFICES ASSUME SignersTyped, SignersNext PROVE SignersTyped'
  OBVIOUS
<1>1. ASSUME NEW r \in Records, NEW w \in Logged, Signs(w, r) PROVE SignersTyped'
  BY <1>1 DEF SignersTyped, Signs
<1>2. ASSUME NEW r \in Records, Changes(r) PROVE SignersTyped'
  <2>1. PICK e \in signed : signed' = {[e EXCEPT !.record = r]} /\ preimage' = preimage
    BY <1>2 DEF Changes
  <2>2. [e EXCEPT !.record = r].by = e.by
    OBVIOUS
  <2> QED BY <2>1, <2>2 DEF SignersTyped
<1>3. ASSUME NEW b \in Byte, Extends(b) PROVE SignersTyped'
  BY <1>3 DEF SignersTyped, Extends
<1> QED BY <1>1, <1>2, <1>3 DEF SignersNext
-----------------------------------------------------------------------------
(* Gate, enclave and boot chain. *)

\* A signature is a MAC under the witness key exactly if the enclave vouched for it.
SignedWhenAttested ==
  \A s \in issued :
    /\ s.attested \in BOOLEAN
    /\ s.sig = IF s.attested THEN hmac_sign(Keys.witness_key, s.digest) ELSE ZeroSig

GateRecord == [kind : {"action", "ProofRejected"}, tier : 0 .. 3, signed : BOOLEAN]
GateAnswer == {"CapabilityTypeMismatch", "InsufficientRights", "PolicyViolation",
               "DerivationChainBroken", "Allow"}
RecordFor(r) == IF Answer(r) = "Allow" THEN emit_allowed(r) ELSE emit_rejection(r)

\* One record per call, of the call.
Recorded ==
  /\ gate_log \in Seq(GateRecord)
  /\ decisions \in Seq([request : GateRequests, answer : GateAnswer, sequence : Nat])
  /\ Len(gate_log) = Len(decisions)
  /\ \A i \in 1 .. Len(decisions) :
       /\ decisions[i].answer = Answer(decisions[i].request)
       /\ decisions[i].sequence = i - 1
       /\ gate_log[i] = RecordFor(decisions[i].request)

\* The root is the last of the roots that the entries pass, one after the other.
RootsOf(entries, b) ==
  b = [i \in 0 .. Len(entries) |->
         IF i = 0 THEN <<"zero">> ELSE extend_chain_hash(b[i - 1], entries[i].hash)]
Chained ==
  /\ chain = [entries |-> chain.entries, root |-> chain.root]
  /\ chain.entries \in Seq([sequence : Nat, hash : GateDigest, source_tag : {0, 1}])
  /\ \E b : RootsOf(chain.entries, b) /\ chain.root = b[Len(chain.entries)]

GateInv == SignedWhenAttested /\ Recorded /\ Chained /\ SignersTyped

LEMMA EntryTyped ==
  ASSUME NEW T, NEW s \in Seq(T), NEW i \in 1 .. Len(s)
  PROVE  s[i] \in T
OBVIOUS

LEMMA AttestedAlone == SignedWhenAttested => UnattestedNeverVerifies
<1> SUFFICES ASSUME SignedWhenAttested, NEW s \in issued
             PROVE  tee_verify(s.digest, s.sig) <=> s.attested /\ self_attest(s.digest)
  BY DEF UnattestedNeverVerifies
<1>1. ZeroSig # hmac_sign(Keys.witness_key, s.digest)
  <2>1. Len(ZeroSig) = 1 /\ Len(hmac_sign(Keys.witness_key, s.digest)) = 3
    BY DEF ZeroSig, hmac_sign, hmac
  <2> QED BY <2>1
<1>2. s.attested \in BOOLEAN
      /\ s.sig = IF s.attested THEN hmac_sign(Keys.witness_key, s.digest) ELSE ZeroSig
  BY DEF SignedWhenAttested
<1> QED BY <1>1, <1>2 DEF tee_verify, hmac_verify

\* A link with a wrong signature is not skipped and does not verify.
LEMMA WrongSignature ==
  ASSUME NEW c \in P3WitnessChain, verify_chain_signatures(c), NEW j \in 1 .. Len(c)
  PROVE  c[j].sig # "other"
<1> SUFFICES ASSUME c[j].sig = "other" PROVE FALSE
  OBVIOUS
<1>1. SignatureOf(c, j) = <<"other", j>>
  BY DEF SignatureOf
<1>2. Len(SignatureOf(c, j)) = 2 /\ Len(ZeroSig) = 1
      /\ Len(hmac_sign(Keys.witness_key, LinkRecord(c, j))) = 3
  BY <1>1 DEF ZeroSig, hmac_sign, hmac
<1>3. SignatureOf(c, j) = ZeroSig \/ SignatureOf(c, j) = hmac_sign(Keys.witness_key, LinkRecord(c, j))
  BY DEF verify_chain_signatures, hmac_verify
<1>4. 2 # 1 /\ 2 # 3
  OBVIOUS
<1> QED BY <1>2, <1>3, <1>4, Zenon

LEMMA ChainsAreSequences ==
  ASSUME NEW r \in GateRequests
  PROVE  r.p3 \in P3WitnessChain /\ r.p3 \in Seq(Link) /\ DOMAIN r.p3 = 1 .. Len(r.p3)
<1>1. r.p3 \in P3WitnessChain
  BY RequestsTyped DEF GateRequest
<1>2. PICK n \in 0 .. MAX_LINKS : r.p3 \in [1 .. n -> Link]
  BY <1>1 DEF P3WitnessChain
<1> QED BY <1>1, <1>2, GateBounds

LEMMA AnswerIs ==
  ASSUME NEW r \in GateRequests
  PROVE  /\ Answer(r) \in GateAnswer
         /\ Answer(r) = "Allow" <=> /\ r.type_ok /\ r.rights_ok /\ r.commitment # "zero"
                                    /\ r.require_p3 => ChainOk(r)
         /\ Answer(r) = "Allow" => evaluate(r, TRUE)
<1>1. /\ r \in GateRequest /\ r.type_ok \in BOOLEAN /\ r.rights_ok \in BOOLEAN
      /\ r.require_p3 \in BOOLEAN
  BY RequestsTyped DEF GateRequest
<1>2. ChainOk(r) \in BOOLEAN
  BY <1>1 DEF ChainOk, GateRequest, verify_p3_chain, verify_chain_signatures
<1>3. Answer(r) \in GateAnswer
  BY <1>1, <1>2 DEF Answer, GateAnswer
<1>4. Answer(r) = "Allow" <=> /\ r.type_ok /\ r.rights_ok /\ r.commitment # "zero"
                              /\ r.require_p3 => ChainOk(r)
  BY <1>1, <1>2 DEF Answer
<1>5. ASSUME Answer(r) = "Allow" PROVE evaluate(r, TRUE)
  <2> DEFINE q == [r EXCEPT !.require_p3 = FALSE]
  <2>1. /\ q.type_ok = r.type_ok /\ q.rights_ok = r.rights_ok /\ q.commitment = r.commitment
        /\ q.require_p3 = FALSE
    BY <1>1 DEF GateRequest
  <2> QED BY <1>1, <1>4, <1>5, <2>1 DEF evaluate, Answer
<1> QED BY <1>3, <1>4, <1>5

\* What a record claims was earned.
LEMMA RecordsEarned == Recorded => TiersEarned
<1> SUFFICES ASSUME Recorded, NEW i \in DOMAIN decisions
             PROVE  LET d == decisions[i]
                        w == gate_log[d.sequence + 1] IN
                    /\ d.sequence = i - 1
                    /\ (w.kind = "ProofRejected") <=> (d.answer # "Allow")
                    /\ d.answer = "Allow" => evaluate(d.request, TRUE)
                    /\ w.tier = 3 =>
                         /\ d.request.supplied /\ d.request.p3 # <<>>
                         /\ \A j \in 1 .. Len(d.request.p3) - 1 :
                              d.request.p3[j].hash = d.request.p3[j + 1].prev
                         /\ d.request.signed_gate =>
                              \A j \in DOMAIN d.request.p3 : d.request.p3[j].sig # "other"
  BY DEF TiersEarned, Recorded
<1> DEFINE d == decisions[i]
           r == d.request
           w == gate_log[d.sequence + 1]
<1>1. /\ i \in 1 .. Len(decisions) /\ d.sequence = i - 1 /\ d.sequence + 1 = i
      /\ r \in GateRequests /\ d.answer = Answer(r) /\ w = RecordFor(r)
  <2>1. i \in 1 .. Len(decisions) /\ i \in Nat
    BY DEF Recorded
  <2>2. d.sequence = i - 1 /\ d.answer = Answer(r) /\ gate_log[i] = RecordFor(r)
    BY <2>1 DEF Recorded
  <2>3. d.sequence + 1 = i
    BY <2>1, <2>2
  <2>4. decisions[i] \in [request : GateRequests, answer : GateAnswer, sequence : Nat]
    BY <2>1, EntryTyped DEF Recorded
  <2> QED BY <2>1, <2>2, <2>3, <2>4
<1> HIDE DEF d, r, w
<1>2. w.kind = "ProofRejected" <=> d.answer # "Allow"
  BY <1>1 DEF RecordFor, emit_allowed, emit_rejection
<1>3. d.answer = "Allow" => evaluate(r, TRUE)
  BY <1>1, AnswerIs
<1>4. ASSUME w.tier = 3
      PROVE  /\ r.supplied /\ r.p3 # <<>>
             /\ \A j \in 1 .. Len(r.p3) - 1 : r.p3[j].hash = r.p3[j + 1].prev
             /\ r.signed_gate => \A j \in DOMAIN r.p3 : r.p3[j].sig # "other"
  <2>1. Answer(r) = "Allow" /\ r.require_p3
    BY <1>1, <1>4 DEF RecordFor, emit_allowed, emit_rejection, Tier
  <2>2. ChainOk(r)
    BY <1>1, <2>1, AnswerIs
  <2>3. r.supplied /\ r.p3 # <<>> /\ \A j \in 1 .. Len(r.p3) - 1 : r.p3[j].hash = r.p3[j + 1].prev
    BY <2>2 DEF ChainOk, verify_p3_chain
  <2>4. r.signed_gate => \A j \in DOMAIN r.p3 : r.p3[j].sig # "other"
    BY <1>1, <2>2, ChainsAreSequences, WrongSignature DEF ChainOk
  <2> QED BY <2>3, <2>4
<1> QED BY <1>1, <1>2, <1>3, <1>4 DEF d, r, w

\* The roots recomputed from the entries are the roots the chain passed.
LEMMA RootIsLast ==
  ASSUME NEW T, NEW entries \in Seq(T), NEW b, RootsOf(entries, b)
  PROVE  RootOf(entries) = b[Len(entries)]
<1> DEFINE n == Len(entries)
           root == CHOOSE f : RootsOf(entries, f)
<1>1. n \in Nat
  OBVIOUS
<1>2. RootOf(entries) = root[n]
  BY DEF RootOf, RootsOf
<1>3. RootsOf(entries, root)
  OBVIOUS
<1> HIDE DEF root
<1>4. \A i \in 0 .. n : /\ root[i] = IF i = 0 THEN <<"zero">> ELSE extend_chain_hash(root[i - 1], entries[i].hash)
                        /\ b[i] = IF i = 0 THEN <<"zero">> ELSE extend_chain_hash(b[i - 1], entries[i].hash)
  BY <1>3 DEF RootsOf
<1> DEFINE Differ == {i \in 0 .. n : root[i] # b[i]}
<1>5. ASSUME Differ # {} PROVE FALSE
  <2>1. PICK m \in Differ : \A x \in Differ : m <= x
    <3>1. Differ \in SUBSET Nat
      BY <1>1
    <3> HIDE DEF Differ
    <3> QED BY <1>5, <3>1, LeastNatural
  <2>2. m # 0 /\ m \in 1 .. n /\ m - 1 \in 0 .. n
    BY <1>1, <1>4, <2>1
  <2>3. root[m - 1] = b[m - 1]
    BY <1>1, <2>1, <2>2
  <2> QED BY <1>4, <2>1, <2>2, <2>3
<1>6. n \in 0 .. n
  BY <1>1
<1> QED BY <1>2, <1>5, <1>6

\* Every entry is of the boot or of the run.
LEMMA EntriesCounted ==
  ASSUME NEW e \in Seq([sequence : Nat, hash : GateDigest, source_tag : {0, 1}])
  PROVE  Cardinality({i \in DOMAIN e : e[i].source_tag = 0})
           + Cardinality({i \in DOMAIN e : e[i].source_tag = 1}) = Len(e)
<1> DEFINE D(t) == {i \in DOMAIN e : e[i].source_tag = t}
<1>1. DOMAIN e = 1 .. Len(e) /\ Len(e) \in Nat
  OBVIOUS
<1>2. IsFiniteSet(1 .. Len(e)) /\ Cardinality(1 .. Len(e)) = Len(e)
  <2>1. 1 \in Int /\ Len(e) \in Int
    BY <1>1
  <2>2. IsFiniteSet(1 .. Len(e)) /\ Cardinality(1 .. Len(e)) = IF 1 > Len(e) THEN 0 ELSE Len(e) - 1 + 1
    BY <2>1, FS_Interval
  <2> QED BY <1>1, <2>2
<1>3. D(0) \subseteq 1 .. Len(e) /\ D(1) \subseteq 1 .. Len(e)
  BY <1>1
<1>4. IsFiniteSet(D(0)) /\ IsFiniteSet(D(1))
  BY <1>2, <1>3, FS_Subset
<1>5. D(0) \cup D(1) = 1 .. Len(e)
  <2>1. ASSUME NEW i \in 1 .. Len(e) PROVE i \in D(0) \cup D(1)
    <3>1. e[i] \in [sequence : Nat, hash : GateDigest, source_tag : {0, 1}]
      BY EntryTyped
    <3>2. e[i].source_tag = 0 \/ e[i].source_tag = 1
      BY <3>1
    <3> QED BY <1>1, <3>2
  <2> QED BY <1>3, <2>1
<1>6. D(0) \cap D(1) = {}
  OBVIOUS
<1>7. Cardinality(D(0) \cup D(1)) = Cardinality(D(0)) + Cardinality(D(1)) - Cardinality(D(0) \cap D(1))
  <2> HIDE DEF D
  <2> QED BY <1>4, FS_Union
<1>8. Cardinality(D(0) \cap D(1)) = 0 /\ Cardinality(D(0)) \in Nat /\ Cardinality(D(1)) \in Nat
  <2> HIDE DEF D
  <2>1. Cardinality({}) = 0
    BY FS_EmptySet
  <2>2. Cardinality(D(0)) \in Nat
    BY <1>4, FS_CardinalityType
  <2>3. Cardinality(D(1)) \in Nat
    BY <1>4, FS_CardinalityType
  <2> QED BY <1>6, <2>1, <2>2, <2>3
<1>9. Cardinality(D(0)) + Cardinality(D(1)) = Len(e)
  <2> HIDE DEF D
  <2>1. Cardinality(D(0) \cup D(1)) = Len(e)
    BY <1>2, <1>5
  <2> QED BY <1>1, <1>7, <1>8, <2>1
<1> QED BY <1>9

LEMMA ReportOfChain == Chained => ReportExact
<1> SUFFICES ASSUME Chained PROVE ReportExact
  OBVIOUS
<1> DEFINE report == generate_attestation_report
<1>1. /\ report.chain_root = chain.root /\ report.entry_count = Len(chain.entries)
      /\ report.boot_measurement_count = Cardinality({i \in DOMAIN chain.entries : chain.entries[i].source_tag = 0})
      /\ report.runtime_witness_count = Cardinality({i \in DOMAIN chain.entries : chain.entries[i].source_tag = 1})
  BY DEF generate_attestation_report
<1> HIDE DEF report
<1>2. report.boot_measurement_count + report.runtime_witness_count = report.entry_count
  BY <1>1, EntriesCounted DEF Chained
<1>3. PICK b : RootsOf(chain.entries, b) /\ chain.root = b[Len(chain.entries)]
  BY DEF Chained
<1>4. chain.root = RootOf(chain.entries)
  BY <1>3, RootIsLast DEF Chained
<1>5. verify_attestation(report, RootOf(chain.entries))
  BY <1>1, <1>4 DEF verify_attestation
<1> QED BY <1>2, <1>5 DEF ReportExact, report

LEMMA GateImplies == GateInv => SignedEvidence
BY AttestedAlone, RecordsEarned, ReportOfChain, EvidenceOfSigners DEF GateInv, SignedEvidence
LEMMA GateStarts == GateInit /\ SignersInit => GateInv
<1> SUFFICES ASSUME GateInit, SignersInit PROVE GateInv
  OBVIOUS
<1>1. SignedWhenAttested
  BY DEF GateInit, SignedWhenAttested
<1>2. Recorded
  <2>1. gate_log = <<>> /\ decisions = <<>>
    BY DEF GateInit
  <2> QED BY <2>1 DEF Recorded
<1>3. Chained
  <2>1. chain = [entries |-> <<>>, root |-> <<"zero">>]
    BY DEF GateInit, AttestationChainNew
  <2>2. chain.entries = <<>> /\ chain.root = <<"zero">> /\ Len(chain.entries) = 0
    BY <2>1
  <2> DEFINE b == [i \in 0 .. 0 |-> <<"zero">>]
  <2>3. b = [i \in 0 .. 0 |-> IF i = 0 THEN <<"zero">> ELSE extend_chain_hash(b[i - 1], chain.entries[i].hash)]
    OBVIOUS
  <2>4. RootsOf(chain.entries, b) /\ chain.root = b[Len(chain.entries)]
    BY <2>2, <2>3 DEF RootsOf
  <2> QED BY <2>1, <2>2, <2>4 DEF Chained
<1>4. SignersTyped
  BY DEF SignersInit, SignersTyped
<1> QED BY <1>1, <1>2, <1>3, <1>4 DEF GateInv

\* A call leaves its record.
LEMMA CallRecorded ==
  ASSUME Recorded, NEW r \in GateRequests, check_and_execute(r)
  PROVE  Recorded'
<1> DEFINE L == Len(decisions)
           d == [request |-> r, answer |-> Answer(r), sequence |-> Len(gate_log)]
<1>1. /\ gate_log' = Append(gate_log, RecordFor(r)) /\ decisions' = Append(decisions, d)
      /\ L \in Nat /\ Len(gate_log) = L
  BY DEF check_and_execute, RecordFor, Recorded
<1>2. RecordFor(r) \in GateRecord
  BY RequestsTyped DEF GateRequest, RecordFor, emit_allowed, emit_rejection, Tier, GateRecord
<1>3. d \in [request : GateRequests, answer : GateAnswer, sequence : Nat]
  BY <1>1, AnswerIs
<1>4. gate_log' \in Seq(GateRecord) /\ Len(gate_log') = L + 1
  BY <1>1, <1>2 DEF Recorded
<1>5. /\ decisions' \in Seq([request : GateRequests, answer : GateAnswer, sequence : Nat])
      /\ Len(decisions') = L + 1
  <2> HIDE DEF d
  <2> QED BY <1>1, <1>3 DEF Recorded
<1>6. ASSUME NEW i \in 1 .. L + 1
      PROVE  /\ decisions'[i].answer = Answer(decisions'[i].request)
             /\ decisions'[i].sequence = i - 1
             /\ gate_log'[i] = RecordFor(decisions'[i].request)
  <2>1. CASE i \in 1 .. L
    <3>1. decisions'[i] = decisions[i] /\ gate_log'[i] = gate_log[i]
      BY <1>1, <2>1 DEF Recorded
    <3> QED BY <2>1, <3>1 DEF Recorded
  <2>2. CASE i = L + 1
    <3>1. decisions'[i] = d /\ gate_log'[i] = RecordFor(r)
      BY <1>1, <2>2 DEF Recorded
    <3> QED BY <1>1, <2>2, <3>1
  <2> QED BY <1>1, <2>1, <2>2
<1> QED BY <1>4, <1>5, <1>6 DEF Recorded

\* An entry extends the root.
LEMMA EntryChained ==
  ASSUME Chained, NEW h \in GateDigest, NEW t \in {0, 1}, add_entry(h, t)
  PROVE  Chained'
<1> DEFINE E == [sequence : Nat, hash : GateDigest, source_tag : {0, 1}]
           old == chain.entries
           L == Len(old)
           e == [sequence |-> L, hash |-> h, source_tag |-> t]
           new == Append(old, e)
<1>1. old \in Seq(E) /\ L \in Nat
  BY DEF Chained
<1>2. e \in E
  BY <1>1
<1>3. chain' = [entries |-> new, root |-> extend_chain_hash(chain.root, h)]
  BY DEF add_entry
<1>4. new \in Seq(E) /\ Len(new) = L + 1 /\ new[L + 1] = e /\ \A i \in 1 .. L : new[i] = old[i]
  <2> HIDE DEF e, E, old
  <2> QED BY <1>1, <1>2
<1>5. PICK b : RootsOf(old, b) /\ chain.root = b[L]
  BY DEF Chained
<1>6. b = [i \in 0 .. L |-> IF i = 0 THEN <<"zero">> ELSE extend_chain_hash(b[i - 1], old[i].hash)]
  BY <1>5 DEF RootsOf
<1> HIDE DEF old, new, e, L
<1> DEFINE c == [i \in 0 .. L + 1 |-> IF i = L + 1 THEN extend_chain_hash(b[L], h) ELSE b[i]]
<1>7. ASSUME NEW i \in 0 .. L + 1
      PROVE  c[i] = IF i = 0 THEN <<"zero">> ELSE extend_chain_hash(c[i - 1], new[i].hash)
  <2>1. CASE i = 0
    <3>1. i \in 0 .. L /\ i # L + 1
      BY <1>1, <2>1
    <3> QED BY <1>6, <2>1, <3>1
  <2>2. CASE i \in 1 .. L
    <3>1. i \in 0 .. L /\ i # 0 /\ i # L + 1 /\ i - 1 \in 0 .. L + 1 /\ i - 1 # L + 1
      BY <1>1, <2>2
    <3>2. c[i] = b[i] /\ c[i - 1] = b[i - 1] /\ b[i] = extend_chain_hash(b[i - 1], old[i].hash)
      BY <1>6, <3>1
    <3> QED BY <1>4, <2>2, <3>1, <3>2
  <2>3. CASE i = L + 1
    <3>1. i # 0 /\ i - 1 = L /\ L \in 0 .. L + 1 /\ L # L + 1
      BY <1>1, <2>3
    <3>2. c[i] = extend_chain_hash(b[L], h) /\ c[L] = b[L]
      BY <2>3, <3>1
    <3>3. new[i].hash = h
      BY <1>4, <2>3 DEF e
    <3> QED BY <3>1, <3>2, <3>3
  <2> QED BY <1>1, <2>1, <2>2, <2>3
<1>8. RootsOf(new, c)
  <2>1. c = [i \in 0 .. L + 1 |-> c[i]]
    OBVIOUS
  <2> HIDE DEF c
  <2>2. c = [i \in 0 .. L + 1 |-> IF i = 0 THEN <<"zero">> ELSE extend_chain_hash(c[i - 1], new[i].hash)]
    BY <1>7, <2>1
  <2> QED BY <1>4, <2>2 DEF RootsOf
<1>9. c[L + 1] = extend_chain_hash(chain.root, h)
  BY <1>1, <1>5
<1> HIDE DEF c
<1>10. chain'.entries = new /\ chain'.root = extend_chain_hash(chain.root, h)
  BY <1>3
<1>11. RootsOf(chain'.entries, c) /\ chain'.root = c[Len(chain'.entries)]
  BY <1>4, <1>8, <1>9, <1>10
<1>12. \E d : RootsOf(chain'.entries, d) /\ chain'.root = d[Len(chain'.entries)]
  BY <1>11
<1>13. chain' = [entries |-> chain'.entries, root |-> chain'.root]
  BY <1>3
<1>14. chain'.entries \in Seq(E)
  BY <1>4, <1>10
<1> QED BY <1>12, <1>13, <1>14 DEF Chained

LEMMA GateStep ==
  ASSUME GateInv, (GateNext \/ EnclaveNext) /\ UNCHANGED signerVars
  PROVE  GateInv'
<1>1. SignersTyped'
  BY DEF GateInv, SignersTyped, signerVars
<1>2. ASSUME NEW r \in GateRequests, check_and_execute(r) PROVE GateInv'
  <2>1. Recorded'
    BY <1>2, CallRecorded DEF GateInv
  <2>2. SignedWhenAttested' /\ Chained'
    BY <1>2 DEF check_and_execute, GateInv, SignedWhenAttested, Chained
  <2> QED BY <1>1, <2>1, <2>2 DEF GateInv
<1>3. ASSUME UNCHANGED <<gate_log, decisions>> PROVE Recorded'
  BY <1>3 DEF GateInv, Recorded
<1>4. ASSUME NEW d \in GateDigest, Sign(d) PROVE GateInv'
  <2>1. Recorded' /\ Chained'
    BY <1>3, <1>4 DEF Sign, GateInv, Chained
  <2>2. self_attest(d) \in BOOLEAN
    BY DEF self_attest, verify_quote
  <2>3. SignedWhenAttested'
    <3> DEFINE n == [digest |-> d, sig |-> tee_sign(d), attested |-> self_attest(d)]
    <3>1. issued' = issued \cup {n}
      BY <1>4 DEF Sign
    <3>2. n.attested \in BOOLEAN
          /\ n.sig = IF n.attested THEN hmac_sign(Keys.witness_key, n.digest) ELSE ZeroSig
      BY <2>2 DEF tee_sign
    <3> HIDE DEF n
    <3>3. \A s \in issued' : s.attested \in BOOLEAN
            /\ s.sig = IF s.attested THEN hmac_sign(Keys.witness_key, s.digest) ELSE ZeroSig
      BY <3>1, <3>2 DEF GateInv, SignedWhenAttested
    <3> QED BY <3>3 DEF SignedWhenAttested
  <2> QED BY <1>1, <2>1, <2>3 DEF GateInv
<1>5. ASSUME NEW e \in EpochRange, set_epoch(e) \/ refresh_collateral(e) PROVE GateInv'
  <2>1. Recorded'
    BY <1>3, <1>5 DEF set_epoch, refresh_collateral
  <2>2. SignedWhenAttested' /\ Chained'
    BY <1>5 DEF set_epoch, refresh_collateral, GateInv, SignedWhenAttested, Chained
  <2> QED BY <1>1, <2>1, <2>2 DEF GateInv
<1>6. ASSUME NEW d \in GateDigest, NEW t \in {0, 1}, add_entry(d, t) PROVE GateInv'
  <2>1. Recorded'
    BY <1>3, <1>6 DEF add_entry
  <2>2. SignedWhenAttested'
    BY <1>6 DEF add_entry, GateInv, SignedWhenAttested
  <2> QED BY <1>1, <1>6, <2>1, <2>2, EntryChained DEF GateInv
<1> QED BY <1>2, <1>4, <1>5, <1>6 DEF GateNext, EnclaveNext

LEMMA GateUnchanged ==
  ASSUME GateInv, UNCHANGED gateVars
  PROVE  SignedWhenAttested' /\ Recorded' /\ Chained'
<1>1. Recorded'
  BY DEF gateVars, GateInv, Recorded
<1>2. SignedWhenAttested' /\ Chained'
  BY DEF gateVars, GateInv, SignedWhenAttested, Chained
<1> QED BY <1>1, <1>2

\* For any keys, requests, chains and measurements: tiers are earned, what an enclave could
\* not vouch for never verifies, a signature speaks for its record and its key only, and the
\* boot chain is reported exactly (gate.rs, attestation.rs, signer.rs, tee).
THEOREM SignedEvidenceHolds == GateSpec => []SignedEvidence
<1>1. GateInv /\ [\/ (GateNext \/ EnclaveNext) /\ UNCHANGED signerVars
                  \/ SignersNext /\ UNCHANGED gateVars]_<<gateVars, signerVars>> => GateInv'
  <2>1. ASSUME GateInv, SignersNext, UNCHANGED gateVars PROVE GateInv'
    BY <2>1, SignersStep, GateUnchanged DEF GateInv
  <2>2. ASSUME GateInv, UNCHANGED <<gateVars, signerVars>> PROVE GateInv'
    <3>1. SignersTyped'
      BY <2>2 DEF GateInv, SignersTyped, signerVars
    <3> QED BY <2>2, <3>1, GateUnchanged DEF GateInv
  <2> QED BY <2>1, <2>2, GateStep
<1> QED BY <1>1, GateStarts, GateImplies, PTL DEF GateSpec
=============================================================================
