---------------------------- MODULE ProofEngine ----------------------------
(***************************************************************************)
(* The proof pipeline of rvm-proof (engine.rs) and its policy evaluator    *)
(* (policy.rs): P1 capability check, P2 policy rules with replay           *)
(* protection by a ring of nonces, and a witness record for every verdict. *)
(* rvm-cap's ProofVerifier (verify.rs) keeps the same nonce state with the *)
(* same code, checks other facts and writes no record; `evaluator` says    *)
(* which of the two a behaviour is about.                                  *)
(*                                                                         *)
(* A request carries a nonce, a context, and facts that other components   *)
(* decide: whether the capability passes P1, whose it is and how deep, and *)
(* whether its derivation chain is intact.                                 *)
(***************************************************************************)
EXTENDS Integers, Sequences, FiniteSets

CONSTANTS
  SIZE,             \* NONCE_RING_SIZE
  U64MAX,           \* largest nonce
  AllowZeroNonce,   \* PolicyEvaluator.allow_zero_nonce
  MaxRequests,      \* bound: requests served
  Contexts,         \* ProofContext, and PolicyContext of rvm-cap: all but the nonce
  Holder,           \* who holds the capability of a request, and its depth
  MAX_LOGICAL, MAX_DEPTH   \* 4096 partitions, 8 delegations

ASSUME SizeAssumption == SIZE \in Nat \ {0} /\ U64MAX \in Nat
ASSUME FlagAssumption == AllowZeroNonce \in BOOLEAN /\ MaxRequests \in Nat
ASSUME ContextAssumption ==
  /\ Contexts \subseteq [partition_id : Nat, region_base : Nat, region_limit : Nat,
                         lease_expiry_ns : Nat, current_time_ns : Nat, max_delegation_depth : Nat]
  /\ Holder \subseteq [owner : Nat, depth : Nat]
  /\ MAX_LOGICAL \in Nat /\ MAX_DEPTH \in Nat

Nonce == 0 .. U64MAX

\* A P3 witness is kept apart by whether the chain it attests is intact.
RecordKind == {"Verified", "ProofRejected", "P3Intact", "P3Broken"}
Pos == 0 .. SIZE - 1

VARIABLES
  evaluator,        \* whose nonce state this is
  nonce_ring,       \* the last SIZE nonces recorded
  nonce_hash,       \* the last nonce recorded for each residue
  nonce_write_pos,
  nonce_watermark,
  proofLog,              \* how many witness records of each kind were appended
  accepted          \* history: nonces of the requests P2 let through, in order

engineVars == <<evaluator, nonce_ring, nonce_hash, nonce_write_pos, nonce_watermark, proofLog, accepted>>

nonces == <<nonce_ring, nonce_hash, nonce_write_pos, nonce_watermark, accepted>>

EngineInit ==
  /\ evaluator \in {"PolicyEvaluator", "ProofVerifier"}
  /\ nonce_ring = [k \in Pos |-> 0]
  /\ nonce_hash = [k \in Pos |-> 0]
  /\ nonce_write_pos = 0
  /\ nonce_watermark = 0
  /\ proofLog = [k \in RecordKind |-> 0]
  /\ accepted = <<>>

-----------------------------------------------------------------------------
(* Contexts and what is asked of them. *)

\* ProofContextBuilder: what a context says of what its caller did not set.  The
\* region of such a context is empty, so RegionBounds refuses it.
ProofContextNew(partition) ==
  [partition_id |-> partition, region_base |-> 0, region_limit |-> 0,
   lease_expiry_ns |-> U64MAX, current_time_ns |-> 0, max_delegation_depth |-> MAX_DEPTH]

InLease(c) == c.current_time_ns <= c.lease_expiry_ns
InBounds(c) == c.region_base < c.region_limit

\* evaluate_rule, but for NonceReplay: structure only, and LeaseExpiry and TimeWindow
\* ask the same.
RulesHold(c) ==
  /\ c.partition_id <= MAX_LOGICAL
  /\ InBounds(c)
  /\ InLease(c)
  /\ c.max_delegation_depth <= MAX_DEPTH

\* verify_p2 of rvm-cap, but for the nonce: holders has what the table knows of the
\* capability, nothing for a handle that is not live.
P2Holds(c, holders) ==
  /\ \E h \in holders : h.owner = c.partition_id /\ h.depth <= c.max_delegation_depth
  /\ InBounds(c)
  /\ InLease(c)

-----------------------------------------------------------------------------
(* The policy evaluator. *)

HashSlot(n) == n % SIZE

BugNoHashLookup(n) ==
  IF n = 0 THEN ~AllowZeroNonce ELSE n <= nonce_watermark

IsNonceReplayed(n) ==
  IF n = 0 THEN ~AllowZeroNonce
  ELSE n <= nonce_watermark \/ nonce_hash[HashSlot(n)] = n

\* The watermark after a wrap: the least nonce of the full ring, if that is later.
WatermarkAfter(ring) ==
  LET seen == {ring[k] : k \in Pos} \ {0, U64MAX}
      min  == CHOOSE m \in seen : \A x \in seen : m <= x
  IN  IF seen # {} /\ min > nonce_watermark THEN min ELSE nonce_watermark

RecordNonce(n) ==
  LET ring == [nonce_ring EXCEPT ![nonce_write_pos] = n]
      next == (nonce_write_pos + 1) % SIZE
  IN  /\ nonce_ring' = ring
      /\ nonce_hash' = [nonce_hash EXCEPT ![HashSlot(n)] = n]
      /\ nonce_write_pos' = next
      /\ nonce_watermark' = IF next = 0 THEN WatermarkAfter(ring) ELSE nonce_watermark

\* evaluate_all_rules: the nonce is recorded only if every rule passed.
BugEvaluateAllRules(n, rules) ==
  IF n # 0 /\ ~IsNonceReplayed(n)
  THEN RecordNonce(n) /\ accepted' = IF rules THEN Append(accepted, n) ELSE accepted
  ELSE UNCHANGED nonces

EvaluateAllRules(n, rules) ==
  IF rules /\ ~IsNonceReplayed(n)
  THEN /\ accepted' = Append(accepted, n)
       /\ IF n # 0 THEN RecordNonce(n)
          ELSE UNCHANGED <<nonce_ring, nonce_hash, nonce_write_pos, nonce_watermark>>
  ELSE UNCHANGED nonces

-----------------------------------------------------------------------------
(* The engine. *)

Served == proofLog["Verified"] + proofLog["ProofRejected"] + proofLog["P3Intact"] + proofLog["P3Broken"]

EmitWitness(kind) == proofLog' = [proofLog EXCEPT ![kind] = @ + 1]

P3Verified(chain) == IF chain THEN "P3Intact" ELSE "P3Broken"

\* verify_and_witness: P2 runs only if P1 passed, and the tier of the token decides
\* the kind of witness, "Verified" here.
VerifyAndWitness(n, p1, rules) ==
  /\ evaluator = "PolicyEvaluator"
  /\ Served < MaxRequests
  /\ IF p1 THEN EvaluateAllRules(n, rules) ELSE UNCHANGED nonces
  /\ EmitWitness(IF p1 /\ rules /\ ~IsNonceReplayed(n) THEN "Verified" ELSE "ProofRejected")
  /\ UNCHANGED evaluator

\* verify_p3 and verify_p3_signed check the rules with a policy evaluator made for
\* the call: its nonce state is empty, and the derivation chain is not walked.
VerifyP3(n, rules, chain) ==
  /\ evaluator = "PolicyEvaluator"
  /\ Served < MaxRequests
  /\ EmitWitness(IF rules /\ n # 0 THEN P3Verified(chain) ELSE "ProofRejected")
  /\ UNCHANGED <<evaluator, nonces>>

\* verify_p3_with_cap asks the capability manager to walk the chain.
VerifyP3WithCap(chain) ==
  /\ evaluator = "PolicyEvaluator"
  /\ Served < MaxRequests
  /\ EmitWitness(IF chain THEN P3Verified(chain) ELSE "ProofRejected")
  /\ UNCHANGED <<evaluator, nonces>>

\* The nonces of rvm-cap's verifier.
check_nonce(n) ==
  IF n = 0 THEN AllowZeroNonce ELSE n > nonce_watermark /\ nonce_hash[HashSlot(n)] # n

mark_nonce(n) ==
  IF n = 0 THEN UNCHANGED <<nonce_ring, nonce_hash, nonce_write_pos, nonce_watermark>>
  ELSE RecordNonce(n)

\* verify_p2 of rvm-cap.
VerifyP2(n, holds) ==
  /\ evaluator = "ProofVerifier"
  /\ Len(accepted) < MaxRequests
  /\ IF holds /\ check_nonce(n) THEN accepted' = Append(accepted, n) /\ mark_nonce(n)
     ELSE UNCHANGED nonces
  /\ UNCHANGED <<evaluator, proofLog>>

EngineNext ==
  \/ \E n \in Nonce, c \in Contexts :
       \/ \E p1 \in BOOLEAN : VerifyAndWitness(n, p1, RulesHold(c))
       \/ \E chain \in BOOLEAN : VerifyP3(n, RulesHold(c), chain)
       \/ \E holders \in {{}} \cup {{h} : h \in Holder} : VerifyP2(n, P2Holds(c, holders))
  \/ \E chain \in BOOLEAN : VerifyP3WithCap(chain)

EngineSpec == EngineInit /\ [][EngineNext]_engineVars

-----------------------------------------------------------------------------
(* Properties. *)

\* Type correctness; the write position never leaves the ring (record_nonce).
EngineTypeOK ==
  /\ evaluator \in {"PolicyEvaluator", "ProofVerifier"}
  /\ nonce_ring \in [Pos -> Nonce] /\ nonce_hash \in [Pos -> Nonce]
  /\ nonce_write_pos \in Pos
  /\ nonce_watermark \in Nonce
  /\ proofLog \in [RecordKind -> Nat]
  /\ accepted \in Seq(Nonce)

\* What the hash index really guarantees: between two acceptances of a nonce another
\* nonce with the same residue was accepted (is_nonce_replayed, record_nonce).
ReplayNeedsCollision ==
  \A i, j \in DOMAIN accepted :
    (i < j /\ accepted[i] = accepted[j] /\ accepted[i] # 0) =>
      \E k \in i + 1 .. j - 1 :
        accepted[k] # accepted[i] /\ HashSlot(accepted[k]) = HashSlot(accepted[i])

\* A request that a rule refuses leaves no trace in the nonce state, so the same nonce
\* can be presented again: the state holds accepted nonces only.
RefusedNonceNotBurnt ==
  \A k \in Pos : {nonce_ring[k], nonce_hash[k]} \subseteq {0} \cup {accepted[i] : i \in DOMAIN accepted}

\* A client whose nonces only grow is never locked out: no nonce above all accepted
\* ones is refused as replayed.
GrowingNonceAccepted ==
  \A n \in Nonce \ {0} :
    (\A i \in DOMAIN accepted : accepted[i] < n) => ~IsNonceReplayed(n)

\* P2 lets a request through exactly when the log says so: one record of success for
\* each nonce the engine accepted, whatever P1, the rules and P3 answered for the
\* others; rvm-cap's verifier, which has no log, leaves it alone.
AcceptanceWitnessed ==
  proofLog["Verified"] = IF evaluator = "PolicyEvaluator" THEN Len(accepted) ELSE 0

\* The nonce state is fair to honest clients and the log is honest about it: a refusal
\* burns nothing, growing nonces always pass, and success is witnessed exactly once.
NoncesFair == RefusedNonceNotBurnt /\ GrowingNonceAccepted /\ AcceptanceWitnessed
=============================================================================
