---------------------------- MODULE MC_Evidence ----------------------------
(***************************************************************************)
(* Small instances of the components that make evidence: the proof engine, *)
(* the witness log, the security gate with its signers and enclave, the    *)
(* signers alone, and external anchoring with its canonical JSON.  They    *)
(* share no state here, so a behaviour exercises one of them, `part`, and  *)
(* the others stay where they began.                                       *)
(***************************************************************************)
EXTENDS ProofEngine, WitnessLog, SecurityGate, ExternalAnchor

CONSTANTS k1, RingAppends   \* bound: records appended to the ring

VARIABLE part

\* A context that passes every rule, and one for each way of failing one.
MCFit(partition) ==
  [ProofContextNew(partition) EXCEPT !.region_limit = 1, !.lease_expiry_ns = 1]
MCContexts ==
  {MCFit(1), MCFit(2), ProofContextNew(1), [MCFit(1) EXCEPT !.current_time_ns = 2],
   [MCFit(1) EXCEPT !.max_delegation_depth = 3]}
MCHolder == [owner : {1, 2}, depth : {2, 3}]

\* A chain hash with eleven values and a fold with four: chains share digests.
MCHash == 0 .. 10
MCDigest == 0 .. 3
MCChainHash(h, s) == (3 * h + 5 * s + 1) % 11
MCFold(h) == ((h \div 4) + h) % 4

\* Every answer the gate has, and every short chain of links where one is asked for.
MCGateRequests ==
  [type_ok : BOOLEAN, rights_ok : BOOLEAN, commitment : {"none", "zero", "set"},
   require_p3 : BOOLEAN, p3_chain_valid : {TRUE}, supplied : {FALSE}, p3 : {<<>>},
   signed_gate : BOOLEAN]
  \cup [type_ok : {TRUE}, rights_ok : {TRUE}, commitment : {"none"}, require_p3 : {TRUE},
        p3_chain_valid : {FALSE}, supplied : {TRUE}, p3 : P3WitnessChain, signed_gate : BOOLEAN]

Graded(term, grade, attestor) == [term |-> term, grade |-> grade, attestor |-> attestor]
MCSamples == {<<1, 2>>, <<2, -1, 1>>}
MCGates == {[safety |-> TRUE, cost |-> TRUE], [safety |-> TRUE, cost |-> FALSE]}
MCTerms ==
  {{Graded("safety", "recomputed", NoAttestor)},
   {Graded("safety", "trusted-assertion", NoAttestor)},
   {Graded("safety", "recomputed", NoAttestor), Graded("cost", "trusted-assertion", k1)}}

-----------------------------------------------------------------------------
\* A component that is not exercised begins in one of its initial states only.
EvidenceInit ==
  /\ part \in {"engine", "ring", "gate", "enclave", "signers", "anchor", "json"}
  /\ EngineInit /\ (part # "engine" => evaluator = "PolicyEvaluator")
  /\ Init
  /\ GateInit /\ (part # "enclave" => tee = SoftwareTee("expected", 0))
  /\ SignersInit
  /\ AnchorInit
  /\ (part # "anchor" =>
         receipt.payload = Issued(<<1, 2>>, 2, 0, 1, CHOOSE g \in Gates : TRUE,
                                  CHOOSE t \in Terms : TRUE, 1)
         /\ receipt.signature = AnchorSignature(k1, RECEIPT_DOMAIN, receipt.payload))
  /\ JcsInit

EvidenceNext ==
  /\ UNCHANGED part
  /\ \/ /\ part = "engine" /\ EngineNext
        /\ UNCHANGED <<vars, gateVars, signerVars, anchorVars, jcsVars>>
     \/ /\ part = "ring" /\ log.sequence < RingAppends /\ Next
        /\ UNCHANGED <<engineVars, gateVars, signerVars, anchorVars, jcsVars>>
     \/ /\ \/ part = "gate" /\ GateNext
           \/ part = "enclave" /\ EnclaveNext
        /\ UNCHANGED <<engineVars, vars, signerVars, anchorVars, jcsVars>>
     \/ /\ part = "signers" /\ SignersNext
        /\ UNCHANGED <<engineVars, vars, gateVars, anchorVars, jcsVars>>
     \/ /\ part = "anchor" /\ AnchorNext
        /\ UNCHANGED <<engineVars, vars, gateVars, signerVars, jcsVars>>
     \/ /\ part = "json" /\ JcsNext
        /\ UNCHANGED <<engineVars, vars, gateVars, signerVars, anchorVars>>

EvidenceSpec ==
  EvidenceInit /\ [][EvidenceNext]_<<part, engineVars, vars, gateVars, signerVars, anchorVars, jcsVars>>

-----------------------------------------------------------------------------
(* The properties of the parts. *)

\* An anchored receipt says what its service recomputed, over canonical bytes that have
\* one reading (rvm-anchor: receipt.rs, jcs.rs, anchor.rs).
AnchoredEvidence ==
  /\ part = "anchor" => AnchorSound
  /\ part = "json" => CanonicalIsFaithful
=============================================================================
