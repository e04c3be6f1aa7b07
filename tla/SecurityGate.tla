---------------------------- MODULE SecurityGate ----------------------------
(***************************************************************************)
(* The signers of witness records (rvm-proof: signer.rs; rvm-witness:      *)
(* signer.rs; the kernel's CryptoSignerAdapter) and stand-alone proofs     *)
(* (rvm-proof: lib.rs).  Three signers make 64 bytes over a digest, the    *)
(* witness log keeps 8 bytes, and an adapter cuts the former down to the   *)
(* latter.                                                                 *)
(*                                                                         *)
(* Cryptography is perfect and 8 bytes of a tag stand for the whole tag.   *)
(* A tag is what it was computed with and over; a key is what it was       *)
(* derived from.  The null signers, which test builds only have, are left  *)
(* out.                                                                    *)
(***************************************************************************)
EXTENDS Naturals, Sequences, FiniteSets

CONSTANTS
    Measurement, Partition32,   \* what keys are derived from
    RecordBody, RecordLink,                 \* a record: body fields, and its two chain hashes
    Byte, MAX_DATA              \* proof data: 64 bytes in the code

ASSUME SignerNumbers == MAX_DATA \in Nat \ {0}

VARIABLES
    signed,      \* {} or [by, was, record]: who signed what, and the record as it is now
    preimage     \* bytes somebody makes a hash proof of

signerVars == <<signed, preimage>>

Records == [body : RecordBody, chain : RecordLink]

\* derive_key_with_tag: the hash of measurement, partition and purpose.
derive_key_with_tag(measurement, partition, purpose) == <<measurement, partition, purpose>>
derive_key_bundle(measurement, partition) ==
    [witness_key |-> derive_key_with_tag(measurement, partition, "rvm-witness-key-v1"),
     attestation_key |-> derive_key_with_tag(measurement, partition, "rvm-attestation-key-v1"),
     ipc_key |-> derive_key_with_tag(measurement, partition, "rvm-ipc-key-v1")]
Key == UNION {LET b == derive_key_bundle(m, p) IN {b.witness_key, b.attestation_key} :
                m \in Measurement, p \in Partition32}

-----------------------------------------------------------------------------
(* Tags *)

\* record_to_bytes(record)[..52]: everything before aux.
SignedBytes(r) == r

\* form: over the covered bytes themselves, or over their SHA-256 (record_to_digest).
Tag(alg, key, form, r, twice) ==
    [alg |-> alg, key |-> key, form |-> form, of |-> SignedBytes(r), twice |-> twice]
NoTag == [alg |-> "zero", key |-> <<>>, form |-> "", of |-> <<>>, twice |-> FALSE]

compute_mac(key, r) == Tag("hmac", key, "digest", r, FALSE)

-----------------------------------------------------------------------------
(* Signers: sign to <<first half, second half>> of 64 bytes. *)

Signer(kind, key, public) == [kind |-> kind, key |-> key, public |-> public]

HmacSign(s, r) == <<compute_mac(s.key, r), NoTag>>
Ed25519Sign(s, r) == <<Tag("ed25519", s.key, "digest", r, FALSE), Tag("ed25519", s.key, "digest", r, TRUE)>>
DualSign(s, r) == <<compute_mac(s.key, r), [compute_mac(s.key, r) EXCEPT !.twice = TRUE]>>

\* verify_strict asks the public key; the others sign again and compare.
Ed25519Verify(s, r, sig) == sig = Ed25519Sign([s EXCEPT !.key = s.public], r)

sign(s, r) ==
    CASE s.kind = "hmac" -> HmacSign(s, r)
      [] s.kind = "ed25519" -> Ed25519Sign(s, r)
      [] s.kind = "dual" -> DualSign(s, r)
verify(s, r, sig) == IF s.kind = "ed25519" THEN Ed25519Verify(s, r, sig) ELSE sig = sign(s, r)

signer_id(s) ==
    CASE s.kind = "ed25519" -> <<1, s.public>>
      [] s.kind = "hmac" -> <<2, s.key>>
      [] s.kind = "dual" -> <<4, s.key>>

\* The 8 bytes of a record's aux: HmacWitnessSigner, StrictSigner (no key), or an
\* adapter around one of the above.
StrictSignature(r) == Tag("fnv", <<>>, "bytes", r, FALSE)
WitnessSignature(key, r) == Tag("hmac", key, "bytes", r, FALSE)
AdapterSign(s, r) == sign(s, r)[1]

Full == {Signer(k, key, key) : k \in {"hmac", "dual", "ed25519"}, key \in Key}
        \cup {Signer("ed25519", key, other) : key, other \in Key}

aux(w, r) ==
    CASE w.kind = "strict" -> StrictSignature(r)
      [] w.kind = "witness" -> WitnessSignature(w.key, r)
      [] OTHER -> AdapterSign(w, r)
Logged == Full \cup {Signer("witness", key, key) : key \in Key} \cup {Signer("strict", <<>>, <<>>)}

-----------------------------------------------------------------------------
(* Stand-alone proofs: the hash of bytes is the bytes. *)

\* Only the first MAX_DATA bytes are kept.
hash_proof(commitment, bytes) ==
    [tier |-> "Hash", commitment |-> commitment, data |-> SubSeq(bytes, 1, IF Len(bytes) < MAX_DATA THEN Len(bytes) ELSE MAX_DATA)]

\* Witness data is a sequence of [prev, hash] links; a last link cut short is ignored.
verify_proof(proof, expected) ==
    /\ proof.commitment = expected /\ proof.data # <<>>
    /\ CASE proof.tier = "Hash" -> proof.data = proof.commitment
         [] proof.tier = "Witness" ->
              \A i \in 1 .. Len(proof.data) - 1 : proof.data[i].hash = proof.data[i + 1].prev
         [] OTHER -> FALSE

-----------------------------------------------------------------------------
SignersInit == signed = {} /\ preimage = <<>>

Signs(w, r) ==
    /\ signed = {} /\ preimage = <<>>
    /\ signed' = {[by |-> w, was |-> r, record |-> r]}
    /\ UNCHANGED preimage

\* The record changes in storage; its signature does not.
Changes(r) ==
    /\ \E e \in signed : e.record = e.was /\ signed' = {[e EXCEPT !.record = r]}
    /\ UNCHANGED preimage

Extends(b) ==
    /\ signed = {} /\ Len(preimage) <= MAX_DATA
    /\ preimage' = Append(preimage, b) /\ UNCHANGED signed

SignersNext ==
    \/ \E r \in Records : Changes(r) \/ \E w \in Logged : Signs(w, r)
    \/ \E b \in Byte : Extends(b)

-----------------------------------------------------------------------------
(* Properties *)

\* Evidence speaks for what it was made over.  A signature, whole or cut down to
\* the log's 8 bytes, is accepted for the record it was made for and no other, by
\* the verifiers of the key it was made with (whatever kind of signer holds that
\* key) and no others, and by the signer itself; two signers with the same
\* signer_id accept the same signatures; a hash proof is accepted exactly if
\* its preimage fitted into it.
EvidenceHolds ==
    /\ \A e \in signed :
         LET w == e.by  Sig == sign(w, e.was)  Aux == aux(w, e.was)
         IN /\ \A v \in Logged : aux(v, e.record) = Aux =>
                 e.record = e.was /\ v.key = w.key
            /\ w \in Full => \A v \in Full :
                 /\ verify(v, e.record, Sig) => e.record = e.was /\ v.public = w.key
                 /\ signer_id(v) = signer_id(w) => verify(v, e.was, Sig) = verify(w, e.was, Sig)
            /\ w \in Full /\ w.public = w.key => verify(w, e.was, Sig)
    /\ verify_proof(hash_proof(preimage, preimage), preimage) <=> Len(preimage) \in 1 .. MAX_DATA

-----------------------------------------------------------------------------
(***************************************************************************)
(* The unified gate of rvm-security (type, rights, commitment, P3 chain,    *)
(* one witness per call), plain and signed; the signers of rvm-proof and    *)
(* the enclave-bound one, whose every signature and every verification      *)
(* depends on a quote that can expire and be refreshed; and the             *)
(* attestation chain.  MACs, hashes and derived keys are symbolic: a term   *)
(* of exactly what the code feeds them.                                     *)
(***************************************************************************)

CONSTANTS
    Word32,      \* 2^32: the width to which chain links are cut for signing
    LinkValue,   \* 64-bit hashes that occur in chain links
    MAX_LINKS,   \* links of a P3WitnessChain (4)
    GateRequests,\* requests that are made
    GateDigest,  \* digests to sign
    EpochRange,  \* epochs and collateral expiries, 0 among them
    MAX_ATTESTATION_ENTRIES,
    MaxGateCalls \* bound: gate calls in a behaviour

ASSUME GateWidths == Word32 \in Nat \ {0} /\ LinkValue \subseteq Nat
ASSUME GateBounds == {MAX_LINKS, MAX_ATTESTATION_ENTRIES, MaxGateCalls} \subseteq Nat
ASSUME EpochsAreCounts == 0 \in EpochRange /\ EpochRange \subseteq Nat

VARIABLES
    gate_log,   \* witness records the gate appended
    decisions,  \* ghost: the requests and the answers, in order
    tee,        \* the enclave: what it measures, its collateral and the epoch
    issued,     \* ghost: digests signed, with whether the enclave attested then
    chain       \* AttestationChain

gateVars == <<gate_log, decisions, tee, issued, chain>>

-----------------------------------------------------------------------------
(* Symbolic cryptography *)

ZeroSig == <<"zero">>
hmac(key, msg) == <<"hmac", key, msg>>
Keys == derive_key_bundle("dev", 0)

\* HmacSha256WitnessSigner: the MAC fills half of the signature.
hmac_sign(key, d) == hmac(key, d)
hmac_verify(key, d, sig) == sig = hmac_sign(key, d)

-----------------------------------------------------------------------------
(* The enclave-bound signer *)

generate_quote(report_data) ==
    LET body == [platform |-> tee.platform, measurement |-> tee.measured,
                 report_data |-> report_data] IN
    [body |-> body, mac |-> hmac(Keys.attestation_key, body)]

\* An expiry of zero never expires.
collateral_valid == tee.expiry = 0 \/ tee.epoch < tee.expiry

platform_from_byte(b) == b \in 1 .. 4

verify_quote(quote, measurement, report_data) ==
    /\ platform_from_byte(quote.body.platform)
    /\ collateral_valid
    /\ quote.body.measurement = measurement
    /\ quote.body.report_data = report_data
    /\ quote.mac = hmac(Keys.attestation_key, quote.body)

self_attest(d) == verify_quote(generate_quote(d), "expected", d)

\* A signature the enclave cannot vouch for is all zeros.
BugTeeSign(d) == hmac_sign(Keys.witness_key, d)

tee_sign(d) == IF self_attest(d) THEN hmac_sign(Keys.witness_key, d) ELSE ZeroSig

\* The signature, and then the enclave's standing now.
tee_verify(d, sig) == hmac_verify(Keys.witness_key, d, sig) /\ self_attest(d)

Sign(d) ==
    /\ issued' = issued \cup {[digest |-> d, sig |-> tee_sign(d),
                               attested |-> self_attest(d)]}
    /\ UNCHANGED <<gate_log, decisions, tee, chain>>

set_epoch(e) ==
    /\ tee' = [tee EXCEPT !.epoch = e]
    /\ UNCHANGED <<gate_log, decisions, issued, chain>>

refresh_collateral(e) ==
    /\ tee' = [tee EXCEPT !.expiry = e]
    /\ UNCHANGED <<gate_log, decisions, issued, chain>>

-----------------------------------------------------------------------------
(* The gate *)

\* A link of a P3 chain and what signature comes with it: none, the signer's own
\* over what it signs, or another one.
Link == [prev : LinkValue, hash : LinkValue, sig : {"none", "genuine", "other"}]
P3WitnessChain == UNION {[1 .. n -> Link] : n \in 0 .. MAX_LINKS}

verify_p3_chain(c) ==
    /\ c # <<>>
    /\ \A i \in 1 .. Len(c) - 1 : c[i].hash = c[i + 1].prev

\* The minimal record a link is signed as: the position and the two hashes, cut to
\* 32 bits.
LinkRecord(c, i) ==
    [sequence |-> i - 1, prev_hash |-> c[i].prev % Word32, record_hash |-> c[i].hash % Word32]

SignatureOf(c, i) ==
    CASE c[i].sig = "none"    -> ZeroSig
      [] c[i].sig = "genuine" -> hmac_sign(Keys.witness_key, LinkRecord(c, i))
      [] OTHER                -> <<"other", i>>

\* Links without a signature are skipped.
verify_chain_signatures(c) ==
    \A i \in 1 .. Len(c) :
        \/ SignatureOf(c, i) = ZeroSig
        \/ hmac_verify(Keys.witness_key, LinkRecord(c, i), SignatureOf(c, i))

GateRequest ==
    [type_ok : BOOLEAN, rights_ok : BOOLEAN, commitment : {"none", "zero", "set"},
     require_p3 : BOOLEAN, p3_chain_valid : BOOLEAN,
     supplied : BOOLEAN, p3 : P3WitnessChain, signed_gate : BOOLEAN]

ASSUME RequestsTyped == GateRequests \subseteq GateRequest

\* The caller's own p3_chain_valid is not looked at.
ChainOk(r) ==
    /\ r.supplied /\ verify_p3_chain(r.p3)
    /\ r.signed_gate => verify_chain_signatures(r.p3)

Answer(r) ==
    CASE ~r.type_ok                      -> "CapabilityTypeMismatch"
      [] r.type_ok /\ ~r.rights_ok       -> "InsufficientRights"
      [] r.type_ok /\ r.rights_ok /\ r.commitment = "zero" -> "PolicyViolation"
      [] r.type_ok /\ r.rights_ok /\ r.commitment # "zero"
            /\ r.require_p3 /\ ~ChainOk(r) -> "DerivationChainBroken"
      [] OTHER -> "Allow"

Tier(r) ==
    IF r.require_p3 THEN 3 ELSE IF r.commitment = "set" THEN 2 ELSE 1

emit_allowed(r) == [kind |-> "action", tier |-> Tier(r), signed |-> r.signed_gate]
emit_rejection(r) == [kind |-> "ProofRejected", tier |-> 0, signed |-> r.signed_gate]

check_and_execute(r) ==
    /\ Len(gate_log) < MaxGateCalls
    /\ gate_log' = Append(gate_log, IF Answer(r) = "Allow" THEN emit_allowed(r)
                                    ELSE emit_rejection(r))
    /\ decisions' = Append(decisions, [request |-> r, answer |-> Answer(r),
                                       sequence |-> Len(gate_log)])
    /\ UNCHANGED <<tee, issued, chain>>

\* The quick check without a witness; a stale epoch is refused before the type.
evaluate(r, epoch_ok) == epoch_ok /\ Answer([r EXCEPT !.require_p3 = FALSE]) = "Allow"

-----------------------------------------------------------------------------
(* The attestation chain *)

\* The root is a hash of the previous root and the new measurement.
extend_chain_hash(root, h) == <<"sha256", root, h>>

add_entry(h, tag) ==
    /\ Len(chain.entries) < MAX_ATTESTATION_ENTRIES
    /\ chain' = [entries |-> Append(chain.entries,
                                    [sequence |-> Len(chain.entries), hash |-> h,
                                     source_tag |-> tag]),
                 root |-> extend_chain_hash(chain.root, h)]
    /\ UNCHANGED <<gate_log, decisions, tee, issued>>

generate_attestation_report ==
    LET Count(tag) == Cardinality({i \in DOMAIN chain.entries :
                                     chain.entries[i].source_tag = tag}) IN
    [entry_count |-> Len(chain.entries), chain_root |-> chain.root,
     boot_measurement_count |-> Count(0), runtime_witness_count |-> Count(1)]

verify_attestation(report, expected_root) == report.chain_root = expected_root

-----------------------------------------------------------------------------
SoftwareTee(m, e) == [platform |-> 1, measured |-> m, expiry |-> e, epoch |-> 0]
AttestationChainNew == [entries |-> <<>>, root |-> <<"zero">>]

GateInit ==
    /\ gate_log = <<>> /\ decisions = <<>> /\ issued = {}
    /\ \E m \in {"expected", "tampered"}, e \in EpochRange : tee = SoftwareTee(m, e)
    /\ chain = AttestationChainNew

EnclaveNext ==
    \/ \E d \in GateDigest : Sign(d)
    \/ \E e \in EpochRange : set_epoch(e) \/ refresh_collateral(e)
    \/ \E d \in GateDigest, t \in {0, 1} : add_entry(d, t)

GateNext == Len(gate_log) < MaxGateCalls /\ \E r \in GateRequests : check_and_execute(r)

\* Gate and enclave beside the signers, which share nothing with them.
GateSpec ==
  /\ GateInit /\ SignersInit
  /\ [][\/ (GateNext \/ EnclaveNext) /\ UNCHANGED signerVars
        \/ SignersNext /\ UNCHANGED gateVars]_<<gateVars, signerVars>>

-----------------------------------------------------------------------------
(* Properties *)

\* The chain's report verifies against the root of its entries, in their order, and
\* accounts for each of them as boot or runtime.
RootOf(entries) ==
    LET root[n \in 0 .. Len(entries)] ==
          IF n = 0 THEN <<"zero">> ELSE extend_chain_hash(root[n - 1], entries[n].hash)
    IN root[Len(entries)]

ReportExact ==
    LET report == generate_attestation_report IN
    /\ verify_attestation(report, RootOf(chain.entries))
    /\ report.boot_measurement_count + report.runtime_witness_count = report.entry_count

\* A signature made while the enclave could not vouch for itself (expired
\* collateral, or another measurement) never verifies, not even after the collateral
\* is refreshed or the epoch set back; one made while it could verifies again
\* exactly when it can.
UnattestedNeverVerifies ==
    \A s \in issued : tee_verify(s.digest, s.sig) <=> s.attested /\ self_attest(s.digest)

\* Every call left its one record, at the sequence it answered with, and what the
\* record claims was earned: tier 3 only for a chain that is present, linked and, at
\* the signed gate, without a wrong signature; a refusal only as ProofRejected; and
\* nothing passes the gate that the quick check would refuse.
TiersEarned ==
    /\ Len(gate_log) = Len(decisions)
    /\ \A i \in DOMAIN decisions :
          LET d == decisions[i]
              w == gate_log[d.sequence + 1] IN
          /\ d.sequence = i - 1
          /\ (w.kind = "ProofRejected") <=> (d.answer # "Allow")
          /\ d.answer = "Allow" => evaluate(d.request, TRUE)
          /\ w.tier = 3 =>
                /\ d.request.supplied /\ d.request.p3 # <<>>
                /\ \A j \in 1 .. Len(d.request.p3) - 1 :
                      d.request.p3[j].hash = d.request.p3[j + 1].prev
                /\ d.request.signed_gate =>
                      \A j \in DOMAIN d.request.p3 : d.request.p3[j].sig # "other"

\* What the gate lets through was shown to it, what a signer or an enclave leaves behind
\* verifies only as it was signed, and a boot chain is reported as it is (rvm-security:
\* gate.rs, attestation.rs; rvm-proof: signer.rs, tee; rvm-witness: signer.rs).
SignedEvidence == TiersEarned /\ UnattestedNeverVerifies /\ ReportExact /\ EvidenceHolds
=============================================================================
