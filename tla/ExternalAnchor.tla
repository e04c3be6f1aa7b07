--------------------------- MODULE ExternalAnchor ---------------------------
(***************************************************************************)
(* Verification of an external promotion receipt and its anchoring in the  *)
(* witness log (rvm-anchor: receipt.rs, stats.rs, anchor.rs).              *)
(*                                                                         *)
(* A receipt is a payload and a signature.  A payload is a function from   *)
(* field names to values; of the fields that only have to match a pattern  *)
(* (content IDs, UUIDs, timestamps, decimals) it is kept whether they do.  *)
(* Hashes are the values hashed, a signature is the key and what it signed.*)
(* The samples of the bootstrap are integers and its generator has WIDTH   *)
(* states instead of 2^32.                                                 *)
(***************************************************************************)
EXTENDS Integers, Sequences, FiniteSets, SequencesExt, FiniteSetsExt, TLC

CONSTANTS
  AnchorKey, TrustedKey,    \* signing keys, and those the verifier trusts
  Samples,                  \* the heldOutDeltas a receipt may carry
  Lifts, Regressions,       \* scaled relativeLift and frozenAnchorRegression values
  MIN_LIFT,                 \* 0.02 on the scale of Lifts
  Gates, Terms,             \* gates and term verifications a receipt may carry
  ApprovedAttestor, NoAttestor,
  Expiries, Seeds, ITERATIONS, MIN_ITERATIONS, WIDTH,
  Caller, MaxAnchored, Unsigned,
  AnchorCapacity            \* records the ring of the witness log keeps

ASSUME AnchorAssumption ==
  /\ TrustedKey \subseteq AnchorKey
  /\ {ITERATIONS, MIN_ITERATIONS} \subseteq Nat \ {0} /\ {WIDTH, AnchorCapacity} \subseteq Nat \ {0}
  /\ Seeds \subseteq 0..(WIDTH - 1)

VARIABLES
  receipt,          \* the document on its way: [payload, signature]
  signed_payloads,  \* what keys have signed
  utc,              \* the verifier's clock
  verified,         \* the VerifiedReceipt, with the document it is of
  witness_log,      \* history: the records emitted, 0-based sequence = index - 1
  caller,           \* per caller: where anchor_verified_receipt stands
  anchored          \* outcomes returned
anchorVars == <<receipt, signed_payloads, utc, verified, witness_log, caller, anchored>>

-----------------------------------------------------------------------------
(* stats.rs: verify_statistics *)

\* The generator: one draw, and the index it picks among n samples.
Draw(state) == (5 * state + 3) % WIDTH
Index(state, n) == (state * n) \div WIDTH + 1

\* The totals of the resamples: n consecutive draws each (the mean is total / n).
Totals(deltas, seed) ==
  LET n == Len(deltas)
      state[k \in 0..(ITERATIONS * n)] == IF k = 0 THEN seed ELSE Draw(state[k - 1])
      total(i) == MapThenSumSet(LAMBDA k : deltas[Index(state[k], n)], ((i - 1) * n + 1)..(i * n))
  IN  [i \in 1..ITERATIONS |-> IF n = 0 THEN 0 ELSE total(i)]

\* probability >= 0.95 and the 2.5% quantile above 0.
Significant(deltas, seed) ==
  LET totals == Totals(deltas, seed)
      positive == Cardinality({i \in 1..ITERATIONS : totals[i] > 0})
      sorted == SortSeq(totals, LAMBDA a, b : a < b)
  IN  100 * positive >= 95 * ITERATIONS /\ sorted[(25 * ITERATIONS) \div 1000 + 1] > 0

Accepted(p) ==
  p.lift >= MIN_LIFT /\ Significant(p.heldOutDeltas, p.seed) /\ p.frozenAnchorRegression <= 0

GatesPass(p) == \A g \in DOMAIN p.gates : p.gates[g]
Decision(p) == IF Accepted(p) /\ GatesPass(p) THEN "accepted" ELSE "rejected"

verify_statistics(p) ==
  /\ p.statistics.significant = Significant(p.heldOutDeltas, p.seed)
  /\ p.statistics.accepted = Accepted(p)
  /\ p.decision = Decision(p)

-----------------------------------------------------------------------------
(* receipt.rs: the schema *)

\* The fields of the payload, the ones that only have to match a pattern as one.
RECEIPT_DOMAIN == "receipt domain"
PAYLOAD_REQUIRED == {"versions", "patterns", "lift", "frozenAnchorRegression", "heldOutDeltas",
                     "seed", "statistics", "gates", "resourceEvidence", "evidence",
                     "termVerification", "decision", "expiresAt", "candidatePolicy",
                     "candidateId", "receiptId"}
PAYLOAD_OPTIONAL == {"anchorRef", "pairedOutcomes"}

validate_exact_object(o, required, optional) ==
  required \subseteq DOMAIN o /\ DOMAIN o \subseteq required \cup optional

\* Decimals and the seed only have to match a pattern; the rule is pinned.
validate_statistics(p) ==
  /\ validate_exact_object(p.statistics, {"ruleVersion", "decimals", "iterations", "significant", "accepted"}, {})
  /\ p.statistics.ruleVersion = "supported" /\ p.statistics.decimals
  /\ p.statistics.iterations >= MIN_ITERATIONS

\* amounts stands for the latency, cost and token counts.
validate_resource_evidence(p) ==
  /\ validate_exact_object(p.resourceEvidence, {"amounts", "failureRate", "currency"}, {"energyMicrojoules"})
  /\ \A a \in p.resourceEvidence.amounts : a >= 0
  /\ p.resourceEvidence.failureRate /\ p.resourceEvidence.currency
  /\ "energyMicrojoules" \in DOMAIN p.resourceEvidence => p.resourceEvidence.energyMicrojoules >= 0

validate_evidence(p) ==
  /\ validate_exact_object(p.evidence, {"corpusRoles", "verification", "canary"}, {})
  /\ validate_exact_object(p.evidence.corpusRoles, {"selection", "holdout", "guard"}, {})

validate_gates(p) == DOMAIN p.gates # {}

validate_term_verification(p) ==
  \A t \in p.termVerification : t.grade = "trusted-assertion" => t.attestor # NoAttestor

\* The domain the envelope names, not the one the signature was made in.
validate_signature_envelope(s) ==
  /\ validate_exact_object(s, {"algorithm", "domain", "key", "over"}, {})
  /\ s.algorithm = "ed25519" /\ s.domain = RECEIPT_DOMAIN

validate_structure(d) ==
  LET p == d.payload
  IN  /\ validate_exact_object(p, PAYLOAD_REQUIRED, PAYLOAD_OPTIONAL)
      /\ p.versions = "supported"
      /\ p.patterns
      /\ "pairedOutcomes" \in DOMAIN p => Len(p.pairedOutcomes) = Len(p.heldOutDeltas)
      /\ validate_statistics(p) /\ validate_resource_evidence(p)
      /\ validate_gates(p) /\ validate_evidence(p) /\ validate_term_verification(p)
      /\ d.signature # Unsigned => validate_signature_envelope(d.signature)

\* The checks after the signature.
check_expiry(p) == p.expiresAt > utc
check_corpus_roles(p) == p.evidence.corpusRoles.selection \cap p.evidence.corpusRoles.holdout = {}

check_gate_coverage(p) ==
  \A g \in DOMAIN p.gates : p.gates[g] => \E t \in p.termVerification : t.term = g

collect_term_grades(p) == p.termVerification
Independent(grades) ==
  \A t \in grades : t.grade = "trusted-assertion" => t.attestor \in ApprovedAttestor

\* Content IDs: of the policy, and of the payload without its own receiptId.
Without(p, f) == [g \in DOMAIN p \ {f} |-> p[g]]

\* What a key signs: the domain, a zero byte, the canonical payload.
SignedScope(domain, p) == <<domain, p>>

verify_receipt(d) ==
  /\ validate_structure(d)
  /\ d.payload.candidateId = d.payload.candidatePolicy
  /\ d.payload.receiptId = Without(d.payload, "receiptId")
  /\ d.signature # Unsigned /\ d.signature.key \in TrustedKey
  /\ d.signature.over = SignedScope(RECEIPT_DOMAIN, d.payload)
  /\ verify_statistics(d.payload)
  /\ check_expiry(d.payload) /\ check_corpus_roles(d.payload) /\ check_gate_coverage(d.payload)

VerifiedReceipt(d) ==
  [present |-> TRUE, document |-> d, receipt_id |-> Without(d.payload, "receiptId"),
   signer |-> d.signature.key, accepted |-> Accepted(d.payload),
   independently_verified |-> Independent(collect_term_grades(d.payload))]

-----------------------------------------------------------------------------
(* Issuing and altering a receipt *)

\* What an issuer writes: consistent with its own statistics.
Issued(deltas, lift, regression, seed, gates, terms, expires) ==
  LET base == [versions |-> "supported", patterns |-> TRUE, lift |-> lift,
               frozenAnchorRegression |-> regression, heldOutDeltas |-> deltas, seed |-> seed,
               gates |-> gates,
               resourceEvidence |-> [amounts |-> {0, 1}, failureRate |-> TRUE, currency |-> TRUE],
               evidence |-> [corpusRoles |-> [selection |-> {1}, holdout |-> {2}, guard |-> {}],
                             verification |-> <<>>, canary |-> <<>>],
               termVerification |-> terms,
               expiresAt |-> expires, candidatePolicy |-> "policy", candidateId |-> "policy"]
      judged == [statistics |-> [ruleVersion |-> "supported", decimals |-> TRUE,
                                 iterations |-> ITERATIONS, significant |-> Significant(deltas, seed),
                                 accepted |-> Accepted(base)],
                 decision |-> Decision(base)] @@ base
  IN  [receiptId |-> judged] @@ judged

\* Keys sign other kinds of document too, each kind in its own domain.
Domains == {RECEIPT_DOMAIN, "another domain"}
AnchorSignature(key, domain, p) ==
  [algorithm |-> "ed25519", domain |-> domain, key |-> key, over |-> SignedScope(domain, p)]

NoReceipt == [present |-> FALSE]
IdleCaller == [at |-> "idle"]

AnchorInit ==
  /\ \E deltas \in Samples, lift \in Lifts, regression \in Regressions, seed \in Seeds,
        gates \in Gates, terms \in Terms, expires \in Expiries, key \in AnchorKey, domain \in Domains :
       LET p == Issued(deltas, lift, regression, seed, gates, terms, expires)
       IN  /\ receipt = [payload |-> p, signature |-> AnchorSignature(key, domain, p)]
           /\ signed_payloads = {AnchorSignature(key, domain, p)}
  /\ utc = 0 /\ verified = NoReceipt /\ witness_log = <<>>
  /\ caller = [c \in Caller |-> IdleCaller] /\ anchored = {}

\* A field changes on the way, once; whoever changes it can recompute the content ID but
\* not the signature.
WithId(p) == [p EXCEPT !.receiptId = Without(p, "receiptId")]

Altered(d) ==
  LET p == d.payload
  IN  {[d EXCEPT !.payload = WithId([p EXCEPT !.decision = x])] : x \in {"accepted", "rejected"}}
      \cup {[d EXCEPT !.payload = WithId([p EXCEPT !.gates = g])] : g \in Gates}
      \cup {[d EXCEPT !.payload = WithId([p EXCEPT !.statistics.accepted = ~@])],
            [d EXCEPT !.payload = ("unknown" :> TRUE) @@ p],
            [d EXCEPT !.payload = WithId([p EXCEPT !.evidence.corpusRoles.holdout = {1}])],
            [d EXCEPT !.payload = WithId([p EXCEPT !.statistics = [iterations |-> 0] @@ @])],
            [d EXCEPT !.payload = WithId([p EXCEPT !.resourceEvidence.amounts = {-1}])],
            [d EXCEPT !.signature.domain = RECEIPT_DOMAIN],
            [d EXCEPT !.signature = Unsigned]}

AlterReceipt ==
  /\ ~verified.present /\ Cardinality(signed_payloads) = 1
  /\ receipt.signature \in signed_payloads /\ receipt.signature.over[2] = receipt.payload
  /\ receipt' \in Altered(receipt)
  /\ UNCHANGED <<signed_payloads, utc, verified, witness_log, caller, anchored>>

\* The same alteration, signed anew by any key.
Resign(key) ==
  /\ ~verified.present /\ receipt.signature # Unsigned /\ receipt.signature.over[2] # receipt.payload
  /\ receipt' = [receipt EXCEPT !.signature = AnchorSignature(key, receipt.signature.domain, receipt.payload)]
  /\ signed_payloads' = signed_payloads \cup {receipt'.signature}
  /\ UNCHANGED <<utc, verified, witness_log, caller, anchored>>

Pass == /\ utc = 0 /\ utc' = 1 /\ ~verified.present
        /\ UNCHANGED <<receipt, signed_payloads, verified, witness_log, caller, anchored>>

VerifyReceipt ==
  /\ ~verified.present /\ verify_receipt(receipt)
  /\ verified' = [at |-> utc] @@ VerifiedReceipt(receipt)
  /\ UNCHANGED <<receipt, signed_payloads, utc, witness_log, caller, anchored>>

-----------------------------------------------------------------------------
(* anchor_verified_receipt: the position is read, the commitment built over *)
(* it, and only then the record appended; other callers append in between.  *)

Commitment(position) == [receipt |-> verified.receipt_id, position |-> position,
                         assurance |-> "service-side"]

ReadPosition(c) ==
  /\ verified.present /\ caller[c].at = "idle" /\ Len(witness_log) < MaxAnchored
  /\ caller' = [caller EXCEPT ![c] = [at |-> "append", position |-> Len(witness_log)]]
  /\ UNCHANGED <<receipt, signed_payloads, utc, verified, witness_log, anchored>>

BugReturned(sequence, position) == TRUE
Returned(sequence, position) == sequence = position

AppendAnchor(c) ==
  LET position == caller[c].position
      sequence == Len(witness_log)
  IN  /\ caller[c].at = "append"
      /\ witness_log' = Append(witness_log, [kind |-> "anchor", sequence |-> sequence,
                                             commitment |-> Commitment(position)])
      /\ anchored' = IF Returned(sequence, position)
                     THEN anchored \cup {[caller |-> c, position |-> position, record |-> Commitment(position)]}
                     ELSE anchored
      /\ caller' = [caller EXCEPT ![c] = IdleCaller]
      /\ UNCHANGED <<receipt, signed_payloads, utc, verified>>

\* Another part of the system emits a witness.
OtherWitness ==
  /\ verified.present /\ Len(witness_log) < MaxAnchored
  /\ witness_log' = Append(witness_log, [kind |-> "other", sequence |-> Len(witness_log), commitment |-> NoReceipt])
  /\ UNCHANGED <<receipt, signed_payloads, utc, verified, caller, anchored>>

witness_matches_anchor(w, a) ==
  w.kind = "anchor" /\ w.sequence = a.position /\ w.commitment = a.record

AnchorNext ==
  \/ AlterReceipt \/ Pass \/ VerifyReceipt \/ OtherWitness
  \/ \E k \in AnchorKey : Resign(k)
  \/ \E c \in Caller : ReadPosition(c) \/ AppendAnchor(c)

-----------------------------------------------------------------------------

\* A verified receipt is what a trusted key signed as a receipt, unexpired, and says of itself what
\* can be recomputed from it: its decision follows from its samples and its gates, and
\* every gate it passed is backed by a graded term (receipt.rs: verify_receipt).
VerifiedIsAuthentic ==
  verified.present =>
    LET p == verified.document.payload
    IN  /\ \E s \in signed_payloads : s.key \in TrustedKey /\ s.over = <<RECEIPT_DOMAIN, p>>
        /\ p.decision = Decision(p) /\ p.expiresAt > verified.at
        /\ {g \in DOMAIN p.gates : p.gates[g]} \subseteq {t.term : t \in p.termVerification}

\* The ring overwrites its oldest record.
InRing == {i \in 1..Len(witness_log) : i > Len(witness_log) - AnchorCapacity}

\* An anchor that was returned can be checked as long as the ring holds the record it
\* names: that record matches it and no other does, whoever appended in between
\* (anchor.rs: the position is read before the record that carries it is appended).
AnchorsVerify ==
  /\ \A a \in anchored :
       {i \in InRing : witness_matches_anchor(witness_log[i], a)} = InRing \cap {a.position + 1}
  /\ \A a, b \in anchored : a.position = b.position => a = b

-----------------------------------------------------------------------------
(***************************************************************************)
(* The JSON reader and its canonical form (rvm-anchor: jcs.rs), on which   *)
(* every content ID and signature of an external receipt rests.  A text is *)
(* a sequence of tokens; a string token is one spelling of a character,    *)
(* plain or escaped, and a number token one spelling of a number.          *)
(***************************************************************************)

CONSTANT MaxTokens          \* texts are at most this long

VARIABLE text
jcsVars == text

\* String spellings: plain, as a \u escape, and an escape that does not decode.
Spelling == {[t |-> "str", char |-> 2, as |-> "plain"], [t |-> "str", char |-> 1, as |-> "plain"],
             [t |-> "str", char |-> 1, as |-> "escaped"], [t |-> "str", char |-> 0, as |-> "broken"]}
\* Number spellings: an integer, -0, and a fraction.
Number == {[t |-> "num", int |-> 0, as |-> "plain"], [t |-> "num", int |-> 0, as |-> "minus"],
           [t |-> "num", int |-> 1, as |-> "fraction"]}
Literal == {[t |-> "lit", of |-> "true"]}
P(p) == [t |-> p]
Token == Spelling \cup Number \cup Literal \cup {P(p) : p \in {"{", "}", "[", "]", ",", ":", "ws"}}

-----------------------------------------------------------------------------
(* Values: strings, numbers and literals, arrays, and objects as sequences *)
(* of pairs in the order of the text.                                      *)

Ok(v, pos) == [ok |-> TRUE, value |-> v, pos |-> pos]
Refuse(e, pos) == [ok |-> FALSE, error |-> e, pos |-> pos]
At(s, p) == IF p <= Len(s) THEN s[p].t ELSE "end"

RECURSIVE skip_ws(_, _)
skip_ws(s, p) == IF At(s, p) = "ws" THEN skip_ws(s, p + 1) ELSE p

\* parse_string and parse_number: the spelling is gone, only its meaning is kept.
parse_string(s, p) ==
  IF s[p].as = "broken" THEN Refuse("BadEscape", p)
  ELSE Ok([kind |-> "str", char |-> s[p].char], p + 1)

parse_number(s, p) ==
  IF s[p].as # "plain" THEN Refuse("NonConformingNumber", p)
  ELSE Ok([kind |-> "num", int |-> s[p].int], p + 1)

RECURSIVE parse_value(_, _), Items(_, _, _), Pairs(_, _, _)

\* parse_array after "[" or ",".
Items(s, p, items) ==
  LET v == parse_value(s, p)
      q == skip_ws(s, v.pos)
  IN  IF ~v.ok THEN v
      ELSE IF At(s, q) = "," THEN Items(s, q + 1, Append(items, v.value))
      ELSE IF At(s, q) = "]" THEN Ok([kind |-> "arr", items |-> Append(items, v.value)], q + 1)
      ELSE Refuse("Syntax", q)

parse_array(s, p) ==
  LET q == skip_ws(s, p + 1)
  IN  IF At(s, q) = "]" THEN Ok([kind |-> "arr", items |-> <<>>], q + 1) ELSE Items(s, q, <<>>)

Duplicate(pairs, key) == \E i \in 1..Len(pairs) : pairs[i].key = key

\* parse_object after "{" or ",".
Pairs(s, p, pairs) ==
  LET k == skip_ws(s, p)
      key == parse_string(s, k)
      c == skip_ws(s, key.pos)
      v == parse_value(s, c + 1)
      q == skip_ws(s, v.pos)
      more == Append(pairs, [key |-> key.value.char, value |-> v.value])
  IN  IF At(s, k) # "str" THEN Refuse("Syntax", k)
      ELSE IF ~key.ok THEN key
      ELSE IF Duplicate(pairs, key.value.char) THEN Refuse("DuplicateKey", k)
      ELSE IF At(s, c) # ":" THEN Refuse("Syntax", c)
      ELSE IF ~v.ok THEN v
      ELSE IF At(s, q) = "," THEN Pairs(s, q + 1, more)
      ELSE IF At(s, q) = "}" THEN Ok([kind |-> "obj", pairs |-> more], q + 1)
      ELSE Refuse("Syntax", q)

parse_object(s, p) ==
  LET q == skip_ws(s, p + 1)
  IN  IF At(s, q) = "}" THEN Ok([kind |-> "obj", pairs |-> <<>>], q + 1) ELSE Pairs(s, q, <<>>)

parse_value(s, p0) ==
  LET p == skip_ws(s, p0)
  IN  CASE At(s, p) = "{" -> parse_object(s, p)
        [] At(s, p) = "[" -> parse_array(s, p)
        [] At(s, p) = "str" -> parse_string(s, p)
        [] At(s, p) = "num" -> parse_number(s, p)
        [] At(s, p) = "lit" -> Ok([kind |-> "lit", of |-> s[p].of], p + 1)
        [] OTHER -> Refuse("Syntax", p)

Parse(s) ==
  LET v == parse_value(s, 1)
      q == skip_ws(s, v.pos)
  IN  IF ~v.ok THEN v
      ELSE IF q # Len(s) + 1 THEN Refuse("TrailingData", q)
      ELSE Ok(v.value, q)

-----------------------------------------------------------------------------
(* write_canonical: no white space, one spelling, keys in order.           *)

RECURSIVE write_canonical(_)

Joined(parts) ==
  FoldLeft(LAMBDA out, part : IF out = <<>> THEN part ELSE out \o <<P(",")>> \o part, <<>>, parts)

write_canonical(v) ==
  CASE v.kind = "str" -> <<[t |-> "str", char |-> v.char, as |-> "plain"]>>
    [] v.kind = "num" -> <<[t |-> "num", int |-> v.int, as |-> "plain"]>>
    [] v.kind = "lit" -> <<[t |-> "lit", of |-> v.of]>>
    [] v.kind = "arr" ->
         <<P("[")>> \o Joined([i \in 1..Len(v.items) |-> write_canonical(v.items[i])]) \o <<P("]")>>
    [] v.kind = "obj" ->
         LET sorted == SortSeq(v.pairs, LAMBDA a, b : a.key < b.key)
         IN  <<P("{")>> \o
             Joined([i \in 1..Len(sorted) |->
                       <<[t |-> "str", char |-> sorted[i].key, as |-> "plain"], P(":")>>
                         \o write_canonical(sorted[i].value)])
             \o <<P("}")>>

-----------------------------------------------------------------------------

JcsInit == text = <<>>

\* Brackets still to be closed.
Open(s) == Len(SelectSeq(s, LAMBDA t : t.t \in {"{", "["})) - Len(SelectSeq(s, LAMBDA t : t.t \in {"}", "]"}))

\* The text grows while what is there can still become a value within the bound; white space comes
\* one at a time and not last.
Write(token) ==
  /\ Len(text) < MaxTokens
  /\ token.t = "ws" => Len(text) \in 1..(MaxTokens - 2) /\ Last(text).t # "ws"
  /\ LET v == Parse(text) IN v.ok \/ v.pos > Len(text)
  /\ Open(Append(text, token)) <= MaxTokens - Len(text) - 1
  /\ text' = Append(text, token)

JcsNext == \E t \in Token : Write(t)

-----------------------------------------------------------------------------

\* What a value says, without the order of its fields.
RECURSIVE Meaning(_)
Meaning(v) ==
  CASE v.kind = "arr" -> [kind |-> "arr", items |-> [i \in 1..Len(v.items) |-> Meaning(v.items[i])]]
    [] v.kind = "obj" -> [kind |-> "obj",
                          fields |-> {<<v.pairs[i].key, Meaning(v.pairs[i].value)>> : i \in 1..Len(v.pairs)}]
    [] OTHER -> v

\* A content ID names a meaning.  Whatever is accepted has one canonical text, which
\* is itself accepted, says the same and is its own canonical text, and in which no
\* key occurs twice: two texts share a digest exactly when they say the same (jcs.rs:
\* parse refuses duplicate keys, other spellings of a number; canonicalize sorts).
CanonicalIsFaithful ==
  LET v == Parse(text)
      c == write_canonical(v.value)
      w == Parse(c)
  IN  v.ok => /\ w.ok
              /\ Meaning(w.value) = Meaning(v.value)
              /\ write_canonical(w.value) = c
              /\ v.value.kind = "obj" =>
                   /\ write_canonical([v.value EXCEPT !.pairs = Reverse(@)]) = c
                   /\ Cardinality({v.value.pairs[i].key : i \in 1..Len(v.value.pairs)}) = Len(v.value.pairs)

\* An anchor stands for one authentic receipt and one record of the log: what verify
\* let through, and what anchor_receipt then wrote, among racing callers.
AnchorSound == VerifiedIsAuthentic /\ AnchorsVerify
=============================================================================
