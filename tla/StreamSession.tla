---------------------------- MODULE StreamSession ----------------------------
(***************************************************************************)
(* A streaming launch session (rvm-launch, StreamSession) with the layers  *)
(* below it: the frame reader, the StreamVerifier that checks each frame   *)
(* against a signed descriptor, and the StreamAdmission that checks the    *)
(* segments the released chunks make up (rvm-rvf, stream/).  The sender is *)
(* arbitrary: frames come in any order, again, cut, forged or never.       *)
(*                                                                         *)
(* The descriptor is a constant: its entries are the segments, in body     *)
(* order.  Lengths count chunks.  SHA-256 is perfect: a chunk is authentic *)
(* or it is not.  What is inside authentic bytes (a well-formed segment, a *)
(* valid module, a report without failures, the promised identity) and the *)
(* answer of the pin store are inputs.  The pin store has a module of its  *)
(* own, PinStore.  The session uses the witnessed form of each operation   *)
(* and never suspends the verifier; the root page entry, which has no      *)
(* segment checker, and the hashing worker thread are left out.            *)
(***************************************************************************)
EXTENDS Integers, Sequences, FiniteSets, FiniteSetsExt

CONSTANTS
  Seg,              \* entries of the descriptor: 1 .. seg_count
  Chunks,           \* chunks of each segment
  Stage,            \* stage of each segment
  Requires,         \* stages that must be verified before a segment
  Wasm,             \* segments that carry a module
  IdentityPresent,  \* FLAG_IDENTITY_PRESENT
  max_table_bytes,  \* leaves of chunk tables kept at once
  max_open,         \* segments open at once
  fault_budget,
  duplicate_cap,
  MaxInstalls       \* bound: calls of install_capabilities

Stages == {Stage[s] : s \in Seg}

\* stages_acyclic: in at most so many rounds as there are stages, each stage whose
\* requirements are done gets done.
StagesAcyclic ==
  LET req(t) == UNION {Requires[s] : s \in {x \in Seg : Stage[x] = t}}
      done[k \in 0 .. Cardinality(Stages)] ==
        IF k = 0 THEN {} ELSE {t \in Stages : req(t) \subseteq done[k - 1]}
  IN  done[Cardinality(Stages)] = Stages

\* parse_table.
TableValid ==
  /\ IsFiniteSet(Seg) /\ Seg = 1 .. Cardinality(Seg) /\ Seg # {}
  /\ \A s \in Seg :
       /\ Chunks[s] \in Nat \ {0}
       /\ Stage[s] \notin Requires[s] /\ Requires[s] \subseteq Stages
       /\ Chunks[s] > 1 => Chunks[s] <= max_table_bytes
  /\ StagesAcyclic

ASSUME DescriptorAssumption ==
  /\ TableValid
  /\ Wasm \subseteq Seg /\ IdentityPresent \in BOOLEAN
  /\ {max_table_bytes, max_open, fault_budget, duplicate_cap, MaxInstalls} \subseteq Nat

VARIABLES
  verifier,         \* StreamVerifier
  admission,        \* StreamAdmission: open checkers, finished segments, report
  session,          \* StreamSession
  sessionLog,              \* the witness records that say how the session went
  released,         \* history: the chunks handed on, per segment
  handed             \* history: modules given to the caller

sessionVars == <<verifier, admission, session, sessionLog, released, handed>>

Offset(s) == MapThenSumSet(LAMBDA x : Chunks[x], {x \in Seg : x < s})
BodyLen == MapThenSumSet(LAMBDA x : Chunks[x], Seg)

NoTracker == [pos |-> 0, feasible |-> FALSE, present |-> FALSE]

\* The values install sets are there from the start, and unused before the
\* descriptor is (desc).
NewVerifier ==
  [state |-> "AwaitDescriptor", desc |-> FALSE, next |-> [s \in Seg |-> 0], leaves |-> {}, done |-> {},
   stage_remaining |-> [t \in Stages |-> Cardinality({s \in Seg : Stage[s] = t})],
   left |-> Cardinality(Seg), table_bytes |-> 0, faults |-> 0, duplicates_ignored |-> 0,
   identity |-> [pos |-> 0, feasible |-> TRUE, present |-> IdentityPresent],
   identity_status |-> "none"]

\* StreamEvent: what of the records matters here.
NoEvents == [segments |-> {}, validated |-> {}, poisoned |-> 0, complete |-> 0, refused |-> FALSE]

NewAdmission == [open |-> {}, done |-> {}, report |-> "none"]

SessionInit ==
  /\ verifier = NewVerifier
  /\ admission = NewAdmission
  /\ session = [state |-> "Receiving", exec |-> {}, ready |-> {}, package |-> FALSE,
                installed |-> 0, obligation_issued |-> FALSE]
  /\ sessionLog = NoEvents
  /\ released = [s \in Seg |-> <<>>]
  /\ handed = [s \in Seg |-> 0]

-----------------------------------------------------------------------------
(* Faults and poison. *)

\* The states a late frame can turn into Poisoned.
Poisonable == {"AwaitDescriptor", "Ready", "Receiving", "Poisoned"}

ForcePoison(v) == [v EXCEPT !.state = "Poisoned", !.identity = NoTracker]

Poison(v) == IF v.state \in Poisonable THEN ForcePoison(v) ELSE v

Fault(v) ==
  LET f == [v EXCEPT !.faults = @ + 1]
  IN  IF f.faults > fault_budget THEN Poison(f) ELSE f

CountDuplicate(v) ==
  LET d == [v EXCEPT !.duplicates_ignored = @ + 1]
  IN  IF d.duplicates_ignored > duplicate_cap THEN Poison(d) ELSE d

\* push: the first frame that is accepted starts reception.
Started(v) == IF v.state = "Ready" THEN [v EXCEPT !.state = "Receiving"] ELSE v

-----------------------------------------------------------------------------
(* A chunk at the verifier (chunk.rs). *)

\* "unfit" is an authentic first chunk of an executable segment that does not begin
\* with a header of that type, or one with a weak checksum.
Contents(s, i) ==
  {"authentic", "forged", "wrong_length"} \cup (IF i = 0 /\ s \in Wasm THEN {"unfit"} ELSE {})

RequirementsMet(v, s) == \A t \in Requires[s] : v.stage_remaining[t] = 0

\* on_duplicate_chunk: a repeat of a finished multi-chunk segment cannot be checked.
OnDuplicate(v, s, content) ==
  IF content = "wrong_length" THEN Poison(v)
  ELSE IF content = "forged" /\ (s \in v.leaves \/ Chunks[s] = 1) THEN Fault(v)
  ELSE Started(CountDuplicate(v))

\* admit_chunk.
Admits(v, s, i, content) ==
  /\ s \notin v.done /\ i = v.next[s]
  /\ Chunks[s] = 1 \/ s \in v.leaves
  /\ RequirementsMet(v, s)
  /\ content = "authentic"

\* The order of the checks decides between a fault and poison.
Refused(v, s, i, content) ==
  IF s \in v.done \/ i # v.next[s] THEN Fault(v)
  ELSE IF content = "wrong_length" THEN Poison(v)
  ELSE IF (Chunks[s] > 1 /\ s \notin v.leaves) \/ ~RequirementsMet(v, s) \/ content = "forged"
    THEN Fault(v)
  ELSE Poison(v)

Tracked(t, s, i) ==
  IF t.present /\ t.feasible /\ t.pos = Offset(s) + i THEN [t EXCEPT !.pos = @ + 1]
  ELSE [t EXCEPT !.feasible = FALSE]

\* completion_status; matches: the body has the identity the descriptor promises.
CompletionStatus(t, matches) ==
  IF ~t.present THEN "NotPresent"
  ELSE IF ~(t.feasible /\ t.pos = BodyLen) THEN "Unverifiable"
  ELSE IF matches THEN "Verified" ELSE "IdentityMismatch"

CompletesSegment(v, s) == v.next[s] + 1 = Chunks[s]
CompletesStream(v, s) == CompletesSegment(v, s) /\ v.left = 1

SegmentDone(v, s) ==
  [v EXCEPT !.done = @ \cup {s}, !.leaves = @ \ {s}, !.left = @ - 1,
            !.table_bytes = IF s \in v.leaves THEN @ - Chunks[s] ELSE @,
            !.stage_remaining[Stage[s]] = @ - 1]

Advanced(v, s) ==
  LET n == [v EXCEPT !.next[s] = @ + 1]
  IN  IF CompletesSegment(v, s) THEN SegmentDone(n, s) ELSE n

\* on_chunk for a chunk that admit_chunk lets pass.
Accepted(v, s, i, matches) ==
  LET t      == [v EXCEPT !.identity = Tracked(@, s, i)]
      status == CompletionStatus(t.identity, matches)
  IN  IF ~CompletesStream(v, s) THEN Started(Advanced(t, s))
      ELSE IF status = "IdentityMismatch" THEN Poison(t)
      ELSE [Advanced(t, s) EXCEPT
              !.identity_status = status, !.identity = NoTracker,
              !.state = IF status = "Unverifiable" THEN "CompleteUnverified" ELSE "Complete"]

-----------------------------------------------------------------------------
(* The session after a frame. *)

Receiving == session.state = "Receiving" /\ verifier.state \in {"Ready", "Receiving"}

Discarded(s) == [s EXCEPT !.exec = {}, !.ready = {}, !.package = FALSE]

\* fail.
Failed(s) == [Discarded(s) EXCEPT !.state = "Failed"]

\* check_poisoned and witness_transition.
Settle(v, a, s, l) ==
  /\ verifier' = v
  /\ IF v.state = "Poisoned"
     THEN /\ session' = [Discarded(s) EXCEPT !.state = "Poisoned"]
          /\ admission' = NewAdmission
          /\ sessionLog' = IF verifier.state = "Poisoned" THEN l ELSE [l EXCEPT !.poisoned = @ + 1]
     ELSE session' = s /\ admission' = a /\ sessionLog' = l

\* A frame that releases nothing.
Verdict(v) == Settle(v, admission, session, sessionLog) /\ UNCHANGED <<released, handed>>

\* promote: with the identity verified, and the pin moved, the package is there.
Promoted(v, s) == s.state = "Complete" /\ v.identity_status = "Verified"

Promote(v, a, s, l, pinned) ==
  IF ~Promoted(v, s) THEN Settle(v, a, s, l)
  ELSE IF pinned THEN Settle(v, a, [s EXCEPT !.package = TRUE], [l EXCEPT !.complete = @ + 1])
  ELSE Settle(v, a, Failed(s), [l EXCEPT !.refused = TRUE])

-----------------------------------------------------------------------------
(* Operations. *)

\* The first frame: a descriptor that decode_descriptor accepts, one it rejects, or
\* something else.
install(v) == [v EXCEPT !.state = "Ready", !.desc = TRUE]

PushDescriptor(ok) ==
  /\ session.state = "Receiving" /\ verifier.state = "AwaitDescriptor"
  /\ verifier' = IF ok THEN install(verifier) ELSE [verifier EXCEPT !.state = "Rejected"]
  /\ sessionLog' = IF ok THEN sessionLog ELSE [sessionLog EXCEPT !.refused = TRUE]
  /\ UNCHANGED <<admission, session, released, handed>>

PushUnexpectedFirst ==
  /\ session.state = "Receiving" /\ verifier.state = "AwaitDescriptor"
  /\ Verdict(Poison(verifier))

\* A frame of an unknown kind or for an unknown segment, or another descriptor.
PushUnexpected == Receiving /\ Verdict(Fault(verifier))

\* The descriptor again.
PushDuplicateDescriptor == Receiving /\ Verdict(Started(CountDuplicate(verifier)))

\* The reader refuses a frame by its header: too large for the descriptor, or of no
\* known kind.
ReaderRefuses ==
  /\ verifier.state \in {"AwaitDescriptor", "Ready", "Receiving"} /\ session.state # "Failed"
  /\ Verdict(Poison(verifier))

\* on_table.
PushTable(s, content) ==
  /\ Receiving
  /\ Verdict(
       IF Chunks[s] = 1 \/ s \in verifier.leaves \/ s \in verifier.done THEN Fault(verifier)
       ELSE IF content = "wrong_length" THEN Poison(verifier)
       ELSE IF verifier.table_bytes + Chunks[s] > max_table_bytes \/ content # "authentic"
         THEN Fault(verifier)
       ELSE Started([verifier EXCEPT !.leaves = @ \cup {s}, !.table_bytes = @ + Chunks[s]]))

PushDuplicate(s, i, content) ==
  /\ Receiving /\ i < verifier.next[s] /\ content # "unfit"
  /\ Verdict(OnDuplicate(verifier, s, content))

PushRefused(s, i, content) ==
  /\ Receiving /\ i >= verifier.next[s] /\ ~Admits(verifier, s, i, content)
  /\ Verdict(Refused(verifier, s, i, content))

\* The last chunk of a body that is not the one the descriptor promises.
PushMismatch(s, i, content) ==
  /\ Receiving /\ i >= verifier.next[s] /\ Admits(verifier, s, i, content)
  /\ Accepted(verifier, s, i, FALSE).state = "Poisoned"
  /\ Verdict(Accepted(verifier, s, i, FALSE))

\* finish_report takes the finished segments out and keeps what build_report finds.
finish_report(a, report) == [a EXCEPT !.done = {}, !.report = report]

\* admit: what the admission has after the chunk.
AdmissionAfter(v, s, report) ==
  LET a == [admission EXCEPT
              !.open = IF s \in v.done THEN @ \ {s} ELSE @ \cup {s},
              !.done = @ \cup ({s} \cap v.done)]
  IN  IF v.left = 0 THEN finish_report(a, report) ELSE a

OpenLimit(s, i) == i = 0 /\ Cardinality(admission.open) >= max_open

\* fail of the admission, with discard_derived_state in Settle.
AdmissionFails(v) == ForcePoison(v)

\* A chunk the verifier releases and the admission refuses: too many open segments,
\* a malformed segment, or a descriptor without identity.
PushInadmissible(s, i, content) ==
  /\ Receiving /\ i >= verifier.next[s] /\ Admits(verifier, s, i, content)
  /\ LET v == Accepted(verifier, s, i, TRUE) IN
       Settle(AdmissionFails(v), admission, session, sessionLog)
  /\ released' = [released EXCEPT ![s] = Append(@, <<i, content>>)]
  /\ UNCHANGED handed

\* feed_module: the module's bytes so far.
ModuleFed(v, s) ==
  IF s \notin Wasm THEN session
  ELSE IF s \in v.done
    THEN [session EXCEPT !.exec = @ \ {s}, !.ready = @ \cup {s}]
  ELSE [session EXCEPT !.exec = @ \cup {s}]

\* push_witnessed_with: a record for each finished segment.
SegmentWitnessed(v, s) == IF s \in v.done THEN [sessionLog EXCEPT !.segments = @ \cup {s}] ELSE sessionLog

\* A chunk that goes all the way; module: the validator accepts what it got so far,
\* report: what build_report finds, pinned: what the pin store answers.
PushChunk(s, i, content, module, report, pinned) ==
  /\ Receiving /\ i >= verifier.next[s] /\ Admits(verifier, s, i, content)
  /\ ~OpenLimit(s, i)
  /\ LET v == Accepted(verifier, s, i, TRUE)
         a == AdmissionAfter(v, s, report)
         l == SegmentWitnessed(v, s)
         m == IF s \in v.done \cap Wasm THEN [l EXCEPT !.validated = @ \cup {s}] ELSE l
     IN  /\ v.identity_status # "NotPresent"
         /\ IF s \in Wasm /\ ~module THEN Settle(v, a, Failed(session), l)
            ELSE IF v.left > 0 THEN Settle(v, a, ModuleFed(v, s), m)
            ELSE IF report # "ok" THEN Settle(v, a, Failed(session), m)
            ELSE Promote(v, a, [ModuleFed(v, s) EXCEPT !.state = "Complete"], m, pinned)
  /\ released' = [released EXCEPT ![s] = Append(@, <<i, content>>)]
  /\ UNCHANGED handed

\* finish_identity over a body that is the streamed one and has the identity, or not.
BugFinishIdentity(confirmed, pinned) ==
  /\ verifier.state \in {"Complete", "CompleteUnverified"}
  /\ IF confirmed
     THEN Promote([verifier EXCEPT !.identity_status = "Verified", !.state = "Complete"],
                  admission, session, sessionLog, pinned)
     ELSE Settle(ForcePoison(verifier), admission, session, sessionLog)
  /\ UNCHANGED <<released, handed>>

FinishIdentity(confirmed, pinned) ==
  /\ verifier.state = "CompleteUnverified" /\ verifier.identity_status = "Unverifiable"
  /\ IF confirmed
     THEN Promote([verifier EXCEPT !.identity_status = "Verified", !.state = "Complete"],
                  admission, session, sessionLog, pinned)
     ELSE Settle(ForcePoison(verifier), admission, session, sessionLog)
  /\ UNCHANGED <<released, handed>>

\* take_module.
BugMayTake(s) == session.state = "Complete" /\ s \in session.ready

MayTake(s) ==
  /\ session.state = "Complete" /\ verifier.identity_status = "Verified"
  /\ s \in session.ready

SessionTakeModule(s) ==
  /\ MayTake(s)
  /\ session' = [session EXCEPT !.ready = @ \ {s}]
  /\ handed' = [handed EXCEPT ![s] = @ + 1]
  /\ UNCHANGED <<verifier, admission, sessionLog, released>>

\* take_module_witnessed, when a newer pin forbids it.
TakeModuleStale ==
  /\ session.state = "Complete" /\ verifier.identity_status = "Verified"
  /\ sessionLog' = [sessionLog EXCEPT !.refused = TRUE]
  /\ UNCHANGED <<verifier, admission, session, released, handed>>

InstallCapabilities ==
  /\ session.state = "Complete" /\ verifier.identity_status = "Verified" /\ session.package
  /\ session.installed < MaxInstalls
  /\ session' = [session EXCEPT !.installed = @ + 1]
  /\ UNCHANGED <<verifier, admission, sessionLog, released, handed>>

\* take_obligation: poison after an authenticated descriptor leaves one.
TakeObligation ==
  /\ session.state = "Poisoned" /\ ~session.obligation_issued /\ verifier.desc
  /\ session' = [session EXCEPT !.obligation_issued = TRUE, !.installed = 0]
  /\ UNCHANGED <<verifier, admission, sessionLog, released, handed>>

Index == UNION {0 .. Chunks[s] : s \in Seg}

SessionNext ==
  \/ \E ok \in BOOLEAN : PushDescriptor(ok)
  \/ PushUnexpectedFirst \/ PushUnexpected \/ PushDuplicateDescriptor \/ ReaderRefuses
  \/ \E s \in Seg : \E content \in Contents(s, 1) : PushTable(s, content)
  \/ \E s \in Seg, i \in Index : \E content \in Contents(s, i) :
       \/ PushDuplicate(s, i, content)
       \/ PushRefused(s, i, content)
       \/ PushMismatch(s, i, content)
       \/ PushInadmissible(s, i, content)
       \/ \E module, pinned \in BOOLEAN, report \in {"ok", "failing"} :
            PushChunk(s, i, content, module, report, pinned)
  \/ \E confirmed, pinned \in BOOLEAN : FinishIdentity(confirmed, pinned)
  \/ \E s \in Seg : SessionTakeModule(s)
  \/ TakeModuleStale \/ InstallCapabilities \/ TakeObligation

SessionSpec == SessionInit /\ [][SessionNext]_sessionVars

-----------------------------------------------------------------------------
(* Properties. *)

Whole(s) == [k \in 1 .. Chunks[s] |-> <<k - 1, "authentic">>]

(* What leaves the verifier for a segment is a prefix of the segment, each *)
(* chunk once, in order and authentic, whatever was sent before; and the   *)
(* first chunk of a segment only after all of every stage it requires      *)
(* (on_chunk, admit_chunk, on_duplicate_chunk).                            *)
ReleasedInOrder ==
  \A s \in Seg :
    /\ released[s] = SubSeq(Whole(s), 1, Len(released[s]))
    /\ released[s] # <<>> =>
         \A x \in Seg : Stage[x] \in Requires[s] => released[x] = Whole(x)

(* The counters the verifier decides by never drift from the segments they *)
(* count, over faults, repeats and poison: chunks of a segment, segments   *)
(* left, and segments left of a stage.                                     *)
CountersExact ==
  /\ verifier.left = Cardinality(Seg \ verifier.done)
  /\ \A t \in Stages :
       verifier.stage_remaining[t] = Cardinality({s \in Seg \ verifier.done : Stage[s] = t})
  /\ \A s \in Seg : s \in verifier.done <=> verifier.next[s] = Chunks[s]

(* The leaves held against the limit are those of the tables kept, over    *)
(* repeats, refused tables and tables freed with their segment.            *)
TablesExact ==
  /\ verifier.table_bytes = MapThenSumSet(LAMBDA s : Chunks[s], verifier.leaves)
  /\ verifier.table_bytes <= max_table_bytes

(* A stream that still receives can always be finished by an honest sender *)
(* that knows what has arrived: some authentic frame is accepted, although *)
(* segments wait for stages, chunks for tables and open segments for a     *)
(* place.  (A table of a segment others wait for fits beside theirs here.) *)
NeverWedged ==
  Receiving =>
    \E s \in Seg \ verifier.done :
      /\ RequirementsMet(verifier, s)
      /\ \/ Chunks[s] = 1 \/ s \in verifier.leaves
         \/ verifier.table_bytes + Chunks[s] <= max_table_bytes
      /\ ~OpenLimit(s, verifier.next[s])

(* A session that has handed out a module or installed a capability is     *)
(* complete with its identity verified and stays so: it is never poisoned  *)
(* or failed afterwards, so no obligation has anything to take back; a     *)
(* module is handed out once and whole.  A failed or poisoned session      *)
(* holds nothing.                                                          *)
HandedOutIsFinal ==
  /\ (session.installed > 0 \/ \E s \in Seg : handed[s] > 0) =>
       /\ session.state = "Complete" /\ session.package
       /\ verifier.state = "Complete" /\ verifier.identity_status = "Verified"
  /\ \A s \in Seg : handed[s] > 0 => handed[s] = 1 /\ s \notin session.ready /\ released[s] = Whole(s)
  /\ session.state \in {"Failed", "Poisoned"} =>
       session.exec = {} /\ session.ready = {} /\ ~session.package

(* The records say how the session ended: StreamPoisoned once if the       *)
(* stream is poisoned, StreamComplete once if there is a package, never    *)
(* both, a segment or module only if it was verified; a complete stream    *)
(* whose checks passed fails only with a refusal on record or a module     *)
(* that did not validate (witness.rs, promote: ADR-160 note 22).           *)
WitnessTellsOutcome ==
  /\ sessionLog.poisoned = IF verifier.state = "Poisoned" THEN 1 ELSE 0
  /\ sessionLog.complete = IF session.package THEN 1 ELSE 0
  /\ sessionLog.segments \subseteq verifier.done
  /\ session.ready \subseteq sessionLog.validated
  /\ session.package => sessionLog.segments = Seg
  /\ verifier.state = "Rejected" => sessionLog.refused
  /\ (session.state = "Failed" /\ admission.report = "ok" /\ verifier.state = "Complete") =>
       sessionLog.refused \/ Wasm \ sessionLog.validated # {}

(* A streaming session hands on what was sent, in order and whole, decides *)
(* by exact counts, and its end is final and on record (verifier.rs,       *)
(* chunk.rs, stream.rs).                                                   *)
SessionSound == ReleasedInOrder /\ CountersExact /\ HandedOutIsFinal /\ WitnessTellsOutcome

(* A completed stream stays completed: no frame, repeat, size lie or late  *)
(* re-verification changes its verifier again (poison_at).                 *)
CompleteIsFinal == [][verifier.state = "Complete" => verifier' = verifier]_sessionVars
=============================================================================
