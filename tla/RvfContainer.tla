---------------------------- MODULE RvfContainer ----------------------------
(***************************************************************************)
(* The container walk (rvm-rvf: format.rs, container.rs).  A container is  *)
(* a sequence of 64-byte-aligned segments, each a header, a payload and,   *)
(* when SIGNED is set, a signature footer; an optional 4096-byte root page *)
(* may follow.  The walk reads lengths from the bytes themselves, so what  *)
(* matters is which bytes it takes for which.                              *)
(*                                                                         *)
(* Bytes are abstracted to cells.  A header is HEADER cells of which the   *)
(* first carries the fields the walk reads; a footer is one cell with the  *)
(* lengths, then sig_length cells; a root page is PAGE cells that start    *)
(* with a page cell (magic, version, CRC all right).  Any cell may occur   *)
(* anywhere: a payload may hold cells that look like a header or a page.   *)
(***************************************************************************)
EXTENDS Integers, Sequences, FiniteSets, SequencesExt, TLC

CONSTANTS
  HEADER, ALIGN, PAGE,      \* sizes of a header, the alignment, a root page
  MAX_SEGMENTS, MAX_PAYLOAD, MAX_SIGNATURE,
  PayloadLength,            \* payload lengths a header may declare
  SignatureLength,          \* signature lengths a footer may declare
  MaxCells                  \* containers are at most this long

ASSUME ContainerAssumption ==
  /\ HEADER \in Nat \ {0} /\ ALIGN \in Nat \ {0}
  /\ PAGE >= ALIGN          \* 4096 and 64
  /\ PayloadLength \subseteq Nat /\ SignatureLength \subseteq Nat

Zero   == [kind |-> "zero"]
Other  == [kind |-> "other"]
PageCell == [kind |-> "page"]
HeaderCell == [kind : {"header"}, len : PayloadLength, signed : BOOLEAN]
FooterCell == [kind : {"footer"}, sig_length : SignatureLength, consistent : BOOLEAN]
Cell == {Zero, Other, PageCell} \cup HeaderCell \cup FooterCell

VARIABLE container          \* the cells of the buffer
containerVars == container

align_up(n) == ((n + ALIGN - 1) \div ALIGN) * ALIGN

compute_footer_length(sig_length) == 1 + sig_length

-----------------------------------------------------------------------------
(* One segment at offset o (0-based) of d: its parts, or the refusal.      *)

Err(e) == [ok |-> FALSE, error |-> e]

\* SegmentHeader::parse: only a header cell has the magic and the version.
parse(d, o) ==
  IF d[o + 1].kind = "header" THEN [ok |-> TRUE, header |-> d[o + 1]] ELSE Err("BadMagic")

\* decode_signature_footer at cell p, with the walk's own checks of it.  Zero
\* padding decodes as a footer with no signature.
Footer(d, p) ==
  IF p >= Len(d) THEN Err("Truncated")
  ELSE LET c == d[p + 1]
           sig_length == IF c.kind = "footer" THEN c.sig_length ELSE 0
       IN  IF sig_length > MAX_SIGNATURE THEN Err("MalformedFooter")
           ELSE IF p + compute_footer_length(sig_length) > Len(d) THEN Err("Truncated")
           ELSE IF sig_length = 0 THEN Err("SignedFlagWithoutFooter")
           ELSE IF ~c.consistent THEN Err("MalformedFooter")
           ELSE [ok |-> TRUE, end |-> p + compute_footer_length(sig_length)]

Segment(d, o) ==
  LET h == parse(d, o)
      start == o + HEADER
      payload_end == start + h.header.len
      footer == Footer(d, payload_end)
  IN  IF ~h.ok THEN h
      ELSE IF h.header.len > MAX_PAYLOAD THEN Err("PayloadTooLarge")
      ELSE IF payload_end > Len(d) THEN Err("PayloadOutOfBounds")
      ELSE IF h.header.signed /\ ~footer.ok THEN footer
      ELSE [ok |-> TRUE, offset |-> o, payload |-> start, payload_end |-> payload_end,
            end |-> IF h.header.signed THEN footer.end ELSE payload_end]

\* walk_segments from offset o, with the segments found so far.
RECURSIVE WalkFrom(_, _, _)
WalkFrom(d, o, segments) ==
  IF o >= Len(d)
  THEN IF segments = <<>> THEN Err("NoSegments") ELSE [ok |-> TRUE, segments |-> segments]
  ELSE IF Len(d) - o < HEADER
  THEN IF \A i \in (o + 1)..Len(d) : d[i] = Zero
       THEN IF segments = <<>> THEN Err("NoSegments") ELSE [ok |-> TRUE, segments |-> segments]
       ELSE Err("TrailingBytes")
  ELSE IF Len(segments) >= MAX_SEGMENTS THEN Err("TooManySegments")
  ELSE LET s == Segment(d, o)
       IN  IF ~s.ok THEN s
           ELSE IF align_up(s.end) <= o THEN Err("NoForwardProgress")
           ELSE WalkFrom(d, align_up(s.end), Append(segments, s))

walk_segments(d) == IF Len(d) < HEADER THEN Err("Truncated") ELSE WalkFrom(d, 0, <<>>)

-----------------------------------------------------------------------------

is_level0_page(d, start) == start >= 0 /\ d[start + 1] = PageCell

\* split_root_page: where the supposed page starts, or the end.
split_root_page(d) ==
  IF Len(d) >= PAGE + HEADER /\ is_level0_page(d, Len(d) - PAGE) THEN Len(d) - PAGE ELSE Len(d)

\* The guess is final: a bug that never falls back.
BugWalkContainer(d) ==
  LET at == split_root_page(d)
      body == walk_segments(SubSeq(d, 1, at))
  IN  IF body.ok THEN [ok |-> TRUE, segments |-> body.segments, page |-> at] ELSE body

\* walk_container: the page is a guess, dropped when the body does not tile.
walk_container(d) ==
  LET at == split_root_page(d)
      body == walk_segments(SubSeq(d, 1, at))
      whole == walk_segments(d)
  IN  IF body.ok THEN [ok |-> TRUE, segments |-> body.segments, page |-> at]
      ELSE IF at < Len(d) /\ whole.ok THEN [ok |-> TRUE, segments |-> whole.segments, page |-> Len(d)]
      ELSE body

-----------------------------------------------------------------------------
(* The buffer is built cell by cell, as the bytes of a file are.           *)

ContainerInit == container = <<>>

Put(cell) ==
  /\ Len(container) < MaxCells
  /\ container' = Append(container, cell)

ContainerNext == \E c \in Cell : Put(c)

-----------------------------------------------------------------------------

\* A set of offsets at which the segments could lie: the first at 0, each next
\* one at the aligned end of the one before, the last reaching the end of the
\* first n cells up to padding.  It says nothing of how the walk finds them.
Tiles(offsets, d, n) ==
  /\ 0 \in offsets
  /\ \A o \in offsets :
       LET s == Segment(SubSeq(d, 1, n), o)
       IN  /\ o + HEADER <= n /\ s.ok
           /\ \/ align_up(s.end) \in offsets
              \/ \A i \in (align_up(s.end) + 1)..n : d[i] = Zero /\ n - align_up(s.end) < HEADER
           /\ \A p \in offsets : p > o => p >= align_up(s.end)
           /\ s.end - s.payload_end # 1

\* The readings of the buffer: segments that tile it up to the supposed page, or all of it.
Tilings(n) ==
  {T \in SUBSET {o \in 0..(Len(container) - 1) : o % ALIGN = 0} :
     Cardinality(T) <= MAX_SEGMENTS /\ n >= HEADER /\ Tiles(T, container, n)}
Readings == UNION {Tilings(n) \X {n} : n \in {split_root_page(container), Len(container)}}

\* The walk reads what is there.  It accepts a buffer exactly when segments tile the
\* whole of it, or tile it up to a root page, each SIGNED one with a real signature;
\* what it returns is such a tiling; and the guess about the page (container.rs:
\* walk_container) chooses between two of them only where the page starts off every
\* segment boundary, and then for the page.
WalkReadsTheBuffer ==
  LET at == split_root_page(container)
      w == walk_container(container)
  IN  /\ w.ok <=> Readings # {}
      /\ w.ok => <<{w.segments[k].offset : k \in 1..Len(w.segments)}, w.page>> \in Readings
      /\ \A n \in {at, Len(container)} : Cardinality(Tilings(n)) <= 1
      /\ Cardinality(Readings) > 1 => at % ALIGN # 0 /\ w.page = at

\* "A real page always starts on a segment boundary, so when it is a page the split walk
\* succeeds and this arm never runs." (container.rs:163-164): when the walk up to the page
\* succeeds, it is a page, and the segments have no other reading.
OneReading == walk_container(container).ok => Cardinality(Readings) = 1

-----------------------------------------------------------------------------
(***************************************************************************)
(* Buffered verification of a package and the capabilities it is given     *)
(* (rvm-rvf: verify.rs, report.rs, policy.rs, capability.rs, hash.rs, and  *)
(* the type codes and the signed message of format.rs).                    *)
(*                                                                         *)
(* A segment is what the container walk returns, its bytes reduced to what *)
(* the checks tell apart: a payload is a record of its declarations (META) *)
(* or its module form (WASM), a content hash is the payload it was taken   *)
(* of, and a signature is the key and the message it was made with.  An    *)
(* author builds and signs segments; afterwards any field of a segment may *)
(* change before the package is verified.                                  *)
(***************************************************************************)

CONSTANTS
  Payload,          \* payload contents: [len, classes, stream, form, tag]
  Key, trusted_keys,
  SegType,          \* the segment types a package uses
  Encrypted,        \* whether its segments are written encrypted
  Policy,           \* [runtime, model, state, memory, container, segments] limits
  NoIdentity, NoSignature,
  MAX_BYTES,        \* u64::MAX
  SLOTS,            \* slots of the capability table
  MaxSegments, MaxAlterations

ASSUME ReportAssumption ==
  /\ trusted_keys \subseteq Key /\ Encrypted \subseteq BOOLEAN
  /\ SLOTS \in Nat /\ MaxSegments \in Nat
  /\ \A p \in Payload : p.len \in 0..MAX_BYTES

VARIABLES
  package,          \* the segments of the container, in order
  authored,         \* segments some author signed, as they were signed
  alterations,      \* how many fields changed since
  opts,             \* VerifyOptions
  report,           \* the last VerificationReport
  table             \* live root capabilities: <<owner, class>> pairs

reportVars == <<package, authored, alterations, opts, report, table>>

-----------------------------------------------------------------------------
(* format.rs *)

EXECUTABLE_SEGMENT_TYPES == {"kernel", "ebpf", "wasm"}
is_executable(s) == s.type \in EXECUTABLE_SEGMENT_TYPES

segment_class(type) ==
  CASE type \in EXECUTABLE_SEGMENT_TYPES -> "runtime"
    [] type \in {"vec", "index", "quant", "hot", "sketch"} -> "model"
    [] type \in {"overlay", "journal", "cowmap", "refcount", "membership", "delta"} -> "state"
    [] OTHER -> "memory"

\* What a signature covers: the first 40 bytes of the header, the content hash
\* and the SHAKE hash of the payload.
build_signed_message(s) ==
  [id |-> s.id, type |-> s.type, signed |-> s.signed, encrypted |-> s.encrypted,
   len |-> s.payload.len, hash |-> s.hash, payload |-> s.payload]

verify_content_hash(s) == s.hash = s.payload

-----------------------------------------------------------------------------
(* policy.rs *)

Saturating(n) == IF n > MAX_BYTES THEN MAX_BYTES ELSE n

tally(segments, class) ==
  FoldLeft(LAMBDA n, s : IF segment_class(s.type) = class THEN Saturating(n + s.payload.len) ELSE n,
           0, segments)

check_sizes(segments) ==
  /\ FoldLeft(LAMBDA n, s : n + s.payload.len, 0, segments) <= Policy.container
  /\ Len(segments) <= Policy.segments
  /\ \A class \in {"runtime", "model", "state", "memory"} :
       tally(segments, class) <= Policy[class]

-----------------------------------------------------------------------------
(* capability.rs *)

CapabilityClass ==
  {"memory", "filesystem", "network", "model", "mcp", "process", "clock", "randomness",
   "gpu", "sensor", "display", "audio", "clipboard", "persistent-state",
   "inter-agent-messaging"}

\* rvm_binding: the object, the rights and the device a class stands for.
rvm_binding(class) ==
  LET RW == {"READ", "WRITE"}
      B(cap_type, rights, device) == [ok |-> TRUE, cap_type |-> cap_type, rights |-> rights,
                                      device |-> device]
  IN  CASE class \in {"memory", "persistent-state"} -> B("Region", RW, "none")
        [] class = "model" -> B("Region", {"READ"}, "none")
        [] class \in {"mcp", "inter-agent-messaging"} -> B("CommEdge", RW, "none")
        [] class = "process" -> B("Partition", {"WRITE"}, "none")
        [] class = "filesystem" -> B("Device", RW, "Storage")
        [] class = "network" -> B("Device", RW, "Network")
        [] class = "gpu" -> B("Device", RW, "Graphics")
        [] class = "display" -> B("Device", {"WRITE"}, "Graphics")
        [] class = "clock" -> B("Device", {"READ"}, "Timer")
        [] class = "sensor" -> B("Device", {"READ"}, "Generic")
        [] class = "audio" -> B("Device", RW, "Generic")
        [] OTHER -> [ok |-> FALSE]

\* The META payloads the report reads: encrypted ones are not read.
plaintext_meta(segments) ==
  {s.payload : s \in {t \in ToSet(segments) : t.type = "meta" /\ ~t.encrypted}}

declared_classes_in(metas) == UNION {p.classes : p \in metas} \cap CapabilityClass
has_unknown_class_name_in(metas) == ~(UNION {p.classes : p \in metas} \subseteq CapabilityClass)
declares_stream_profile(metas) == \E p \in metas : p.stream

\* map_declared: all or nothing.
map_declared(declared) ==
  IF \A c \in declared : rvm_binding(c).ok THEN [ok |-> TRUE, granted |-> declared]
  ELSE [ok |-> FALSE, granted |-> {}]

capability_record(metas) ==
  IF has_unknown_class_name_in(metas) THEN [ok |-> FALSE, granted |-> {}]
  ELSE map_declared(declared_classes_in(metas))

-----------------------------------------------------------------------------
(* report.rs: the outcome of each check is Pass, Skip or Fail *)

outcome(passed) == IF passed THEN "Pass" ELSE "Fail"

root_manifest_record(segments) == outcome(\E k \in 1..Len(segments) : segments[k].type = "manifest")

stream_profile_record(o) ==
  outcome(o.permit_buffered_stream_profile /\ o.expected_identity # NoIdentity)

identity_records(segments, o) ==
  (IF o.require_pinned_identity /\ o.expected_identity = NoIdentity THEN {"Fail"} ELSE {})
  \cup (IF o.expected_identity # NoIdentity THEN {outcome(o.expected_identity = segments)} ELSE {})

executable_signed_record(s, o) ==
  IF s.signed THEN "Pass" ELSE IF o.allow_unsigned_executable THEN "Skip" ELSE "Fail"

wasm_header_record(s) ==
  IF s.type = "wasm" /\ ~s.encrypted /\ s.payload.form = "rejected" THEN "Fail" ELSE "Pass"

signature_record(s, o) ==
  IF s.sig = NoSignature THEN "Fail"
  ELSE IF s.algo # "ed25519" THEN IF is_executable(s) THEN "Fail" ELSE "Skip"
  ELSE IF trusted_keys = {}
  THEN IF is_executable(s) /\ ~o.allow_unsigned_executable THEN "Fail" ELSE "Skip"
  ELSE outcome(s.sig.key \in trusted_keys /\ s.sig.message = build_signed_message(s))

segment_records(s, o) ==
  {outcome(verify_content_hash(s)), wasm_header_record(s)}
  \cup (IF is_executable(s) THEN {executable_signed_record(s, o)} ELSE {})
  \cup (IF s.signed THEN {signature_record(s, o)} ELSE {})

build_report(segments, o) ==
  LET metas == plaintext_meta(segments)
      caps == capability_record(metas)
      records == identity_records(segments, o)
                 \cup {root_manifest_record(segments), outcome(check_sizes(segments)), outcome(caps.ok)}
                 \cup (IF declares_stream_profile(metas) THEN {stream_profile_record(o)} ELSE {})
                 \cup UNION {segment_records(s, o) : s \in ToSet(segments)}
  IN  [present |-> TRUE, ok |-> "Fail" \notin records, identity_confirmed |-> TRUE,
       identity |-> segments, capabilities |-> caps.granted,
       executables |-> {[id |-> s.id, type |-> s.type, payload |-> s.payload] :
                        s \in {t \in ToSet(segments) : is_executable(t)}}]

admissible(r) == r.present /\ r.ok /\ r.identity_confirmed

-----------------------------------------------------------------------------
(* Actions *)

NoReport == [present |-> FALSE, capabilities |-> {}]

VerifyOptions == [allow_unsigned_executable : BOOLEAN, expected_identity : {NoIdentity},
                  permit_buffered_stream_profile : BOOLEAN, require_pinned_identity : BOOLEAN]

ReportInit ==
  /\ package = <<>> /\ authored = {} /\ alterations = 0 /\ report = NoReport /\ table = {}
  /\ opts \in VerifyOptions

\* An author appends a segment, signed with a key or not.
AddSegment(type, payload, encrypted, key) ==
  LET signed == key # NoSignature
      bare == [id |-> Len(package) + 1, type |-> type, signed |-> signed, encrypted |-> encrypted,
               hash |-> payload, payload |-> payload, algo |-> "ed25519"]
      sig == IF signed THEN [key |-> key, message |-> build_signed_message(bare)] ELSE NoSignature
  IN  /\ ~report.present /\ Len(package) < MaxSegments
      /\ package' = Append(package, [sig |-> sig] @@ bare)
      /\ authored' = IF signed THEN authored \cup {[key |-> key, segment |-> bare]} ELSE authored
      /\ UNCHANGED <<alterations, opts, report, table>>

\* One field of one segment is not what was written.
Altered(s) ==
  {[s EXCEPT !.type = t] : t \in SegType} \cup {[s EXCEPT !.payload = p] : p \in Payload}
  \cup {[s EXCEPT !.payload = p, !.hash = p] : p \in Payload}
  \cup {[s EXCEPT !.encrypted = ~s.encrypted], [s EXCEPT !.algo = "other"],
        [s EXCEPT !.signed = FALSE, !.sig = NoSignature]}

Alter ==
  /\ ~report.present /\ Len(package) = MaxSegments /\ alterations < MaxAlterations
  /\ alterations' = alterations + 1
  /\ \E k \in 1..Len(package) : \E s \in Altered(package[k]) :
       package' = [package EXCEPT ![k] = s]
  /\ UNCHANGED <<authored, opts, report, table>>

\* VerifyOptions::expect_identity: the host pins the package it was given.
expect_identity ==
  /\ ~report.present /\ Len(package) = MaxSegments
  /\ opts' = [opts EXCEPT !.expected_identity = package]
  /\ UNCHANGED <<package, authored, alterations, report, table>>

verify ==
  /\ ~report.present /\ Len(package) = MaxSegments
  /\ report' = build_report(package, opts)
  /\ UNCHANGED <<package, authored, alterations, opts, table>>

\* install_tracked: a root capability for each binding in turn; when the table
\* fills up, the ones already inserted are removed again.
Installed(t, new) == IF Cardinality(t) + Cardinality(new) <= SLOTS THEN t \cup new ELSE t

install_report(owner) ==
  LET new == {<<owner, c>> : c \in report.capabilities}
  IN  /\ admissible(report)
      /\ \A e \in table : e[1] # owner
      /\ table' = Installed(table, new)
      /\ UNCHANGED <<package, authored, alterations, opts, report>>

ReportNext ==
  \/ \E t \in SegType, p \in Payload, e \in Encrypted, k \in Key \cup {NoSignature} : AddSegment(t, p, e, k)
  \/ Alter \/ expect_identity \/ verify \/ \E o \in {1, 2} : install_report(o)

-----------------------------------------------------------------------------

\* Code runs only as its author signed it.  A package that verification admits under
\* the default policy (unsigned executables refused) has every executable segment,
\* with the type, flags, hash and payload it now has, signed by a trusted key
\* (report.rs: executable_signed_record, signature_record; format.rs:
\* build_signed_message), whatever was altered in between.
AdmittedCodeTrusted ==
  admissible(report) /\ ~opts.allow_unsigned_executable =>
    \A k \in 1..Len(package) : is_executable(package[k]) =>
      \E a \in authored : /\ a.key \in trusted_keys
                          /\ \A f \in DOMAIN a.segment \ {"algo"} : a.segment[f] = package[k][f]

\* Capabilities come whole.  Every owner holds all the classes the admitted package
\* declares, or none; and none that a META segment in clear does not declare
\* (capability.rs: install_tracked gives back what it took when the table is full).
GrantsAreDeclared ==
  \A o \in {1, 2} :
    LET held == {e[2] : e \in {x \in table : x[1] = o}}
    IN  held \in {{}, report.capabilities} /\
        (held # {} => admissible(report) /\ \A c \in held : \E p \in plaintext_meta(package) : c \in p.classes)
=============================================================================
