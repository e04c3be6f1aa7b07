---------------------------- MODULE WasmValidator ----------------------------
(***************************************************************************)
(* The streaming module validator (rvm-wasm: streaming.rs, and the limits  *)
(* of module_policy.rs): bytes of a WebAssembly module arrive in chunks of *)
(* any size and are parsed as they come.                                   *)
(*                                                                         *)
(* A module is a sequence of units, the pieces the parser hands out: a     *)
(* section, the start of the code section, a function body.  A unit is a   *)
(* head (id and size), which tells the size of its body, and the body: what*)
(* it counts (entries of its section, locals, elements of a table), the    *)
(* memories it declares and its imports.  The parser is external: ok says  *)
(* that wasmparser accepts the unit, which it returns when all of its bytes*)
(* are there, and otherwise how many more it knows to be needed.           *)
(***************************************************************************)
EXTENDS Integers, Sequences, FiniteSets, SequencesExt

CONSTANTS
  Module,           \* the modules streamed: sequences of units
  Chunk,            \* chunk sizes
  max_module_bytes, max_section_bytes, max_function_body_bytes,
  HEADER_SLACK,     \* 8: no head is longer
  policy_limit,     \* ModulePolicy: how much of each counted kind a module may have
  import_policy,    \* ModulePolicy::imports
  UNBOUNDED_MEMORY_PAGES,
  NoMaximum, AnyField

\* Limit: what is counted within a unit; bytes have limits of their own.
LimitKind == {"Locals", "Types", "Imports", "Exports", "Functions", "MemoryPages",
              "TableElements", "Globals", "DataSegments", "ElementSegments"}

ASSUME ValidatorAssumption ==
  /\ Chunk \subseteq Nat \ {0}
  /\ policy_limit \in [LimitKind -> Nat] /\ UNBOUNDED_MEMORY_PAGES \in Nat
  /\ import_policy.kind \in {"AllowAll", "DenyAll", "Allowlist", "Predicate"}
  /\ \A m \in Module : \A k \in 1..Len(m) :
       /\ m[k].kind \in {"section", "code", "func"}
       /\ m[k].head \in 1..HEADER_SLACK /\ m[k].body \in Nat
       /\ DOMAIN m[k].counts \subseteq LimitKind \ {"MemoryPages"}

Size(u) == u.head + u.body
Bytes(m) == FoldLeft(LAMBDA n, u : n + Size(u), 0, m)

VARIABLES
  module,           \* the module being sent
  received,         \* bytes pushed
  parsed,           \* units handled; consumed_total is their bytes
  buf,              \* bytes of the next unit kept in the buffer
  need_len,         \* bytes the buffer must hold before the next parse
  code_remaining,   \* function bodies still to come
  verdict           \* "open", "failed", "finished"

validatorVars == <<module, received, parsed, buf, need_len, code_remaining, verdict>>

ValidatorInit ==
  /\ module \in Module
  /\ received = 0 /\ parsed = 0 /\ buf = 0 /\ need_len = 0
  /\ code_remaining = 0
  /\ verdict = "open"

-----------------------------------------------------------------------------

Consumed(m, k) == Bytes(SubSeq(m, 1, k))

\* Function bodies left after k units: set by the start of the code section,
\* counted down by each body.
CodeLeft(m, k) ==
  LET starts == {j \in 1..k : m[j].kind = "code"}
  IN  IF starts = {} THEN 0
      ELSE LET j == CHOOSE j \in starts : \A i \in starts : i <= j
           IN  m[j].count - Cardinality({i \in (j + 1)..k : m[i].kind = "func"})

\* ImportPolicy::allows; an entry without a field name allows the whole module.
allows(i) ==
  \/ import_policy.kind = "AllowAll"
  \/ /\ import_policy.kind = "Allowlist"
     /\ \E a \in import_policy.list : a.module = i.module /\ a.name \in {AnyField, i.name}
  \/ import_policy.kind = "Predicate" /\ i \in import_policy.list

over(count, kind) == count > policy_limit[kind]

\* A memory without a maximum may grow to UNBOUNDED_MEMORY_PAGES.
check_memory(maximum) ==
  ~over(IF maximum = NoMaximum THEN UNBOUNDED_MEMORY_PAGES ELSE maximum, "MemoryPages")

\* Sizes and counts, before wasmparser walks the unit.
precheck(u) ==
  /\ u.kind = "section" => u.body <= max_section_bytes
  /\ u.kind = "func" => u.body <= max_function_body_bytes
  /\ \A kind \in DOMAIN u.counts : ~over(u.counts[kind], kind)
  /\ u.kind = "code" => ~over(u.count, "Functions")

\* handle.
Handled(u) ==
  /\ precheck(u)
  /\ u.ok
  /\ \A i \in u.imports : allows(i)
  /\ \A maximum \in u.memories : check_memory(maximum)

\* Core::run on n bytes from unit k + 1 on: the units it handles.
Complete(m, k, n) ==
  {j \in k..Len(m) : Consumed(m, j) - Consumed(m, k) <= n}
Reached(m, k, n) == CHOOSE j \in Complete(m, k, n) : \A i \in Complete(m, k, n) : i <= j

\* NeedMoreData with r bytes of unit k + 1 at hand: the rest of the head first.
Need(m, k, r) ==
  IF k = Len(m) THEN 1
  ELSE IF r < m[k + 1].head THEN 1
  ELSE Size(m[k + 1]) - r

\* check_wait: what must be buffered for the next unit stays within the limits.
check_wait(m, k, r) ==
  LET total == r + Need(m, k, r)
      limit == IF CodeLeft(m, k) > 0 THEN max_function_body_bytes ELSE max_section_bytes
  IN  /\ Consumed(m, k) + total <= max_module_bytes
      /\ total <= limit + HEADER_SLACK

\* One parse of n bytes that start at unit parsed + 1: the state after it.
Run(n) ==
  LET j == Reached(module, parsed, n)
      rest == n - (Consumed(module, j) - Consumed(module, parsed))
  IN  [ok |-> \A i \in (parsed + 1)..j : Handled(module[i]), units |-> j, rest |-> rest]

ValidatorFail ==
  /\ verdict' = "failed"
  /\ buf' = 0
  /\ UNCHANGED <<module, parsed, need_len, code_remaining>>

\* After a parse: keep the rest and wait, or fail.
SettleVerdict(r, direct) ==
  IF r.ok /\ ((direct /\ r.rest = 0) \/ check_wait(module, r.units, r.rest))
    THEN /\ parsed' = r.units
         /\ buf' = r.rest
         /\ need_len' = IF direct /\ r.rest = 0 THEN need_len
                        ELSE r.rest + Need(module, r.units, r.rest)
         /\ code_remaining' = CodeLeft(module, r.units)
         /\ UNCHANGED <<module, verdict>>
    ELSE ValidatorFail

\* push_inner takes up to want bytes of the chunk at a time while a unit is
\* incomplete, and parses once the buffer holds what is needed; with an empty
\* buffer it parses the caller's bytes directly.  One Push is one such round:
\* a chunk that needs several is several Pushes without a state in between
\* that a caller sees.
Push(n) ==
  /\ verdict = "open"
  /\ received < Bytes(module)
  /\ n <= Bytes(module) - received
  /\ received' = received + n
  /\ IF received + n > max_module_bytes THEN ValidatorFail
     ELSE IF buf = 0 THEN SettleVerdict(Run(n), TRUE)
     ELSE IF buf + n < need_len
       THEN buf' = buf + n /\ UNCHANGED <<module, parsed, need_len, code_remaining, verdict>>
     ELSE /\ n = need_len - buf     \* want
          /\ SettleVerdict(Run(buf + n), FALSE)

\* A push after a failure returns the same error.
PushFailed(n) == verdict = "failed" /\ UNCHANGED validatorVars

\* finish: parse the buffer to the end; nothing may be left over.
finish ==
  /\ verdict = "open"
  /\ received = Bytes(module)
  /\ verdict' = IF Run(buf).ok /\ Run(buf).rest = 0 /\ Run(buf).units = Len(module)
                  THEN "finished" ELSE "failed"
  /\ UNCHANGED <<module, received, parsed, buf, need_len, code_remaining>>

ValidatorNext ==
  \/ \E n \in Chunk : Push(n) \/ PushFailed(n)
  \/ finish

-----------------------------------------------------------------------------

\* What the policy says of a whole module.
Acceptable(m) ==
  /\ Bytes(m) <= max_module_bytes
  /\ \A k \in 1..Len(m) : Handled(m[k])

\* "Any split of the module, including one byte at a time, gives the same
\* verdict" (push): a complete module passes exactly when every unit and the
\* whole are within the limits.
SplitIndependent ==
  /\ verdict = "finished" => Acceptable(module)
  /\ verdict = "failed" => ~ Acceptable(module)

\* The same for every module but one of exactly max_module_bytes (which
\* check_wait refuses at the last boundary when that unit came through the
\* buffer): no split lets a bad module pass, and none refuses a good module
\* early for bytes it only announced.
SplitIndependentBelowLimit == Bytes(module) # max_module_bytes => SplitIndependent

\* Validation runs in bounded memory: the buffer never holds more than the
\* largest unit the limits allow, whatever sizes the module announces.
BufferBounded ==
  buf <= HEADER_SLACK +
           IF code_remaining > 0 THEN max_function_body_bytes ELSE max_section_bytes

-----------------------------------------------------------------------------
(***************************************************************************)
(* rvm-wasm validate_module: the framing check of a module.  After the     *)
(* magic and the version come sections, each an id, a LEB128 size of at    *)
(* most MaxLeb bytes and that many bytes; all but the custom ones in the   *)
(* order of their ranks.  A byte carries one bit of a size instead of      *)
(* seven, from ContinueBit on it announces another byte, and the last one  *)
(* a size may have holds only what is left of the word.                    *)
(***************************************************************************)
CONSTANTS
    WasmByte,          \* bytes of a module: 0 .. 4 here
    Custom,            \* the id of a custom section
    order_rank,        \* section id -> its place in the format
    MaxLeb,            \* bytes of a size: 5 in the code
    ContinueBit,          \* the continuation bit
    MAX_MODULE_SIZE,   \* bytes after the header
    SectionWord        \* width of section_count: 2^16 in the code

ASSUME FramingNumbers == /\ {MaxLeb, ContinueBit, MAX_MODULE_SIZE, SectionWord} \subseteq Nat
                         /\ DOMAIN order_rank \subseteq WasmByte /\ Custom \in DOMAIN order_rank

VARIABLES
    header,    \* what the first eight bytes are
    sections,  \* the bytes after them
    framing    \* what validate_module says of them: Refusal or the summary

framingVars == <<header, sections, framing>>
Refusal == {}

-----------------------------------------------------------------------------
\* {} when the size runs past the end of the bytes or of the word.
read_leb128_u32(b, start) ==
    LET leb[k \in 1 .. MaxLeb + 1] ==
          IF k > MaxLeb \/ start + k - 1 > Len(b) THEN {}
          ELSE LET byte == b[start + k - 1]
               IN IF k = MaxLeb /\ byte > 1 THEN {}
                  ELSE IF byte < ContinueBit THEN {[value |-> byte * 2^(k-1), read |-> k]}
                  ELSE {[value |-> r.value + (byte % 2) * 2^(k-1), read |-> r.read] : r \in leb[k + 1]}
    IN leb[1]

\* Ranks of non-custom sections grow, and none is seen twice.
Ordered(last, seen, id) == id = Custom \/ (order_rank[id] > last /\ id \notin seen)

Summary(n, seen, size) == [sections |-> n % SectionWord, has |-> seen, payload |-> size]

\* One section from position w.pos on; {} is a refusal, and past the last byte nothing
\* is left to do.
Section(b, w) ==
    IF w.pos > Len(b) THEN {w}
    ELSE LET id == b[w.pos] IN
         IF id \notin DOMAIN order_rank \/ ~Ordered(w.last, w.seen, id) THEN Refusal
         ELSE {[pos  |-> w.pos + 1 + s.read + s.value,
                last |-> IF id = Custom THEN w.last ELSE order_rank[id],
                seen |-> IF id = Custom THEN w.seen ELSE w.seen \cup {id},
                n    |-> w.n + 1,
                size |-> w.size + s.value] :
               s \in {s \in read_leb128_u32(b, w.pos + 1) :
                       w.pos + s.read + s.value <= Len(b)}}

\* A section has a byte at least: as many of them as there are bytes is all of them.
SectionWalk(b) ==
    LET after[k \in 0 .. Len(b)] ==
          IF k = 0 THEN {[pos |-> 1, last |-> 0, seen |-> {}, n |-> 0, size |-> 0]}
          ELSE UNION {Section(b, w) : w \in after[k - 1]}
    IN {Summary(w.n, w.seen, w.size) : w \in after[Len(b)]}

validate_module(h, b) ==
    IF Len(b) > MAX_MODULE_SIZE \/ h # "wasm1" THEN Refusal ELSE SectionWalk(b)

-----------------------------------------------------------------------------
FramingInit ==
    /\ header \in {"wasm1", "otherVersion", "otherMagic", "short"}
    /\ sections = <<>> /\ framing = validate_module(header, sections)

Grow(byte) ==
    /\ Len(sections) <= MAX_MODULE_SIZE
    /\ sections' = Append(sections, byte)
    /\ framing' = validate_module(header, sections')
    /\ UNCHANGED header

FramingNext == \E byte \in WasmByte : Grow(byte)

-----------------------------------------------------------------------------
(* Properties *)

\* The section from byte i up to byte j, by what the format says of it: a known id,
\* a size in k bytes, all but the last continued, that covers the rest.
IsSection(b, i, j) ==
    /\ b[i] \in DOMAIN order_rank
    /\ \E k \in 1 .. MaxLeb :
         /\ i + k < j
         /\ \A d \in 1 .. k : (b[i + d] >= ContinueBit) = (d < k)
         /\ k = MaxLeb => b[i + k] <= 1
         /\ LET bit(d) == IF b[i + d] % 2 = 1 THEN 2^(d-1) ELSE 0
                sum[d \in 0 .. k] == IF d = 0 THEN 0 ELSE sum[d-1] + bit(d)
            IN sum[k] = j - (i + k + 1)

\* The starts of the sections of an acceptable division of the bytes.
Divisions(b) ==
    {C \in SUBSET (1 .. Len(b)) :
       LET End(i) == CHOOSE j \in (C \cup {Len(b) + 1}) :
                       j > i /\ \A k \in C \cup {Len(b) + 1} : k > i => j <= k
           Proper == {i \in C : b[i] # Custom}
       IN /\ (b # <<>>) = (1 \in C)
          /\ \A i \in C : IsSection(b, i, End(i))
          /\ \A i, j \in Proper : i < j => order_rank[b[i]] < order_rank[b[j]]}

\* validate_module accepts exactly the modules that divide into sections of known
\* kinds in the format's order, in one way only, and its summary counts them: every
\* encoding of a size, an empty section, a size that ends at the last byte or one past
\* it.  Its 16-bit count of sections is exact only up to its width.
FramedIsSections ==
    framing =
      IF Len(sections) > MAX_MODULE_SIZE \/ header # "wasm1" THEN Refusal
      ELSE {[sections |-> Cardinality(C) % SectionWord,
             has |-> {sections[i] : i \in C} \ {Custom},
             payload |-> Len(sections) - Cardinality(C)
                         - Cardinality({i \in 1 .. Len(sections) : \E c \in C :
                             /\ i > c /\ \A d \in c + 1 .. i - 1 : sections[d] >= ContinueBit
                             /\ \A d \in C : ~(c < d /\ d <= i)})]
            : C \in Divisions(sections)}

-----------------------------------------------------------------------------
(***************************************************************************)
(* The scanner of a WASM segment's payload (rvm-rvf: wasm_payload.rs),     *)
(* which decides from the bytes whether a payload is a bare module or has  *)
(* the 64-byte WASM header, and hands on the module's bytes.  It is fed    *)
(* whole by the buffered verifier and in chunks of any size by the         *)
(* streaming one, and both must say the same.                              *)
(*                                                                         *)
(* A byte is a small number; the header is HEADER_LEN bytes: the magic,    *)
(* the fields that must be 0 (version, role, compression and reserved      *)
(* bytes, as "accepted or not"), and the size of the module.               *)
(***************************************************************************)

CONSTANTS PayloadByte, MAGIC, HEADER_LEN, MaxPayload

ASSUME PayloadAssumption ==
  /\ PayloadByte \subseteq Nat
  /\ Len(MAGIC) <= HEADER_LEN - 2

VARIABLES
  scan_mode,        \* Undecided, Bare, Header, Body, Failed, or how it finished
  scan_head,        \* the bytes held in head[..have]
  want,             \* Body: the module size the header declares
  scan_error,       \* Failed: why
  emitted,          \* bytes given to the sink and hashed
  fed               \* all bytes pushed so far

scannerVars == <<scan_mode, scan_head, want, scan_error, emitted, fed>>

ScannerInit ==
  /\ scan_mode = "Undecided" /\ scan_head = <<>> /\ want = 0
  /\ scan_error = "none" /\ emitted = <<>> /\ fed = <<>>

\* The size of the module, or the refusal, of a complete header.
parse_header(head) ==
  IF \E i \in (Len(MAGIC) + 1)..(HEADER_LEN - 1) : head[i] # 0
  THEN [ok |-> FALSE, error |-> "BadField"]
  ELSE IF head[HEADER_LEN] = 0 THEN [ok |-> FALSE, error |-> "EmptyBytecode"]
  ELSE [ok |-> TRUE, size |-> head[HEADER_LEN]]

-----------------------------------------------------------------------------
(* push: the loop over the modes, on a scanner state s and the bytes left. *)

PayloadFail(s, e) == [s EXCEPT !.mode = "Failed", !.error = e]
EmitPayload(s, bytes) == [s EXCEPT !.emitted = @ \o bytes]

PushBody(s, bytes) ==
  IF Len(bytes) > s.want - Len(s.emitted) THEN PayloadFail(s, "LengthMismatch") ELSE EmitPayload(s, bytes)

BugPushHead(s, bytes) ==
  LET n == IF HEADER_LEN - Len(s.head) < Len(bytes) THEN HEADER_LEN - Len(s.head) ELSE Len(bytes)
      head == s.head \o SubSeq(bytes, 1, n)
      rest == SubSeq(bytes, n + 1, Len(bytes))
      t == [s EXCEPT !.head = head]
      h == parse_header(head)
  IN  IF Len(head) < Len(MAGIC) THEN t
      ELSE IF SubSeq(head, 1, Len(MAGIC)) # MAGIC
      THEN EmitPayload([t EXCEPT !.mode = "Bare"], head)
      ELSE IF Len(head) < HEADER_LEN THEN [t EXCEPT !.mode = "Header"]
      ELSE IF ~h.ok THEN PayloadFail(t, h.error)
      ELSE PushBody([t EXCEPT !.mode = "Body", !.want = h.size], rest)

\* The bytes that complete the header do not stop the loop: the rest is the body.
PushHead(s, bytes) ==
  LET n == IF HEADER_LEN - Len(s.head) < Len(bytes) THEN HEADER_LEN - Len(s.head) ELSE Len(bytes)
      head == s.head \o SubSeq(bytes, 1, n)
      rest == SubSeq(bytes, n + 1, Len(bytes))
      t == [s EXCEPT !.head = head]
      h == parse_header(head)
  IN  IF Len(head) < Len(MAGIC) THEN t
      ELSE IF SubSeq(head, 1, Len(MAGIC)) # MAGIC
      THEN EmitPayload(EmitPayload([t EXCEPT !.mode = "Bare"], head), rest)
      ELSE IF Len(head) < HEADER_LEN THEN [t EXCEPT !.mode = "Header"]
      ELSE IF ~h.ok THEN PayloadFail(t, h.error)
      ELSE PushBody([t EXCEPT !.mode = "Body", !.want = h.size], rest)

Pushed(s, bytes) ==
  CASE s.mode = "Failed" -> s
    [] s.mode = "Bare" -> EmitPayload(s, bytes)
    [] s.mode \in {"Undecided", "Header"} -> PushHead(s, bytes)
    [] s.mode = "Body" -> PushBody(s, bytes)

Finished(s) ==
  CASE s.mode = "Failed" -> [facts |-> "Rejected", module |-> <<>>, error |-> s.error]
    [] s.mode = "Undecided" -> [facts |-> "Bare", module |-> s.head, error |-> "none"]
    [] s.mode = "Bare" -> [facts |-> "Bare", module |-> s.emitted, error |-> "none"]
    [] s.mode = "Header" -> [facts |-> "Rejected", module |-> <<>>, error |-> "TruncatedHeader"]
    [] s.mode = "Body" /\ Len(s.emitted) = s.want -> [facts |-> "Headed", module |-> s.emitted, error |-> "none"]
    [] OTHER -> [facts |-> "Rejected", module |-> <<>>, error |-> "LengthMismatch"]

Fresh == [mode |-> "Undecided", head |-> <<>>, want |-> 0, error |-> "none", emitted |-> <<>>]
Scanner == [mode |-> scan_mode, head |-> scan_head, want |-> want, error |-> scan_error,
            emitted |-> emitted]

\* scan_payload and split_wasm_payload: one push of everything.
scan_payload(payload) == Finished(Pushed(Fresh, payload))

-----------------------------------------------------------------------------

push(bytes) ==
  LET s == Pushed(Scanner, bytes)
  IN  /\ Len(fed) + Len(bytes) <= MaxPayload
      /\ scan_mode' = s.mode /\ scan_head' = s.head /\ want' = s.want
      /\ scan_error' = s.error /\ emitted' = s.emitted
      /\ fed' = fed \o bytes

ScannerNext == \E n \in 1..MaxPayload : \E bytes \in [1..n -> PayloadByte] : push(bytes)

-----------------------------------------------------------------------------

\* What a payload is, said without a scanner.
Reading(p) ==
  IF Len(p) < Len(MAGIC) \/ SubSeq(p, 1, Len(MAGIC)) # MAGIC
  THEN [facts |-> "Bare", module |-> p, error |-> "none"]
  ELSE IF Len(p) < HEADER_LEN
  THEN [facts |-> "Rejected", module |-> <<>>, error |-> "TruncatedHeader"]
  ELSE LET h == parse_header(SubSeq(p, 1, HEADER_LEN))
           body == SubSeq(p, HEADER_LEN + 1, Len(p))
       IN  IF ~h.ok THEN [facts |-> "Rejected", module |-> <<>>, error |-> h.error]
           ELSE IF Len(body) # h.size
           THEN [facts |-> "Rejected", module |-> <<>>, error |-> "LengthMismatch"]
           ELSE [facts |-> "Headed", module |-> body, error |-> "none"]

\* However the payload is cut into chunks, finish reports what the whole payload is,
\* which is also what the buffered scan reports; and no byte has gone to the sink that
\* is not a byte of the module, in order (wasm_payload.rs: push, finish).
ScanSplitIndependent ==
  /\ Finished(Scanner) = Reading(fed)
  /\ scan_payload(fed) = Reading(fed)
  /\ Reading(fed).facts # "Rejected" => IsPrefix(emitted, Reading(fed).module)
=============================================================================
