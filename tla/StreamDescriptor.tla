-------------------------- MODULE StreamDescriptor --------------------------
(***************************************************************************)
(* The signed segment table of a streamed package (rvm-rvf:                *)
(* stream/descriptor.rs, stream/commit.rs, stream/builder.rs,              *)
(* stream/mod.rs): the table is checked entry by entry before any chunk is *)
(* accepted, and everything later (offsets, chunk lengths, the order of    *)
(* stages) is taken from it unchecked.                                     *)
(***************************************************************************)
EXTENDS Integers, Sequences, FiniteSets, SequencesExt, FiniteSetsExt

CONSTANTS
  SegmentIds, StoredLen, TableStages,
  ChunkSizes,               \* chunk sizes a header may name; SegmentChunks: one chunk each
  SegmentChunks,
  MIN_STORED, ROOT_PAGE,    \* 64 and 4096
  MAX_SEGMENT, MAX_TABLE, MAX_CHUNKS, BUDGET, MAX_BODY,
  MaxEntries

ASSUME TableAssumption ==
  /\ StoredLen \subseteq Nat /\ ChunkSizes \subseteq Nat \ {0} /\ SegmentChunks = 0
  /\ TableStages \subseteq Nat

VARIABLES
  chunking,                 \* the header's chunk size, or SegmentChunks
  entries                   \* the table so far

descriptorVars == <<chunking, entries>>

TableEntry == [seg_id : SegmentIds, root_page : BOOLEAN, stage : TableStages,
               requires : SUBSET TableStages, body_offset : 0..MAX_BODY, stored_len : StoredLen]

-----------------------------------------------------------------------------
(* StreamHeader: how a segment is cut into chunks *)

chunk_count(c, stored_len) ==
  IF c # SegmentChunks /\ stored_len > c THEN (stored_len + c - 1) \div c ELSE 1

chunk_len(c, stored_len, index) ==
  LET n == chunk_count(c, stored_len)
  IN  IF index >= n THEN 0
      ELSE IF c # SegmentChunks /\ n > 1
      THEN IF index + 1 < n THEN c ELSE stored_len - c * (n - 1)
      ELSE stored_len

-----------------------------------------------------------------------------
(* parse_table *)

TableBody(t) == FoldLeft(LAMBDA n, e : n + e.stored_len, 0, t)

EntryValid(t, k) ==
  LET e == t[k]
  IN  /\ e.body_offset = TableBody(SubSeq(t, 1, k - 1)) /\ e.stored_len # 0
      /\ IF e.root_page THEN k = Len(t) /\ e.stored_len = ROOT_PAGE ELSE e.stored_len >= MIN_STORED
      /\ e.stage \notin e.requires
      /\ e.stored_len <= MAX_SEGMENT
      /\ chunk_count(chunking, e.stored_len) <= MAX_CHUNKS
      /\ chunk_count(chunking, e.stored_len) > 1 => chunk_count(chunking, e.stored_len) <= MAX_TABLE
      /\ TableBody(SubSeq(t, 1, k)) <= BUDGET

\* The stages a stage's entries wait for, together.
union_req(t, s) == UNION {t[k].requires : k \in {j \in 1..Len(t) : t[j].stage = s}}

\* stages_acyclic: rounds over the stages in order, each adding those whose
\* requirements are done; within a round a stage sees the ones before it.
Round(t, done) ==
  FoldLeft(LAMBDA d, s : IF union_req(t, s) \subseteq d THEN d \cup {s} ELSE d,
           done, SetToSortSeq(TableStages, LAMBDA x, y : x < y))

stages_acyclic(t) ==
  LET after[n \in 0..Cardinality(TableStages)] == IF n = 0 THEN {} ELSE Round(t, after[n - 1])
  IN  after[Cardinality(TableStages)] = TableStages

parse_table(t, body_len) ==
  /\ Len(t) > 0 /\ body_len <= MAX_BODY
  /\ \A k \in 1..Len(t) : EntryValid(t, k)
  /\ TableBody(t) = body_len
  /\ \A i, j \in 1..Len(t) : t[i].seg_id = t[j].seg_id => i = j
  /\ stages_acyclic(t)

\* What StreamBuilder::build_spans writes for the spans of a walked container.
\* Stages::ByType puts META in stage 0, code in 1, the rest in 2.
stage_of(kind) ==
  CASE kind = "meta" -> [stage |-> 0, requires |-> {}]
    [] kind = "executable" -> [stage |-> 1, requires |-> {0}]
    [] OTHER -> [stage |-> 2, requires |-> {0, 1}]

-----------------------------------------------------------------------------

DescriptorInit == chunking \in ChunkSizes \cup {SegmentChunks} /\ entries = <<>>

\* Any entry may be written; the decoder decides.
WriteEntry(id, page, stage, requires, offset, len) ==
  /\ Len(entries) < MaxEntries
  /\ entries' = Append(entries, [seg_id |-> id, root_page |-> page, stage |-> stage,
                                 requires |-> requires, body_offset |-> offset, stored_len |-> len])
  /\ UNCHANGED chunking

\* StreamBuilder: the next span follows the last one.
build_spans(id, kind, len) ==
  LET s == stage_of(kind)
  IN  /\ Len(entries) < MaxEntries
      /\ entries' = Append(entries, [seg_id |-> id, root_page |-> FALSE, stage |-> s.stage,
                                     requires |-> s.requires, body_offset |-> TableBody(entries),
                                     stored_len |-> len])
      /\ UNCHANGED chunking

DescriptorNext ==
  \/ \E id \in SegmentIds, page \in BOOLEAN, stage \in TableStages, requires \in SUBSET TableStages,
        len \in StoredLen, offset \in {TableBody(entries), 0} :
       WriteEntry(id, page, stage, requires, offset, len)
  \/ \E id \in SegmentIds, kind \in {"meta", "executable", "data"}, len \in StoredLen :
       {0, 1, 2} \subseteq TableStages /\ build_spans(id, kind, len)

-----------------------------------------------------------------------------

\* A decoded table can be relied on: its entries cut the body into disjoint pieces
\* that leave no byte out; the chunks of each entry cut the piece the same way, none
\* empty; and the stages have an order in which each comes after all it requires
\* (descriptor.rs: parse_table, chunk_len, stages_acyclic; stream/chunk.rs and the
\* stage gate of the verifier assume all three).
TableSound ==
  parse_table(entries, TableBody(entries)) =>
    /\ \A b \in 0..(TableBody(entries) - 1) :
         Cardinality({k \in 1..Len(entries) :
                        b \in entries[k].body_offset..(entries[k].body_offset + entries[k].stored_len - 1)}) = 1
    /\ \A k \in 1..Len(entries) :
         LET len == entries[k].stored_len
             n == chunk_count(chunking, len)
         IN  /\ \A i \in 0..(n - 1) : chunk_len(chunking, len, i) > 0
             /\ MapThenSumSet(LAMBDA i : chunk_len(chunking, len, i), 0..(n - 1)) = len
    /\ \A C \in (SUBSET TableStages) \ {{}} : \E s \in C : union_req(entries, s) \cap C = {}

-----------------------------------------------------------------------------
(***************************************************************************)
(* Producer and receivers of a streamed package together (rvm-rvf:         *)
(* stream/builder.rs, stream/buffered.rs, and the gates of stream/chunk.rs *)
(* and stream/verifier.rs by what they require of a frame): StreamBuilder  *)
(* cuts a body at the spans of its segments, describes it and orders its   *)
(* frames; a receiver takes the frames one by one, another gets the whole  *)
(* body and the descriptor (verify_with_descriptor).                       *)
(*                                                                         *)
(* A byte is Original or Altered: the hash of a chunk is the chunk.        *)
(***************************************************************************)

CONSTANTS Orders,      \* {"File", "Stage"}
          IdentityFlag \* FLAG_IDENTITY_PRESENT: {TRUE}, or both

VARIABLES
  order,         \* StreamBuilder::order
  identityKept,  \* StreamBuilder::identity
  sent,          \* frames delivered
  arrived,      \* entry -> chunks released by the receiver
  tables,        \* entries whose chunk table was accepted
  refused,       \* frames the receiver refused
  altered        \* bytes of the buffered body that differ from the built one; its length

streamVars == <<descriptorVars, order, identityKept, sent, arrived, tables, refused, altered>>

-----------------------------------------------------------------------------
(* build_spans: the frames *)

Before(i, j) ==
  IF order = "Stage" /\ entries[i].stage # entries[j].stage
  THEN entries[i].stage < entries[j].stage ELSE i < j

ChunksOf(k) == chunk_count(chunking, entries[k].stored_len)

\* The table of an entry with more than one chunk, as chunk -1, before its chunks.
FramesOf(k) ==
  (IF ChunksOf(k) > 1 THEN <<[entry |-> k, chunk |-> -1]>> ELSE <<>>)
    \o [i \in 1 .. ChunksOf(k) |-> [entry |-> k, chunk |-> i - 1]]

frames == FlattenSeq([i \in 1 .. Len(entries) |->
            FramesOf(SetToSortSeq(1 .. Len(entries), Before)[i])])

-----------------------------------------------------------------------------
(* A receiver: the gates on_table and admit_chunk put before an authentic frame *)

StageComplete(s) ==
  \A k \in 1 .. Len(entries) : entries[k].stage = s => arrived[k] = ChunksOf(k)

FitsFrame(f) ==
  IF f.chunk = -1 THEN f.entry \notin tables /\ arrived[f.entry] = 0
  ELSE /\ f.chunk = arrived[f.entry]
       /\ ChunksOf(f.entry) > 1 => f.entry \in tables
       /\ \A s \in entries[f.entry].requires : StageComplete(s)

Receive ==
  /\ sent < Len(frames)
  /\ sent' = sent + 1
  /\ LET f == frames[sent + 1]
     IN  IF ~FitsFrame(f) THEN refused' = refused \cup {f} /\ UNCHANGED <<arrived, tables>>
         ELSE /\ refused' = refused
              /\ tables' = IF f.chunk = -1 THEN tables \cup {f.entry} ELSE tables
              /\ arrived' = IF f.chunk = -1 THEN arrived ELSE [arrived EXCEPT ![f.entry] = @ + 1]
  /\ UNCHANGED <<descriptorVars, order, identityKept, altered>>

-----------------------------------------------------------------------------
(* verify_with_descriptor *)

\* The bytes of chunk i of entry k, as positions of the body.
ChunkBytes(k, i) ==
  LET start == entries[k].body_offset
      step == IF chunking = SegmentChunks THEN entries[k].stored_len ELSE chunking
  IN  {b \in start .. start + entries[k].stored_len - 1 : (b - start) \div step = i}

BugChunksMatch(k) == ChunkBytes(k, 0) \cap altered.bytes = {}
ChunksMatch(k) == \A i \in 0 .. ChunksOf(k) - 1 : ChunkBytes(k, i) \cap altered.bytes = {}

\* identity: the descriptor's identity is that of the buffer; a builder may sign another.
verify_with_descriptor(identity) ==
  /\ altered.len = TableBody(entries)
  /\ identityKept /\ identity
  /\ Len(entries) > 0 /\ \A k \in 1 .. Len(entries) : ChunksMatch(k)

-----------------------------------------------------------------------------
StreamInit ==
  /\ DescriptorInit /\ order \in Orders /\ identityKept \in IdentityFlag
  /\ sent = 0 /\ arrived = <<>> /\ tables = {} /\ refused = {}
  /\ altered = [bytes |-> {}, len |-> 0]

\* The segments of a walked container, numbered as they come.
Build(kind, len) ==
  /\ sent = 0 /\ altered.len = TableBody(entries) /\ altered.bytes = {} /\ len >= MIN_STORED
  /\ build_spans(Len(entries) + 1, kind, len)
  /\ arrived' = Append(arrived, 0)
  /\ altered' = [altered EXCEPT !.len = TableBody(entries')]
  /\ UNCHANGED <<order, identityKept, sent, tables, refused>>

\* The buffered body is damaged at a byte, or cut short.
Damage ==
  /\ \/ \E b \in 0 .. altered.len - 1 : altered' = [altered EXCEPT !.bytes = {b}]
     \/ altered.len > 0 /\ altered' = [altered EXCEPT !.len = @ - 1]
  /\ altered.bytes = {} /\ altered.len = TableBody(entries) /\ sent = 0
  /\ UNCHANGED <<descriptorVars, order, identityKept, sent, arrived, tables, refused>>

StreamNext ==
  \/ \E kind \in {"meta", "executable", "data"}, len \in StoredLen : Build(kind, len)
  \/ Damage \/ Receive

-----------------------------------------------------------------------------
(* Properties *)

\* What the builder sends can be received as it is sent: in stage order no frame of
\* a built stream is refused and the last one completes every segment; in file order
\* one is refused only if a segment comes before one of a stage it requires.
BuiltStreamsArrive ==
  /\ order = "Stage" => refused = {}
  /\ refused = {} /\ sent = Len(frames) => \A k \in 1 .. Len(entries) : arrived[k] = ChunksOf(k)
  /\ refused # {} =>
       \E i, k \in 1 .. Len(entries) : i < k /\ entries[k].stage \in entries[i].requires

\* The two receivers agree on what the package is: a buffer passes the chunk checks
\* of verify_with_descriptor exactly when it is the built body, whatever its length,
\* chunk size and the segment or chunk a difference is in.
BufferedIsTheBody ==
  verify_with_descriptor(TRUE) <=>
    /\ identityKept /\ entries # <<>>
    /\ altered = [bytes |-> {}, len |-> TableBody(entries)]
=============================================================================
