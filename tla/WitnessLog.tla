----------------------------- MODULE WitnessLog -----------------------------
(***************************************************************************)
(* The witness log of rvm-witness (log.rs, replay.rs): an append-only ring *)
(* of N records behind a mutex, each chained to its predecessor by a hash. *)
(* Every operation holds the lock from beginning to end, so each one is    *)
(* one action or one operator on the value of the log.                     *)
(*                                                                         *)
(* The chain hash is a parameter: nothing here depends on FNV-1a or        *)
(* SHA-256.  A record's own fields (kind, actor, target, timestamp ...)    *)
(* are its "body".  A signature stands for the fields it covers.           *)
(***************************************************************************)
EXTENDS Integers, Sequences, FiniteSets

CONSTANTS
  N,                \* capacity of the ring
  Body,             \* what emitters put into a record
  Hash,             \* values of the internal chain hash (u64)
  Digest,           \* values of a record's hash fields (u32)
  ChainHash(_, _),  \* compute_chain_hash
  Fold(_),          \* fold_u64_to_u32
  MaxSequence       \* bound: records appended

ASSUME CapacityAssumption == N \in Nat \ {0} /\ MaxSequence \in Nat
ASSUME HashAssumption ==
  /\ 0 \in Hash /\ 0 \in Digest
  /\ \A h \in Hash, s \in 0 .. MaxSequence : ChainHash(h, s) \in Hash
  /\ \A h \in Hash : Fold(h) \in Digest

VARIABLES
  log,              \* WitnessLogInner
  history           \* every record appended, with the chain hash before it

NoBody == "zeroed"
NoAux == <<>>

\* The fields a signer covers: all of a record up to aux.
Signature == Nat \X Digest \X Digest \X (Body \cup {NoBody})

Record ==
  [sequence : Nat, prev_hash : Digest, record_hash : Digest,
   body : Body \cup {NoBody}, aux : Signature \cup {NoAux}]

ZeroedRecord ==
  [sequence |-> 0, prev_hash |-> 0, record_hash |-> 0, body |-> NoBody, aux |-> NoAux]

NewLog ==
  [records |-> [p \in 0 .. N - 1 |-> ZeroedRecord],
   write_pos |-> 0, chain_hash |-> 0, sequence |-> 0, total_emitted |-> 0]

Checkpoint(l) == [next_sequence |-> l.sequence, chain_hash |-> l.chain_hash]

-----------------------------------------------------------------------------
(* Appending. *)

Chained(l, body) ==
  [sequence |-> l.sequence, prev_hash |-> Fold(l.chain_hash),
   record_hash |-> Fold(ChainHash(l.chain_hash, l.sequence)),
   body |-> body, aux |-> NoAux]

Covered(r) == <<r.sequence, r.prev_hash, r.record_hash, r.body>>

Signed(r) == [r EXCEPT !.aux = Covered(r)]

BugStoredStays(l, r) ==
  [records |-> [l.records EXCEPT ![l.write_pos] = r],
   write_pos |-> IF l.write_pos = N - 1 THEN l.write_pos ELSE l.write_pos + 1,
   chain_hash |-> ChainHash(l.chain_hash, l.sequence),
   sequence |-> l.sequence + 1,
   total_emitted |-> l.total_emitted + 1]

Stored(l, r) ==
  [records |-> [l.records EXCEPT ![l.write_pos] = r],
   write_pos |-> (l.write_pos + 1) % N,
   chain_hash |-> ChainHash(l.chain_hash, l.sequence),
   sequence |-> l.sequence + 1,
   total_emitted |-> l.total_emitted + 1]

Remembered(l, r) == [record |-> r, before |-> l.chain_hash]

Append1(r) ==
  /\ log.sequence < MaxSequence
  /\ log' = Stored(log, r)
  /\ history' = Append(history, Remembered(log, r))

LogAppend(body) == Append1(Chained(log, body))

SignedAppend(body) == Append1(Signed(Chained(log, body)))

Init ==
  /\ log = NewLog
  /\ history = <<>>

Next == \E body \in Body : LogAppend(body) \/ SignedAppend(body)

vars == <<log, history>>

Spec == Init /\ [][Next]_vars

-----------------------------------------------------------------------------
(* Reading.  A slice is a sequence of records; an error is a string. *)

Available(l) == IF l.total_emitted >= N THEN N ELSE l.total_emitted

Least(a, b) == IF a < b THEN a ELSE b

BugSnapshot(l, size) ==
  LET copied == Least(size, Available(l))
      start == IF l.total_emitted >= N THEN l.write_pos ELSE 0
  IN [i \in 1 .. copied |-> l.records[(start + i - 1) % N]]

\* snapshot: the most recent records, as many as the buffer holds.
Snapshot(l, size) ==
  LET copied == Least(size, Available(l))
      start == IF l.total_emitted >= N THEN l.write_pos ELSE 0
  IN [i \in 1 .. copied |-> l.records[(start + (Available(l) - copied) + i - 1) % N]]

RetainedStart(l) == IF l.sequence < N THEN 0 ELSE l.sequence - N

SnapshotSinceError(l, cp, size) ==
  IF cp.next_sequence > l.sequence THEN "FutureCheckpoint"
  ELSE IF cp.next_sequence < RetainedStart(l) THEN "RecordsOverwritten"
  ELSE IF size < l.sequence - cp.next_sequence THEN "OutputTooSmall"
  ELSE IF \E s \in cp.next_sequence .. l.sequence - 1 : l.records[s % N].sequence # s
    THEN "SequenceMismatch"
  ELSE "none"

\* The records snapshot_since copies when it returns no error.
SnapshotSinceRecords(l, cp) ==
  [i \in 1 .. l.sequence - cp.next_sequence |-> l.records[(cp.next_sequence + i - 1) % N]]

\* The full chain hash after 0, 1, ..., n records that begin at sequence s.
ChainFrom(h, s, n) ==
  LET hash[i \in 0 .. n] == IF i = 0 THEN h ELSE ChainHash(hash[i - 1], s + i - 1)
  IN hash

VerifyChainFrom(recs, h, s) ==
  /\ recs # <<>>
  /\ LET hash == ChainFrom(h, s, Len(recs)) IN
       \A i \in 1 .. Len(recs) :
         /\ recs[i].sequence = s + i - 1
         /\ recs[i].prev_hash = Fold(hash[i - 1])
         /\ recs[i].record_hash = Fold(hash[i])

VerifyChain(recs) == VerifyChainFrom(recs, 0, 0)

SignatureValid(r) == r.aux = Covered(r)

-----------------------------------------------------------------------------
(* Properties. *)

(* Type correctness of the log. *)
TypeOK ==
  /\ log \in [records : [0 .. N - 1 -> Record], write_pos : 0 .. N - 1,
              chain_hash : Hash, sequence : Nat, total_emitted : Nat]
  /\ history \in Seq([record : Record, before : Hash])

Retained == RetainedStart(log) .. log.sequence - 1

(* However often the ring has wrapped, each of the last N records appended *)
(* sits unchanged at the position its sequence number names (append), and  *)
(* no record carries another's sequence number.                            *)
RingHoldsNewest ==
  /\ Len(history) = log.sequence
  /\ \A s \in Retained : log.records[s % N] = history[s + 1].record
  /\ \A s \in 0 .. log.sequence - 1 : history[s + 1].record.sequence = s

(* snapshot fills a buffer of any size with the newest records it can      *)
(* hold, oldest of them first, also when the ring has wrapped or when the  *)
(* buffer is smaller than the ring.  verify_chain starts at sequence 0, so *)
(* it accepts the intact records of a ring exactly until the ring wraps.   *)
SnapshotIsNewest ==
  /\ VerifyChain(Snapshot(log, N)) <=> log.sequence \in 1 .. N
  /\ \A size \in 0 .. N + 1 :
       LET n == Least(size, Available(log)) IN
         Snapshot(log, size) = [i \in 1 .. n |-> history[Len(history) - n + i].record]

(* Every boundary a checkpoint ever captured, at sequence s, is served all *)
(* or nothing: snapshot_since returns an error, and it does so exactly     *)
(* when a record since s has been overwritten or the buffer is too small,  *)
(* or every record appended since, in order, and those verify as a chain   *)
(* from the hash the checkpoint kept.  SequenceMismatch never happens.     *)
SnapshotSinceAllOrNothing ==
  \A s \in 0 .. log.sequence, size \in {N - 1, N} :
    LET cp == [next_sequence |-> s,
               chain_hash |-> IF s < log.sequence THEN history[s + 1].before
                                                  ELSE log.chain_hash]
        err == SnapshotSinceError(log, cp, size)
        recs == SnapshotSinceRecords(log, cp)
    IN /\ (err # "none") <=> (log.sequence - s > size)
       /\ err # "SequenceMismatch"
       /\ err = "none" /\ s < log.sequence =>
            /\ recs = [i \in 1 .. log.sequence - s |-> history[s + i].record]
            /\ VerifyChainFrom(recs, cp.chain_hash, s)

(* A record stored by signed_append verifies under its signer for as long  *)
(* as it is retained: the signature covers the sequence number and the     *)
(* chain fields that append itself filled in.                              *)
SignaturesVerify ==
  \A s \in Retained :
    LET r == log.records[s % N] IN r.aux # NoAux => SignatureValid(r)

(* What a reader gets out of the log, in one formula: both ways of reading *)
(* it, and the signatures of what is read.                                 *)
LogReads == SnapshotIsNewest /\ SnapshotSinceAllOrNothing /\ SignaturesVerify
=============================================================================
