---------------------------- MODULE ReceiptChain ----------------------------
(***************************************************************************)
(* Epoch receipts: the context runtime (rvm-context, runtime.rs and        *)
(* receipt.rs) seals the witness records emitted since its cursor into a   *)
(* signed receipt, and the hosted service (rvm-context-service,            *)
(* receipt_store.rs and receipt_drainer.rs) persists receipt and cursor    *)
(* in one database transaction before the runtime advances.                *)
(*                                                                         *)
(* The runtime is used through &mut self, behind the gateway's mutex, so a *)
(* request or a seal is one action.  A crash at any point inside a seal    *)
(* loses all that is in memory; what it leaves behind is what Restart      *)
(* finds after SealNotPersisted (before the commit) or Seal (after it).    *)
(*                                                                         *)
(* SHA-256 and the signature are taken to be perfect: a Merkle root stands *)
(* for the records under it and a receipt is its own identifier.  The      *)
(* commitments a caller chooses and the timestamp bounds are left out.     *)
(* An optional value is a sequence with at most one element.               *)
(***************************************************************************)
EXTENDS WitnessLog

CONSTANTS
  MaxUnsealed,      \* ReceiptDrainer.max_unsealed
  MaxEpochRecords,  \* MAX_CONTEXT_EPOCH_RECORDS
  MaxRestarts       \* bound: restarts of the service

ASSUME DrainerAssumption ==
  /\ MaxUnsealed \in Nat \ {0} /\ MaxEpochRecords \in Nat /\ MaxRestarts \in Nat
  /\ {"decision", "outcome", "seal"} \subseteq Body

VARIABLES
  receipt_chain,    \* the runtime's ReceiptChainState
  receipts,         \* durable: table context_receipts_v1, by epoch
  cursor,           \* durable: the cursor of table context_receipt_meta_v1
  resumed_at,       \* history: receipts in the table when the service started
  restarts          \* bounded by MaxRestarts

durable == <<receipts, cursor>>
rvars == <<log, history, receipt_chain, receipts, cursor, resumed_at, restarts>>

Genesis ==
  [next_checkpoint |-> Checkpoint(NewLog), next_epoch_id |-> 0, previous_receipt_id |-> <<>>]

RInit ==
  /\ Init
  /\ receipt_chain = Genesis
  /\ receipts = <<>>
  /\ cursor = <<>>
  /\ resumed_at = 0
  /\ restarts = 0

-----------------------------------------------------------------------------
(* Witness records of one operation. *)

Emit(w, body) ==
  LET r == Chained(w.log, body)
  IN [log |-> Stored(w.log, r), history |-> Append(w.history, Remembered(w.log, r))]

Witness == [log |-> log, history |-> history]

SetWitness(w) ==
  /\ w.log.sequence <= MaxSequence
  /\ log' = w.log
  /\ history' = w.history

-----------------------------------------------------------------------------
(* Sealing an epoch (receipt.rs). *)

MerkleRoot(recs) == recs

SealError(l, cp) ==
  LET recs == SnapshotSinceRecords(l, cp) IN
  \/ SnapshotSinceError(l, cp, N) # "none"
  \/ recs = <<>>
  \/ Len(recs) > MaxEpochRecords
  \/ ~VerifyChainFrom(recs, cp.chain_hash, cp.next_sequence)

SealFromLog(l, state) ==
  LET cp == state.next_checkpoint
      recs == SnapshotSinceRecords(l, cp)
  IN [epoch_id |-> state.next_epoch_id,
      first_sequence |-> recs[1].sequence,
      last_sequence |-> recs[Len(recs)].sequence,
      record_count |-> Len(recs),
      initial_chain_hash |-> cp.chain_hash,
      previous_receipt |-> state.previous_receipt_id,
      witness_root |-> MerkleRoot(recs)]

ReceiptId(r) == <<r>>

\* The chain hash after the last record of a receipt.
HashAfter(r) ==
  ChainFrom(r.initial_chain_hash, r.first_sequence, r.record_count)[r.record_count]

\* The state that follows a receipt sealed from l.
Following(l, r) ==
  [next_checkpoint |-> Checkpoint(l),
   next_epoch_id |-> r.epoch_id + 1,
   previous_receipt_id |-> ReceiptId(r)]

VerifyGenesis(r) ==
  /\ r.epoch_id = 0
  /\ r.first_sequence = 0
  /\ r.initial_chain_hash = 0
  /\ r.previous_receipt = <<>>

VerifySuccessor(r, prior) ==
  /\ r.previous_receipt = ReceiptId(prior)
  /\ r.epoch_id = prior.epoch_id + 1
  /\ r.first_sequence = prior.last_sequence + 1
  /\ r.initial_chain_hash = HashAfter(prior)

-----------------------------------------------------------------------------
(* The durable store (receipt_store.rs). *)

CursorMatches(r, following) ==
  /\ following.next_epoch_id = r.epoch_id + 1
  /\ following.previous_receipt_id = ReceiptId(r)
  /\ following.next_checkpoint.next_sequence = r.last_sequence + 1
  /\ following.next_checkpoint.chain_hash = HashAfter(r)

ExtendsStore(r) ==
  /\ r.epoch_id \notin DOMAIN receipts
  /\ IF cursor = <<>> THEN VerifyGenesis(r)
     ELSE /\ cursor[1].next_epoch_id = r.epoch_id
          /\ cursor[1].previous_receipt_id = r.previous_receipt
          /\ r.epoch_id - 1 \in DOMAIN receipts
          /\ VerifySuccessor(r, receipts[r.epoch_id - 1])

AppendVerifiable(r, following) == CursorMatches(r, following) /\ ExtendsStore(r)

Inserted(r) ==
  [e \in DOMAIN receipts \cup {r.epoch_id} |->
     IF e = r.epoch_id THEN r ELSE receipts[e]]

BugCommit(r, following) ==
  /\ receipts' = Inserted(r)
  /\ cursor' = IF cursor = <<>> THEN <<following>> ELSE cursor

\* One transaction: both writes or neither.
Commit(r, following) ==
  /\ receipts' = Inserted(r)
  /\ cursor' = <<following>>

-----------------------------------------------------------------------------
(* The drainer (receipt_drainer.rs).  It answers whether one request more  *)
(* may be made; nothing in the runtime or the gateway asks it.             *)

Pending ==
  LET next == receipt_chain.next_checkpoint.next_sequence
  IN IF log.total_emitted < next THEN 0 ELSE log.total_emitted - next

Admit == MaxUnsealed + 2 <= N /\ Pending < MaxUnsealed

-----------------------------------------------------------------------------
(* The runtime (runtime.rs, capability.rs authorize). *)

\* A request emits the decision to allow or deny it and, when it was allowed
\* and the resolver answered, the outcome: success or a rejected answer.
Request ==
  /\ \/ SetWitness(Emit(Witness, "decision"))
     \/ SetWitness(Emit(Emit(Witness, "decision"), "outcome"))
  /\ UNCHANGED <<receipt_chain, durable, resumed_at, restarts>>

\* A seal that does not come to an attempt: authorize denies it, or the
\* request is pinned to another revision than the one to be sealed.
SealRefused ==
  /\ SetWitness(Emit(Witness, "decision"))
  /\ UNCHANGED <<receipt_chain, durable, resumed_at, restarts>>

\* The epoch cannot be snapshotted or does not verify.
SealFails ==
  LET w == Emit(Witness, "decision") IN
  /\ SealError(w.log, receipt_chain.next_checkpoint)
  /\ SetWitness(w)
  /\ UNCHANGED <<receipt_chain, durable, resumed_at, restarts>>

\* The store refuses the receipt or the transaction fails.
BugSealNotPersisted ==
  LET w == Emit(Witness, "decision") IN
  /\ ~SealError(w.log, receipt_chain.next_checkpoint)
  /\ SetWitness(w)
  /\ receipt_chain' = Following(w.log, SealFromLog(w.log, receipt_chain))
  /\ UNCHANGED <<durable, resumed_at, restarts>>

SealNotPersisted ==
  LET w == Emit(Witness, "decision") IN
  /\ ~SealError(w.log, receipt_chain.next_checkpoint)
  /\ SetWitness(w)
  /\ UNCHANGED <<receipt_chain, durable, resumed_at, restarts>>

Seal ==
  LET w == Emit(Witness, "decision")
      r == SealFromLog(w.log, receipt_chain)
      following == Following(w.log, r)
  IN
  /\ ~SealError(w.log, receipt_chain.next_checkpoint)
  /\ AppendVerifiable(r, following)
  /\ Commit(r, following)
  /\ SetWitness(Emit(w, "seal"))
  /\ receipt_chain' = following
  /\ UNCHANGED <<resumed_at, restarts>>

\* A new process.  A log can only be made empty (WitnessLog::new); the state
\* is the durable cursor, if there is one.
Restart ==
  /\ restarts < MaxRestarts
  /\ restarts' = restarts + 1
  /\ log' = NewLog
  /\ history' = <<>>
  /\ receipt_chain' = IF cursor = <<>> THEN Genesis ELSE cursor[1]
  /\ resumed_at' = Cardinality(DOMAIN receipts)
  /\ UNCHANGED durable

RNext == Request \/ SealRefused \/ SealFails \/ SealNotPersisted \/ Seal \/ Restart

RSpec == RInit /\ [][RNext]_rvars

-----------------------------------------------------------------------------
(* Properties. *)

Epochs == DOMAIN receipts

(* The table always holds one unbroken chain of receipts, from genesis on, *)
(* each the successor verify_successor asks for, and the durable cursor is *)
(* the one that follows the last of them: across failed seals, failed      *)
(* transactions and restarts receipt and cursor never come apart.          *)
StoreChainIntact ==
  /\ Epochs = 0 .. Cardinality(Epochs) - 1
  /\ \A e \in Epochs :
       /\ receipts[e].epoch_id = e
       /\ IF e = 0 THEN VerifyGenesis(receipts[e])
                   ELSE VerifySuccessor(receipts[e], receipts[e - 1])
  /\ (cursor = <<>>) <=> (Epochs = {})
  /\ cursor # <<>> => CursorMatches(receipts[Cardinality(Epochs) - 1], cursor[1])

(* The runtime never runs ahead of what is durable, nor falls behind it:   *)
(* its state is the one a restart would resume from (runtime.rs 689-691,   *)
(* "a persistence refusal leaves the runtime cursor unchanged").           *)
RuntimeAtCursor ==
  receipt_chain = IF cursor = <<>> THEN Genesis ELSE cursor[1]

(* Every receipt sealed by this process commits to exactly the records the *)
(* log appended at its sequence numbers, none missing, none replaced,      *)
(* however often the ring has wrapped in between.                          *)
ReceiptsAreTheRecords ==
  \A e \in Epochs : e >= resumed_at =>
    LET r == receipts[e] IN
      /\ r.record_count = r.last_sequence - r.first_sequence + 1
      /\ r.last_sequence < log.sequence
      /\ r.witness_root =
           [i \in 1 .. r.record_count |-> history[r.first_sequence + i].record]

(* The log claims a sealed epoch exactly for the receipts this process     *)
(* persisted: a seal record at sequence s stands right after the epoch of  *)
(* one of them, so a failed seal claims nothing (runtime.rs 690-691).      *)
SealClaims ==
  {s \in 0 .. log.sequence - 1 : history[s + 1].record.body = "seal"} =
    {receipts[e].last_sequence + 1 : e \in {x \in Epochs : x >= resumed_at}}

\* What the log holds beyond the last receipt.
Unsealed == log.sequence - receipt_chain.next_checkpoint.next_sequence

(* The drainer's yes can be relied on: whatever failed before, whoever     *)
(* asked it and then made one request, of two records, loses no unsealed   *)
(* record before the seal after it, which adds its own (receipt_drainer.rs *)
(* 60-61).                                                                 *)
AdmitLeavesRoom ==
  Admit =>
    SnapshotSinceError(Emit(Emit(Emit(Witness, "decision"), "outcome"), "decision").log,
                       receipt_chain.next_checkpoint, N)
      \notin {"RecordsOverwritten", "OutputTooSmall"}

(* What ADR-158 says of a drainer that lags (line 127): "Admission stops   *)
(* before an unsealed record can be overwritten".  The runtime and the     *)
(* gateway dispatch requests without asking for admission.                 *)
BackpressureHolds == Unsealed <= N

(* The receipt store is a truthful account of the log: an unbroken chain,  *)
(* of exactly the records there were, claimed exactly where it is durable. *)
StoreSound == StoreChainIntact /\ ReceiptsAreTheRecords /\ SealClaims

(* The runtime stands where the durable cursor stands, and the drainer     *)
(* judges from there how much more the ring can hold (runtime.rs: seal;    *)
(* receipt_drainer.rs: admit).                                             *)
CursorSound == RuntimeAtCursor /\ AdmitLeavesRoom
=============================================================================
