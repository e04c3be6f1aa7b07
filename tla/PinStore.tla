------------------------------- MODULE PinStore -------------------------------
(***************************************************************************)
(* Replay protection of streamed packages: the pin of one lineage (signer  *)
(* and file id) in a PinStore (rvm-rvf, stream/pin.rs), and the launch     *)
(* sessions (rvm-launch, stream_session_pin.rs) that race to move it.  A   *)
(* session looks the pin up when its descriptor arrives, again when its    *)
(* stream is complete and verified, and moves it by compare-and-set from   *)
(* the value it looked up; sessions run between any two accesses of the    *)
(* store.  Reception itself is StreamSession's.                            *)
(*                                                                         *)
(* A pin is an epoch and the hash of a descriptor; no pin is an epoch      *)
(* below all others.                                                       *)
(***************************************************************************)
EXTENDS Integers, Sequences, FiniteSets

CONSTANTS
  Session,          \* sessions that run at the same time
  Epoch,            \* epochs a descriptor may have
  Hash,             \* descriptor hashes
  Tries,            \* compare-and-set attempts of promote: 4 in the code
  MaxTaken          \* bound: modules handed out

ASSUME PinAssumption ==
  Epoch \subseteq Nat /\ Tries \in Nat \ {0} /\ MaxTaken \in Nat

Pin == [epoch : Epoch, hash : Hash]
NoPin == [epoch |-> -1, hash |-> "none"]

VARIABLES
  pin,              \* the store
  phase,            \* what each session is about to do
  desc,             \* each session's descriptor
  cur,              \* the pin each session looked up
  tries,            \* attempts each session has made
  pinned,           \* history: the descriptors sessions recorded
  taken             \* history: the descriptors of the modules handed out, in order

pinVars == <<pin, phase, desc, cur, tries, pinned, taken>>

PinInit ==
  /\ pin = NoPin
  /\ phase = [p \in Session |-> "idle"]
  /\ desc = [p \in Session |-> NoPin]
  /\ cur = [p \in Session |-> NoPin]
  /\ tries = [p \in Session |-> 0]
  /\ pinned = {}
  /\ taken = <<>>

-----------------------------------------------------------------------------

\* pin_check, and the same check in decode_descriptor: neither StaleEpoch nor
\* EpochConflict.
BugFits(d, p) == d.epoch >= p.epoch

Fits(d, p) == d.epoch > p.epoch \/ d = p

\* A new session gets a descriptor.
Open(p, d) ==
  /\ phase[p] = "idle"
  /\ Fits(d, pin)
  /\ desc' = [desc EXCEPT ![p] = d]
  /\ phase' = [phase EXCEPT ![p] = "receiving"]
  /\ UNCHANGED <<pin, cur, tries, pinned, taken>>

\* The stream is complete and its identity verified: promote begins.
Completed(p) ==
  /\ phase[p] = "receiving"
  /\ phase' = [phase EXCEPT ![p] = "lookup"]
  /\ tries' = [tries EXCEPT ![p] = 0]
  /\ UNCHANGED <<pin, desc, cur, pinned, taken>>

\* promote looks the pin up and checks it again.
Lookup(p) ==
  /\ phase[p] = "lookup"
  /\ cur' = [cur EXCEPT ![p] = pin]
  /\ phase' = [phase EXCEPT ![p] = IF Fits(desc[p], pin) THEN "advance" ELSE "failed"]
  /\ UNCHANGED <<pin, desc, tries, pinned, taken>>

\* PinStore.advance.
BugAdvances(p) == pin.epoch <= desc[p].epoch

Advances(p) == pin = cur[p] /\ (cur[p] = NoPin \/ desc[p].epoch >= cur[p].epoch)

AdvanceWon(p) ==
  /\ phase[p] = "advance" /\ Advances(p)
  /\ pin' = desc[p]
  /\ pinned' = pinned \cup {desc[p]}
  /\ phase' = [phase EXCEPT ![p] = "complete"]
  /\ UNCHANGED <<desc, cur, tries, taken>>

AdvanceLost(p) ==
  /\ phase[p] = "advance" /\ ~Advances(p)
  /\ tries' = [tries EXCEPT ![p] = @ + 1]
  /\ phase' = [phase EXCEPT ![p] = IF tries[p] + 1 = Tries THEN "failed" ELSE "lookup"]
  /\ UNCHANGED <<pin, desc, cur, pinned, taken>>

\* take_module checks the pin a third time.
TakeModule(p) ==
  /\ phase[p] = "complete" /\ Len(taken) < MaxTaken
  /\ Fits(desc[p], pin)
  /\ taken' = Append(taken, desc[p])
  /\ UNCHANGED <<pin, phase, desc, cur, tries, pinned>>

\* The session is dropped: its stream was cut or refused, or it is no longer needed.
Drop(p) ==
  /\ phase[p] \in {"receiving", "complete", "failed"}
  /\ phase' = [phase EXCEPT ![p] = "idle"]
  /\ desc' = [desc EXCEPT ![p] = NoPin]
  /\ cur' = [cur EXCEPT ![p] = NoPin]
  /\ tries' = [tries EXCEPT ![p] = 0]
  /\ UNCHANGED <<pin, pinned, taken>>

PinNext ==
  \E p \in Session :
    \/ \E d \in Pin : Open(p, d)
    \/ Completed(p) \/ Lookup(p) \/ AdvanceWon(p) \/ AdvanceLost(p)
    \/ TakeModule(p) \/ Drop(p)

PinSpec == PinInit /\ [][PinNext]_pinVars

-----------------------------------------------------------------------------
(* Properties. *)

(* Type correctness. *)
PinTypeOK ==
  /\ pin \in Pin \cup {NoPin}
  /\ phase \in [Session -> {"idle", "receiving", "lookup", "advance", "complete", "failed"}]
  /\ desc \in [Session -> Pin \cup {NoPin}]
  /\ cur \in [Session -> Pin \cup {NoPin}]
  /\ tries \in [Session -> 0 .. Tries]
  /\ pinned \subseteq Pin
  /\ taken \in Seq(Pin)

(* However sessions interleave between their check and their move, the pin *)
(* changes only to a later epoch: it never goes back and never swaps the   *)
(* descriptor of an epoch (promote, advance).                              *)
PinMovesForward == [][pin' # pin => pin'.epoch > pin.epoch]_pinVars

(* At most one descriptor of an epoch is ever recorded, also when two      *)
(* sessions with different descriptors of the epoch both passed the check  *)
(* before either recorded (EpochConflict).                                 *)
OneDescriptorPerEpoch ==
  \A c, d \in pinned : c.epoch = d.epoch => c = d

(* Modules are handed out in the order of their epochs, over all sessions: *)
(* after a module of some epoch none of an older one, although the session *)
(* of the older one completed long before (take_module's check).           *)
TakenInEpochOrder ==
  \A i, j \in DOMAIN taken : i < j => taken[i].epoch <= taken[j].epoch

(* A refused session was stale, or lost the race Tries times: a session    *)
(* fails for no other reason, and whoever wins did pin something.          *)
RefusalJustified ==
  \A p \in Session : phase[p] = "failed" =>
    pin # NoPin /\ (~Fits(desc[p], pin) \/ tries[p] = Tries)

(* What a pin is for, in one formula: one descriptor per epoch, taken in   *)
(* the order of epochs, and no session refused without a reason.           *)
PinsSound == OneDescriptorPerEpoch /\ TakenInEpochOrder /\ RefusalJustified
=============================================================================
