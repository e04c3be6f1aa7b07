------------------------ MODULE CompareAndSetProofs ------------------------
(***************************************************************************)
(* Proofs about the stores whose writers compare before they set: the      *)
(* replay pins (PinStore) and the aliases of the durable resolver          *)
(* (DurableResolver), for any number of sessions, clients, names and       *)
(* epochs; and about what else runs in the services with the durable       *)
(* resolver (MC_Services): the identity thread (IdentityWorker) and the    *)
(* gateway (Gateway).                                                      *)
(*                                                                         *)
(* The argument about the stores is the same: whatever a session looked up *)
(* or a client holds may be stale by the time it writes, but the write     *)
(* succeeds only from the value it compares with, so what was checked      *)
(* about that value is true of the store at that moment.  The effects of   *)
(* the gateway follow from it too: each names the generation it replaced.  *)
(***************************************************************************)
EXTENDS PinStore, MC_Services, FiniteSetTheorems, SequenceTheorems, TLAPS

-----------------------------------------------------------------------------
(* The replay pins.  Every descriptor ever recorded stays at or below the   *)
(* pin (AtOrBelow), which turns a check against the pin into a check        *)
(* against all of them.                                                    *)


Started(p) == phase[p] # "idle"

Working(p) == phase[p] \in {"lookup", "advance"}

\* What a session has before it moves the pin.
Advance ==
  \A p \in Session :
    /\ Started(p) => desc[p] \in Pin
    /\ Working(p) => tries[p] < Tries
    /\ phase[p] = "advance" => Fits(desc[p], cur[p])
    /\ cur[p] # NoPin => pin # NoPin

\* Every descriptor recorded is at or below the pin, and the pin's own at its epoch.
AtOrBelow == \A d \in pinned : pin # NoPin /\ Fits(pin, d)

\* A complete session recorded its descriptor.
Recorded == \A p \in Session : phase[p] = "complete" => desc[p] \in pinned

TakenBelow == \A i \in DOMAIN taken : taken[i].epoch <= pin.epoch

PinInv ==
  /\ PinTypeOK /\ Advance /\ AtOrBelow /\ Recorded /\ TakenBelow
  /\ OneDescriptorPerEpoch /\ TakenInEpochOrder /\ RefusalJustified

(* NoPin is below every pin. *)
LEMMA NoPinLemma ==
  /\ NoPin \notin Pin /\ NoPin.epoch = -1
  /\ \A d \in Pin : d.epoch \in Nat /\ Fits(d, NoPin)
<1>1. NoPin.epoch = -1
  BY DEF NoPin
<1>2. \A d \in Pin : d.epoch \in Nat
  BY PinAssumption DEF Pin
<1>3. NoPin \notin Pin
  BY <1>1, <1>2
<1>4. \A d \in Pin : Fits(d, NoPin)
  BY <1>1, <1>2 DEF Fits
<1> QED
  BY <1>1, <1>2, <1>3, <1>4

(* The epochs of the modules handed out are epochs. *)
LEMMA TakenEpoch ==
  ASSUME PinTypeOK
  PROVE  \A i \in DOMAIN taken : taken[i] \in Pin /\ taken[i].epoch \in Nat
<1>1. taken \in Seq(Pin)
  BY DEF PinTypeOK
<1>2. \A i \in DOMAIN taken : taken[i] \in Pin
  BY <1>1
<1> QED
  BY <1>2, NoPinLemma

(* A winning compare-and-set keeps the pin or moves it to a later epoch. *)
LEMMA AdvanceWonMoves ==
  ASSUME PinInv, NEW p \in Session, AdvanceWon(p)
  PROVE  /\ desc[p] \in Pin /\ pin' = desc[p]
         /\ desc[p] = pin \/ desc[p].epoch > pin.epoch
BY DEF PinInv, PinTypeOK, Advance, Started, AdvanceWon, Advances, Fits

(* PinInit establishes the invariant. *)
LEMMA InitPinInv == PinInit => PinInv
<1> SUFFICES ASSUME PinInit PROVE PinInv
  OBVIOUS
<1>1. PinTypeOK
  BY PinAssumption DEF PinInit, PinTypeOK
<1>2. Advance /\ AtOrBelow /\ Recorded
  BY DEF PinInit, Advance, Started, Working, AtOrBelow, Recorded
<1>3. TakenBelow /\ OneDescriptorPerEpoch /\ TakenInEpochOrder
  BY DEF PinInit, TakenBelow, OneDescriptorPerEpoch, TakenInEpochOrder
<1>4. RefusalJustified
  BY DEF PinInit, RefusalJustified
<1> QED
  BY <1>1, <1>2, <1>3, <1>4 DEF PinInv

(* Every step of a session keeps the invariant. *)
LEMMA NextPinInv == PinInv /\ [PinNext]_pinVars => PinInv'
<1> SUFFICES ASSUME PinInv, [PinNext]_pinVars PROVE PinInv'
  OBVIOUS
<1> USE PinAssumption, NoPinLemma DEF PinInv, PinTypeOK, Advance, Started, Working
<1>1. CASE UNCHANGED pinVars
  <2>1. PinTypeOK' /\ Advance'
    BY <1>1 DEF pinVars, Fits
  <2>2. AtOrBelow' /\ Recorded' /\ TakenBelow'
    BY <1>1 DEF pinVars, Fits, AtOrBelow, Recorded, TakenBelow
  <2>3. OneDescriptorPerEpoch' /\ TakenInEpochOrder' /\ RefusalJustified'
    BY <1>1 DEF pinVars, Fits, OneDescriptorPerEpoch, TakenInEpochOrder, RefusalJustified
  <2> QED
    BY <2>1, <2>2, <2>3
<1>2. ASSUME NEW p \in Session, NEW d \in Pin, Open(p, d) PROVE PinInv'
  <2> USE <1>2 DEF Open
  <2>1. PinTypeOK'
    OBVIOUS
  <2>2. Advance'
    BY DEF Fits
  <2>3. AtOrBelow' /\ Recorded' /\ TakenBelow'
    BY DEF Fits, AtOrBelow, Recorded, TakenBelow
  <2>4. OneDescriptorPerEpoch' /\ TakenInEpochOrder'
    BY DEF OneDescriptorPerEpoch, TakenInEpochOrder
  <2>5. RefusalJustified'
    BY DEF RefusalJustified, Fits
  <2> QED
    BY <2>1, <2>2, <2>3, <2>4, <2>5
<1>3. ASSUME NEW p \in Session, Completed(p) PROVE PinInv'
  <2> USE <1>3 DEF Completed
  <2>1. PinTypeOK'
    OBVIOUS
  <2>2. Advance'
    BY DEF Fits
  <2>3. AtOrBelow' /\ Recorded' /\ TakenBelow'
    BY DEF Fits, AtOrBelow, Recorded, TakenBelow
  <2>4. OneDescriptorPerEpoch' /\ TakenInEpochOrder'
    BY DEF OneDescriptorPerEpoch, TakenInEpochOrder
  <2>5. RefusalJustified'
    BY DEF RefusalJustified, Fits
  <2> QED
    BY <2>1, <2>2, <2>3, <2>4, <2>5
<1>4. ASSUME NEW p \in Session, Lookup(p) PROVE PinInv'
  <2> USE <1>4 DEF Lookup
  <2>1. PinTypeOK'
    OBVIOUS
  <2>2. Advance'
    BY DEF Fits
  <2>3. AtOrBelow' /\ Recorded' /\ TakenBelow'
    BY DEF Fits, AtOrBelow, Recorded, TakenBelow
  <2>4. OneDescriptorPerEpoch' /\ TakenInEpochOrder'
    BY DEF OneDescriptorPerEpoch, TakenInEpochOrder
  <2>5. RefusalJustified'
    BY DEF RefusalJustified, Fits
  <2> QED
    BY <2>1, <2>2, <2>3, <2>4, <2>5
<1>5. ASSUME NEW p \in Session, AdvanceWon(p) PROVE PinInv'
  <2> USE <1>5 DEF AdvanceWon
  <2>0. /\ desc[p] \in Pin /\ pin' = desc[p]
        /\ desc[p] = pin \/ desc[p].epoch > pin.epoch
        /\ pin.epoch \in Int /\ desc[p].epoch \in Nat
    <3>1. /\ desc[p] \in Pin /\ pin' = desc[p]
          /\ desc[p] = pin \/ desc[p].epoch > pin.epoch
      BY AdvanceWonMoves
    <3>2. pin.epoch \in Int
      <4>1. pin = NoPin \/ pin \in Pin
        OBVIOUS
      <4> QED
        BY <4>1
    <3> QED
      BY <3>1, <3>2
  <2>1. PinTypeOK'
    BY <2>0
  <2>2. Advance'
    BY <2>0 DEF Fits
  <2>3. AtOrBelow'
    <3>1. \A d \in pinned : d.epoch \in Nat /\ (pin = d \/ pin.epoch > d.epoch)
      BY DEF AtOrBelow, Fits, Pin
    <3> QED
      BY <2>0, <3>1 DEF AtOrBelow, Fits
  <2>4. Recorded'
    BY DEF Recorded
  <2>5. TakenBelow'
    <3>1. \A i \in DOMAIN taken : taken[i].epoch \in Nat
      BY TakenEpoch
    <3> QED
      BY <2>0, <3>1 DEF TakenBelow
  <2>6. OneDescriptorPerEpoch'
    <3>1. \A d \in pinned : d.epoch \in Nat /\ (pin = d \/ pin.epoch > d.epoch)
      BY DEF AtOrBelow, Fits, Pin
    <3> QED
      BY <2>0, <3>1 DEF OneDescriptorPerEpoch
  <2>7. TakenInEpochOrder'
    BY DEF TakenInEpochOrder
  <2>8. RefusalJustified'
    <3> SUFFICES ASSUME NEW q \in Session, phase'[q] = "failed"
                 PROVE  pin' # NoPin /\ (~Fits(desc'[q], pin') \/ tries'[q] = Tries)
      BY DEF RefusalJustified
    <3>1. phase[q] = "failed" /\ desc'[q] = desc[q] /\ tries'[q] = tries[q] /\ desc[q].epoch \in Nat
      BY DEF Pin
    <3>2. ~Fits(desc[q], pin) \/ tries[q] = Tries
      BY <3>1 DEF RefusalJustified
    <3> QED
      BY <2>0, <3>1, <3>2 DEF Fits
  <2> QED
    BY <2>1, <2>2, <2>3, <2>4, <2>5, <2>6, <2>7, <2>8
<1>6. ASSUME NEW p \in Session, AdvanceLost(p) PROVE PinInv'
  <2> USE <1>6 DEF AdvanceLost
  <2>1. PinTypeOK'
    OBVIOUS
  <2>2. Advance'
    BY DEF Fits
  <2>3. AtOrBelow' /\ Recorded' /\ TakenBelow'
    BY DEF Fits, AtOrBelow, Recorded, TakenBelow
  <2>4. OneDescriptorPerEpoch' /\ TakenInEpochOrder'
    BY DEF OneDescriptorPerEpoch, TakenInEpochOrder
  <2>5. pin # NoPin
    <3>1. desc[p] \in Pin /\ Fits(desc[p], cur[p]) /\ desc[p].epoch \in Nat
      OBVIOUS
    <3>2. cur[p] = NoPin \/ desc[p].epoch >= cur[p].epoch
      <4>1. cur[p] = NoPin \/ cur[p] \in Pin
        OBVIOUS
      <4>2. cur[p] \in Pin => cur[p].epoch \in Nat
        OBVIOUS
      <4> QED
        BY <3>1, <4>1, <4>2 DEF Fits
    <3>3. pin # cur[p]
      BY <3>2 DEF Advances
    <3> QED
      BY <3>3
  <2>6. RefusalJustified'
    BY <2>5 DEF RefusalJustified, Fits
  <2> QED
    BY <2>1, <2>2, <2>3, <2>4, <2>6
<1>7. ASSUME NEW p \in Session, TakeModule(p) PROVE PinInv'
  <2> USE <1>7 DEF TakeModule
  <2>0. desc[p] \in Pin /\ desc[p].epoch \in Nat /\ pin = desc[p]
    <3>1. desc[p] \in Pin /\ desc[p] \in pinned /\ pin \in Pin
      BY DEF Recorded, AtOrBelow
    <3> QED
      BY <3>1 DEF AtOrBelow, Fits
  <2>1. PinTypeOK'
    BY <2>0
  <2>2. Advance'
    BY DEF Fits
  <2>3. AtOrBelow' /\ Recorded'
    BY DEF Fits, AtOrBelow, Recorded
  <2>4. TakenBelow'
    BY <2>0 DEF TakenBelow
  <2>5. OneDescriptorPerEpoch'
    BY DEF OneDescriptorPerEpoch
  <2>6. TakenInEpochOrder'
    <3>1. \A i \in DOMAIN taken : taken[i].epoch \in Nat /\ taken[i].epoch <= pin.epoch
      BY TakenEpoch DEF TakenBelow
    <3> QED
      BY <2>0, <3>1 DEF TakenInEpochOrder
  <2>7. RefusalJustified'
    BY DEF RefusalJustified, Fits
  <2> QED
    BY <2>1, <2>2, <2>3, <2>4, <2>5, <2>6, <2>7
<1>8. ASSUME NEW p \in Session, Drop(p) PROVE PinInv'
  <2> USE <1>8 DEF Drop
  <2>1. PinTypeOK'
    OBVIOUS
  <2>2. Advance'
    BY DEF Fits
  <2>3. AtOrBelow' /\ Recorded' /\ TakenBelow'
    BY DEF Fits, AtOrBelow, Recorded, TakenBelow
  <2>4. OneDescriptorPerEpoch' /\ TakenInEpochOrder'
    BY DEF OneDescriptorPerEpoch, TakenInEpochOrder
  <2>5. RefusalJustified'
    BY DEF RefusalJustified, Fits
  <2> QED
    BY <2>1, <2>2, <2>3, <2>4, <2>5
<1> QED
  BY <1>1, <1>2, <1>3, <1>4, <1>5, <1>6, <1>7, <1>8 DEF PinNext

(* The inductive invariant holds in every reachable state. *)
LEMMA Invariance == PinSpec => []PinInv
BY InitPinInv, NextPinInv, PTL DEF PinSpec

(* For any number of racing sessions: at most one descriptor of an epoch   *)
(* is ever recorded in the store (advance, EpochConflict).                 *)
THEOREM OneDescriptor == PinSpec => []OneDescriptorPerEpoch
<1>1. PinInv => OneDescriptorPerEpoch
  BY DEF PinInv
<1> QED
  BY Invariance, <1>1, PTL

(* For any number of racing sessions: modules are handed out in the order  *)
(* of their epochs (take_module's third check of the pin).                 *)
THEOREM EpochOrder == PinSpec => []TakenInEpochOrder
<1>1. PinInv => TakenInEpochOrder
  BY DEF PinInv
<1> QED
  BY Invariance, <1>1, PTL

(* For any number of racing sessions: promote refuses only a descriptor    *)
(* that is stale for good, or after it lost all its attempts.              *)
THEOREM Refusals == PinSpec => []RefusalJustified
<1>1. PinInv => RefusalJustified
  BY DEF PinInv
<1> QED
  BY Invariance, <1>1, PTL

(* For any number of racing sessions and epochs: the pin does what it is   *)
(* for (promote, advance and take_module together).                        *)
THEOREM PinsHold == PinSpec => []PinsSound
BY OneDescriptor, EpochOrder, Refusals, PTL DEF PinsSound

(* For any number of racing sessions: the pin changes only to a later      *)
(* epoch (promote's check and advance's compare-and-set together).         *)
THEOREM MovesForward == PinSpec => PinMovesForward
<1>1. PinInv /\ [PinNext]_pinVars => [pin' # pin => pin'.epoch > pin.epoch]_pinVars
  <2> SUFFICES ASSUME PinInv, PinNext, pin' # pin PROVE pin'.epoch > pin.epoch
    BY DEF pinVars
  <2>1. PICK p \in Session : AdvanceWon(p)
    BY DEF PinNext, Open, Completed, Lookup, AdvanceLost, TakeModule, Drop
  <2> QED
    BY <2>1, AdvanceWonMoves
<1> QED
  BY Invariance, <1>1, PTL DEF PinSpec, PinMovesForward

-----------------------------------------------------------------------------
(* The durable resolver. *)

HeadsTyped ==
  /\ DOMAIN table_aliases \subseteq LogicalName
  /\ \A n \in DOMAIN table_aliases :
       /\ table_aliases[n] \in StoredAlias /\ table_aliases[n].of = {n}
       /\ ~table_aliases[n].tombstone => table_aliases[n].revision \in StoredRevision

KnownTyped == known = [c \in DClient |-> known[c]]

\* Every object is sealed to the key it is stored under.
SealedInPlace ==
  \A k \in DOMAIN table_objects : table_objects[k] = seal(k, table_objects[k].key_id)

\* The object a live alias names is stored.
LiveStored ==
  \A n \in DOMAIN table_aliases : ~table_aliases[n].tombstone =>
    <<n, table_aliases[n].revision, PlainView>> \in DOMAIN table_objects

\* A pending job asks for what the alias says now.
JobsCurrent ==
  /\ DOMAIN index_jobs \subseteq LogicalName
  /\ \A n \in DOMAIN index_jobs : index_jobs[n] = [upsert |-> Active(n)]

\* A drain works on pending jobs; after an erase the scope is empty, and before
\* the job goes the index is what the job asked for.
DrainInOrder ==
  /\ call = [at |-> call.at, todo |-> call.todo, stage |-> call.stage, next |-> call.next,
             key_id |-> call.key_id]
  /\ call.at = "index" => call.todo \subseteq DOMAIN index_jobs
  /\ \A n \in LogicalName :
       /\ call.stage = <<"insert", n>> => call.at = "index" /\ n \in DOMAIN index_jobs
       /\ (call.at = "index" /\ call.stage = <<"remove", n>>)
            => n \in DOMAIN index_jobs /\ Indexed(n) = Active(n)
  /\ call.at \in {"down", "idle"} => call.stage = <<"start">>

DurableInv ==
  /\ HeadsTyped /\ KnownTyped /\ SealedInPlace /\ LiveStored
  /\ JobsCurrent /\ DrainInOrder /\ IndexFollowsAliases

\* The mapping of DurableAliasesAreARegister.
DRegistered(as) ==
  [n \in DOMAIN as |-> [version |-> as[n].generation, closed |-> as[n].tombstone]]
DSeen(hs) == [c \in DClient |-> IF hs[c] = NoHead THEN [of |-> {}, version |-> 0]
                               ELSE [of |-> hs[c].of, version |-> hs[c].generation]]

(* The tables begin empty and the process is down.                            *)
LEMMA DurableStart == DurableInit => DurableInv /\ DurableRegister!RegisterInit
<1> SUFFICES ASSUME DurableInit PROVE DurableInv /\ DurableRegister!RegisterInit
  OBVIOUS
<1> USE DEF DurableInit
<1>1. /\ DOMAIN table_aliases = {} /\ DOMAIN table_objects = {} /\ DOMAIN index_jobs = {}
      /\ DOMAIN index = {}
  OBVIOUS
<1>2. HeadsTyped /\ KnownTyped /\ SealedInPlace /\ LiveStored /\ JobsCurrent
  BY <1>1 DEF HeadsTyped, KnownTyped, SealedInPlace, LiveStored, JobsCurrent
<1>3. DrainInOrder
  BY DEF DrainInOrder, Down
<1>4. IndexFollowsAliases
  BY <1>1 DEF IndexFollowsAliases, Indexed, Active
<1>5. DurableRegister!RegisterInit
  BY <1>1 DEF DurableRegister!RegisterInit, DurableRegister!Unseen
<1> QED BY <1>2, <1>3, <1>4, <1>5 DEF DurableInv

(* Objects come and go; those a live alias names stay.                     *)
LEMMA DurablePutStep ==
  ASSUME DurableInv, NEW n, NEW r, durable_put(n, r)
  PROVE  DurableInv' /\ UNCHANGED <<table_aliases, known>>
<1> DEFINE key == <<n, r, PlainView>>
<1>1. /\ UNCHANGED <<table_aliases, index_jobs, purge_jobs, index, purged, known, call>>
      /\ key \notin DOMAIN table_objects
      /\ table_objects' = Put(table_objects, key, seal(key, call.key_id))
  BY DEF durable_put
<1> HIDE DEF key
<1>2. /\ DOMAIN table_objects' = DOMAIN table_objects \cup {key}
      /\ table_objects'[key] = seal(key, call.key_id)
      /\ \A k \in DOMAIN table_objects : table_objects'[k] = table_objects[k]
  BY <1>1 DEF Put
<1>3. SealedInPlace'
  <2> SUFFICES ASSUME NEW k \in DOMAIN table_objects'
               PROVE  table_objects'[k] = seal(k, table_objects'[k].key_id)
    BY DEF SealedInPlace
  <2>1. CASE k = key
    BY <1>2, <2>1 DEF seal
  <2>2. CASE k # key
    BY <1>2, <2>2 DEF DurableInv, SealedInPlace
  <2> QED BY <2>1, <2>2
<1>4. LiveStored'
  BY <1>1, <1>2 DEF DurableInv, LiveStored
<1>5. HeadsTyped' /\ KnownTyped' /\ JobsCurrent' /\ DrainInOrder' /\ IndexFollowsAliases'
  BY <1>1 DEF DurableInv, HeadsTyped, KnownTyped, JobsCurrent, DrainInOrder,
             IndexFollowsAliases, Active, Indexed
<1> QED BY <1>1, <1>3, <1>4, <1>5 DEF DurableInv

(* What a client observes is the register's value.                         *)
LEMMA ObserveStep ==
  ASSUME DurableInv, NEW c \in DClient, NEW n \in LogicalName, Observe(c, n)
  PROVE  DurableInv' /\ DurableRegister!Observe(c, n)
<1>1. /\ n \in DOMAIN table_aliases /\ ~table_aliases[n].tombstone
      /\ known' = [known EXCEPT ![c] = table_aliases[n]]
      /\ UNCHANGED <<table_objects, table_aliases, index_jobs, purge_jobs, index, purged, call>>
  BY DEF Observe, DResolved
<1>2. table_aliases[n] \in StoredAlias /\ table_aliases[n].of = {n} /\ table_aliases[n] # NoHead
  BY <1>1, DurableAssumption DEF DurableInv, HeadsTyped
<1>3. DSeen(known') = [DSeen(known) EXCEPT ![c] = [of |-> {n}, version |-> table_aliases[n].generation]]
  <2>1. PICK hs, gs, a : hs = known /\ gs = known' /\ a = table_aliases[n].generation
    OBVIOUS
  <2>2. /\ gs[c].of = {n} /\ gs[c].generation = a /\ gs[c] # NoHead
        /\ \A x \in DClient : x # c => gs[x] = hs[x]
    BY <1>1, <1>2, <2>1 DEF DurableInv, KnownTyped
  <2>3. DSeen(gs) = [DSeen(hs) EXCEPT ![c] = [of |-> {n}, version |-> a]]
    <3>1. \A x \in DClient : DSeen(gs)[x] = IF x = c THEN [of |-> {n}, version |-> a] ELSE DSeen(hs)[x]
      BY ONLY <2>2 DEF DSeen
    <3> QED BY ONLY <3>1 DEF DSeen
  <2> QED BY <2>1, <2>3
<1>4. DurableInv'
  <2>1. KnownTyped'
    BY <1>1 DEF DurableInv, KnownTyped
  <2> QED BY <1>1, <2>1 DEF DurableInv, HeadsTyped, SealedInPlace, LiveStored, JobsCurrent,
            DrainInOrder, IndexFollowsAliases, Active, Indexed
<1>5. DRegistered(table_aliases)[n] = [version |-> table_aliases[n].generation,
                                       closed |-> table_aliases[n].tombstone]
  BY <1>1 DEF DRegistered
<1>6. DurableRegister!Observe(c, n)
  BY <1>1, <1>3, <1>5 DEF DurableRegister!Observe, DurableRegister!Knows, DRegistered, DSeen
<1> QED BY <1>4, <1>6

\* One alias is written and its client keeps the snapshot: what the register
\* makes of it.
HeadWrite(c, n, s) ==
  /\ HeadsTyped' /\ KnownTyped'
  /\ DOMAIN table_aliases' = DOMAIN table_aliases \cup {n}
  /\ table_aliases'[n] = s
  /\ \A x \in DOMAIN table_aliases : x # n => table_aliases'[x] = table_aliases[x]
  /\ DRegistered(table_aliases') = [x \in DOMAIN DRegistered(table_aliases) \cup {n} |->
       IF x = n THEN [version |-> s.generation, closed |-> s.tombstone]
       ELSE DRegistered(table_aliases)[x]]
  /\ DRegistered(table_aliases')[n] = [version |-> s.generation, closed |-> s.tombstone]
  /\ DSeen(known') = [DSeen(known) EXCEPT ![c] = [of |-> {n}, version |-> s.generation]]

(* Writing one snapshot that is typed as snapshots are does that.             *)
LEMMA HeadWritten ==
  ASSUME DurableInv, NEW c \in DClient, NEW n \in LogicalName, NEW s \in StoredAlias, s.of = {n},
         ~s.tombstone => s.revision \in StoredRevision,
         table_aliases' = Put(table_aliases, n, s), known' = [known EXCEPT ![c] = s]
  PROVE  HeadWrite(c, n, s)
<1>1. /\ DOMAIN table_aliases' = DOMAIN table_aliases \cup {n}
      /\ table_aliases'[n] = s
      /\ \A x \in DOMAIN table_aliases : x # n => table_aliases'[x] = table_aliases[x]
  BY DEF Put
<1>2. HeadsTyped'
  BY <1>1 DEF DurableInv, HeadsTyped
<1>3. KnownTyped' /\ known'[c] = s /\ \A x \in DClient : x # c => known'[x] = known[x]
  BY DEF DurableInv, KnownTyped
<1>4. s # NoHead
  BY DurableAssumption
<1>5. PICK as, bs, hs, gs : as = table_aliases /\ bs = table_aliases' /\ hs = known /\ gs = known'
  OBVIOUS
<1>6. DRegistered(bs) = [x \in DOMAIN DRegistered(as) \cup {n} |->
              IF x = n THEN [version |-> s.generation, closed |-> s.tombstone]
              ELSE DRegistered(as)[x]]
  <2>1. /\ DOMAIN bs = DOMAIN as \cup {n} /\ bs[n] = s
        /\ \A x \in DOMAIN as : x # n => bs[x] = as[x]
    BY <1>1, <1>5
  <2>2. \A x \in DOMAIN bs : [version |-> bs[x].generation, closed |-> bs[x].tombstone]
                            = IF x = n THEN [version |-> s.generation, closed |-> s.tombstone]
                              ELSE DRegistered(as)[x]
    <3>1. \A x \in DOMAIN as : DRegistered(as)[x] = [version |-> as[x].generation,
                                                     closed |-> as[x].tombstone]
      BY ONLY DEF DRegistered
    <3> QED BY ONLY <2>1, <3>1
  <2>3. DOMAIN DRegistered(as) = DOMAIN as
    BY ONLY DEF DRegistered
  <2> QED BY ONLY <2>1, <2>2, <2>3 DEF DRegistered
<1>7. DSeen(gs) = [DSeen(hs) EXCEPT ![c] = [of |-> {n}, version |-> s.generation]]
  <2>1. gs[c] = s /\ s.of = {n} /\ s # NoHead /\ \A x \in DClient : x # c => gs[x] = hs[x]
    BY <1>3, <1>4, <1>5
  <2>2. \A x \in DClient : DSeen(gs)[x] = IF x = c THEN [of |-> {n}, version |-> s.generation]
                                          ELSE DSeen(hs)[x]
    BY ONLY <2>1 DEF DSeen
  <2> QED BY ONLY <2>2 DEF DSeen
<1>8. DRegistered(table_aliases')[n] = [version |-> s.generation, closed |-> s.tombstone]
  BY <1>1 DEF DRegistered
<1> QED BY <1>1, <1>2, <1>3, <1>5, <1>6, <1>7, <1>8 DEF HeadWrite

(* The jobs of a write: its own asks for what the alias says now, the       *)
(* others are as they were, and a drain of all of them begins.             *)
LEMMA JobWritten ==
  ASSUME DurableInv, NEW n \in LogicalName, NEW todo, NEW j,
         DOMAIN table_aliases' = DOMAIN table_aliases \cup {n},
         \A x \in DOMAIN table_aliases : x # n => table_aliases'[x] = table_aliases[x],
         j = [upsert |-> Active(n)'], index_jobs' = Put(index_jobs, n, j), index' = index,
         NEW next, NEW key, call' = DrainIndex(DOMAIN index_jobs', next, key)
  PROVE  JobsCurrent' /\ DrainInOrder' /\ IndexFollowsAliases'
<1>1. \A x \in LogicalName : x # n => Active(x)' = Active(x)
  BY DEF Active
<1>2. /\ DOMAIN index_jobs' = DOMAIN index_jobs \cup {n} /\ index_jobs'[n] = j
      /\ \A x \in DOMAIN index_jobs : x # n => index_jobs'[x] = index_jobs[x]
  BY DEF Put
<1>3. JobsCurrent'
  BY <1>1, <1>2 DEF DurableInv, JobsCurrent
<1>4. DrainInOrder'
  BY <1>2 DEF DrainInOrder, DrainIndex
<1>5. IndexFollowsAliases'
  BY <1>1, <1>2 DEF DurableInv, IndexFollowsAliases, Indexed
<1> QED BY <1>3, <1>4, <1>5

(* A move that succeeds replaces exactly what its client knew, or creates   *)
(* the name.                                                               *)
LEMMA MoveStep ==
  ASSUME DurableInv, NEW c \in DClient, NEW n \in LogicalName, NEW r \in StoredRevision,
         MoveAlias(c, n, r)
  PROVE  DurableInv' /\ (DurableRegister!CreateName(c, n) \/ DurableRegister!Replace(c, n, FALSE))
<1> DEFINE g == IF n \in DOMAIN table_aliases THEN table_aliases[n].generation + 1 ELSE 1
           s == FirstJob(n, r, g, FALSE)
<1>1. /\ TargetStored(n, r)
      /\ n \in DOMAIN table_aliases => Current(c, n) /\ table_aliases[n].generation < LastGeneration
      /\ table_aliases' = Put(table_aliases, n, s) /\ known' = [known EXCEPT ![c] = s]
      /\ index_jobs' = Put(index_jobs, n, Upsert(r))
      /\ call' = DrainIndex(DOMAIN index_jobs', FALSE, call.key_id)
      /\ UNCHANGED <<table_objects, index>>
  BY DEF MoveAlias
<1>2. g \in 1 .. LastGeneration
  BY <1>1, DurableAssumption DEF DurableInv, HeadsTyped, StoredAlias
<1> HIDE DEF g
<1>3. PICK h : /\ h = s /\ h.of = {n} /\ h.revision = r /\ h.generation = g
               /\ h.tombstone = FALSE /\ h \in StoredAlias
  <2>1. s.of = {n} /\ s.revision = r /\ s.generation = g /\ s.tombstone = FALSE /\ s \in StoredAlias
    BY <1>2 DEF FirstJob, StoredAlias
  <2> HIDE DEF s
  <2> QED BY <2>1
<1> HIDE DEF s
<1>4. HeadWrite(c, n, h)
  <2>1. table_aliases' = Put(table_aliases, n, h) /\ known' = [known EXCEPT ![c] = h]
    BY <1>1, <1>3
  <2>2. ~h.tombstone => h.revision \in StoredRevision
    BY <1>3
  <2> QED BY ONLY DurableInv, <1>3, <2>1, <2>2, HeadWritten
<1> USE DEF HeadWrite
<1>5. DurableInv'
  <2>1. Active(n)' = {r}
    BY <1>3, <1>4 DEF Active
  <2>2. JobsCurrent' /\ DrainInOrder' /\ IndexFollowsAliases'
    BY <1>1, <1>4, <2>1, JobWritten DEF Upsert
  <2>3. LiveStored'
    <3>1. <<n, r, PlainView>> \in DOMAIN table_objects
      BY <1>1 DEF TargetStored, read_object
    <3> QED BY <1>1, <1>3, <1>4, <3>1 DEF DurableInv, LiveStored
  <2>4. SealedInPlace'
    BY <1>1 DEF DurableInv, SealedInPlace
  <2> QED BY <1>4, <2>2, <2>3, <2>4 DEF DurableInv
<1>6. CASE n \notin DOMAIN table_aliases
  <2>1. g = 1
    BY <1>6 DEF g
  <2>2. DurableRegister!CreateName(c, n)
    BY <1>3, <1>4, <1>6, <2>1
       DEF DurableRegister!CreateName, DurableRegister!Write, DurableRegister!Knows, DRegistered, DSeen
  <2> QED BY <1>5, <2>2
<1>7. CASE n \in DOMAIN table_aliases
  <2>1. /\ ~table_aliases[n].tombstone /\ known[c] = table_aliases[n]
        /\ g = table_aliases[n].generation + 1
    BY <1>1, <1>7 DEF Current, g
  <2>2. table_aliases[n] \in StoredAlias /\ table_aliases[n].of = {n} /\ table_aliases[n] # NoHead
    BY <1>7, DurableAssumption DEF DurableInv, HeadsTyped
  <2>3. DSeen(known)[c] = [of |-> {n}, version |-> table_aliases[n].generation]
    BY <2>1, <2>2 DEF DSeen
  <2>4. DRegistered(table_aliases)[n] = [version |-> table_aliases[n].generation,
                                         closed |-> table_aliases[n].tombstone]
    BY <1>7 DEF DRegistered
  <2>5. h.generation = table_aliases[n].generation + 1 /\ h.tombstone = FALSE
    BY <1>3, <2>1
  <2>6. DurableRegister!Replace(c, n, FALSE)
    BY <1>4, <1>7, <2>1, <2>3, <2>4, <2>5
       DEF DurableRegister!Replace, DurableRegister!Saw, DurableRegister!Write,
           DurableRegister!Knows, DRegistered, DSeen
  <2> QED BY <1>5, <2>6
<1> QED BY <1>6, <1>7

(* A forget closes the name, erases its objects and asks for its erasure.  *)
LEMMA DurableForgetStep ==
  ASSUME DurableInv, NEW c \in DClient, NEW n \in LogicalName, durable_forget(c, n)
  PROVE  DurableInv' /\ DurableRegister!Replace(c, n, TRUE)
<1> DEFINE g == table_aliases[n].generation + 1
           s == FirstJob(n, <<"tombstone", table_aliases[n].revision>>, g, TRUE)
<1>1. /\ n \in DOMAIN table_aliases
      /\ Current(c, n) /\ table_aliases[n].generation < LastGeneration
      /\ table_aliases' = Put(table_aliases, n, s) /\ known' = [known EXCEPT ![c] = s]
      /\ table_objects' = RemoveStored(table_objects, object_keys_for(n))
      /\ index_jobs' = Put(index_jobs, n, Erase)
      /\ call' = DrainIndex(DOMAIN index_jobs', TRUE, call.key_id)
      /\ UNCHANGED index
  BY DEF durable_forget
<1>2. g \in 1 .. LastGeneration /\ table_aliases[n].revision \in StoredRevision
  BY <1>1, DurableAssumption DEF DurableInv, HeadsTyped, StoredAlias, Current
<1> DEFINE ts == <<"tombstone", table_aliases[n].revision>>
<1>a. ts \in {<<"tombstone", r>> : r \in StoredRevision}
  BY <1>2
<1>3. PICK h : h = s /\ h.of = {n} /\ h.generation = g /\ h.tombstone = TRUE /\ h \in StoredAlias
  <2> HIDE DEF g, ts
  <2>1. FirstJob(n, ts, g, TRUE) \in StoredAlias
    BY <1>2, <1>a DEF FirstJob, StoredAlias
  <2>2. s = FirstJob(n, ts, g, TRUE)
    BY DEF ts
  <2> QED BY <2>1, <2>2 DEF FirstJob
<1> HIDE DEF s
<1>4. HeadWrite(c, n, h)
  <2>1. table_aliases' = Put(table_aliases, n, h) /\ known' = [known EXCEPT ![c] = h]
    BY <1>1, <1>3
  <2>2. ~h.tombstone => h.revision \in StoredRevision
    BY <1>3
  <2> QED BY ONLY DurableInv, <1>3, <2>1, <2>2, HeadWritten
<1> USE DEF HeadWrite
<1>5. DurableInv'
  <2>1. Active(n)' = {}
    BY <1>3, <1>4 DEF Active
  <2>2. JobsCurrent' /\ DrainInOrder' /\ IndexFollowsAliases'
    BY <1>1, <1>4, <2>1, JobWritten DEF Erase
  <2>3. /\ DOMAIN table_objects' = {k \in DOMAIN table_objects : k[1] # n}
        /\ \A k \in DOMAIN table_objects' : table_objects'[k] = table_objects[k]
    BY <1>1 DEF RemoveStored, object_keys_for
  <2>4. LiveStored'
    BY <1>3, <1>4, <2>3 DEF DurableInv, LiveStored
  <2>5. SealedInPlace'
    BY <2>3 DEF DurableInv, SealedInPlace
  <2> QED BY <1>4, <2>2, <2>4, <2>5 DEF DurableInv
<1>6. /\ ~table_aliases[n].tombstone /\ known[c] = table_aliases[n]
      /\ h.generation = table_aliases[n].generation + 1 /\ h.tombstone = TRUE
  BY <1>1, <1>3 DEF Current
<1>7. table_aliases[n] \in StoredAlias /\ table_aliases[n].of = {n} /\ table_aliases[n] # NoHead
  BY <1>1, DurableAssumption DEF DurableInv, HeadsTyped
<1>8. DSeen(known)[c] = [of |-> {n}, version |-> table_aliases[n].generation]
  BY <1>6, <1>7 DEF DSeen
<1>9. DRegistered(table_aliases)[n] = [version |-> table_aliases[n].generation,
                                       closed |-> table_aliases[n].tombstone]
  BY <1>1 DEF DRegistered
<1>10. DurableRegister!Replace(c, n, TRUE)
  <2> HIDE DEF g
  <2> QED BY <1>1, <1>4, <1>6, <1>8, <1>9
     DEF DurableRegister!Replace, DurableRegister!Saw, DurableRegister!Write,
         DurableRegister!Knows, DRegistered, DSeen
<1> QED BY <1>5, <1>10

(* The drains leave objects, aliases and clients alone.                    *)
LEMMA DrainKeeps ==
  ASSUME DurableInv, UNCHANGED <<table_objects, table_aliases, known>>
  PROVE  /\ HeadsTyped' /\ KnownTyped' /\ SealedInPlace' /\ LiveStored'
         /\ \A n : Active(n)' = Active(n)
BY DEF DurableInv, HeadsTyped, KnownTyped, SealedInPlace, LiveStored, Active

(* A call begins: at rest, down, or with a drain of every pending job.     *)
LEMMA CallBegins ==
  ASSUME DurableInv, UNCHANGED <<table_objects, table_aliases, index_jobs, index, known>>,
         NEW next, NEW key,
         call' \in {Down, Idle(key), DrainIndex(DOMAIN index_jobs, next, key), DrainPurge(key)}
  PROVE  DurableInv'
<1>1. JobsCurrent' /\ IndexFollowsAliases'
  BY DrainKeeps DEF DurableInv, JobsCurrent, IndexFollowsAliases, Indexed
<1>2. DrainInOrder'
  BY DEF DrainInOrder, Down, Idle, DrainIndex, DrainPurge
<1> QED BY <1>1, <1>2, DrainKeeps DEF DurableInv

(* The scope is erased first.                                              *)
LEMMA EraseStep ==
  ASSUME DurableInv, NEW n \in LogicalName, EraseScope(n)
  PROVE  DurableInv'
<1>1. /\ call.at = "index" /\ n \in call.todo
      /\ index' = RemoveStored(index, {n})
      /\ call' = [call EXCEPT !.stage = IF index_jobs[n] = Erase THEN <<"remove", n>>
                                        ELSE <<"insert", n>>]
      /\ UNCHANGED <<table_objects, table_aliases, index_jobs, known>>
  BY DEF EraseScope
<1>2. n \in DOMAIN index_jobs /\ index_jobs[n] = [upsert |-> Active(n)]
  BY <1>1 DEF DurableInv, DrainInOrder, JobsCurrent
<1>3. Indexed(n)' = {} /\ \A x : x # n => Indexed(x)' = Indexed(x)
  BY <1>1 DEF Indexed, RemoveStored
<1>4. JobsCurrent' /\ IndexFollowsAliases'
  BY <1>1, <1>2, <1>3, DrainKeeps DEF DurableInv, JobsCurrent, IndexFollowsAliases
<1>5. /\ call'.at = "index" /\ call'.todo = call.todo
      /\ call'.stage = IF index_jobs[n] = Erase THEN <<"remove", n>> ELSE <<"insert", n>>
      /\ call' = [at |-> call'.at, todo |-> call'.todo, stage |-> call'.stage, next |-> call'.next,
                  key_id |-> call'.key_id]
  BY <1>1 DEF DurableInv, DrainInOrder
<1>6. index_jobs[n] = Erase => Active(n) = {}
  BY <1>2 DEF Erase
<1>7. ASSUME NEW x \in LogicalName
      PROVE  /\ call'.stage = <<"insert", x>> => x \in DOMAIN index_jobs'
             /\ call'.stage = <<"remove", x>>
                  => x \in DOMAIN index_jobs' /\ Indexed(x)' = Active(x)'
  BY <1>1, <1>2, <1>3, <1>5, <1>6, DrainKeeps
<1>8. DrainInOrder'
  BY <1>1, <1>5, <1>7 DEF DurableInv, DrainInOrder
<1> QED BY <1>1, <1>4, <1>8, DrainKeeps DEF DurableInv

(* Then the point goes in.                                                 *)
LEMMA InsertStep ==
  ASSUME DurableInv, NEW n \in LogicalName, InsertPoint(n)
  PROVE  DurableInv'
<1>1. /\ call.at = "index" /\ n \in DOMAIN index_jobs /\ index_jobs[n] = [upsert |-> Active(n)]
  BY DEF InsertPoint, DurableInv, DrainInOrder, JobsCurrent
<1>2. PICK r \in Active(n) : index' = Put(index, n, r)
  BY <1>1 DEF InsertPoint
<1>3. /\ call' = [call EXCEPT !.stage = <<"remove", n>>]
      /\ UNCHANGED <<table_objects, table_aliases, index_jobs, known>>
  BY DEF InsertPoint
<1>4. Indexed(n)' = {r} /\ \A x : x # n => Indexed(x)' = Indexed(x)
  BY <1>2 DEF Indexed, Put
<1>5. Active(n) = {r}
  BY <1>2 DEF Active
<1>6. JobsCurrent' /\ IndexFollowsAliases'
  BY <1>1, <1>3, <1>4, DrainKeeps DEF DurableInv, JobsCurrent, IndexFollowsAliases
<1>7. /\ call'.at = "index" /\ call'.todo = call.todo /\ call'.stage = <<"remove", n>>
      /\ call' = [at |-> call'.at, todo |-> call'.todo, stage |-> call'.stage, next |-> call'.next,
                  key_id |-> call'.key_id]
  BY <1>1, <1>3 DEF DurableInv, DrainInOrder
<1>8. DrainInOrder'
  BY <1>1, <1>3, <1>4, <1>5, <1>7, DrainKeeps DEF DurableInv, DrainInOrder
<1> QED BY <1>3, <1>6, <1>8, DrainKeeps DEF DurableInv

(* And only then the job goes.                                             *)
LEMMA RemoveJobStep ==
  ASSUME DurableInv, NEW n \in LogicalName, RemoveIndexJob(n)
  PROVE  DurableInv'
<1>1. /\ call.at = "index" /\ call.stage = <<"remove", n>>
      /\ index_jobs' = RemoveStored(index_jobs, {n})
      /\ call' = [call EXCEPT !.todo = @ \ {n}, !.stage = <<"start">>]
      /\ UNCHANGED <<table_objects, table_aliases, index, known>>
  BY DEF RemoveIndexJob
<1>2. Indexed(n) = Active(n) /\ \A x : Indexed(x)' = Indexed(x)
  BY <1>1 DEF DurableInv, DrainInOrder, Indexed
<1>3. /\ DOMAIN index_jobs' = DOMAIN index_jobs \ {n}
      /\ \A x \in DOMAIN index_jobs' : index_jobs'[x] = index_jobs[x]
  BY <1>1 DEF RemoveStored
<1>4. JobsCurrent' /\ IndexFollowsAliases'
  BY <1>1, <1>2, <1>3, DrainKeeps DEF DurableInv, JobsCurrent, IndexFollowsAliases
<1>5. /\ call'.at = "index" /\ call'.todo = call.todo \ {n} /\ call'.stage = <<"start">>
      /\ call' = [at |-> call'.at, todo |-> call'.todo, stage |-> call'.stage, next |-> call'.next,
                  key_id |-> call'.key_id]
  BY <1>1 DEF DurableInv, DrainInOrder
<1>6. DrainInOrder'
  BY <1>1, <1>3, <1>5 DEF DurableInv, DrainInOrder
<1> QED BY <1>1, <1>4, <1>6, DrainKeeps DEF DurableInv

(* The purge outbox is drained beside the index.                           *)
LEMMA PurgeStep ==
  ASSUME DurableInv, NEW n \in LogicalName, PurgeSink(n) \/ RemovePurgeJob(n)
  PROVE  DurableInv'
<1>1. /\ call.at = "purge"
      /\ \/ call' = [call EXCEPT !.stage = <<"remove", n>>]
         \/ call' = [call EXCEPT !.todo = @ \ {n}, !.stage = <<"start">>]
      /\ UNCHANGED <<table_objects, table_aliases, index_jobs, index, known>>
  BY DEF PurgeSink, RemovePurgeJob
<1>2. JobsCurrent' /\ IndexFollowsAliases'
  BY <1>1, DrainKeeps DEF DurableInv, JobsCurrent, IndexFollowsAliases, Indexed
<1>3. /\ call'.at = "purge" /\ call'.stage \in {<<"remove", n>>, <<"start">>}
      /\ call' = [at |-> call'.at, todo |-> call'.todo, stage |-> call'.stage, next |-> call'.next,
                  key_id |-> call'.key_id]
  BY <1>1 DEF DurableInv, DrainInOrder
<1>4. DrainInOrder'
  BY <1>3 DEF DrainInOrder
<1> QED BY <1>1, <1>2, <1>4, DrainKeeps DEF DurableInv

LEMMA DurableStep ==
  ASSUME DurableInv, [DurableNext]_durableVars
  PROVE  DurableInv' /\ [DurableRegister!RegisterNext]_DurableRegister!registerVars
<1> DEFINE Kept == UNCHANGED <<table_aliases, known>>
<1>0. ASSUME Kept PROVE UNCHANGED DurableRegister!registerVars
  BY <1>0 DEF DurableRegister!registerVars
<1>1. ASSUME NEW n \in LogicalName, NEW r \in StoredRevision, durable_put(n, r)
      PROVE  DurableInv' /\ Kept
  BY <1>1, DurablePutStep
<1>2. ASSUME NEW c \in DClient, NEW n \in LogicalName, Observe(c, n)
      PROVE  DurableInv' /\ DurableRegister!RegisterNext
  BY <1>2, ObserveStep DEF DurableRegister!RegisterNext
<1>3. ASSUME NEW c \in DClient, NEW n \in LogicalName, durable_forget(c, n)
      PROVE  DurableInv' /\ DurableRegister!RegisterNext
  <2>1. DurableInv' /\ DurableRegister!Replace(c, n, TRUE)
    BY <1>3, DurableForgetStep
  <2> QED BY <2>1 DEF DurableRegister!RegisterNext
<1>4. ASSUME NEW c \in DClient, NEW n \in LogicalName, NEW r \in StoredRevision, MoveAlias(c, n, r)
      PROVE  DurableInv' /\ DurableRegister!RegisterNext
  <2>1. DurableInv' /\ (DurableRegister!CreateName(c, n) \/ DurableRegister!Replace(c, n, FALSE))
    BY <1>4, MoveStep
  <2> QED BY <2>1 DEF DurableRegister!RegisterNext
<1>5. ASSUME NEW key \in KeyId, open(key) PROVE DurableInv' /\ Kept
  <2>1. /\ UNCHANGED <<table_objects, table_aliases, index_jobs, index, known>>
        /\ \E k, b : call' = DrainIndex(DOMAIN index_jobs, b, k)
    BY <1>5 DEF open
  <2> QED BY <2>1, CallBegins
<1>6. CASE maintenance \/ durable_search \/ DrainFails \/ Crash \/ IndexDrained \/ PurgeDrained
  <2>1. DurableInv' /\ Kept
    <3>1. /\ UNCHANGED <<table_objects, table_aliases, index_jobs, index, known>>
          /\ \/ \E k, b : call' = DrainIndex(DOMAIN index_jobs, b, k)
             \/ \E k : call' = Idle(k) \/ call' = DrainPurge(k)
             \/ call' = Down
      BY <1>6 DEF maintenance, durable_search, DrainFails, Crash, IndexDrained, PurgeDrained
    <3> QED BY <3>1, CallBegins
  <2> QED BY <1>0, <2>1
<1>7. ASSUME NEW n \in LogicalName,
             EraseScope(n) \/ InsertPoint(n) \/ RemoveIndexJob(n) \/ PurgeSink(n) \/ RemovePurgeJob(n)
      PROVE  DurableInv' /\ Kept
  <2>1. Kept
    BY <1>7 DEF EraseScope, InsertPoint, RemoveIndexJob, PurgeSink, RemovePurgeJob
  <2> QED BY <1>7, <2>1, EraseStep, InsertStep, RemoveJobStep, PurgeStep
<1>8. CASE UNCHANGED durableVars
  <2>1. Kept /\ UNCHANGED <<table_objects, table_aliases, index_jobs, index, known, call>>
    BY <1>8 DEF durableVars
  <2>2. JobsCurrent' /\ IndexFollowsAliases' /\ DrainInOrder'
    BY <2>1 DEF DurableInv, JobsCurrent, IndexFollowsAliases, Indexed, Active, DrainInOrder
  <2>3. DurableInv'
    BY <2>1, <2>2, DrainKeeps DEF DurableInv
  <2> QED BY <1>0, <2>1, <2>3
<1> HIDE DEF Kept
<1> QED BY <1>0, <1>1, <1>2, <1>3, <1>4, <1>5, <1>6, <1>7, <1>8 DEF DurableNext, DrainStep

(* Every live name is found while its objects open.                        *)
LEMMA DurableInvListings == DurableInv => ListingsAnswer
<1> SUFFICES ASSUME DurableInv, \A k \in DOMAIN table_objects : table_objects[k].key_id = call.key_id,
                    NEW listing \in SUBSET LogicalName
             PROVE  \E found \in durable_enumerate(listing) : \A n \in DOMAIN found :
                      /\ \E past \in durable_history(n) : found[n] \in past
                      /\ durable_verify(n, NoHead) /\ prepare_execute(n, found[n])
  BY DEF ListingsAnswer
<1>1. \A k \in DOMAIN table_objects : Opens(k)
  BY DEF DurableInv, SealedInPlace, Opens
<1> DEFINE live == {n \in all_aliases \cap listing : ~table_aliases[n].tombstone}
           found == [n \in live |-> table_aliases[n].revision]
<1>2. \A n \in live : /\ n \in DOMAIN table_aliases /\ ~table_aliases[n].tombstone
                      /\ table_aliases[n].revision \in StoredRevision
                      /\ read_object(n, table_aliases[n].revision, PlainView)
  BY <1>1 DEF DurableInv, LiveStored, HeadsTyped, all_aliases, read_object
<1>3. found \in durable_enumerate(listing)
  BY <1>2 DEF durable_enumerate
<1>4. ASSUME NEW n \in live
      PROVE  /\ \E past \in durable_history(n) : found[n] \in past
             /\ durable_verify(n, NoHead) /\ prepare_execute(n, found[n])
  <2>1. found[n] = table_aliases[n].revision
    OBVIOUS
  <2>2. durable_history(n) = {{k[2] : k \in object_keys_for(n)}}
    BY <1>1, <1>2 DEF durable_history, all_aliases, object_keys_for
  <2>3. found[n] \in {k[2] : k \in object_keys_for(n)}
    <3> DEFINE k == <<n, table_aliases[n].revision, PlainView>>
    <3>1. k \in DOMAIN table_objects /\ k[1] = n /\ k[2] = found[n]
      BY <1>2 DEF read_object
    <3> QED BY <3>1 DEF object_keys_for
  <2>4. durable_verify(n, NoHead)
    BY <1>2 DEF durable_verify, DResolved
  <2>5. prepare_execute(n, found[n])
    <3>1. found[n] # NoHead
      BY <1>2, <2>1, DurableAssumption
    <3> QED BY <1>2, <2>1, <3>1 DEF prepare_execute, DResolved
  <2> QED BY <2>2, <2>3, <2>4, <2>5
<1> HIDE DEF live
<1> QED BY <1>3, <1>4

(* Invariant of the durable resolver: a pending index job asks for what the   *)
(* alias says now, a live alias names a stored object, and a drain removes a  *)
(* job only when the index agrees with it (context-service resolver.rs).      *)
THEOREM DurableInvariant == DurableSpec => []DurableInv
<1>1. DurableInit => DurableInv
  BY DurableStart
<1>2. DurableInv /\ [DurableNext]_durableVars => DurableInv'
  BY DurableStep
<1> QED BY <1>1, <1>2, PTL DEF DurableSpec

(* Through failures and crashes between the steps of a drain, a name without  *)
(* a pending job is indexed as its alias says (active_index.rs, apply and     *)
(* remove_job_if_unchanged).                                                  *)
THEOREM IndexHolds == DurableSpec => []IndexFollowsAliases
<1>1. DurableInv => IndexFollowsAliases
  BY DEF DurableInv
<1> QED BY <1>1, DurableInvariant, PTL

(* While one wrapping key is kept, enumerate refuses no listing, and every    *)
(* live name is in its history and can be verified and executed.              *)
THEOREM ListingsHold == DurableSpec => []ListingsAnswer
BY DurableInvariant, DurableInvListings, PTL

(* Erasure.  A purge job goes only after the sink erased the name, and the   *)
(* purge outbox is drained only when no index job is left: then the index    *)
(* says what the aliases say, and has no point of a forgotten name.          *)
PurgeInOrder ==
  /\ call.at = "index" => DOMAIN index_jobs \subseteq call.todo
  /\ call.at = "purge" => DOMAIN index_jobs = {}
  /\ \A n \in LogicalName : (call.at = "purge" /\ call.stage = <<"remove", n>>) => n \in purged

ErasureInv == PurgeInOrder /\ ErasureOwed

(* What changes neither aliases nor purge jobs, forgets no erasure and adds  *)
(* no point of a forgotten name, owes nothing more.                          *)
LEMMA ErasureStays ==
  ASSUME ErasureOwed, UNCHANGED table_aliases, purge_jobs \subseteq purge_jobs',
         purged \subseteq purged',
         \A n \in DOMAIN index' : n \in DOMAIN index \/ ~table_aliases[n].tombstone
  PROVE  ErasureOwed'
BY DEF ErasureOwed

(* No step loses an erasure.                                                 *)
LEMMA ErasureStep ==
  ASSUME DurableInv, ErasureInv, [DurableNext]_durableVars
  PROVE  ErasureInv'
<1> USE DEF ErasureInv
<1>1. CASE UNCHANGED durableVars
  BY <1>1 DEF durableVars, PurgeInOrder, ErasureOwed
<1>2. ASSUME NEW n \in LogicalName, NEW r \in StoredRevision, durable_put(n, r)
      PROVE  ErasureInv'
  BY <1>2 DEF durable_put, PurgeInOrder, ErasureOwed
<1>3. ASSUME NEW c \in DClient, NEW n \in LogicalName, Observe(c, n)
      PROVE  ErasureInv'
  BY <1>3 DEF Observe, PurgeInOrder, ErasureOwed
<1>4. ASSUME NEW c \in DClient, NEW n \in LogicalName, durable_forget(c, n)
      PROVE  ErasureInv'
  <2>1. /\ \E s : table_aliases' = Put(table_aliases, n, s)
        /\ purge_jobs' = purge_jobs \cup {n} /\ UNCHANGED <<index, purged>>
        /\ call' = DrainIndex(DOMAIN index_jobs', TRUE, call.key_id)
    BY <1>4 DEF durable_forget, Erasure
  <2>2. ErasureOwed'
    BY <2>1 DEF ErasureOwed, Put
  <2> QED BY <2>1, <2>2 DEF PurgeInOrder, DrainIndex
<1>5. ASSUME NEW c \in DClient, NEW n \in LogicalName, NEW r \in StoredRevision, MoveAlias(c, n, r)
      PROVE  ErasureInv'
  <2>1. PICK s : /\ table_aliases' = Put(table_aliases, n, s) /\ ~s.tombstone
                 /\ UNCHANGED <<index, purged, purge_jobs>>
                 /\ call' = DrainIndex(DOMAIN index_jobs', FALSE, call.key_id)
    BY <1>5 DEF MoveAlias, FirstJob
  <2>2. ErasureOwed'
    BY <2>1 DEF ErasureOwed, Put
  <2> QED BY <2>1, <2>2 DEF PurgeInOrder, DrainIndex
<1>6. ASSUME \/ \E key \in KeyId : open(key)
             \/ maintenance \/ durable_search \/ DrainFails \/ Crash
      PROVE  ErasureInv'
  <2>1. /\ UNCHANGED <<table_aliases, index_jobs, purge_jobs, index, purged>>
        /\ \/ call'.at \in {"down", "idle"}
           \/ call'.at = "index" /\ call'.todo = DOMAIN index_jobs
    BY <1>6 DEF open, maintenance, durable_search, DrainFails, Crash, Idle, Down, DrainIndex
  <2> QED BY <2>1 DEF PurgeInOrder, ErasureOwed
<1>7. ASSUME IndexDrained \/ PurgeDrained PROVE ErasureInv'
  <2>1. /\ UNCHANGED <<table_aliases, index_jobs, purge_jobs, index, purged>>
        /\ \/ call'.at = "idle"
           \/ call.at = "index" /\ call.todo = {} /\ call'.at = "purge" /\ call'.stage = <<"start">>
    BY <1>7 DEF IndexDrained, PurgeDrained, Idle, DrainPurge
  <2>2. call'.at = "purge" => DOMAIN index_jobs' = {}
    BY <2>1 DEF PurgeInOrder
  <2>3. \A n : call'.at = "purge" => call'.stage # <<"remove", n>>
    BY <2>1
  <2>4. call'.at # "index"
    BY <2>1
  <2> QED BY <2>1, <2>2, <2>3, <2>4 DEF PurgeInOrder, ErasureOwed
<1>8. ASSUME NEW n \in LogicalName, EraseScope(n) \/ InsertPoint(n) PROVE ErasureInv'
  <2>1. /\ UNCHANGED <<table_aliases, index_jobs, purge_jobs, purged>>
        /\ call.at = "index" /\ call'.at = "index" /\ call'.todo = call.todo
    BY <1>8 DEF EraseScope, InsertPoint, DurableInv, DrainInOrder
  <2>2. \A x \in DOMAIN index' : x \in DOMAIN index \/ ~table_aliases[x].tombstone
    <3>1. CASE EraseScope(n)
      BY <3>1 DEF EraseScope, RemoveStored
    <3>2. CASE InsertPoint(n)
      <4>1. n \in DOMAIN index_jobs /\ index_jobs[n] = [upsert |-> Active(n)]
        BY <3>2 DEF InsertPoint, DurableInv, DrainInOrder, JobsCurrent
      <4>2. PICK r \in Active(n) : index' = Put(index, n, r)
        BY <3>2, <4>1 DEF InsertPoint
      <4> QED BY <4>2 DEF Active, Put
    <3> QED BY <1>8, <3>1, <3>2
  <2> QED BY <2>1, <2>2, ErasureStays DEF PurgeInOrder
<1>9. ASSUME NEW n \in LogicalName, RemoveIndexJob(n) PROVE ErasureInv'
  <2>1. /\ UNCHANGED <<table_aliases, purge_jobs, index, purged>>
        /\ index_jobs' = RemoveStored(index_jobs, {n})
        /\ call'.at = "index" /\ call'.todo = call.todo \ {n}
    BY <1>9 DEF RemoveIndexJob, DurableInv, DrainInOrder
  <2>2. DOMAIN index_jobs' \subseteq call'.todo
    BY <1>9, <2>1 DEF PurgeInOrder, RemoveStored, RemoveIndexJob
  <2> QED BY <2>1, <2>2 DEF PurgeInOrder, ErasureOwed
<1>10. ASSUME NEW n \in LogicalName, PurgeSink(n) PROVE ErasureInv'
  <2>1. /\ UNCHANGED <<table_aliases, index_jobs, purge_jobs, index>>
        /\ purged' = purged \cup {n}
        /\ call.at = "purge" /\ call'.at = "purge" /\ call'.stage = <<"remove", n>>
    BY <1>10 DEF PurgeSink, DurableInv, DrainInOrder
  <2>2. PurgeInOrder'
    BY <2>1 DEF PurgeInOrder
  <2> QED BY <2>1, <2>2, ErasureStays
<1>11. ASSUME NEW n \in LogicalName, RemovePurgeJob(n) PROVE ErasureInv'
  <2>1. /\ UNCHANGED <<table_aliases, index_jobs, index, purged>>
        /\ purge_jobs' = purge_jobs \ {n}
        /\ call.at = "purge" /\ call.stage = <<"remove", n>>
        /\ call'.at = "purge" /\ call'.stage = <<"start">>
    BY <1>11 DEF RemovePurgeJob, DurableInv, DrainInOrder
  <2>2. n \in purged /\ Indexed(n) = Active(n)
    BY <2>1 DEF PurgeInOrder, DurableInv, IndexFollowsAliases
  <2>3. table_aliases[n].tombstone => n \notin DOMAIN index
    BY <2>2 DEF Indexed, Active
  <2>4. ErasureOwed'
    BY <2>1, <2>2, <2>3 DEF ErasureOwed
  <2> QED BY <2>1, <2>4 DEF PurgeInOrder
<1> QED
  BY <1>1, <1>2, <1>3, <1>4, <1>5, <1>6, <1>7, <1>8, <1>9, <1>10, <1>11
     DEF DurableNext, DrainStep

(* No erasure is owed before a name is forgotten.                            *)
LEMMA ErasureStart == DurableInit => ErasureInv
BY DEF DurableInit, ErasureInv, ErasureOwed, PurgeInOrder, Down

(* For any number of names and clients, and drains that fail or are cut off  *)
(* anywhere: the erasure of a forgotten name is done or still owed           *)
(* (resolver.rs: forget, drain_purge_jobs).                                  *)
THEOREM ErasureHolds == DurableSpec => []ErasureOwed
<1>1. DurableInit => DurableInv /\ ErasureInv
  BY DurableStart, ErasureStart
<1>2. DurableInv /\ ErasureInv /\ [DurableNext]_durableVars => DurableInv' /\ ErasureInv'
  BY DurableStep, ErasureStep
<1>3. ErasureInv => ErasureOwed
  BY DEF ErasureInv
<1> QED BY <1>1, <1>2, <1>3, PTL DEF DurableSpec

(* The durable resolver implements the same register, across crashes and      *)
(* clients that keep a snapshot over a restart.                               *)
THEOREM DurableRefines == DurableSpec => DurableAliasesAreARegister
<1>1. DurableInit => DurableRegister!RegisterInit
  BY DurableStart
<1>2. DurableInv /\ [DurableNext]_durableVars
        => [DurableRegister!RegisterNext]_DurableRegister!registerVars
  BY DurableStep
<1> QED BY <1>1, <1>2, DurableInvariant, PTL
        DEF DurableSpec, DurableAliasesAreARegister, DurableRegister!RegisterSpec

-----------------------------------------------------------------------------
(* The identity thread.  The chunks are at every moment those hashed, then    *)
(* those queued, in order; a snapshot that is awaited is the last message.   *)

Whole(n) == [i \in 1 .. n |-> i]

Queued == IF asked = "no" THEN Len(channel) ELSE Len(channel) - 1

IdentityTyped ==
  /\ fed \in Nat /\ feasible \in BOOLEAN
  /\ worker \in {"running", "ended", "none"}
  /\ asked \in {"no", "digest", "release", "clone"}
  /\ channel \in Seq(Nat) /\ thread \in Seq(Nat) /\ hasher \in Seq(Nat)

\* Hashed, then queued.
InOrder ==
  /\ feasible /\ thread = Whole(Len(thread))
  /\ Queued \in Nat /\ Len(thread) + Queued = fed
  /\ \A i \in 1 .. Queued : channel[i] = Len(thread) + i
  /\ asked # "no" => channel[Len(channel)] = Snapshot

IdentityInv ==
  /\ IdentityTyped
  /\ worker = "running" => InOrder
  /\ worker = "none" => asked = "no" /\ (feasible => hasher = Whole(fed))
  /\ outcome.known => outcome.of = Whole(outcome.at)

LEMMA WholeExtended ==
  ASSUME NEW n \in Nat
  PROVE  Whole(n) \in Seq(Nat) /\ Len(Whole(n)) = n /\ Append(Whole(n), n + 1) = Whole(n + 1)
<1>1. Whole(n) \in Seq(Nat) /\ Len(Whole(n)) = n
  BY DEF Whole
<1>2. Append(Whole(n), n + 1) = Whole(n + 1)
  <2>1. /\ Append(Whole(n), n + 1) \in Seq(Nat) /\ Whole(n + 1) \in Seq(Nat)
        /\ Len(Append(Whole(n), n + 1)) = n + 1 /\ Len(Whole(n + 1)) = n + 1
    BY <1>1 DEF Whole
  <2>2. \A i \in 1 .. n + 1 : Append(Whole(n), n + 1)[i] = Whole(n + 1)[i]
    BY <1>1 DEF Whole
  <2> QED BY <2>1, <2>2, SeqEqual
<1> QED BY <1>1, <1>2

LEMMA IdentityStart == IdentityInit => IdentityInv
<1> SUFFICES ASSUME IdentityInit PROVE IdentityInv
  OBVIOUS
<1>1. Whole(0) = <<>>
  BY DEF Whole
<1>2. IdentityTyped /\ Queued = 0
  BY DEF IdentityInit, IdentityTyped, Queued
<1> QED BY <1>1, <1>2 DEF IdentityInit, IdentityInv, InOrder, NoDigest

(* The tracker takes a chunk.                                                *)
LEMMA UpdateStep ==
  ASSUME IdentityInv, update
  PROVE  IdentityInv'
<1>0. IdentityTyped' /\ fed' = fed + 1 /\ outcome' = outcome /\ asked = "no" /\ asked' = "no"
      /\ thread' = thread
  <2>1. IdentityTyped
    BY DEF IdentityInv
  <2>2. asked = "no" /\ fed' = fed + 1 /\ thread' = thread /\ asked' = asked /\ outcome' = outcome
    BY DEF update
  <2>3. \/ /\ hasher' = Append(hasher, fed + 1) /\ feasible' = feasible
           /\ worker' = worker /\ channel' = channel
        \/ /\ channel' = Append(channel, fed + 1) /\ hasher' = hasher /\ feasible' = feasible
           /\ worker' = worker
        \/ hasher' = hasher /\ feasible' = FALSE /\ worker' = "none" /\ channel' = <<>>
    BY <2>2 DEF update, mark_infeasible
  <2>4. hasher' \in Seq(Nat) /\ channel' \in Seq(Nat)
    <3>1. hasher \in Seq(Nat) /\ channel \in Seq(Nat) /\ <<>> \in Seq(Nat) /\ fed + 1 \in Nat
      BY <2>1 DEF IdentityTyped
    <3>2. Append(hasher, fed + 1) \in Seq(Nat) /\ Append(channel, fed + 1) \in Seq(Nat)
      BY <3>1
    <3> QED BY ONLY <2>3, <3>1, <3>2
  <2>5. /\ fed' \in Nat /\ feasible' \in BOOLEAN /\ worker' \in {"running", "ended", "none"}
        /\ asked' \in {"no", "digest", "release", "clone"} /\ thread' \in Seq(Nat)
    <3>1. /\ fed \in Nat /\ feasible \in BOOLEAN /\ worker \in {"running", "ended", "none"}
          /\ thread \in Seq(Nat)
      BY <2>1 DEF IdentityTyped
    <3>2. (feasible' = feasible \/ feasible' = FALSE) /\ (worker' = worker \/ worker' = "none")
      BY ONLY <2>3
    <3>3. feasible' \in BOOLEAN
      BY ONLY <3>1, <3>2
    <3>4. worker' \in {"running", "ended", "none"}
      BY ONLY <3>1, <3>2
    <3>5. fed' \in Nat /\ thread' \in Seq(Nat) /\ asked' = "no"
      BY ONLY <2>2, <3>1
    <3> QED BY ONLY <3>3, <3>4, <3>5
  <2> QED BY <2>2, <2>4, <2>5 DEF IdentityTyped
<1>1. CASE worker = "none"
  <2>1. worker' = "none" /\ feasible' = feasible /\ hasher' = Append(hasher, fed + 1)
    BY <1>1 DEF update, CanSend
  <2>2. feasible => hasher' = Whole(fed')
    BY <1>0, <1>1, <2>1, WholeExtended DEF IdentityInv, IdentityTyped
  <2> QED BY <1>0, <2>1, <2>2 DEF IdentityInv
<1>2. CASE worker = "running"
  <2>1. worker' = "running" /\ feasible' = feasible /\ channel' = Append(channel, fed + 1)
    BY <1>2 DEF update, CanSend
  <2>2. InOrder /\ channel \in Seq(Nat) /\ Queued = Len(channel) /\ Queued' = Len(channel) + 1
    BY <1>0, <1>2, <2>1 DEF IdentityInv, IdentityTyped, Queued
  <2>3. \A i \in 1 .. Queued' : channel'[i] = Len(thread) + i
    <3>1. /\ Len(thread) \in Nat /\ Len(thread) + Queued = fed
          /\ \A i \in 1 .. Queued : channel[i] = Len(thread) + i
      BY <2>2 DEF InOrder, IdentityInv, IdentityTyped
    <3>2. fed \in Nat /\ channel \in Seq(Nat) /\ Len(channel) \in Nat
      BY <2>2 DEF IdentityInv, IdentityTyped
    <3>3. \A i \in 1 .. Len(channel) : channel'[i] = channel[i]
      BY <2>1, <3>2
    <3>4. channel'[Len(channel) + 1] = Len(thread) + (Len(channel) + 1)
      BY <2>1, <2>2, <3>1, <3>2
    <3>5. SUFFICES ASSUME NEW i \in 1 .. Queued' PROVE channel'[i] = Len(thread) + i
      OBVIOUS
    <3>6. i = Len(channel) + 1 \/ i \in 1 .. Len(channel)
      BY <2>2, <3>2
    <3> QED BY <2>2, <3>1, <3>3, <3>4, <3>6
  <2>4. InOrder'
    BY <1>0, <2>1, <2>2, <2>3 DEF InOrder, IdentityInv, IdentityTyped
  <2> QED BY <1>0, <2>1, <2>4 DEF IdentityInv
<1>3. CASE worker = "ended"
  BY <1>0, <1>3 DEF update, mark_infeasible, CanSend, IdentityInv
<1> QED BY <1>1, <1>2, <1>3 DEF IdentityInv, IdentityTyped

LEMMA AskStep ==
  ASSUME IdentityInv, NEW why \in {"digest", "release", "clone"}, AskThread(why)
  PROVE  IdentityInv'
<1>1. /\ worker = "running" /\ worker' = "running" /\ asked = "no" /\ asked' # "no"
      /\ channel' = Append(channel, Snapshot) /\ UNCHANGED <<fed, feasible, hasher, thread, outcome>>
  BY DEF AskThread, CanSend
<1>2. IdentityTyped'
  BY <1>1 DEF IdentityInv, IdentityTyped, AskThread, Snapshot
<1>3. InOrder /\ channel \in Seq(Nat) /\ Queued = Len(channel) /\ Queued' = Len(channel)
      /\ Len(channel') = Len(channel) + 1
  BY <1>1 DEF IdentityInv, IdentityTyped, Queued, Snapshot
<1>4. (\A i \in 1 .. Queued' : channel'[i] = Len(thread) + i) /\ channel'[Len(channel')] = Snapshot
  BY <1>1, <1>3 DEF InOrder, Snapshot
<1>5. InOrder'
  BY <1>1, <1>3, <1>4 DEF InOrder, Snapshot
<1> QED BY <1>1, <1>2, <1>5 DEF IdentityInv

(* A thread that is gone leaves no identity behind, and no wrong one.        *)
LEMMA GoneStep ==
  ASSUME IdentityInv, NEW why \in {"digest", "release", "clone"}, Gone(why)
  PROVE  IdentityInv'
<1>1. /\ worker = "ended" /\ asked' = "no" /\ channel' = <<>> /\ UNCHANGED <<fed, thread>>
      /\ WorkerAnswered(why, NoDigest)
  BY DEF Gone
<1>2. CASE why = "digest"
  <2>1. outcome' = NoDigest /\ UNCHANGED <<hasher, feasible, worker>>
    BY <1>1, <1>2 DEF WorkerAnswered
  <2> QED BY <1>1, <2>1 DEF IdentityInv, IdentityTyped, NoDigest
<1>3. CASE why \in {"release", "clone"}
  <2>1. /\ worker' = "none" /\ hasher' \in {<<>>, hasher} /\ feasible' = FALSE
        /\ UNCHANGED outcome
    BY <1>1, <1>3 DEF WorkerAnswered, NoDigest
  <2>2. hasher' \in Seq(Nat) /\ channel' \in Seq(Nat)
    <3>1. hasher \in Seq(Nat) /\ <<>> \in Seq(Nat)
      BY DEF IdentityInv, IdentityTyped
    <3> QED BY <1>1, <2>1, <3>1
  <2>3. IdentityTyped'
    BY <1>1, <2>1, <2>2 DEF IdentityInv, IdentityTyped
  <2> QED BY <1>1, <2>1, <2>3 DEF IdentityInv
<1> QED BY <1>2, <1>3

(* The thread hashes the next chunk, or answers with all of them.            *)
LEMMA HashStep ==
  ASSUME IdentityInv, HashOrReply
  PROVE  IdentityInv'
<1>1. /\ worker = "running" /\ channel # <<>> /\ channel' = Tail(channel) /\ fed' = fed
      /\ channel \in Seq(Nat) /\ Len(channel) > 0 /\ Len(channel') = Len(channel) - 1
      /\ channel' \in Seq(Nat) /\ Head(channel) = channel[1] /\ thread \in Seq(Nat)
      /\ \A i \in 1 .. Len(channel') : channel'[i] = channel[i + 1]
  BY DEF IdentityInv, IdentityTyped, HashOrReply
<1>2. InOrder
  BY <1>1 DEF IdentityInv
<1>3. CASE Head(channel) # Snapshot
  <2>1. thread' = Append(thread, Head(channel)) /\ UNCHANGED <<hasher, feasible, worker, asked, outcome>>
    BY <1>3 DEF HashOrReply
  <2>2. Queued > 0 /\ Queued' = Queued - 1
    BY <1>1, <1>2, <1>3, <2>1 DEF InOrder, Queued
  <2>3. Head(channel) = Len(thread) + 1
    BY <1>1, <1>2, <2>2 DEF InOrder
  <2>4. Len(thread') = Len(thread) + 1 /\ thread' = Whole(Len(thread) + 1) /\ thread' \in Seq(Nat)
    <3> DEFINE n == Len(thread)
    <3>0. n \in Nat /\ thread' = Append(thread, n + 1)
      BY <1>1, <2>1, <2>3
    <3>a. thread = Whole(n)
      BY <1>2 DEF InOrder
    <3> HIDE DEF n
    <3>1. n \in Nat /\ thread' = Append(Whole(n), n + 1)
      BY <3>0, <3>a
    <3>2. n + 1 \in Nat /\ Append(Whole(n), n + 1) = Whole(n + 1)
      BY <3>1, WholeExtended
    <3>3. Whole(n + 1) \in Seq(Nat) /\ Len(Whole(n + 1)) = n + 1
      BY <3>2, WholeExtended
    <3>4. Len(thread') = n + 1 /\ thread' = Whole(n + 1) /\ thread' \in Seq(Nat)
      BY <3>1, <3>2, <3>3
    <3> QED BY <3>4 DEF n
  <2>5. \A i \in 1 .. Queued' : channel'[i] = Len(thread') + i
    <3> SUFFICES ASSUME NEW i \in 1 .. Queued' PROVE channel'[i] = Len(thread') + i
      OBVIOUS
    <3>1. i \in 1 .. Len(channel') /\ i + 1 \in 1 .. Queued
      BY <1>1, <1>2, <2>1, <2>2 DEF InOrder, Queued
    <3>2. channel'[i] = Len(thread) + (i + 1)
      BY <1>1, <1>2, <3>1 DEF InOrder
    <3> QED BY <1>1, <2>4, <3>1, <3>2
  <2>6. asked' # "no" => channel'[Len(channel')] = Snapshot
    <3> SUFFICES ASSUME asked # "no" PROVE channel'[Len(channel')] = Snapshot
      BY <2>1
    <3>1. Len(channel') > 0
      BY <1>1, <2>2 DEF Queued
    <3> QED BY <1>1, <1>2, <3>1 DEF InOrder
  <2>7. InOrder'
    <3>1. feasible' /\ thread' = Whole(Len(thread'))
      BY <1>2, <2>1, <2>4 DEF InOrder
    <3>2. Queued' \in Nat /\ Len(thread') + Queued' = fed'
      BY <1>1, <1>2, <2>2, <2>4 DEF InOrder
    <3> QED BY <3>1, <3>2, <2>5, <2>6 DEF InOrder
  <2> QED BY <1>1, <2>1, <2>4, <2>7 DEF IdentityInv, IdentityTyped
<1>4. CASE Head(channel) = Snapshot
  <2>1. asked' = "no" /\ WorkerAnswered(asked, Digest(thread)) /\ thread' = thread
    BY <1>4 DEF HashOrReply
  <2>2. Queued = 0
    <3>1. SUFFICES ASSUME Queued > 0 PROVE FALSE
      BY <1>2 DEF InOrder
    <3>2. channel[1] = Len(thread) + 1
      BY <1>2, <3>1 DEF InOrder
    <3> QED BY <1>1, <1>4, <3>2 DEF Snapshot
  <2>3. asked \in {"digest", "release", "clone"} /\ Len(channel') = 0
    BY <1>1, <2>2 DEF Queued, IdentityInv, IdentityTyped
  <2>4. thread = Whole(fed) /\ feasible
    BY <1>1, <1>2, <2>2 DEF InOrder
  <2>5. Queued' = 0
    BY <2>1, <2>3 DEF Queued
  <2>6. CASE asked = "digest"
    <3>1. outcome' = Digest(thread) /\ UNCHANGED <<hasher, feasible, worker>>
      BY <2>1, <2>4, <2>6 DEF WorkerAnswered
    <3>2. outcome'.of = Whole(outcome'.at)
      BY <2>4, <3>1 DEF Digest
    <3>3. InOrder'
      BY <1>1, <1>2, <2>1, <2>2, <2>5, <3>1 DEF InOrder
    <3> QED BY <1>1, <2>1, <3>1, <3>2, <3>3 DEF IdentityInv, IdentityTyped
  <2>7. CASE asked \in {"release", "clone"}
    <3>1. worker' = "none" /\ hasher' = thread /\ feasible' /\ UNCHANGED outcome
      BY <2>1, <2>4, <2>7 DEF WorkerAnswered, Digest
    <3>2. feasible' \in BOOLEAN
      BY <2>1, <2>4, <2>7 DEF WorkerAnswered, Digest
    <3> QED BY <1>1, <2>1, <2>4, <3>1, <3>2 DEF IdentityInv, IdentityTyped
  <2> QED BY <2>3, <2>6, <2>7
<1> QED BY <1>3, <1>4

LEMMA IdentityStep ==
  ASSUME IdentityInv, [IdentityNext]_identityVars
  PROVE  IdentityInv'
<1>1. CASE digest
  <2>1. /\ worker = "none" /\ UNCHANGED <<fed, hasher, feasible, worker, channel, thread, asked>>
        /\ outcome' = IF feasible THEN Digest(hasher) ELSE NoDigest
    BY <1>1 DEF digest
  <2>2. outcome'.known => outcome'.of = Whole(outcome'.at)
    BY <2>1 DEF IdentityInv, Digest, NoDigest
  <2> QED BY <2>1, <2>2 DEF IdentityInv, IdentityTyped
<1>2. CASE End
  BY <1>2 DEF End, IdentityInv, IdentityTyped
<1>3. CASE UNCHANGED identityVars
  BY <1>3 DEF identityVars, IdentityInv, IdentityTyped, InOrder, Queued
<1> QED BY <1>1, <1>2, <1>3, UpdateStep, HashStep, AskStep, GoneStep DEF IdentityNext

LEMMA IdentityInvNeverWrong == IdentityInv => IdentityNeverWrong
<1> SUFFICES ASSUME IdentityInv PROVE IdentityNeverWrong
  OBVIOUS
<1>1. ASSUME feasible, worker = "running"
      PROVE  thread \o Pending = Whole(fed)
  <2>1. InOrder /\ channel \in Seq(Nat) /\ thread \in Seq(Nat) /\ fed \in Nat
    BY <1>1 DEF IdentityInv, IdentityTyped
  <2>2. Pending \in Seq(Nat) /\ Len(Pending) = Queued /\ \A i \in 1 .. Queued : Pending[i] = channel[i]
    BY <2>1 DEF Pending, Queued, InOrder
  <2>3. thread \o Pending \in Seq(Nat) /\ Len(thread \o Pending) = fed
    <3>1. Len(thread) + Queued = fed
      BY <2>1 DEF InOrder
    <3> QED BY <2>1, <2>2, <3>1, ConcatProperties
  <2>4. \A i \in 1 .. fed : (thread \o Pending)[i] = Whole(fed)[i]
    <3> SUFFICES ASSUME NEW i \in 1 .. fed PROVE (thread \o Pending)[i] = i
      BY DEF Whole
    <3>1. CASE i <= Len(thread)
      BY <2>1, <2>2, <3>1 DEF InOrder, Whole
    <3>2. CASE i > Len(thread)
      <4>1. i - Len(thread) \in 1 .. Queued
        BY <2>1, <3>2 DEF InOrder
      <4>2. (thread \o Pending)[i] = Pending[i - Len(thread)]
        <5>1. Len(thread) \in Nat /\ i = Len(thread) + (i - Len(thread)) /\ i \in 1 .. Len(thread) + Len(Pending)
          BY <2>1, <2>2, <4>1, <3>2 DEF InOrder
        <5> QED BY <2>1, <2>2, <3>2, <5>1, ConcatProperties
      <4>3. channel[i - Len(thread)] = Len(thread) + (i - Len(thread))
        BY <2>1, <4>1 DEF InOrder
      <4>4. i \in Int /\ Len(thread) \in Int
        BY <2>1
      <4> QED BY <2>2, <4>1, <4>2, <4>3, <4>4
    <3>3. i <= Len(thread) \/ i > Len(thread)
      BY <2>1
    <3> QED BY ONLY <3>1, <3>2, <3>3
  <2>5. Whole(fed) \in Seq(Nat) /\ Len(Whole(fed)) = fed
    BY <2>1, WholeExtended
  <2> QED BY <2>3, <2>4, <2>5, SeqEqual
<1> QED BY <1>1 DEF IdentityInv, IdentityNeverWrong, Whole

-----------------------------------------------------------------------------
(* The gateway.  A change names the generation it replaces, so the i-th       *)
(* change names generation i - 1 and no operation changes the alias twice.   *)

Connection == [stage : {"away", "accepted", "tls", "body", "reply"}, request : SUBSET AnyPost,
               length : Nat, status : Nat]

Authenticated == {r \in AnyPost : r.method = "POST" /\ r.token}
Took(op) == \E i \in 1 .. Len(effects) : effects[i].op = op
Promised(c, r) ==
  /\ conn[c].stage = "reply" /\ conn[c].status = 200
  /\ r.path = "api" /\ r.op.name \in {"cas", "forget"}

\* A connection carries at most one request; its body is read only for an
\* authenticated POST; 200 over the API says that the change took effect.
OneRequest(c) == \A q, r \in conn[c].request : q = r
ConnectionHonest(c) ==
  /\ OneRequest(c)
  /\ \A r \in conn[c].request :
       /\ conn[c].stage = "body" => r \in Authenticated
       /\ Promised(c, r) => Took(r.op)

EffectsOrdered ==
  /\ effects \in Seq(AnyPost) /\ Len(effects) = alias.generation
  /\ \A i \in 1 .. Len(effects) :
       /\ effects[i].op.expected = i - 1
       /\ effects[i].method = "POST" /\ effects[i].token /\ AllowWrites

ToldTrue == \A op \in told : op.name \in {"cas", "forget"} => Took(op)

GatewayInv ==
  /\ conn \in [Conn -> Connection]
  /\ \A c \in Conn : ConnectionHonest(c)
  /\ EffectsOrdered /\ ToldTrue

LEMMA GatewayStart == GatewayInit => GatewayInv
<1> SUFFICES ASSUME GatewayInit PROVE GatewayInv
  OBVIOUS
<1>1. EffectsOrdered /\ ToldTrue
  BY DEF GatewayInit, EffectsOrdered, ToldTrue
<1>2. Away \in Connection
  BY DEF Away, Connection
<1>3. conn \in [Conn -> Connection] /\ \A c \in Conn : conn[c] = Away
  BY <1>2 DEF GatewayInit
<1> QED BY <1>1, <1>3 DEF GatewayInv, ConnectionHonest, OneRequest, Away

(* A connection moves to another stage.                                      *)
Moves(c) == conn' \in [Conn -> Connection] /\ \A d \in Conn \ {c} : conn'[d] = conn[d]
Stages == {"away", "accepted", "tls", "body", "reply"}
SetsStatus(c, s, t) == conn' = [conn EXCEPT ![c].stage = s, ![c].status = t]
SetsRequest(c, s, t) == conn' = [conn EXCEPT ![c].stage = s, ![c].request = t]

LEMMA StatusMoves ==
  ASSUME conn \in [Conn -> Connection], NEW c \in Conn, NEW s \in Stages, NEW t \in Nat,
         SetsStatus(c, s, t)
  PROVE  Moves(c) /\ conn'[c].stage = s /\ conn'[c].status = t /\ conn'[c].request = conn[c].request
<1> USE DEF SetsStatus
<1>1. conn'[c] = [conn[c] EXCEPT !.stage = s, !.status = t]
  OBVIOUS
<1>2. conn' = [d \in Conn |-> conn'[d]] /\ \A d \in Conn \ {c} : conn'[d] = conn[d]
  OBVIOUS
<1>3. conn'[c] \in Connection
  BY <1>1 DEF Connection, Stages
<1>4. conn'[c].stage = s /\ conn'[c].status = t /\ conn'[c].request = conn[c].request
  BY <1>1 DEF Connection
<1> QED BY <1>2, <1>3, <1>4 DEF Moves

LEMMA RequestMoves ==
  ASSUME conn \in [Conn -> Connection], NEW c \in Conn, NEW s \in Stages, NEW t \in SUBSET AnyPost,
         SetsRequest(c, s, t)
  PROVE  Moves(c) /\ conn'[c].stage = s /\ conn'[c].request = t
BY DEF Connection, Stages, Moves, SetsRequest

(* What one connection does leaves the others alone while no effect is lost. *)
LEMMA OneConnection ==
  ASSUME GatewayInv, NEW c \in Conn,
         Moves(c),
         ConnectionHonest(c)', EffectsOrdered', ToldTrue',
         \/ effects' = effects
         \/ \E r \in AnyPost : effects' = Append(effects, r)
  PROVE  GatewayInv'
<1>0. effects \in Seq(AnyPost)
  BY DEF GatewayInv, EffectsOrdered
<1>1. \A i \in 1 .. Len(effects) : i \in 1 .. Len(effects') /\ effects'[i] = effects[i]
  <2>1. CASE effects' = effects
    BY <2>1
  <2>2. ASSUME NEW r \in AnyPost, effects' = Append(effects, r)
        PROVE  \A i \in 1 .. Len(effects) : i \in 1 .. Len(effects') /\ effects'[i] = effects[i]
    BY ONLY <1>0, <2>2
  <2> QED BY <2>1, <2>2
<1>2. ASSUME NEW d \in Conn \ {c}
      PROVE  ConnectionHonest(d)'
  <2>1. conn'[d] = conn[d] /\ ConnectionHonest(d)
    BY <1>2 DEF GatewayInv, Moves
  <2>2. \A op : Took(op) => Took(op)'
    BY <1>1 DEF Took
  <2>3. \A r : Promised(d, r)' => Promised(d, r)
    BY <2>1 DEF Promised
  <2> QED BY <2>1, <2>2, <2>3 DEF ConnectionHonest, OneRequest
<1> QED BY <1>2 DEF GatewayInv, Moves

(* Steps that leave the alias, the effects and what clients were told alone. *)
LEMMA QuietConnection ==
  ASSUME GatewayInv, NEW c \in Conn, UNCHANGED <<alias, effects, told>>,
         Moves(c),
         \A q, r \in conn'[c].request : q = r,
         \A r \in conn'[c].request : conn'[c].stage = "body" => r \in Authenticated,
         conn'[c].stage = "reply" => conn'[c].status # 200
  PROVE  GatewayInv'
<1>1. ConnectionHonest(c)'
  <2>1. \A r : ~Promised(c, r)'
    BY DEF Promised
  <2> QED BY <2>1 DEF ConnectionHonest, OneRequest
<1>2. EffectsOrdered' /\ ToldTrue'
  BY DEF GatewayInv, EffectsOrdered, ToldTrue, Took
<1> QED BY <1>1, <1>2, OneConnection

(* A body is dispatched: at most one effect, which the answer tells truly.   *)
LEMMA DispatchStep ==
  ASSUME GatewayInv, NEW c \in Conn, Dispatch(c)
  PROVE  GatewayInv'
<1>0. conn[c] \in Connection /\ ConnectionHonest(c)
  BY DEF GatewayInv
<1> PICK r \in conn[c].request :
         /\ conn' = [conn EXCEPT ![c].stage = "reply",
              ![c].status = IF r.path = "mcp" THEN dispatch_mcp(r.op) ELSE dispatch(r.op)]
         /\ IF poisoned \/ tool_route(r.op.name) = {} THEN UNCHANGED <<alias, effects>> ELSE dispatch_api(r)
  BY DEF Dispatch
<1> DEFINE status == IF r.path = "mcp" THEN dispatch_mcp(r.op) ELSE dispatch(r.op)
<1>1. /\ conn[c].stage = "body" /\ told' = told /\ r.method = "POST" /\ r.token
      /\ conn[c] \in Connection /\ \A q \in conn[c].request : q = r
  <2>1. conn[c].stage = "body" /\ told' = told
    BY DEF Dispatch, Stage
  <2>2. conn[c].stage = "body" => r \in Authenticated
    BY <1>0 DEF ConnectionHonest
  <2>3. \A q \in conn[c].request : q = r
    BY <1>0 DEF ConnectionHonest, OneRequest
  <2> QED BY <1>0, <2>1, <2>2, <2>3 DEF Authenticated
<1>2. r \in AnyPost
  BY <1>1 DEF Connection
<1>3. status \in Nat
  BY DEF dispatch, dispatch_mcp, context_error_response
<1>4. /\ Moves(c)
      /\ conn'[c].stage = "reply" /\ conn'[c].status = status /\ conn'[c].request = conn[c].request
  <2>1. conn \in [Conn -> Connection] /\ "reply" \in Stages
    BY DEF GatewayInv, Stages
  <2> HIDE DEF status
  <2>2. SetsStatus(c, "reply", status)
    BY DEF status, SetsStatus
  <2> QED BY <1>3, <2>1, <2>2, StatusMoves
<1> DEFINE took == ~poisoned /\ tool_route(r.op.name) # {} /\ Replaces(r.op)
<1>5. CASE took
  <2>1. effects' = Append(effects, r) /\ alias'.generation = alias.generation + 1
    BY <1>5 DEF dispatch_api
  <2>2. Allowed(r.op.name) /\ r.op.name \in {"cas", "forget"} /\ SnapshotMatches(r.op.expected)
    BY <1>5 DEF Replaces, RuntimeFails
  <2>3. r.op.expected = alias.generation /\ AllowWrites
    BY <2>2 DEF Allowed, Reads, SnapshotMatches
  <2>4. effects \in Seq(AnyPost) /\ Len(effects) = alias.generation /\ Len(effects) \in Nat
    BY DEF GatewayInv, EffectsOrdered
  <2>5. /\ effects' \in Seq(AnyPost) /\ Len(effects') = Len(effects) + 1
        /\ effects'[Len(effects) + 1] = r
        /\ \A i \in 1 .. Len(effects) : effects'[i] = effects[i]
    BY <1>2, <2>1, <2>4
  <2>6. EffectsOrdered'
    <3>1. ASSUME NEW i \in 1 .. Len(effects')
          PROVE  /\ effects'[i].op.expected = i - 1
                 /\ effects'[i].method = "POST" /\ effects'[i].token /\ AllowWrites
      <4>1. CASE i = Len(effects) + 1
        BY <1>1, <2>3, <2>4, <2>5, <4>1
      <4>2. CASE i \in 1 .. Len(effects)
        BY <2>5, <4>2 DEF GatewayInv, EffectsOrdered
      <4> QED BY <2>4, <2>5, <4>1, <4>2
    <3> QED BY <2>1, <2>4, <2>5, <3>1 DEF EffectsOrdered
  <2>7. \A i \in 1 .. Len(effects) : i \in 1 .. Len(effects')
    BY <2>4, <2>5
  <2>8. ToldTrue'
    <3>1. ToldTrue /\ told' = told
      BY <1>1 DEF GatewayInv
    <3>2. \A op : Took(op) => Took(op)'
      BY ONLY <2>5, <2>7 DEF Took
    <3> QED BY ONLY <3>1, <3>2 DEF ToldTrue
  <2>9. Took(r.op)'
    <3>1. Len(effects) + 1 \in 1 .. Len(effects') /\ effects'[Len(effects) + 1].op = r.op
      BY <2>4, <2>5
    <3> QED BY <3>1 DEF Took
  <2>10. ConnectionHonest(c)'
    <3>1. conn'[c].stage = "reply" /\ \A q \in conn'[c].request : q = r
      BY <1>1, <1>4
    <3> QED BY <2>9, <3>1 DEF ConnectionHonest, OneRequest
  <2> QED BY <1>2, <1>4, <2>1, <2>6, <2>8, <2>10, OneConnection
<1>6. CASE ~took
  <2>1. UNCHANGED <<alias, effects>>
    BY <1>6 DEF dispatch_api
  <2>2. r.path = "api" /\ status = 200 => r.op.name \notin {"cas", "forget"}
    <3> SUFFICES ASSUME r.path = "api", status = 200, r.op.name \in {"cas", "forget"}
                 PROVE  FALSE
      OBVIOUS
    <3>1. dispatch(r.op) = 200
      OBVIOUS
    <3>2. ~poisoned /\ tool_route(r.op.name) # {} /\ RuntimeFails(r.op) = {}
      BY <3>1 DEF dispatch, context_error_response
    <3> QED BY <1>6, <3>2 DEF Replaces
  <2>3. EffectsOrdered' /\ ToldTrue'
    BY <1>1, <2>1 DEF GatewayInv, EffectsOrdered, ToldTrue, Took
  <2>4. ConnectionHonest(c)'
    <3>1. conn'[c].stage = "reply" /\ conn'[c].status = status /\ \A q \in conn'[c].request : q = r
      BY <1>1, <1>4
    <3> HIDE DEF status
    <3>2. ~Promised(c, r)'
      BY <2>2, <3>1 DEF Promised
    <3> QED BY <3>1, <3>2 DEF ConnectionHonest, OneRequest
  <2> QED BY <1>4, <2>1, <2>3, <2>4, OneConnection
<1> HIDE DEF took
<1> QED BY <1>5, <1>6

LEMMA GatewayStep ==
  ASSUME GatewayInv, [GatewayNext]_gatewayVars
  PROVE  GatewayInv'
<1>a. {"accepted", "tls", "body", "reply"} \subseteq Stages /\ {200, 400, 401, 405, 413} \subseteq Nat
  BY DEF Stages
<1>0. /\ conn \in [Conn -> Connection]
      /\ \A c \in Conn : ConnectionHonest(c) /\ \A q, r \in conn[c].request : q = r
  BY DEF GatewayInv, ConnectionHonest, OneRequest
<1>1. ASSUME NEW c \in Conn, NEW r \in AnyPost, Accept(c, r) PROVE GatewayInv'
  <2>1. /\ Moves(c) /\ UNCHANGED <<alias, effects, told>>
        /\ conn'[c].stage = "accepted" /\ conn'[c].request = {r}
    <3>1. SetsRequest(c, "accepted", {r}) /\ {r} \in SUBSET AnyPost /\ UNCHANGED <<alias, effects, told>>
      BY <1>1 DEF Accept, SetsRequest
    <3> QED BY <1>a, <1>0, <3>1, RequestMoves
  <2> QED BY <2>1, QuietConnection
<1>2. ASSUME NEW c \in Conn, Acquire(c) PROVE GatewayInv'
  <2>1. /\ Moves(c) /\ UNCHANGED <<alias, effects, told>>
        /\ conn'[c].stage = "tls" /\ conn'[c].request = conn[c].request
    BY <1>0, <1>2 DEF Acquire, Connection, Moves
  <2> QED BY <1>0, <2>1, QuietConnection
<1>3. ASSUME NEW c \in Conn, serve(c) PROVE GatewayInv'
  <2> PICK r \in conn[c].request :
         conn' = [conn EXCEPT
           ![c].stage = IF r.method = "POST" /\ r.token THEN "body" ELSE "reply",
           ![c].status = IF r.method # "POST" THEN 405 ELSE IF ~r.token THEN 401 ELSE 0]
    BY <1>3 DEF serve
  <2> DEFINE stage == IF r.method = "POST" /\ r.token THEN "body" ELSE "reply"
             status == IF r.method # "POST" THEN 405 ELSE IF ~r.token THEN 401 ELSE 0
  <2>1. /\ stage \in {"body", "reply"} /\ (stage = "body" => r \in Authenticated)
        /\ status \in Nat /\ status # 200
    <3>1. r \in AnyPost
      BY <1>0 DEF Connection
    <3> QED BY <3>1 DEF Authenticated
  <2> HIDE DEF stage, status
  <2>2. SetsStatus(c, stage, status)
    BY DEF stage, status, SetsStatus
  <2>3. /\ Moves(c) /\ UNCHANGED <<alias, effects, told>>
        /\ conn'[c].stage = stage /\ conn'[c].status = status /\ conn'[c].request = conn[c].request
    <3>1. stage \in Stages /\ UNCHANGED <<alias, effects, told>>
      BY <1>a, <1>3, <2>1 DEF serve
    <3> QED BY <1>0, <2>1, <2>2, <3>1, StatusMoves
  <2>4. \A q \in conn[c].request : q = r
    BY <1>0
  <2> QED BY <2>1, <2>3, <2>4, QuietConnection
<1>4. ASSUME NEW c \in Conn, NEW n \in FrameLen, bounded_body(c, n) PROVE GatewayInv'
  <2>1. conn[c].stage = "body" /\ n \in Nat /\ UNCHANGED <<alias, effects, told>>
    <3>1. n \in Nat
      BY GatewayNumbers
    <3>2. conn[c].stage = "body" /\ UNCHANGED <<alias, effects, told>>
      BY <1>4 DEF bounded_body, Stage
    <3> QED BY <3>1, <3>2
  <2>2. \A r \in conn[c].request : r \in Authenticated
    <3>1. ConnectionHonest(c)
      BY <1>0
    <3>2. \A r \in conn[c].request : conn[c].stage = "body" => r \in Authenticated
      BY <3>1 DEF ConnectionHonest
    <3> QED BY <2>1, <3>2
  <2>3. CASE conn' = [conn EXCEPT ![c].stage = "reply", ![c].status = 413]
    <3>1. /\ Moves(c) /\ conn'[c].stage = "reply" /\ conn'[c].status = 413
          /\ conn'[c].request = conn[c].request
      <4>1. SetsStatus(c, "reply", 413)
        BY <2>3 DEF SetsStatus
      <4> QED BY <1>a, <1>0, <4>1, StatusMoves
    <3> QED BY <1>0, <2>1, <3>1, QuietConnection
  <2>4. CASE conn' = [conn EXCEPT ![c].length = @ + n]
    <3>1. Moves(c) /\ conn'[c].stage = "body" /\ conn'[c].request = conn[c].request
      BY <1>0, <2>1, <2>4 DEF Connection, Moves
    <3> QED BY <1>0, <2>1, <2>2, <3>1, QuietConnection
  <2> QED BY <1>4, <2>3, <2>4 DEF bounded_body
<1>5. ASSUME NEW c \in Conn, BodyFails(c) PROVE GatewayInv'
  <2>1. /\ Moves(c) /\ UNCHANGED <<alias, effects, told>>
        /\ conn'[c].stage = "reply" /\ conn'[c].status = 400 /\ conn'[c].request = conn[c].request
    <3>1. SetsStatus(c, "reply", 400) /\ UNCHANGED <<alias, effects, told>>
      BY <1>5 DEF BodyFails, SetsStatus
    <3> QED BY <1>a, <1>0, <3>1, StatusMoves
  <2> QED BY <1>0, <2>1, QuietConnection
<1>6. ASSUME NEW c \in Conn, Ended(c) PROVE Moves(c) /\ conn'[c] = Away
  <2>1. Away \in Connection
    BY DEF Away, Connection
  <2> QED BY <1>0, <1>6, <2>1 DEF Ended, Moves
<1>7. ASSUME NEW c \in Conn, Panic(c) \/ Expire(c) PROVE GatewayInv'
  <2>1. Moves(c) /\ conn'[c] = Away /\ UNCHANGED <<alias, effects, told>>
    BY <1>6, <1>7 DEF Panic, Expire
  <2> QED BY <2>1, QuietConnection DEF Away
<1>8. ASSUME NEW c \in Conn, AnswerSent(c) PROVE GatewayInv'
  <2>1. Moves(c) /\ conn'[c] = Away
    BY <1>6, <1>8 DEF AnswerSent
  <2>2. /\ UNCHANGED <<alias, effects>> /\ conn[c].stage = "reply"
        /\ \A op \in told' : op \in told \/ \E r \in conn[c].request :
                               conn[c].status = 200 /\ r.path = "api" /\ op = r.op
    BY <1>8 DEF AnswerSent, Stage
  <2>3. ToldTrue'
    <3> SUFFICES ASSUME NEW op \in told', op.name \in {"cas", "forget"}
                 PROVE  Took(op)
      BY <2>2 DEF ToldTrue, Took
    <3>1. CASE op \in told
      BY <3>1 DEF GatewayInv, ToldTrue
    <3>2. ASSUME NEW r \in conn[c].request, conn[c].status = 200, r.path = "api", op = r.op
          PROVE  Took(op)
      BY <1>0, <2>2, <3>2 DEF ConnectionHonest, Promised
    <3> QED BY <2>2, <3>1, <3>2
  <2>4. EffectsOrdered'
    BY <2>2 DEF GatewayInv, EffectsOrdered
  <2>5. ConnectionHonest(c)'
    BY <2>1 DEF ConnectionHonest, OneRequest, Away
  <2> QED BY <2>1, <2>2, <2>3, <2>4, <2>5, OneConnection
<1>9. CASE UNCHANGED gatewayVars
  BY <1>9 DEF gatewayVars, GatewayInv, ConnectionHonest, OneRequest, Promised, Took, EffectsOrdered, ToldTrue
<1>10. ASSUME GatewayNext PROVE GatewayInv'
  <2> PICK c \in Conn :
      \/ \E r \in AnyPost : Accept(c, r)
      \/ Acquire(c) \/ serve(c) \/ (\E n \in FrameLen : bounded_body(c, n)) \/ BodyFails(c)
      \/ Dispatch(c) \/ Panic(c) \/ AnswerSent(c) \/ Expire(c)
    BY <1>10 DEF GatewayNext
  <2> QED BY <1>1, <1>2, <1>3, <1>4, <1>5, <1>7, <1>8, DispatchStep
<1> QED BY <1>9, <1>10

LEMMA GatewayInvEffectsOnce == GatewayInv => EffectsOnce
<1> SUFFICES ASSUME GatewayInv PROVE EffectsOnce
  OBVIOUS
<1>1. \A i, j \in 1 .. Len(effects) : i # j => effects[i].op # effects[j].op
  <2> SUFFICES ASSUME NEW i \in 1 .. Len(effects), NEW j \in 1 .. Len(effects), effects[i].op = effects[j].op
               PROVE  i = j
    OBVIOUS
  <2>1. effects[i].op.expected = i - 1 /\ effects[j].op.expected = j - 1
    BY DEF GatewayInv, EffectsOrdered
  <2> QED BY <2>1
<1>2. \A i \in 1 .. Len(effects) : effects[i].method = "POST" /\ effects[i].token /\ AllowWrites
  BY DEF GatewayInv, EffectsOrdered
<1>3. \A op \in told : op.name \in {"cas", "forget"} => \E i \in 1 .. Len(effects) : effects[i].op = op
  BY DEF GatewayInv, ToldTrue, Took
<1> QED BY <1>1, <1>2, <1>3 DEF EffectsOnce

-----------------------------------------------------------------------------
(* The parts together: each step is one part's, and the others stay.         *)

ServicesInv == DurableInv /\ ErasureInv /\ IdentityInv /\ GatewayInv

(* Invariant of the services: each part keeps its own.                   *)
THEOREM ServicesInvariant == ServicesSpec => []ServicesInv
<1>1. ServicesInit => ServicesInv
  BY DurableStart, ErasureStart, IdentityStart, GatewayStart DEF ServicesInit, ServicesInv
<1>2. ServicesInv /\ [ServicesNext]_varsServices => ServicesInv'
  <2> SUFFICES ASSUME ServicesInv, [ServicesNext]_varsServices PROVE ServicesInv'
    OBVIOUS
  <2>1. [DurableNext]_durableVars /\ [IdentityNext]_identityVars /\ [GatewayNext]_gatewayVars
    BY DEF ServicesNext, varsServices
  <2> QED BY <2>1, DurableStep, ErasureStep, IdentityStep, GatewayStep DEF ServicesInv
<1> QED BY <1>1, <1>2, PTL DEF ServicesSpec

(* For any number of names, clients, chunks and connections: a name without a *)
(* job is indexed as its alias says, listings answer and no erasure is lost   *)
(* (resolver.rs); an identity is right or unknown (stream/ident.rs); an       *)
(* operation sent again takes effect at most once, and 200 is told only of    *)
(* one that did (gateway.rs, bin/server.rs).                                  *)
THEOREM ServicesHold == ServicesSpec => []ServicesSound
<1>1. ServicesInv => ServicesSound
  BY DurableInvListings, IdentityInvNeverWrong, GatewayInvEffectsOnce
     DEF ServicesInv, ServicesSound, DurableInv, ErasureInv
<1> QED BY <1>1, ServicesInvariant, PTL

============================================================================
