---------------------------- MODULE PackageProofs ----------------------------
(***************************************************************************)
(* Proofs about what a package goes through: the streaming session, the    *)
(* instances, agents and log spans of launch, and the broker of an agent's *)
(* effects.                                                                *)
(***************************************************************************)
EXTENDS StreamSession, Launch, FiniteSetTheorems, SequenceTheorems, TLAPS

-----------------------------------------------------------------------------
VState == {"AwaitDescriptor", "Ready", "Receiving", "Complete", "CompleteUnverified",
           "Poisoned", "Rejected"}
Status == {"none", "Verified", "Unverifiable", "NotPresent", "IdentityMismatch"}

Identity == [pos : Int, feasible : BOOLEAN, present : BOOLEAN]

VerifierType ==
  [state : VState, desc : BOOLEAN, next : [Seg -> Nat], leaves : SUBSET Seg, done : SUBSET Seg,
   stage_remaining : [Stages -> Int], left : Int, table_bytes : Int, faults : Int,
   duplicates_ignored : Int, identity : Identity,
   identity_status : Status]

AdmissionType == [open : SUBSET Seg, done : SUBSET Seg, report : {"none", "ok", "failing"}]

SessionType ==
  [state : {"Receiving", "Complete", "Failed", "Poisoned"}, exec : SUBSET Seg, ready : SUBSET Seg,
   package : BOOLEAN, installed : Nat, obligation_issued : BOOLEAN]

EventsType ==
  [segments : SUBSET Seg, validated : SUBSET Seg, poisoned : Nat, complete : Nat, refused : BOOLEAN]

SessionTyped ==
  /\ verifier \in VerifierType /\ admission \in AdmissionType
  /\ session \in SessionType /\ sessionLog \in EventsType
  /\ handed \in [Seg -> Nat] /\ released = [s \in Seg |-> released[s]]

\* The first n chunks of a segment.
Prefix(n) == [k \in 1 .. n |-> <<k - 1, "authentic">>]

\* What the verifier counts and what it has released.
StagePending(v, t) == {s \in Seg \ v.done : Stage[s] = t}
Progress ==
  /\ \A s \in Seg :
       /\ verifier.next[s] \in 0 .. Chunks[s]
       /\ s \in verifier.done <=> verifier.next[s] = Chunks[s]
       /\ released[s] = Prefix(verifier.next[s])
       /\ verifier.next[s] > 0 => \A t \in Requires[s] : StagePending(verifier, t) = {}
  /\ verifier.left = Cardinality(Seg \ verifier.done)
  /\ \A t \in Stages : verifier.stage_remaining[t] = Cardinality(StagePending(verifier, t))

\* How the session and its records stand to the verifier.
Outcome ==
  /\ verifier.state \in {"Complete", "CompleteUnverified"} => session.state \in {"Complete", "Failed"}
  /\ session.state = "Complete" =>
       verifier.state \in {"Complete", "CompleteUnverified"} /\ verifier.done = Seg
  /\ verifier.state = "CompleteUnverified" => verifier.identity_status = "Unverifiable"
  /\ session.package <=> session.state = "Complete" /\ verifier.identity_status = "Verified"
  /\ session.package => verifier.state = "Complete"
  /\ verifier.state = "Poisoned" <=> session.state = "Poisoned"
  /\ verifier.state \in {"AwaitDescriptor", "Rejected"} => session.state = "Receiving"
  /\ session.state \in {"Failed", "Poisoned"} => session.exec = {} /\ session.ready = {}
  /\ session.installed > 0 => session.package
  /\ session.ready \subseteq verifier.done
  /\ \A s \in Seg : handed[s] > 0 =>
       handed[s] = 1 /\ session.package /\ s \in verifier.done \ session.ready

Records ==
  /\ sessionLog.poisoned = IF verifier.state = "Poisoned" THEN 1 ELSE 0
  /\ sessionLog.complete = IF session.package THEN 1 ELSE 0
  /\ sessionLog.segments \subseteq verifier.done
  /\ session.state \in {"Receiving", "Complete"} => verifier.done \subseteq sessionLog.segments
  /\ session.ready \subseteq sessionLog.validated /\ sessionLog.validated \subseteq verifier.done
  /\ verifier.state = "Rejected" => sessionLog.refused
  /\ session.state = "Failed" =>
       sessionLog.refused \/ Wasm \ sessionLog.validated # {} \/ admission.report # "ok"

StreamInv == SessionTyped /\ Progress /\ Outcome /\ Records

(* A step that changes none of the verifier's books.                       *)
Same(v, w) ==
  /\ w \in VerifierType /\ w.next = v.next /\ w.done = v.done /\ w.left = v.left
  /\ w.stage_remaining = v.stage_remaining

LEMMA PoisonIs ==
  ASSUME NEW v \in VerifierType
  PROVE  /\ Same(v, ForcePoison(v)) /\ ForcePoison(v).state = "Poisoned"
         /\ Same(v, Poison(v))
         /\ Poison(v).state = IF v.state \in Poisonable THEN "Poisoned" ELSE v.state
<1>1. NoTracker \in Identity
  BY DEF NoTracker, Identity
<1>2. Same(v, ForcePoison(v)) /\ ForcePoison(v).state = "Poisoned"
  BY <1>1 DEF ForcePoison, Same, VerifierType, VState
<1>3. Same(v, v)
  BY DEF Same
<1> QED BY <1>2, <1>3 DEF Poison

(* A frame that releases nothing leaves the stream as it is or poisons it. *)
Underway(v) == v.state \in {"Ready", "Receiving"}
Quiet(v, w) == Same(v, w) /\ w.state \in {"Ready", "Receiving", "Poisoned"}

LEMMA SameQuiet ==
  ASSUME NEW u, NEW v \in VerifierType, NEW w, Same(u, v), Quiet(v, w)
  PROVE  Quiet(u, w)
BY DEF Same, Quiet

LEMMA QuietFault ==
  ASSUME NEW v \in VerifierType, Underway(v)
  PROVE  Quiet(v, Poison(v)) /\ Quiet(v, Fault(v))
<1>1. Quiet(v, Poison(v))
  BY PoisonIs DEF Quiet, Underway, Poisonable
<1>2. PICK f : f = [v EXCEPT !.faults = @ + 1]
  OBVIOUS
<1>3. Same(v, f) /\ f.state = v.state /\ f \in VerifierType
  BY <1>2 DEF Same, VerifierType
<1>4. Quiet(f, Poison(f)) /\ Quiet(f, f)
  BY <1>3, PoisonIs DEF Quiet, Underway, Poisonable, Same
<1>5. Quiet(v, Poison(f)) /\ Quiet(v, f)
  BY <1>3, <1>4, SameQuiet
<1>6. Fault(v) = Poison(f) \/ Fault(v) = f
  BY <1>2 DEF Fault
<1> QED BY <1>1, <1>5, <1>6

LEMMA QuietStarted ==
  ASSUME NEW v \in VerifierType, NEW w, Quiet(v, w)
  PROVE  Quiet(v, Started(w))
<1>1. CASE w.state = "Ready"
  <2>1. Started(w) = [w EXCEPT !.state = "Receiving"] /\ w \in VerifierType
    BY <1>1 DEF Started, Quiet, Same
  <2> QED BY <2>1 DEF Quiet, Same, VerifierType, VState
<1>2. CASE w.state # "Ready"
  BY <1>2 DEF Started
<1> QED BY <1>1, <1>2

LEMMA QuietDuplicate ==
  ASSUME NEW v \in VerifierType, Underway(v)
  PROVE  Quiet(v, Started(CountDuplicate(v)))
<1>1. PICK d : d = [v EXCEPT !.duplicates_ignored = @ + 1]
  OBVIOUS
<1>2. Same(v, d) /\ d.state = v.state /\ d \in VerifierType
  BY <1>1 DEF Same, VerifierType
<1>3. Quiet(d, Poison(d)) /\ Quiet(d, d)
  BY <1>2, PoisonIs DEF Quiet, Underway, Poisonable, Same
<1>4. Quiet(v, Poison(d)) /\ Quiet(v, d)
  BY <1>2, <1>3, SameQuiet
<1>5. CountDuplicate(v) = Poison(d) \/ CountDuplicate(v) = d
  BY <1>1 DEF CountDuplicate
<1> QED BY <1>4, <1>5, QuietStarted

LEMMA QuietTable ==
  ASSUME NEW v \in VerifierType, Underway(v), NEW s \in Seg, NEW content
  PROVE  Quiet(v, IF Chunks[s] = 1 \/ s \in v.leaves \/ s \in v.done THEN Fault(v)
                  ELSE IF content = "wrong_length" THEN Poison(v)
                  ELSE IF v.table_bytes + Chunks[s] > max_table_bytes \/ content # "authentic"
                    THEN Fault(v)
                  ELSE Started([v EXCEPT !.leaves = @ \cup {s}, !.table_bytes = @ + Chunks[s]]))
<1>1. PICK d : d = [v EXCEPT !.leaves = @ \cup {s}, !.table_bytes = @ + Chunks[s]]
  OBVIOUS
<1>2. Chunks[s] \in Nat
  BY DescriptorAssumption DEF TableValid
<1>21. v.table_bytes \in Int /\ v.leaves \cup {s} \in SUBSET Seg
  BY DEF VerifierType
<1>22. v.table_bytes + Chunks[s] \in Int
  BY <1>2, <1>21
<1>3. PICK b \in Int, l \in SUBSET Seg : b = v.table_bytes + Chunks[s] /\ l = v.leaves \cup {s}
  BY <1>21, <1>22, Zenon
<1>4. d = [v EXCEPT !.leaves = l, !.table_bytes = b]
  BY <1>1, <1>3
<1>5. Same(v, d) /\ d.state = v.state
  BY <1>4 DEF Same, VerifierType
<1>6. Quiet(v, Started(d))
  BY <1>5, QuietStarted DEF Quiet, Underway
<1>7. Quiet(v, Fault(v)) /\ Quiet(v, Poison(v))
  BY QuietFault
<1>8. Started(d) = Started([v EXCEPT !.leaves = @ \cup {s}, !.table_bytes = @ + Chunks[s]])
  BY <1>1
<1> QED BY <1>6, <1>7, <1>8

LEMMA QuietRepeat ==
  ASSUME NEW v \in VerifierType, Underway(v), NEW s, NEW i, NEW content
  PROVE  /\ Quiet(v, OnDuplicate(v, s, content))
         /\ Quiet(v, Refused(v, s, i, content))
<1>1. Quiet(v, OnDuplicate(v, s, content))
  BY QuietFault, QuietDuplicate DEF OnDuplicate
<1>2. Quiet(v, Refused(v, s, i, content))
  BY QuietFault DEF Refused
<1> QED BY <1>1, <1>2

(* A chunk the verifier releases moves the books of its segment on by one; *)
(* the last one completes the stream.                                      *)
Booked(v, w, s) ==
  /\ w \in VerifierType
  /\ w.next = [v.next EXCEPT ![s] = @ + 1]
  /\ IF CompletesSegment(v, s)
     THEN /\ w.done = v.done \cup {s} /\ w.left = v.left - 1
          /\ w.stage_remaining = [v.stage_remaining EXCEPT ![Stage[s]] = @ - 1]
     ELSE w.done = v.done /\ w.left = v.left /\ w.stage_remaining = v.stage_remaining

LEMMA AdvancedIs ==
  ASSUME NEW v \in VerifierType, NEW s \in Seg
  PROVE  /\ Booked(v, Advanced(v, s), s)
         /\ Advanced(v, s).state = v.state /\ Advanced(v, s).identity_status = v.identity_status
         /\ Advanced(v, s).identity = v.identity
<1>1. PICK n : n = [v EXCEPT !.next[s] = @ + 1]
  OBVIOUS
<1>2. /\ n \in VerifierType /\ n.next = [v.next EXCEPT ![s] = @ + 1]
      /\ n.done = v.done /\ n.left = v.left /\ n.stage_remaining = v.stage_remaining
      /\ n.state = v.state /\ n.identity_status = v.identity_status /\ n.identity = v.identity
  BY <1>1 DEF VerifierType
<1>3. CASE ~CompletesSegment(v, s)
  <2>1. Advanced(v, s) = n
    BY <1>1, <1>3 DEF Advanced
  <2> QED BY <1>2, <1>3, <2>1 DEF Booked
<1>4. CASE CompletesSegment(v, s)
  <2>1. Advanced(v, s) = SegmentDone(n, s)
    BY <1>1, <1>4 DEF Advanced
  <2>2. Stage[s] \in Stages /\ Chunks[s] \in Nat
    BY DescriptorAssumption DEF Stages, TableValid
  <2>3. PICK b \in Int : b = IF s \in n.leaves THEN n.table_bytes - Chunks[s] ELSE n.table_bytes
    BY <1>2, <2>2 DEF VerifierType
  <2>35. /\ n.done \cup {s} \in SUBSET Seg /\ n.leaves \ {s} \in SUBSET Seg /\ n.left - 1 \in Int
         /\ n.stage_remaining \in [Stages -> Int]
    BY <1>2 DEF VerifierType
  <2>36. [n.stage_remaining EXCEPT ![Stage[s]] = @ - 1] \in [Stages -> Int]
    <3>1. n.stage_remaining[Stage[s]] - 1 \in Int
      BY <2>2, <2>35
    <3> QED BY <2>35, <3>1
  <2>4. PICK d \in SUBSET Seg : d = n.done \cup {s}
    BY <2>35, Zenon
  <2>41. PICK l \in SUBSET Seg : l = n.leaves \ {s}
    BY <2>35, Zenon
  <2>42. PICK k \in Int : k = n.left - 1
    BY <2>35
  <2>43. PICK r \in [Stages -> Int] : r = [n.stage_remaining EXCEPT ![Stage[s]] = @ - 1]
    BY <2>36, Zenon
  <2>5. PICK w : w = [n EXCEPT !.done = d, !.leaves = l, !.left = k, !.table_bytes = b,
                               !.stage_remaining = r]
    OBVIOUS
  <2>55. SegmentDone(n, s) = w
    BY <1>2, <2>3, <2>4, <2>41, <2>42, <2>43, <2>5 DEF SegmentDone, VerifierType
  <2>6. /\ w.done = n.done \cup {s} /\ w.left = n.left - 1
        /\ w.stage_remaining = [n.stage_remaining EXCEPT ![Stage[s]] = @ - 1]
        /\ w.next = n.next /\ w.state = n.state /\ w.identity_status = n.identity_status
        /\ w.identity = n.identity
        /\ w.leaves = n.leaves \ {s} /\ w.table_bytes = b
    BY <1>2, <2>4, <2>41, <2>42, <2>43, <2>5 DEF VerifierType
  <2>7. w \in VerifierType
    BY <1>2, <2>3, <2>4, <2>41, <2>42, <2>43, <2>5 DEF VerifierType
  <2> QED BY <1>2, <1>4, <2>1, <2>55, <2>6, <2>7 DEF Booked
<1> QED BY <1>3, <1>4

LEMMA TrackedIs ==
  ASSUME NEW t \in Identity, NEW s, NEW i
  PROVE  Tracked(t, s, i) \in Identity
<1>1. t.pos \in Int
  BY DEF Identity
<1>2. PICK p \in Int : p = t.pos + 1
  BY <1>1
<1>3. [t EXCEPT !.pos = p] \in Identity
  BY DEF Identity
<1>4. [t EXCEPT !.feasible = FALSE] \in Identity
  BY DEF Identity
<1> QED BY <1>2, <1>3, <1>4 DEF Tracked

LEMMA AcceptedIs ==
  ASSUME NEW v \in VerifierType, Underway(v), NEW s \in Seg, NEW i \in Int
  PROVE  LET w == Accepted(v, s, i, TRUE)
         IN  /\ Booked(v, w, s)
             /\ IF CompletesStream(v, s)
                THEN \/ w.state = "Complete" /\ w.identity_status \in {"NotPresent", "Verified"}
                     \/ w.state = "CompleteUnverified" /\ w.identity_status = "Unverifiable"
                ELSE w.state = "Receiving" /\ w.identity_status = v.identity_status
<1>1. PICK k : k = Tracked(v.identity, s, i)
  OBVIOUS
<1>2. k \in Identity
  BY <1>1, TrackedIs DEF VerifierType
<1>3. PICK t : t = [v EXCEPT !.identity = k]
  OBVIOUS
<1>4. /\ t \in VerifierType /\ t.state = v.state /\ t.identity_status = v.identity_status
      /\ t.next = v.next /\ t.done = v.done /\ t.left = v.left
      /\ t.stage_remaining = v.stage_remaining /\ t.identity = k
  BY <1>2, <1>3 DEF VerifierType
<1>5. PICK a : a = Advanced(t, s)
  OBVIOUS
<1>6. Booked(t, a, s) /\ a.state = v.state /\ a.identity_status = v.identity_status
  BY <1>4, <1>5, AdvancedIs
<1>7. Booked(v, a, s) /\ (CompletesSegment(t, s) <=> CompletesSegment(v, s))
  BY <1>4, <1>6 DEF Booked, CompletesSegment
<1>8. CASE ~CompletesStream(v, s)
  <2>1. Accepted(v, s, i, TRUE) = Started(a)
    BY <1>1, <1>3, <1>5, <1>8 DEF Accepted, VerifierType
  <2>2. Booked(v, Started(a), s) /\ Started(a).state = "Receiving"
        /\ Started(a).identity_status = v.identity_status
    <3>1. CASE a.state = "Ready"
      <4>1. Started(a) = [a EXCEPT !.state = "Receiving"] /\ a \in VerifierType
        BY <1>7, <3>1 DEF Started, Booked
      <4> QED BY <1>6, <1>7, <4>1 DEF Booked, VerifierType, VState
    <3>2. CASE a.state # "Ready"
      BY <1>6, <1>7, <3>2 DEF Started, Underway
    <3> QED BY <3>1, <3>2
  <2> QED BY <1>8, <2>1, <2>2
<1>9. CASE CompletesStream(v, s)
  <2>1. PICK st : st = CompletionStatus(k, TRUE)
    OBVIOUS
  <2>2. st \in {"NotPresent", "Unverifiable", "Verified"}
    BY <2>1 DEF CompletionStatus
  <2>3. PICK f : f = IF st = "Unverifiable" THEN "CompleteUnverified" ELSE "Complete"
    OBVIOUS
  <2>4. Accepted(v, s, i, TRUE) = [a EXCEPT !.identity_status = st, !.identity = NoTracker, !.state = f]
    BY <1>1, <1>3, <1>4, <1>5, <1>9, <2>1, <2>2, <2>3 DEF Accepted
  <2>5. PICK w : w = [a EXCEPT !.identity_status = st, !.identity = NoTracker, !.state = f]
    OBVIOUS
  <2>6. NoTracker \in Identity
    BY DEF NoTracker, Identity
  <2>7. a \in VerifierType
    BY <1>7 DEF Booked
  <2>8. w \in VerifierType
    BY <2>2, <2>3, <2>5, <2>6, <2>7 DEF VerifierType, VState, Status
  <2>9. /\ w.next = a.next /\ w.done = a.done /\ w.left = a.left
        /\ w.stage_remaining = a.stage_remaining /\ w.state = f /\ w.identity_status = st
    BY <2>5, <2>7 DEF VerifierType
  <2> QED BY <1>7, <1>9, <2>2, <2>3, <2>4, <2>5, <2>8, <2>9 DEF Booked
<1> QED BY <1>8, <1>9

(* The body that has not the promised identity.                            *)
LEMMA MismatchIs ==
  ASSUME NEW v \in VerifierType, Underway(v), NEW s \in Seg, NEW i \in Int,
         Accepted(v, s, i, FALSE).state = "Poisoned"
  PROVE  Quiet(v, Accepted(v, s, i, FALSE))
<1>1. PICK k : k = Tracked(v.identity, s, i)
  OBVIOUS
<1>2. k \in Identity
  BY <1>1, TrackedIs DEF VerifierType
<1>3. PICK t : t = [v EXCEPT !.identity = k]
  OBVIOUS
<1>4. /\ t \in VerifierType /\ t.state = v.state /\ Same(v, t) /\ t.identity = k
  BY <1>2, <1>3 DEF VerifierType, Same
<1>5. PICK a : a = Advanced(t, s)
  OBVIOUS
<1>6. a \in VerifierType /\ a.state = v.state
  BY <1>4, <1>5, AdvancedIs DEF Booked
<1>7. PICK st : st = CompletionStatus(k, FALSE)
  OBVIOUS
<1>8. CASE ~CompletesStream(v, s)
  <2>1. Accepted(v, s, i, FALSE) = Started(a)
    BY <1>1, <1>3, <1>5, <1>8 DEF Accepted
  <2>2. Started(a).state # "Poisoned"
    BY <1>6 DEF Started, Underway, VerifierType
  <2> QED BY <2>1, <2>2
<1>9. CASE CompletesStream(v, s) /\ st # "IdentityMismatch"
  <2>1. PICK f : f = IF st = "Unverifiable" THEN "CompleteUnverified" ELSE "Complete"
    OBVIOUS
  <2>2. Accepted(v, s, i, FALSE) = [a EXCEPT !.identity_status = st, !.identity = NoTracker, !.state = f]
    BY <1>1, <1>3, <1>4, <1>5, <1>7, <1>9, <2>1 DEF Accepted
  <2>3. Accepted(v, s, i, FALSE).state = f
    BY <1>6, <2>2 DEF VerifierType
  <2> QED BY <2>1, <2>3
<1>10. CASE CompletesStream(v, s) /\ st = "IdentityMismatch"
  <2>1. Accepted(v, s, i, FALSE) = Poison(t)
    BY <1>1, <1>3, <1>4, <1>7, <1>10 DEF Accepted
  <2>2. Quiet(t, Poison(t))
    BY <1>4, QuietFault DEF Underway
  <2> QED BY <1>4, <2>1, <2>2, SameQuiet
<1> QED BY <1>8, <1>9, <1>10

-----------------------------------------------------------------------------
(* The books of the verifier move together, for whatever the session makes *)
(* of the chunk.                                                           *)
LEMMA BookedStep ==
  ASSUME SessionTyped, Progress, NEW s \in Seg,
         s \notin verifier.done, RequirementsMet(verifier, s),
         Booked(verifier, verifier', s),
         released' = [released EXCEPT ![s] = Append(@, <<verifier.next[s], "authentic">>)]
  PROVE  /\ Progress' /\ released' = [x \in Seg |-> released'[x]]
         /\ verifier'.done = IF CompletesSegment(verifier, s) THEN verifier.done \cup {s}
                                                             ELSE verifier.done
         /\ verifier'.left = 0 <=> CompletesStream(verifier, s)
         /\ verifier'.left = 0 => verifier'.done = Seg
         /\ verifier'.left \in Nat
<1>1. /\ IsFiniteSet(Seg) /\ Stage[s] \in Stages
      /\ \A x \in Seg : Chunks[x] \in Nat /\ Chunks[x] > 0 /\ Requires[x] \subseteq Stages
  BY DescriptorAssumption DEF TableValid, Stages
<1>2. /\ verifier.next \in [Seg -> Nat] /\ verifier.done \subseteq Seg /\ verifier.left \in Int
      /\ verifier.stage_remaining \in [Stages -> Int]
      /\ verifier'.next \in [Seg -> Nat] /\ verifier'.done \subseteq Seg
  BY DEF SessionTyped, Booked, VerifierType
<1>3. /\ verifier'.next = [verifier.next EXCEPT ![s] = @ + 1]
      /\ CompletesSegment(verifier, s) =>
           /\ verifier'.done = verifier.done \cup {s} /\ verifier'.left = verifier.left - 1
           /\ verifier'.stage_remaining = [verifier.stage_remaining EXCEPT ![Stage[s]] = @ - 1]
      /\ ~CompletesSegment(verifier, s) =>
           /\ verifier'.done = verifier.done /\ verifier'.left = verifier.left
           /\ verifier'.stage_remaining = verifier.stage_remaining
  BY DEF Booked
<1>4. verifier.next[s] \in Nat /\ verifier.next[s] < Chunks[s]
  BY <1>1, <1>2 DEF Progress
<1>5. ASSUME NEW x \in Seg
      PROVE  /\ verifier'.next[x] \in 0 .. Chunks[x]
             /\ x \in verifier'.done <=> verifier'.next[x] = Chunks[x]
  BY <1>1, <1>2, <1>3, <1>4 DEF Progress, CompletesSegment
<1>6. ASSUME NEW x \in Seg
      PROVE  released'[x] = Prefix(verifier'.next[x])
  <2>1. CASE x # s
    BY <1>2, <1>3, <2>1 DEF Progress, SessionTyped
  <2>2. CASE x = s
    <3>1. PICK n \in Nat : n = verifier.next[s]
      BY <1>4
    <3>2. verifier'.next[x] = n + 1
      BY <1>2, <1>3, <2>2, <3>1
    <3>3. released'[x] = Append(Prefix(n), <<n, "authentic">>)
      BY <2>2, <3>1 DEF SessionTyped, Progress
    <3>4. Append(Prefix(n), <<n, "authentic">>) = Prefix(n + 1)
      BY DEF Prefix
    <3> QED BY <3>2, <3>3, <3>4
  <2> QED BY <2>1, <2>2
<1>7. ASSUME NEW t \in Stages
      PROVE  /\ IsFiniteSet(StagePending(verifier, t))
             /\ StagePending(verifier', t) =
                  IF CompletesSegment(verifier, s) THEN StagePending(verifier, t) \ {s}
                                                   ELSE StagePending(verifier, t)
             /\ s \in StagePending(verifier, t) <=> t = Stage[s]
  <2>1. StagePending(verifier, t) \subseteq Seg
    BY DEF StagePending
  <2> QED BY <1>1, <1>3, <2>1, FS_Subset DEF StagePending
<1>8. ASSUME NEW t \in Stages
      PROVE  verifier'.stage_remaining[t] = Cardinality(StagePending(verifier', t))
  <2>1. verifier.stage_remaining[t] = Cardinality(StagePending(verifier, t))
    BY DEF Progress
  <2>2. CASE CompletesSegment(verifier, s) /\ t = Stage[s]
    <3>1. Cardinality(StagePending(verifier, t) \ {s}) = Cardinality(StagePending(verifier, t)) - 1
      BY <1>7, <2>2, FS_RemoveElement
    <3> QED BY <1>2, <1>3, <1>7, <2>1, <2>2, <3>1
  <2>3. CASE CompletesSegment(verifier, s) /\ t # Stage[s]
    <3>1. StagePending(verifier', t) = StagePending(verifier, t)
      BY <1>7, <2>3
    <3> QED BY <1>2, <1>3, <2>1, <2>3, <3>1
  <2>4. CASE ~CompletesSegment(verifier, s)
    BY <1>3, <1>7, <2>1, <2>4
  <2> QED BY <2>2, <2>3, <2>4
<1>9. /\ IsFiniteSet(Seg \ verifier.done) /\ s \in Seg \ verifier.done
      /\ verifier.left = Cardinality(Seg \ verifier.done)
      /\ Cardinality((Seg \ verifier.done) \ {s}) = Cardinality(Seg \ verifier.done) - 1
  <2>1. IsFiniteSet(Seg \ verifier.done)
    BY <1>1, FS_Subset, Seg \ verifier.done \subseteq Seg
  <2>2. Cardinality((Seg \ verifier.done) \ {s}) = Cardinality(Seg \ verifier.done) - 1
    BY <2>1, FS_RemoveElement
  <2> QED BY <2>1, <2>2 DEF Progress
<1>10. verifier'.left = Cardinality(Seg \ verifier'.done) /\ IsFiniteSet(Seg \ verifier'.done)
  <2>1. CASE CompletesSegment(verifier, s)
    <3>1. Seg \ verifier'.done = (Seg \ verifier.done) \ {s}
      BY <1>3, <2>1
    <3> QED BY <1>3, <1>9, <2>1, <3>1, FS_RemoveElement
  <2>2. CASE ~CompletesSegment(verifier, s)
    BY <1>3, <1>9, <2>2
  <2> QED BY <2>1, <2>2
<1>11. /\ verifier'.left = 0 => verifier'.done = Seg
       /\ verifier'.left \in Nat
  BY <1>2, <1>10, FS_EmptySet, FS_CardinalityType
<1>12. verifier'.left = 0 <=> CompletesStream(verifier, s)
  <2>1. verifier.left # 0
    BY <1>9, FS_EmptySet
  <2> QED BY <1>2, <1>3, <2>1 DEF CompletesStream
<1>13. ASSUME NEW x \in Seg, verifier'.next[x] > 0, NEW t \in Requires[x]
       PROVE  StagePending(verifier', t) = {}
  <2>1. t \in Stages
    BY <1>1
  <2>2. StagePending(verifier, t) = {}
    <3>1. CASE x # s
      BY <1>2, <1>3, <1>13, <3>1 DEF Progress
    <3>2. CASE x = s
      <4>1. Cardinality(StagePending(verifier, t)) = 0
        BY <1>13, <2>1, <3>2 DEF RequirementsMet, Progress
      <4> QED BY <1>7, <2>1, <4>1, FS_EmptySet
    <3> QED BY <3>1, <3>2
  <2> QED BY <1>7, <2>1, <2>2
<1>14. released' = [x \in Seg |-> released'[x]]
  BY DEF SessionTyped
<1> QED BY <1>3, <1>5, <1>6, <1>8, <1>10, <1>11, <1>12, <1>13, <1>14 DEF Progress

-----------------------------------------------------------------------------
(* Settle, with the verifier's new state for the value it is given.        *)
Settled(a, s, l) ==
  IF verifier'.state = "Poisoned"
  THEN /\ session' = [Discarded(s) EXCEPT !.state = "Poisoned"]
       /\ admission' = NewAdmission
       /\ sessionLog' = IF verifier.state = "Poisoned" THEN l ELSE [l EXCEPT !.poisoned = @ + 1]
  ELSE session' = s /\ admission' = a /\ sessionLog' = l

LEMMA SessionGivesUp ==
  ASSUME NEW s \in SessionType
  PROVE  LET p == [Discarded(s) EXCEPT !.state = "Poisoned"]
         IN  /\ Failed(s) \in SessionType /\ p \in SessionType
             /\ Failed(s).state = "Failed" /\ p.state = "Poisoned"
             /\ Failed(s).exec = {} /\ Failed(s).ready = {} /\ ~Failed(s).package
             /\ p.exec = {} /\ p.ready = {} /\ ~p.package
             /\ Failed(s).installed = s.installed /\ p.installed = s.installed
<1>1. PICK d : d = [s EXCEPT !.exec = {}, !.ready = {}, !.package = FALSE]
  OBVIOUS
<1>2. /\ d \in SessionType /\ d.exec = {} /\ d.ready = {} /\ ~d.package
      /\ d.installed = s.installed
  BY <1>1 DEF SessionType
<1>3. Failed(s) = [d EXCEPT !.state = "Failed"]
      /\ [Discarded(s) EXCEPT !.state = "Poisoned"] = [d EXCEPT !.state = "Poisoned"]
  BY <1>1 DEF Failed, Discarded
<1>4. PICK f : f = [d EXCEPT !.state = "Failed"]
  OBVIOUS
<1>5. /\ f \in SessionType /\ f.state = "Failed" /\ f.exec = {} /\ f.ready = {} /\ ~f.package
      /\ f.installed = s.installed
  BY <1>2, <1>4 DEF SessionType
<1>6. PICK p : p = [d EXCEPT !.state = "Poisoned"]
  OBVIOUS
<1>7. /\ p \in SessionType /\ p.state = "Poisoned" /\ p.exec = {} /\ p.ready = {} /\ ~p.package
      /\ p.installed = s.installed
  BY <1>2, <1>6 DEF SessionType
<1> QED BY <1>3, <1>4, <1>5, <1>6, <1>7

LEMMA PoisonRecorded ==
  ASSUME NEW l \in EventsType
  PROVE  LET k == [l EXCEPT !.poisoned = @ + 1]
         IN  /\ k \in EventsType /\ k.poisoned = l.poisoned + 1 /\ k.complete = l.complete
             /\ k.segments = l.segments /\ k.validated = l.validated /\ k.refused = l.refused
<1>1. PICK n \in Nat : n = l.poisoned + 1
  BY DEF EventsType
<1>2. PICK k : k = [l EXCEPT !.poisoned = n]
  OBVIOUS
<1>3. /\ k \in EventsType /\ k.poisoned = n /\ k.complete = l.complete
      /\ k.segments = l.segments /\ k.validated = l.validated /\ k.refused = l.refused
  BY <1>2 DEF EventsType
<1> QED BY <1>1, <1>2, <1>3

LEMMA FreshAdmission == NewAdmission \in AdmissionType
BY DEF NewAdmission, AdmissionType

(* Nothing was handed out or installed before there is a package.          *)
LEMMA NothingOut ==
  ASSUME SessionTyped, Outcome, ~session.package
  PROVE  session.installed = 0 /\ \A s \in Seg : handed[s] = 0
BY DEF SessionTyped, SessionType, Outcome

(* A step that keeps the books, and leaves the session as it is or         *)
(* poisons it.                                                             *)
LEMMA QuietStep ==
  ASSUME StreamInv, session.state = "Receiving",
         verifier.state \in {"AwaitDescriptor", "Ready", "Receiving"},
         Same(verifier, verifier'),
         \/ verifier'.state = "Poisoned"
         \/ Underway(verifier) /\ Underway(verifier'),
         Settled(admission, session, sessionLog), UNCHANGED <<released, handed>>
  PROVE  StreamInv'
<1>1. /\ verifier' \in VerifierType /\ verifier'.next = verifier.next
      /\ verifier'.done = verifier.done /\ verifier'.left = verifier.left
      /\ verifier'.stage_remaining = verifier.stage_remaining
  BY DEF Same
<1>2. Progress'
  <2>1. \A t : StagePending(verifier', t) = StagePending(verifier, t)
    BY <1>1 DEF StagePending
  <2> QED BY <1>1, <2>1 DEF StreamInv, Progress
<1>3. ~session.package /\ session.installed = 0 /\ \A s \in Seg : handed[s] = 0
  BY NothingOut DEF StreamInv, Outcome
<1>4. CASE verifier'.state = "Poisoned"
  <2>1. PICK s0 \in SessionType : s0 = session
    BY DEF StreamInv, SessionTyped
  <2>2. PICK l0 \in EventsType : l0 = sessionLog
    BY DEF StreamInv, SessionTyped
  <2>3. /\ session' \in SessionType /\ session'.state = "Poisoned" /\ session'.exec = {}
        /\ session'.ready = {} /\ ~session'.package /\ session'.installed = 0
    BY <1>3, <1>4, <2>1, SessionGivesUp DEF Settled
  <2>4. /\ sessionLog' \in EventsType /\ sessionLog'.poisoned = sessionLog.poisoned + 1
        /\ sessionLog'.complete = sessionLog.complete /\ sessionLog'.refused = sessionLog.refused
        /\ sessionLog'.segments = sessionLog.segments
        /\ sessionLog'.validated = sessionLog.validated
    BY <1>4, <2>2, PoisonRecorded DEF Settled
  <2>5. admission' \in AdmissionType
    BY <1>4, FreshAdmission DEF Settled
  <2>6. SessionTyped'
    BY <1>1, <2>3, <2>4, <2>5 DEF StreamInv, SessionTyped
  <2>7. Outcome'
    BY <1>3, <1>4, <2>3 DEF Outcome
  <2>8. Records'
    BY <1>1, <1>3, <1>4, <2>3, <2>4 DEF StreamInv, Records
  <2> QED BY <1>2, <2>6, <2>7, <2>8 DEF StreamInv
<1>5. CASE verifier'.state # "Poisoned"
  <2>1. session' = session /\ admission' = admission /\ sessionLog' = sessionLog
    BY <1>5 DEF Settled
  <2>2. SessionTyped'
    BY <1>1, <2>1 DEF StreamInv, SessionTyped
  <2>3. Outcome'
    BY <1>1, <1>3, <1>5, <2>1 DEF StreamInv, Outcome, Underway
  <2>4. Records'
    BY <1>1, <1>5, <2>1 DEF StreamInv, Records, Underway
  <2> QED BY <1>2, <2>2, <2>3, <2>4 DEF StreamInv
<1> QED BY <1>4, <1>5

-----------------------------------------------------------------------------
(* The frames that release nothing.                                        *)
LEMMA FrameReleasesNothing ==
  ASSUME StreamInv,
         \/ PushUnexpectedFirst \/ PushUnexpected \/ PushDuplicateDescriptor \/ ReaderRefuses
         \/ \E s \in Seg : \E content \in Contents(s, 1) : PushTable(s, content)
         \/ \E s \in Seg, i \in Index : \E content \in Contents(s, i) :
              \/ PushDuplicate(s, i, content)
              \/ PushRefused(s, i, content)
              \/ i \in Int /\ PushMismatch(s, i, content)
  PROVE  StreamInv' /\ verifier.state \notin {"Complete", "CompleteUnverified"}
<1>1. PICK v \in VerifierType : v = verifier
  BY DEF StreamInv, SessionTyped
<1>2. CASE PushUnexpectedFirst
  <2>1. verifier' = Poison(v) /\ Settled(admission, session, sessionLog) /\ UNCHANGED <<released, handed>>
    BY <1>1, <1>2 DEF PushUnexpectedFirst, Verdict, Settle, Settled
  <2>2. Same(verifier, verifier') /\ verifier'.state = "Poisoned"
    BY <1>1, <1>2, <2>1, PoisonIs DEF PushUnexpectedFirst, Poisonable
  <2> QED BY <1>2, <2>1, <2>2, QuietStep DEF PushUnexpectedFirst
<1>3. CASE ReaderRefuses
  <2>1. verifier' = Poison(v) /\ Settled(admission, session, sessionLog) /\ UNCHANGED <<released, handed>>
    BY <1>1, <1>3 DEF ReaderRefuses, Verdict, Settle, Settled
  <2>2. Same(verifier, verifier') /\ verifier'.state = "Poisoned"
    BY <1>1, <1>3, <2>1, PoisonIs DEF ReaderRefuses, Poisonable
  <2>3. session.state = "Receiving"
    BY <1>3 DEF ReaderRefuses, StreamInv, SessionTyped, SessionType, Outcome
  <2> QED BY <1>3, <2>1, <2>2, <2>3, QuietStep DEF ReaderRefuses
<1>4. ASSUME Receiving, Quiet(v, verifier'), Settled(admission, session, sessionLog),
             UNCHANGED <<released, handed>>
      PROVE  StreamInv' /\ verifier.state \notin {"Complete", "CompleteUnverified"}
  <2>1. Underway(verifier) /\ session.state = "Receiving"
    BY <1>4 DEF Receiving, Underway
  <2>2. Same(verifier, verifier') /\ verifier'.state \in {"Ready", "Receiving", "Poisoned"}
    BY <1>1, <1>4 DEF Quiet
  <2> QED BY <1>4, <2>1, <2>2, QuietStep DEF Underway
<1>5. Receiving => Underway(v)
  BY <1>1 DEF Receiving, Underway
<1>6. CASE PushUnexpected
  <2>1. verifier' = Fault(v) /\ Settled(admission, session, sessionLog) /\ UNCHANGED <<released, handed>>
    BY <1>1, <1>6 DEF PushUnexpected, Verdict, Settle, Settled
  <2> QED BY <1>4, <1>5, <1>6, <2>1, QuietFault DEF PushUnexpected
<1>7. CASE PushDuplicateDescriptor
  <2>1. /\ verifier' = Started(CountDuplicate(v)) /\ Settled(admission, session, sessionLog)
        /\ UNCHANGED <<released, handed>>
    BY <1>1, <1>7 DEF PushDuplicateDescriptor, Verdict, Settle, Settled
  <2> QED BY <1>4, <1>5, <1>7, <2>1, QuietDuplicate DEF PushDuplicateDescriptor
<1>8. ASSUME NEW s \in Seg, NEW content \in Contents(s, 1), PushTable(s, content)
      PROVE  StreamInv' /\ verifier.state \notin {"Complete", "CompleteUnverified"}
  <2>1. PICK w : w = IF Chunks[s] = 1 \/ s \in v.leaves \/ s \in v.done THEN Fault(v)
                     ELSE IF content = "wrong_length" THEN Poison(v)
                     ELSE IF v.table_bytes + Chunks[s] > max_table_bytes \/ content # "authentic"
                       THEN Fault(v)
                     ELSE Started([v EXCEPT !.leaves = @ \cup {s}, !.table_bytes = @ + Chunks[s]])
    OBVIOUS
  <2>2. Receiving /\ Verdict(w)
    BY <1>1, <1>8, <2>1 DEF PushTable, Verdict, Settle
  <2>3. Quiet(v, w)
    BY <1>5, <2>1, <2>2, QuietTable
  <2>4. verifier' = w /\ Settled(admission, session, sessionLog) /\ UNCHANGED <<released, handed>>
    BY <2>2 DEF Verdict, Settle, Settled
  <2> QED BY <1>4, <2>2, <2>3, <2>4
<1>9. ASSUME NEW s \in Seg, NEW i \in Index, NEW content \in Contents(s, i),
             \/ PushDuplicate(s, i, content)
             \/ PushRefused(s, i, content)
             \/ i \in Int /\ PushMismatch(s, i, content)
      PROVE  StreamInv' /\ verifier.state \notin {"Complete", "CompleteUnverified"}
  <2>1. CASE PushDuplicate(s, i, content)
    <3>1. /\ verifier' = OnDuplicate(v, s, content) /\ Settled(admission, session, sessionLog)
          /\ UNCHANGED <<released, handed>> /\ Receiving
      BY <1>1, <2>1 DEF PushDuplicate, Verdict, Settle, Settled
    <3> QED BY <1>4, <1>5, <3>1, QuietRepeat
  <2>2. CASE PushRefused(s, i, content)
    <3>1. /\ verifier' = Refused(v, s, i, content) /\ Settled(admission, session, sessionLog)
          /\ UNCHANGED <<released, handed>> /\ Receiving
      BY <1>1, <2>2 DEF PushRefused, Verdict, Settle, Settled
    <3> QED BY <1>4, <1>5, <3>1, QuietRepeat
  <2>3. CASE i \in Int /\ PushMismatch(s, i, content)
    <3>1. /\ verifier' = Accepted(v, s, i, FALSE) /\ Settled(admission, session, sessionLog)
          /\ UNCHANGED <<released, handed>> /\ Receiving
          /\ Accepted(v, s, i, FALSE).state = "Poisoned"
      BY <1>1, <2>3 DEF PushMismatch, Verdict, Settle, Settled
    <3> QED BY <1>4, <1>5, <2>3, <3>1, MismatchIs
  <2> QED BY <1>9, <2>1, <2>2, <2>3
<1> QED BY <1>2, <1>3, <1>6, <1>7, <1>8, <1>9 DEF PushUnexpectedFirst, ReaderRefuses

-----------------------------------------------------------------------------
(* A chunk that is released.                                               *)
LEMMA ChunkReleased ==
  ASSUME StreamInv, Receiving, NEW s \in Seg, NEW i \in Int, NEW content,
         i >= verifier.next[s], Admits(verifier, s, i, content),
         released' = [released EXCEPT ![s] = Append(@, <<i, content>>)],
         NEW w, w = Accepted(verifier, s, i, TRUE),
         verifier' = w \/ verifier' = ForcePoison(w)
  PROVE  /\ w \in VerifierType /\ Booked(verifier, w, s) /\ Booked(verifier, verifier', s)
         /\ s \notin verifier.done
         /\ Progress' /\ released' = [x \in Seg |-> released'[x]]
         /\ verifier'.done = w.done /\ verifier'.left = w.left /\ w.left \in Nat
         /\ w.done = verifier.done \/ w.done = verifier.done \cup {s}
         /\ w.left = 0 => w.done = Seg
         /\ w.left = 0 =>
              \/ w.state = "Complete" /\ w.identity_status \in {"NotPresent", "Verified"}
              \/ w.state = "CompleteUnverified" /\ w.identity_status = "Unverifiable"
         /\ w.left # 0 => w.state = "Receiving" /\ w.identity_status = verifier.identity_status
<1>1. PICK v \in VerifierType : v = verifier
  BY DEF StreamInv, SessionTyped
<1>2. Underway(v)
  BY <1>1 DEF Receiving, Underway
<1>3. /\ Booked(verifier, w, s) /\ w \in VerifierType
      /\ IF CompletesStream(verifier, s)
         THEN \/ w.state = "Complete" /\ w.identity_status \in {"NotPresent", "Verified"}
              \/ w.state = "CompleteUnverified" /\ w.identity_status = "Unverifiable"
         ELSE w.state = "Receiving" /\ w.identity_status = verifier.identity_status
  <2>1. PICK u : u = Accepted(v, s, i, TRUE)
    OBVIOUS
  <2>2. /\ Booked(v, u, s)
        /\ IF CompletesStream(v, s)
           THEN \/ u.state = "Complete" /\ u.identity_status \in {"NotPresent", "Verified"}
                \/ u.state = "CompleteUnverified" /\ u.identity_status = "Unverifiable"
           ELSE u.state = "Receiving" /\ u.identity_status = v.identity_status
    BY <1>2, <2>1, AcceptedIs
  <2>3. u \in VerifierType /\ u = w
    BY <1>1, <2>1, <2>2 DEF Booked
  <2> QED BY <1>1, <2>2, <2>3
<1>4. Same(w, ForcePoison(w))
  BY <1>3, PoisonIs
<1>5. Booked(verifier, verifier', s) /\ verifier'.done = w.done /\ verifier'.left = w.left
  BY <1>3, <1>4 DEF Booked, Same
<1>6. s \notin verifier.done /\ RequirementsMet(verifier, s)
      /\ i = verifier.next[s] /\ content = "authentic"
  BY DEF Admits
<1>7. released' = [released EXCEPT ![s] = Append(@, <<verifier.next[s], "authentic">>)]
  BY <1>6
<1>8. /\ Progress' /\ released' = [x \in Seg |-> released'[x]]
      /\ verifier'.done = IF CompletesSegment(verifier, s) THEN verifier.done \cup {s}
                                                          ELSE verifier.done
      /\ verifier'.left = 0 <=> CompletesStream(verifier, s)
      /\ verifier'.left = 0 => verifier'.done = Seg
      /\ verifier'.left \in Nat
  BY <1>5, <1>6, <1>7, BookedStep DEF StreamInv
<1> QED BY <1>3, <1>5, <1>6, <1>8

LEMMA InadmissibleStep ==
  ASSUME StreamInv, NEW s \in Seg, NEW i \in Int, NEW content, PushInadmissible(s, i, content)
  PROVE  StreamInv' /\ verifier.state \notin {"Complete", "CompleteUnverified"}
<1>1. PICK w : w = Accepted(verifier, s, i, TRUE)
  OBVIOUS
<1>2. /\ verifier' = ForcePoison(w) /\ Settled(admission, session, sessionLog) /\ handed' = handed
      /\ released' = [released EXCEPT ![s] = Append(@, <<i, content>>)]
      /\ Receiving /\ i >= verifier.next[s] /\ Admits(verifier, s, i, content)
  BY <1>1 DEF PushInadmissible, Settle, Settled, AdmissionFails
<1>3. /\ w \in VerifierType /\ Progress' /\ released' = [x \in Seg |-> released'[x]]
      /\ verifier'.done = w.done
      /\ w.done = verifier.done \/ w.done = verifier.done \cup {s}
  BY <1>1, <1>2, ChunkReleased
<1>4. verifier'.state = "Poisoned" /\ verifier' \in VerifierType
  BY <1>2, <1>3, PoisonIs DEF Same
<1>5. session.state = "Receiving" /\ Underway(verifier)
  BY <1>2 DEF Receiving, Underway
<1>6. ~session.package /\ session.installed = 0 /\ \A x \in Seg : handed[x] = 0
  BY <1>5, NothingOut DEF StreamInv, Outcome
<1>7. PICK s0 \in SessionType : s0 = session
  BY DEF StreamInv, SessionTyped
<1>8. PICK l0 \in EventsType : l0 = sessionLog
  BY DEF StreamInv, SessionTyped
<1>9. /\ session' \in SessionType /\ session'.state = "Poisoned" /\ session'.exec = {}
      /\ session'.ready = {} /\ ~session'.package /\ session'.installed = 0
  BY <1>2, <1>4, <1>6, <1>7, SessionGivesUp DEF Settled
<1>10. /\ sessionLog' \in EventsType /\ sessionLog'.poisoned = sessionLog.poisoned + 1
       /\ sessionLog'.complete = sessionLog.complete /\ sessionLog'.refused = sessionLog.refused
       /\ sessionLog'.segments = sessionLog.segments
       /\ sessionLog'.validated = sessionLog.validated
  BY <1>2, <1>4, <1>5, <1>8, PoisonRecorded DEF Settled, Underway
<1>101. admission' \in AdmissionType
  BY <1>2, <1>4, FreshAdmission DEF Settled
<1>11. SessionTyped'
  BY <1>2, <1>3, <1>4, <1>9, <1>10, <1>101 DEF StreamInv, SessionTyped
<1>12. Outcome'
  BY <1>2, <1>4, <1>6, <1>9 DEF Outcome
<1>13. Records'
  BY <1>3, <1>4, <1>5, <1>6, <1>9, <1>10 DEF StreamInv, Records, Underway
<1> QED BY <1>3, <1>5, <1>11, <1>12, <1>13 DEF StreamInv, Underway

(* What the session makes of the bytes, and what is recorded of them.      *)
LEMMA ModuleFedIs ==
  ASSUME SessionTyped, NEW v, NEW s \in Seg
  PROVE  /\ ModuleFed(v, s) \in SessionType
         /\ ModuleFed(v, s).state = session.state /\ ModuleFed(v, s).package = session.package
         /\ ModuleFed(v, s).installed = session.installed
         /\ ModuleFed(v, s).ready = IF s \in Wasm \cap v.done THEN session.ready \cup {s}
                                                              ELSE session.ready
<1>1. PICK z \in SessionType : z = session
  BY DEF SessionTyped
<1>2. PICK e \in SUBSET Seg, r \in SUBSET Seg, g \in SUBSET Seg :
         e = z.exec \ {s} /\ r = z.ready \cup {s} /\ g = z.exec \cup {s}
  <2>1. z.exec \in SUBSET Seg /\ z.ready \in SUBSET Seg
    BY DEF SessionType
  <2>2. z.exec \ {s} \in SUBSET Seg /\ z.ready \cup {s} \in SUBSET Seg /\ z.exec \cup {s} \in SUBSET Seg
    BY <2>1
  <2> QED BY <2>2, Zenon
<1>3. PICK d : d = [z EXCEPT !.exec = e, !.ready = r]
  OBVIOUS
<1>4. /\ d \in SessionType /\ d.state = z.state /\ d.package = z.package
      /\ d.installed = z.installed /\ d.ready = r
  BY <1>3 DEF SessionType
<1>5. PICK f : f = [z EXCEPT !.exec = g]
  OBVIOUS
<1>6. /\ f \in SessionType /\ f.state = z.state /\ f.package = z.package
      /\ f.installed = z.installed /\ f.ready = z.ready
  BY <1>5 DEF SessionType
<1>7. ModuleFed(v, s) = IF s \notin Wasm THEN z ELSE IF s \in v.done THEN d ELSE f
  BY <1>1, <1>2, <1>3, <1>5 DEF ModuleFed
<1> QED BY <1>1, <1>2, <1>4, <1>6, <1>7

LEMMA AdmissionAfterIs ==
  ASSUME SessionTyped, NEW v, NEW s \in Seg, NEW report \in {"ok", "failing"}
  PROVE  /\ AdmissionAfter(v, s, report) \in AdmissionType
         /\ AdmissionAfter(v, s, report).report = IF v.left = 0 THEN report ELSE admission.report
<1>1. PICK z \in AdmissionType : z = admission
  BY DEF SessionTyped
<1>2. z.open \in SUBSET Seg /\ z.done \in SUBSET Seg
  BY DEF AdmissionType
<1>3. PICK o \in SUBSET Seg : o = IF s \in v.done THEN z.open \ {s} ELSE z.open \cup {s}
  <2>1. z.open \ {s} \in SUBSET Seg /\ z.open \cup {s} \in SUBSET Seg
    BY <1>2
  <2> QED BY <2>1
<1>4. PICK d \in SUBSET Seg : d = z.done \cup ({s} \cap v.done)
  <2>1. z.done \cup ({s} \cap v.done) \in SUBSET Seg
    BY <1>2
  <2> QED BY <2>1, Zenon
<1>5. PICK a : a = [z EXCEPT !.open = o, !.done = d]
  OBVIOUS
<1>6. a \in AdmissionType /\ a.report = z.report
  BY <1>5 DEF AdmissionType
<1>7. PICK f : f = [a EXCEPT !.done = {}, !.report = report]
  OBVIOUS
<1>8. f \in AdmissionType /\ f.report = report
  BY <1>6, <1>7 DEF AdmissionType
<1>9. AdmissionAfter(v, s, report) = IF v.left = 0 THEN f ELSE a
  BY <1>1, <1>3, <1>4, <1>5, <1>7 DEF AdmissionAfter, finish_report
<1> QED BY <1>1, <1>6, <1>8, <1>9

LEMMA RecordsAre ==
  ASSUME SessionTyped, NEW v, NEW s \in Seg, NEW l, NEW m,
         l = SegmentWitnessed(v, s),
         m = IF s \in v.done \cap Wasm THEN [l EXCEPT !.validated = @ \cup {s}] ELSE l
  PROVE  /\ l \in EventsType /\ m \in EventsType
         /\ l.poisoned = sessionLog.poisoned /\ m.poisoned = sessionLog.poisoned
         /\ l.complete = sessionLog.complete /\ m.complete = sessionLog.complete
         /\ l.refused = sessionLog.refused /\ m.refused = sessionLog.refused
         /\ l.segments = sessionLog.segments \cup ({s} \cap v.done) /\ m.segments = l.segments
         /\ l.validated = sessionLog.validated
         /\ m.validated = sessionLog.validated \cup ({s} \cap v.done \cap Wasm)
<1>1. PICK z \in EventsType : z = sessionLog
  BY DEF SessionTyped
<1>2. z.segments \in SUBSET Seg /\ z.validated \in SUBSET Seg
  BY DEF EventsType
<1>3. PICK g \in SUBSET Seg : g = z.segments \cup {s}
  <2>1. z.segments \cup {s} \in SUBSET Seg
    BY <1>2
  <2> QED BY <2>1, Zenon
<1>4. PICK d : d = [z EXCEPT !.segments = g]
  OBVIOUS
<1>5. /\ d \in EventsType /\ d.poisoned = z.poisoned /\ d.complete = z.complete
      /\ d.refused = z.refused /\ d.segments = g /\ d.validated = z.validated
  BY <1>4 DEF EventsType
<1>6. l = IF s \in v.done THEN d ELSE z
  BY <1>1, <1>3, <1>4 DEF SegmentWitnessed
<1>7. l \in EventsType
  BY <1>5, <1>6
<1>8. PICK k \in SUBSET Seg : k = l.validated \cup {s}
  <2>1. l.validated \cup {s} \in SUBSET Seg
    BY <1>7 DEF EventsType
  <2> QED BY <2>1, Zenon
<1>9. PICK e : e = [l EXCEPT !.validated = k]
  OBVIOUS
<1>10. /\ e \in EventsType /\ e.poisoned = l.poisoned /\ e.complete = l.complete
       /\ e.refused = l.refused /\ e.segments = l.segments /\ e.validated = k
  BY <1>7, <1>9 DEF EventsType
<1>11. m = IF s \in v.done \cap Wasm THEN e ELSE l
  BY <1>8, <1>9
<1> QED BY <1>1, <1>3, <1>5, <1>6, <1>7, <1>8, <1>10, <1>11

LEMMA ChunkStep ==
  ASSUME StreamInv, NEW s \in Seg, NEW i \in Int, NEW content, NEW module, NEW pinned,
         NEW report \in {"ok", "failing"}, PushChunk(s, i, content, module, report, pinned)
  PROVE  StreamInv' /\ verifier.state \notin {"Complete", "CompleteUnverified"}
<1>1. PICK w : w = Accepted(verifier, s, i, TRUE)
  OBVIOUS
<1>2. PICK a : a = AdmissionAfter(w, s, report)
  OBVIOUS
<1>3. PICK l : l = SegmentWitnessed(w, s)
  OBVIOUS
<1>4. PICK m : m = IF s \in w.done \cap Wasm THEN [l EXCEPT !.validated = @ \cup {s}] ELSE l
  OBVIOUS
<1>5. PICK f : f = ModuleFed(w, s)
  OBVIOUS
<1>6. /\ Receiving /\ i >= verifier.next[s] /\ Admits(verifier, s, i, content)
      /\ w.identity_status # "NotPresent"
      /\ released' = [released EXCEPT ![s] = Append(@, <<i, content>>)] /\ handed' = handed
      /\ IF s \in Wasm /\ ~module THEN Settle(w, a, Failed(session), l)
         ELSE IF w.left > 0 THEN Settle(w, a, f, m)
         ELSE IF report # "ok" THEN Settle(w, a, Failed(session), m)
         ELSE Promote(w, a, [f EXCEPT !.state = "Complete"], m, pinned)
  BY <1>1, <1>2, <1>3, <1>4, <1>5 DEF PushChunk
<1>7. verifier' = w
  BY <1>6 DEF Promote, Settle
<1>8. /\ w \in VerifierType /\ s \notin verifier.done
      /\ Progress' /\ released' = [x \in Seg |-> released'[x]]
      /\ w.left \in Nat
      /\ w.done = verifier.done \/ w.done = verifier.done \cup {s}
      /\ w.left = 0 => w.done = Seg
      /\ IF w.left = 0
         THEN \/ w.state = "Complete" /\ w.identity_status = "Verified"
              \/ w.state = "CompleteUnverified" /\ w.identity_status = "Unverifiable"
         ELSE w.state = "Receiving" /\ w.identity_status = verifier.identity_status
  <2>1. /\ w \in VerifierType /\ s \notin verifier.done
        /\ Progress' /\ released' = [x \in Seg |-> released'[x]]
        /\ w.left \in Nat
        /\ w.done = verifier.done \/ w.done = verifier.done \cup {s}
        /\ w.left = 0 => w.done = Seg
        /\ w.left = 0 =>
             \/ w.state = "Complete" /\ w.identity_status \in {"NotPresent", "Verified"}
             \/ w.state = "CompleteUnverified" /\ w.identity_status = "Unverifiable"
        /\ w.left # 0 => w.state = "Receiving" /\ w.identity_status = verifier.identity_status
    <3>1. /\ Receiving /\ i >= verifier.next[s] /\ Admits(verifier, s, i, content)
          /\ released' = [released EXCEPT ![s] = Append(@, <<i, content>>)]
      BY <1>6
    <3>2. verifier' = w \/ verifier' = ForcePoison(w)
      BY <1>7
    <3> QED BY <1>1, <3>1, <3>2, ChunkReleased, ZenonT(60)
  <2> QED BY <1>6, <2>1
<1>9. w.state \in {"Receiving", "Complete", "CompleteUnverified"}
  BY <1>8
<1>10. session.state = "Receiving" /\ Underway(verifier)
  BY <1>6 DEF Receiving, Underway
<1>11. ~session.package /\ session.installed = 0 /\ \A x \in Seg : handed[x] = 0
  BY <1>10, NothingOut DEF StreamInv, Outcome
<1>12. a \in AdmissionType /\ a.report = IF w.left = 0 THEN report ELSE admission.report
  BY <1>2, AdmissionAfterIs DEF StreamInv
<1>13. /\ l \in EventsType /\ m \in EventsType
       /\ l.poisoned = 0 /\ m.poisoned = 0 /\ l.complete = 0 /\ m.complete = 0
       /\ l.segments = sessionLog.segments \cup ({s} \cap w.done) /\ m.segments = l.segments
       /\ l.validated = sessionLog.validated
       /\ m.validated = sessionLog.validated \cup ({s} \cap w.done \cap Wasm)
  <2>1. sessionLog.poisoned = 0 /\ sessionLog.complete = 0
    BY <1>10, <1>11 DEF StreamInv, Records, Underway
  <2> QED BY <1>3, <1>4, <2>1, RecordsAre DEF StreamInv
<1>14. /\ l.segments = w.done /\ m.segments = w.done
       /\ l.validated \subseteq w.done /\ m.validated \subseteq w.done
       /\ session.ready \subseteq verifier.done /\ verifier.done \subseteq w.done
       /\ session.ready \subseteq sessionLog.validated /\ s \notin l.validated
  BY <1>8, <1>10, <1>13 DEF StreamInv, Records, Outcome
<1>15. /\ f \in SessionType /\ f.state = "Receiving" /\ ~f.package /\ f.installed = 0
       /\ f.ready \subseteq m.validated /\ f.ready \subseteq w.done
  <2>1. /\ f \in SessionType /\ f.state = session.state /\ f.package = session.package
        /\ f.installed = session.installed
        /\ f.ready = IF s \in Wasm \cap w.done THEN session.ready \cup {s} ELSE session.ready
    BY <1>5, ModuleFedIs DEF StreamInv
  <2>2. f.ready \subseteq m.validated
    BY <1>13, <1>14, <2>1
  <2>3. m.validated \subseteq w.done
    BY <1>14
  <2> QED BY <1>10, <1>11, <2>1, <2>2, <2>3
<1>16. /\ Failed(session) \in SessionType /\ Failed(session).state = "Failed"
       /\ Failed(session).exec = {} /\ Failed(session).ready = {} /\ ~Failed(session).package
       /\ Failed(session).installed = 0
  <2>1. PICK z \in SessionType : z = session
    BY DEF StreamInv, SessionTyped
  <2> QED BY <1>11, <2>1, SessionGivesUp
<1>17. CASE s \in Wasm /\ ~module
  <2>1. session' = Failed(session) /\ admission' = a /\ sessionLog' = l
    BY <1>6, <1>9, <1>17 DEF Settle
  <2>2. SessionTyped'
    BY <1>6, <1>7, <1>8, <1>12, <1>13, <1>16, <2>1 DEF StreamInv, SessionTyped
  <2>3. Outcome'
    BY <1>6, <1>7, <1>8, <1>9, <1>11, <1>16, <2>1 DEF Outcome
  <2>4. Records'
    BY <1>7, <1>9, <1>13, <1>14, <1>16, <1>17, <2>1 DEF Records
  <2> QED BY <1>8, <1>10, <2>2, <2>3, <2>4 DEF StreamInv, Underway
<1>18. CASE ~(s \in Wasm /\ ~module) /\ w.left > 0
  <2>1. session' = f /\ admission' = a /\ sessionLog' = m
    BY <1>6, <1>9, <1>18 DEF Settle
  <2>2. SessionTyped'
    BY <1>6, <1>7, <1>8, <1>12, <1>13, <1>15, <2>1 DEF StreamInv, SessionTyped
  <2>3. Outcome'
    BY <1>6, <1>7, <1>8, <1>11, <1>15, <1>18, <2>1 DEF Outcome
  <2>4. Records'
    BY <1>7, <1>8, <1>13, <1>14, <1>15, <1>18, <2>1 DEF Records
  <2> QED BY <1>8, <1>10, <2>2, <2>3, <2>4 DEF StreamInv, Underway
<1>19. CASE ~(s \in Wasm /\ ~module) /\ ~(w.left > 0) /\ report # "ok"
  <2>1. session' = Failed(session) /\ admission' = a /\ sessionLog' = m
    BY <1>6, <1>9, <1>19 DEF Settle
  <2>2. SessionTyped'
    BY <1>6, <1>7, <1>8, <1>12, <1>13, <1>16, <2>1 DEF StreamInv, SessionTyped
  <2>3. Outcome'
    BY <1>6, <1>7, <1>8, <1>9, <1>11, <1>16, <2>1 DEF Outcome
  <2>4. Records'
    BY <1>7, <1>8, <1>9, <1>12, <1>13, <1>14, <1>16, <1>19, <2>1 DEF Records
  <2> QED BY <1>8, <1>10, <2>2, <2>3, <2>4 DEF StreamInv, Underway
<1>20. CASE ~(s \in Wasm /\ ~module) /\ ~(w.left > 0) /\ report = "ok"
  <2>1. w.left = 0 /\ w.done = Seg
    BY <1>8, <1>20
  <2>2. PICK c : c = [f EXCEPT !.state = "Complete"]
    OBVIOUS
  <2>3. /\ c \in SessionType /\ c.state = "Complete" /\ ~c.package /\ c.installed = 0
        /\ c.ready = f.ready
    BY <1>15, <2>2 DEF SessionType
  <2>4. Promote(w, a, c, m, pinned)
    BY <1>6, <1>20, <2>2
  <2>5. CASE w.identity_status # "Verified"
    <3>1. session' = c /\ admission' = a /\ sessionLog' = m
      BY <1>9, <2>4, <2>5 DEF Promote, Promoted, Settle
    <3>2. SessionTyped'
      BY <1>6, <1>7, <1>8, <1>12, <1>13, <2>3, <3>1 DEF StreamInv, SessionTyped
    <3>3. Outcome'
      BY <1>6, <1>7, <1>8, <1>11, <1>15, <2>1, <2>3, <2>5, <3>1 DEF Outcome
    <3>4. Records'
      BY <1>7, <1>9, <1>13, <1>14, <1>15, <2>3, <3>1 DEF Records
    <3> QED BY <1>8, <1>10, <3>2, <3>3, <3>4 DEF StreamInv, Underway
  <2>6. CASE w.identity_status = "Verified" /\ pinned
    <3>1. PICK p : p = [c EXCEPT !.package = TRUE]
      OBVIOUS
    <3>2. /\ p \in SessionType /\ p.state = "Complete" /\ p.package /\ p.installed = 0
          /\ p.ready = f.ready
      BY <2>3, <3>1 DEF SessionType
    <3>3. PICK k : k = [m EXCEPT !.complete = 1]
      OBVIOUS
    <3>4. /\ k \in EventsType /\ k.complete = 1 /\ k.poisoned = 0 /\ k.segments = m.segments
          /\ k.validated = m.validated /\ k.refused = m.refused
      BY <1>13, <3>3 DEF EventsType
    <3>5. k = [m EXCEPT !.complete = @ + 1]
      BY <1>13, <3>3
    <3>6. session' = p /\ admission' = a /\ sessionLog' = k
      BY <1>9, <2>3, <2>4, <2>6, <3>1, <3>5 DEF Promote, Promoted, Settle
    <3>7. SessionTyped'
      BY <1>6, <1>7, <1>8, <1>12, <3>2, <3>4, <3>6 DEF StreamInv, SessionTyped
    <3>8. Outcome'
      BY <1>6, <1>7, <1>8, <1>11, <1>15, <2>1, <2>6, <3>2, <3>6 DEF Outcome
    <3>9. Records'
      BY <1>7, <1>9, <1>13, <1>14, <1>15, <3>2, <3>4, <3>6 DEF Records
    <3> QED BY <1>8, <1>10, <3>7, <3>8, <3>9 DEF StreamInv, Underway
  <2>7. CASE w.identity_status = "Verified" /\ ~pinned
    <3>1. /\ Failed(c) \in SessionType /\ Failed(c).state = "Failed" /\ Failed(c).exec = {}
          /\ Failed(c).ready = {} /\ ~Failed(c).package /\ Failed(c).installed = 0
      BY <2>3, SessionGivesUp
    <3>2. PICK k : k = [m EXCEPT !.refused = TRUE]
      OBVIOUS
    <3>3. /\ k \in EventsType /\ k.complete = 0 /\ k.poisoned = 0 /\ k.segments = m.segments
          /\ k.validated = m.validated /\ k.refused
      BY <1>13, <3>2 DEF EventsType
    <3>4. session' = Failed(c) /\ admission' = a /\ sessionLog' = k
      BY <1>9, <2>3, <2>4, <2>7, <3>2 DEF Promote, Promoted, Settle
    <3>5. SessionTyped'
      BY <1>6, <1>7, <1>8, <1>12, <3>1, <3>3, <3>4 DEF StreamInv, SessionTyped
    <3>6. Outcome'
      BY <1>6, <1>7, <1>8, <1>9, <1>11, <3>1, <3>4 DEF Outcome
    <3>7. Records'
      BY <1>7, <1>9, <1>13, <1>14, <3>1, <3>3, <3>4 DEF Records
    <3> QED BY <1>8, <1>10, <3>5, <3>6, <3>7 DEF StreamInv, Underway
  <2> QED BY <2>5, <2>6, <2>7
<1> QED BY <1>17, <1>18, <1>19, <1>20

-----------------------------------------------------------------------------
(* The other steps.                                                        *)
LEMMA DescriptorStep ==
  ASSUME StreamInv, NEW ok \in BOOLEAN, PushDescriptor(ok)
  PROVE  StreamInv'
<1>1. PICK v \in VerifierType : v = verifier
  BY DEF StreamInv, SessionTyped
<1>2. PICK w : w = IF ok THEN [v EXCEPT !.state = "Ready", !.desc = TRUE]
                         ELSE [v EXCEPT !.state = "Rejected"]
  OBVIOUS
<1>3. /\ w \in VerifierType /\ w.next = v.next /\ w.done = v.done /\ w.left = v.left
      /\ w.stage_remaining = v.stage_remaining
      /\ w.state = IF ok THEN "Ready" ELSE "Rejected"
      /\ w.identity_status = v.identity_status
  BY <1>2 DEF VerifierType, VState
<1>4. /\ verifier' = w /\ UNCHANGED <<admission, session, released, handed>>
      /\ session.state = "Receiving" /\ v.state = "AwaitDescriptor"
      /\ sessionLog' = IF ok THEN sessionLog ELSE [sessionLog EXCEPT !.refused = TRUE]
  BY <1>1, <1>2 DEF PushDescriptor, install
<1>5. /\ sessionLog' \in EventsType /\ sessionLog'.poisoned = sessionLog.poisoned
      /\ sessionLog'.complete = sessionLog.complete
      /\ sessionLog'.segments = sessionLog.segments
      /\ sessionLog'.validated = sessionLog.validated
      /\ ~ok => sessionLog'.refused
  BY <1>4 DEF StreamInv, SessionTyped, EventsType
<1>6. Progress'
  <2>1. \A t : StagePending(verifier', t) = StagePending(verifier, t)
    BY <1>1, <1>3, <1>4 DEF StagePending
  <2> QED BY <1>1, <1>3, <1>4, <2>1 DEF StreamInv, Progress
<1>7. SessionTyped'
  BY <1>3, <1>4, <1>5 DEF StreamInv, SessionTyped
<1>8. Outcome'
  BY <1>1, <1>3, <1>4 DEF StreamInv, Outcome
<1>9. Records'
  BY <1>1, <1>3, <1>4, <1>5 DEF StreamInv, Records
<1> QED BY <1>6, <1>7, <1>8, <1>9 DEF StreamInv

LEMMA IdentityStep ==
  ASSUME StreamInv, NEW confirmed, NEW pinned, FinishIdentity(confirmed, pinned)
  PROVE  StreamInv'
<1>1. PICK v \in VerifierType : v = verifier
  BY DEF StreamInv, SessionTyped
<1>2. PICK w : w = [v EXCEPT !.identity_status = "Verified", !.state = "Complete"]
  OBVIOUS
<1>3. Same(v, w) /\ w.state = "Complete" /\ w.identity_status = "Verified"
  BY <1>2 DEF VerifierType, VState, Status, Same
<1>4. /\ UNCHANGED <<released, handed>> /\ v.state = "CompleteUnverified"
      /\ v.identity_status = "Unverifiable"
      /\ IF confirmed THEN Promote(w, admission, session, sessionLog, pinned)
                      ELSE Settle(ForcePoison(v), admission, session, sessionLog)
  BY <1>1, <1>2 DEF FinishIdentity
<1>5. Same(verifier, verifier')
  BY <1>1, <1>3, <1>4, PoisonIs DEF Promote, Settle
<1>6. Progress'
  <2>1. \A t : StagePending(verifier', t) = StagePending(verifier, t)
    BY <1>5 DEF StagePending, Same
  <2> QED BY <1>4, <1>5, <2>1 DEF StreamInv, Progress, Same
<1>7. session.state \in {"Complete", "Failed"} /\ ~session.package
  BY <1>1, <1>4 DEF StreamInv, Outcome
<1>8. session.installed = 0 /\ \A s \in Seg : handed[s] = 0
  BY <1>7, NothingOut DEF StreamInv
<1>9. sessionLog.poisoned = 0 /\ sessionLog.complete = 0
  BY <1>1, <1>4, <1>7 DEF StreamInv, Records
<1>10. PICK s0 \in SessionType : s0 = session
  BY DEF StreamInv, SessionTyped
<1>11. PICK l0 \in EventsType : l0 = sessionLog
  BY DEF StreamInv, SessionTyped
<1>12. CASE ~confirmed
  <2>1. verifier' = ForcePoison(v) /\ Settled(admission, session, sessionLog)
    BY <1>4, <1>12 DEF Settle, Settled
  <2>2. verifier'.state = "Poisoned"
    BY <2>1, PoisonIs
  <2>3. /\ session' \in SessionType /\ session'.state = "Poisoned" /\ session'.exec = {}
        /\ session'.ready = {} /\ ~session'.package /\ session'.installed = 0
    BY <1>8, <1>10, <2>1, <2>2, SessionGivesUp DEF Settled
  <2>4. /\ sessionLog' \in EventsType /\ sessionLog'.poisoned = 1
        /\ sessionLog'.complete = 0 /\ sessionLog'.segments = sessionLog.segments
        /\ sessionLog'.validated = sessionLog.validated
    <3>1. sessionLog' = [l0 EXCEPT !.poisoned = @ + 1]
      BY <1>1, <1>4, <1>11, <2>1, <2>2 DEF Settled
    <3> QED BY <1>9, <1>11, <3>1, PoisonRecorded
  <2>5. admission' \in AdmissionType
    BY <2>1, <2>2, FreshAdmission DEF Settled
  <2>6. SessionTyped'
    BY <1>4, <1>5, <2>3, <2>4, <2>5 DEF StreamInv, SessionTyped, Same
  <2>7. Outcome'
    BY <1>4, <1>8, <2>2, <2>3 DEF Outcome
  <2>8. Records'
    BY <1>5, <2>2, <2>3, <2>4 DEF StreamInv, Records, Same
  <2> QED BY <1>6, <2>6, <2>7, <2>8 DEF StreamInv
<1>13. CASE confirmed
  <2>1. Promote(w, admission, session, sessionLog, pinned) /\ verifier' = w
    BY <1>4, <1>13 DEF Promote, Settle
  <2>2. CASE session.state = "Failed"
    <3>1. session' = session /\ admission' = admission /\ sessionLog' = sessionLog
      BY <1>3, <2>1, <2>2 DEF Promote, Promoted, Settle
    <3>2. SessionTyped'
      BY <1>4, <1>5, <3>1 DEF StreamInv, SessionTyped, Same
    <3>3. Outcome'
      BY <1>1, <1>3, <1>4, <1>5, <1>8, <2>1, <2>2, <3>1 DEF StreamInv, Outcome, Same
    <3>4. Records'
      BY <1>1, <1>3, <1>5, <1>9, <2>1, <2>2, <3>1 DEF StreamInv, Records, Same
    <3> QED BY <1>6, <3>2, <3>3, <3>4 DEF StreamInv
  <2>3. CASE session.state = "Complete" /\ pinned
    <3>1. PICK p : p = [s0 EXCEPT !.package = TRUE]
      OBVIOUS
    <3>2. /\ p \in SessionType /\ p.state = s0.state /\ p.package
          /\ p.installed = s0.installed /\ p.ready = s0.ready
      BY <3>1 DEF SessionType
    <3>3. PICK k : k = [l0 EXCEPT !.complete = 1]
      OBVIOUS
    <3>4. /\ k \in EventsType /\ k.complete = 1 /\ k.poisoned = 0 /\ k.segments = l0.segments
          /\ k.validated = l0.validated
      BY <1>9, <1>11, <3>3 DEF EventsType
    <3>5. k = [sessionLog EXCEPT !.complete = @ + 1]
      BY <1>9, <1>11, <3>3
    <3>6. session' = p /\ admission' = admission /\ sessionLog' = k
      BY <1>3, <1>10, <2>1, <2>3, <3>1, <3>5 DEF Promote, Promoted, Settle
    <3>7. SessionTyped'
      BY <1>4, <1>5, <3>2, <3>4, <3>6 DEF StreamInv, SessionTyped, Same
    <3>8. Outcome'
      BY <1>3, <1>4, <1>5, <1>8, <1>10, <2>1, <2>3, <3>2, <3>6 DEF StreamInv, Outcome, Same
    <3>9. Records'
      BY <1>3, <1>5, <1>10, <1>11, <2>1, <2>3, <3>2, <3>4, <3>6 DEF StreamInv, Records, Same
    <3> QED BY <1>6, <3>7, <3>8, <3>9 DEF StreamInv
  <2>4. CASE session.state = "Complete" /\ ~pinned
    <3>1. /\ Failed(s0) \in SessionType /\ Failed(s0).state = "Failed" /\ Failed(s0).exec = {}
          /\ Failed(s0).ready = {} /\ ~Failed(s0).package /\ Failed(s0).installed = 0
      BY <1>8, <1>10, SessionGivesUp
    <3>2. PICK k : k = [l0 EXCEPT !.refused = TRUE]
      OBVIOUS
    <3>3. /\ k \in EventsType /\ k.complete = 0 /\ k.poisoned = 0 /\ k.segments = l0.segments
          /\ k.validated = l0.validated /\ k.refused
      BY <1>9, <1>11, <3>2 DEF EventsType
    <3>4. session' = Failed(s0) /\ admission' = admission /\ sessionLog' = k
      BY <1>3, <1>10, <1>11, <2>1, <2>4, <3>2 DEF Promote, Promoted, Settle
    <3>5. SessionTyped'
      BY <1>4, <1>5, <3>1, <3>3, <3>4 DEF StreamInv, SessionTyped, Same
    <3>6. Outcome'
      BY <1>3, <1>4, <1>8, <2>1, <3>1, <3>4 DEF Outcome
    <3>7. Records'
      BY <1>3, <1>5, <1>11, <2>1, <3>1, <3>3, <3>4 DEF StreamInv, Records, Same
    <3> QED BY <1>6, <3>5, <3>6, <3>7 DEF StreamInv
  <2> QED BY <1>7, <2>2, <2>3, <2>4
<1> QED BY <1>12, <1>13

(* The caller's steps leave verifier and stream alone.                     *)
LEMMA CallerStep ==
  ASSUME StreamInv,
         \/ \E s \in Seg : SessionTakeModule(s)
         \/ TakeModuleStale \/ InstallCapabilities \/ TakeObligation
         \/ UNCHANGED sessionVars
  PROVE  StreamInv' /\ UNCHANGED <<verifier, released>>
<1>1. UNCHANGED <<verifier, admission, released>>
  BY DEF SessionTakeModule, TakeModuleStale, InstallCapabilities, TakeObligation, sessionVars
<1>2. Progress'
  BY <1>1 DEF StreamInv, Progress, StagePending
<1>3. PICK z \in SessionType : z = session
  BY DEF StreamInv, SessionTyped
<1>4. ASSUME NEW s \in Seg, SessionTakeModule(s)
      PROVE  StreamInv'
  <2>1. PICK r \in SUBSET Seg : r = z.ready \ {s}
    <3>1. z.ready \ {s} \in SUBSET Seg
      BY DEF SessionType
    <3> QED BY <3>1, Zenon
  <2>2. PICK p : p = [z EXCEPT !.ready = r]
    OBVIOUS
  <2>3. /\ p \in SessionType /\ p.state = z.state /\ p.package = z.package /\ p.exec = z.exec
        /\ p.installed = z.installed /\ p.ready = r
    BY <2>2 DEF SessionType
  <2>4. /\ session' = p /\ sessionLog' = sessionLog
        /\ session.state = "Complete" /\ verifier.identity_status = "Verified" /\ s \in z.ready
        /\ handed' = [handed EXCEPT ![s] = @ + 1]
    BY <1>3, <1>4, <2>1, <2>2 DEF SessionTakeModule, MayTake
  <2>5. session.package /\ handed[s] = 0
    BY <1>3, <2>4 DEF StreamInv, SessionTyped, Outcome
  <2>6. SessionTyped'
    BY <1>1, <2>3, <2>4 DEF StreamInv, SessionTyped
  <2>7. handed'[s] = 1 /\ \A x \in Seg \ {s} : handed'[x] = handed[x]
    BY <2>4, <2>5 DEF StreamInv, SessionTyped
  <2>8. Outcome'
    <3>1. \A x \in Seg : handed'[x] > 0 =>
             handed'[x] = 1 /\ session'.package /\ x \in verifier'.done \ session'.ready
      BY <1>1, <1>3, <2>1, <2>3, <2>4, <2>5, <2>7 DEF StreamInv, Outcome
    <3> QED BY <1>1, <1>3, <2>1, <2>3, <2>4, <2>5, <3>1 DEF StreamInv, Outcome
  <2>9. Records'
    BY <1>1, <1>3, <2>1, <2>3, <2>4 DEF StreamInv, Records
  <2> QED BY <1>2, <2>6, <2>8, <2>9 DEF StreamInv
<1>5. CASE TakeModuleStale
  <2>1. UNCHANGED <<session, handed>> /\ session.state = "Complete"
        /\ sessionLog' = [sessionLog EXCEPT !.refused = TRUE]
    BY <1>5 DEF TakeModuleStale
  <2>2. /\ sessionLog' \in EventsType /\ sessionLog'.poisoned = sessionLog.poisoned
        /\ sessionLog'.complete = sessionLog.complete
        /\ sessionLog'.segments = sessionLog.segments /\ sessionLog'.refused
        /\ sessionLog'.validated = sessionLog.validated
    BY <2>1 DEF StreamInv, SessionTyped, EventsType
  <2>3. SessionTyped'
    BY <1>1, <2>1, <2>2 DEF StreamInv, SessionTyped
  <2>4. Outcome'
    BY <1>1, <2>1 DEF StreamInv, Outcome
  <2>5. Records'
    BY <1>1, <2>1, <2>2 DEF StreamInv, Records
  <2> QED BY <1>1, <1>2, <2>3, <2>4, <2>5 DEF StreamInv
<1>6. CASE InstallCapabilities \/ TakeObligation
  <2>1. PICK n \in Nat : n = z.installed + 1
    BY DEF SessionType
  <2>2. PICK p : p = [z EXCEPT !.installed = n]
    OBVIOUS
  <2>3. PICK q : q = [z EXCEPT !.obligation_issued = TRUE, !.installed = 0]
    OBVIOUS
  <2>4. /\ p \in SessionType /\ p.state = z.state /\ p.package = z.package /\ p.exec = z.exec
        /\ p.ready = z.ready
        /\ q \in SessionType /\ q.state = z.state /\ q.package = z.package /\ q.exec = z.exec
        /\ q.ready = z.ready /\ q.installed = 0
    BY <2>2, <2>3 DEF SessionType
  <2>5. UNCHANGED <<sessionLog, handed>> /\ ((session' = p /\ session.package) \/ session' = q)
    BY <1>3, <1>6, <2>1, <2>2, <2>3 DEF InstallCapabilities, TakeObligation
  <2>6. SessionTyped'
    BY <1>1, <2>4, <2>5 DEF StreamInv, SessionTyped
  <2>7. Outcome'
    BY <1>1, <1>3, <2>4, <2>5 DEF StreamInv, Outcome
  <2>8. Records'
    BY <1>1, <1>3, <2>4, <2>5 DEF StreamInv, Records
  <2> QED BY <1>1, <1>2, <2>6, <2>7, <2>8 DEF StreamInv
<1>7. CASE UNCHANGED sessionVars
  <2>1. UNCHANGED <<verifier, admission, session, sessionLog, released, handed>>
    BY <1>7 DEF sessionVars
  <2> QED BY <1>2, <2>1 DEF StreamInv, SessionTyped, Outcome, Records
<1> QED BY <1>1, <1>4, <1>5, <1>6, <1>7

LEMMA InitStream == SessionInit => StreamInv
<1> SUFFICES ASSUME SessionInit PROVE StreamInv
  OBVIOUS
<1>1. /\ IsFiniteSet(Seg) /\ Seg # {} /\ IdentityPresent \in BOOLEAN
      /\ \A s \in Seg : Chunks[s] \in Nat /\ Chunks[s] > 0
  BY DescriptorAssumption DEF TableValid
<1>2. \A t \in Stages : Cardinality({s \in Seg : Stage[s] = t}) \in Nat
  <2> TAKE t \in Stages
  <2> QED BY <1>1, FS_Subset, FS_CardinalityType, {s \in Seg : Stage[s] = t} \subseteq Seg
<1>3. Cardinality(Seg) \in Nat /\ Seg \ {} = Seg
  BY <1>1, FS_CardinalityType
<1>4. verifier \in VerifierType
  <2>1. [t \in Stages |-> Cardinality({s \in Seg : Stage[s] = t})] \in [Stages -> Int]
    BY <1>2
  <2>2. [pos |-> 0, feasible |-> TRUE, present |-> IdentityPresent] \in Identity
    BY <1>1 DEF Identity
  <2> QED BY <1>3, <2>1, <2>2 DEF SessionInit, NewVerifier, VerifierType, VState, Status
<1>5. SessionTyped
  BY <1>4, FreshAdmission DEF SessionInit, SessionTyped, SessionType, EventsType, NoEvents
<1>6. /\ verifier.state = "AwaitDescriptor" /\ verifier.done = {} /\ verifier.left = Cardinality(Seg)
      /\ verifier.next = [s \in Seg |-> 0] /\ verifier.identity_status = "none"
      /\ verifier.stage_remaining = [t \in Stages |-> Cardinality({s \in Seg : Stage[s] = t})]
  BY DEF SessionInit, NewVerifier
<1>7. Prefix(0) = <<>>
  BY DEF Prefix
<1>8. \A t \in Stages : StagePending(verifier, t) = {s \in Seg : Stage[s] = t}
  BY <1>6 DEF StagePending
<1>9. Progress
  <2>1. \A s \in Seg : verifier.next[s] = 0 /\ released[s] = <<>> /\ s \notin verifier.done
    BY <1>6 DEF SessionInit
  <2>2. \A s \in Seg :
          /\ verifier.next[s] \in 0 .. Chunks[s]
          /\ s \in verifier.done <=> verifier.next[s] = Chunks[s]
          /\ released[s] = Prefix(verifier.next[s])
          /\ verifier.next[s] > 0 => \A t \in Requires[s] : StagePending(verifier, t) = {}
    BY <1>1, <1>7, <2>1
  <2>3. verifier.left = Cardinality(Seg \ verifier.done)
    BY <1>3, <1>6
  <2>4. \A t \in Stages : verifier.stage_remaining[t] = Cardinality(StagePending(verifier, t))
    BY <1>6, <1>8
  <2> QED BY <2>2, <2>3, <2>4 DEF Progress
<1>10. Outcome
  BY <1>6 DEF SessionInit, Outcome
<1>11. Records
  BY <1>6 DEF SessionInit, Records, NoEvents
<1> QED BY <1>5, <1>9, <1>10, <1>11 DEF StreamInv

(* No step gives the verifier of a complete stream another value.          *)
LEMMA StreamStep ==
  ASSUME StreamInv, [SessionNext]_sessionVars
  PROVE  StreamInv' /\ (verifier.state = "Complete" => verifier' = verifier)
<1>1. Index \subseteq Int
  BY DescriptorAssumption DEF Index, TableValid
<1>2. CASE \E ok \in BOOLEAN : PushDescriptor(ok)
  BY <1>2, DescriptorStep DEF PushDescriptor
<1>3. CASE \E confirmed, pinned \in BOOLEAN : FinishIdentity(confirmed, pinned)
  BY <1>3, IdentityStep DEF FinishIdentity
<1>4. CASE \/ \E s \in Seg : SessionTakeModule(s)
           \/ TakeModuleStale \/ InstallCapabilities \/ TakeObligation
           \/ UNCHANGED sessionVars
  BY <1>4, CallerStep
<1>5. CASE \/ PushUnexpectedFirst \/ PushUnexpected \/ PushDuplicateDescriptor \/ ReaderRefuses
           \/ \E s \in Seg : \E content \in Contents(s, 1) : PushTable(s, content)
  BY <1>5, FrameReleasesNothing
<1>6. ASSUME NEW s \in Seg, NEW i \in Index, NEW content \in Contents(s, i),
             \/ PushDuplicate(s, i, content)
             \/ PushRefused(s, i, content)
             \/ PushMismatch(s, i, content)
             \/ PushInadmissible(s, i, content)
             \/ \E module, pinned \in BOOLEAN, report \in {"ok", "failing"} :
                  PushChunk(s, i, content, module, report, pinned)
      PROVE  StreamInv' /\ (verifier.state = "Complete" => verifier' = verifier)
  <2>1. i \in Int
    BY <1>1
  <2>2. CASE PushDuplicate(s, i, content) \/ PushRefused(s, i, content) \/ PushMismatch(s, i, content)
    BY <2>1, <2>2, FrameReleasesNothing
  <2>3. CASE PushInadmissible(s, i, content)
    BY <2>1, <2>3, InadmissibleStep
  <2>4. CASE \E module, pinned \in BOOLEAN, report \in {"ok", "failing"} :
               PushChunk(s, i, content, module, report, pinned)
    BY <2>1, <2>4, ChunkStep
  <2> QED BY <1>6, <2>2, <2>3, <2>4
<1> QED BY <1>2, <1>3, <1>4, <1>5, <1>6 DEF SessionNext

(* The inductive invariant: the verifier's books are those of the prefixes *)
(* it released, and session, obligations and records follow its outcome.   *)
THEOREM StreamInvariant == SessionSpec => []StreamInv
<1>1. StreamInv /\ [SessionNext]_sessionVars => StreamInv'
  BY StreamStep
<1> QED BY <1>1, InitStream, PTL DEF SessionSpec

LEMMA InvReleased == StreamInv => ReleasedInOrder
<1> SUFFICES ASSUME StreamInv, NEW s \in Seg
             PROVE  /\ released[s] = SubSeq(Whole(s), 1, Len(released[s]))
                    /\ released[s] # <<>> =>
                         \A x \in Seg : Stage[x] \in Requires[s] => released[x] = Whole(x)
  BY DEF ReleasedInOrder
<1>1. \A x \in Seg : Chunks[x] \in Nat
  BY DescriptorAssumption DEF TableValid
<1>2. PICK n \in 0 .. Chunks[s] : n = verifier.next[s] /\ released[s] = Prefix(n)
  BY DEF StreamInv, Progress
<1>3. Len(Prefix(n)) = n /\ Prefix(n) = SubSeq(Whole(s), 1, n)
  BY <1>1 DEF Prefix, Whole
<1>4. ASSUME released[s] # <<>>, NEW x \in Seg, Stage[x] \in Requires[s]
      PROVE  released[x] = Whole(x)
  <2>1. Prefix(0) = <<>>
    BY DEF Prefix
  <2>2. n > 0
    BY <1>1, <1>2, <1>4, <2>1
  <2>3. StagePending(verifier, Stage[x]) = {}
    BY <1>2, <1>4, <2>2 DEF StreamInv, Progress
  <2>4. x \in verifier.done
    BY <2>3 DEF StagePending
  <2> QED BY <2>4 DEF StreamInv, Progress, Prefix, Whole
<1> QED BY <1>2, <1>3, <1>4

LEMMA InvCounters == StreamInv => CountersExact
BY DEF StreamInv, Progress, StagePending, CountersExact

LEMMA InvHandedOut == StreamInv => HandedOutIsFinal
<1> SUFFICES ASSUME StreamInv PROVE HandedOutIsFinal
  OBVIOUS
<1>1. ASSUME NEW s \in Seg, handed[s] > 0
      PROVE  released[s] = Whole(s)
  BY <1>1 DEF StreamInv, Outcome, Progress, Prefix, Whole
<1> QED BY <1>1 DEF StreamInv, Outcome, HandedOutIsFinal

LEMMA InvWitness == StreamInv => WitnessTellsOutcome
BY DEF StreamInv, SessionTyped, EventsType, SessionType, Records, Outcome, WitnessTellsOutcome

(* For every descriptor, order of frames, repeat, forgery, cut and late    *)
(* answer: chunks leave in order, the counts are exact, what was handed    *)
(* out stays final, and the records tell the outcome.                      *)
THEOREM SessionSoundHolds == SessionSpec => []SessionSound
<1>1. StreamInv => SessionSound
  BY InvReleased, InvCounters, InvHandedOut, InvWitness DEF SessionSound
<1> QED BY <1>1, StreamInvariant, PTL

(* A completed stream's verifier never changes again.                      *)
THEOREM CompleteIsFinalHolds == SessionSpec => CompleteIsFinal
<1>1. StreamInv /\ [SessionNext]_sessionVars
        => [verifier.state = "Complete" => verifier' = verifier]_sessionVars
  BY StreamStep
<1> QED BY <1>1, StreamInvariant, PTL DEF SessionSpec, CompleteIsFinal

-----------------------------------------------------------------------------
(* Launch. *)

Event(events) == {events[k] : k \in DOMAIN events}

InstanceType ==
  [state : {"created", "running", "suspended", "terminated"}, adapter : UsedAdapter,
   package : Package, partition : Partition, agent : Ids \cup {None},
   module : Modules \cup {None}, origin : LaunchSession \cup {None}, checkpoints : Nat]
AgentType == [state : {"running", "suspended"}, partition : Partition]
OpenType ==
  {Idle}
    \cup [op : {"create"}, start : Nat, adapter : UsedAdapter, package : Package,
          partition : Partition]
    \cup [op : {"checkpoint"}, start : Nat]
RecordKind ==
  {host_action_kind(e) : e \in Event(HostEvent)} \cup {action_kind(e) : e \in Event(LaunchEvent)}
    \cup {"TaskSpawn", "PartitionSuspend", "PartitionResume", "TaskTerminate"}
    \cup {"ProofEscalated"}
RecordType ==
  [inst : Instance \cup {None}, kind : RecordKind, tag : Nat,
   claim : IsolationClaim \cup {"none", "unknown"}]

LaunchTyped ==
  /\ inst \in [Instance -> {Absent} \cup InstanceType]
  /\ agents \in [DOMAIN agents -> AgentType] /\ DOMAIN agents \subseteq Ids
  /\ open \in [Instance -> OpenType]
  /\ launchLog \in Seq(RecordType)
  /\ ranges \in [Instance -> SUBSET (Nat \X Nat)]

\* An operation under way is of an instance that is not there yet, or of one that is.
Opened ==
  \A i \in Instance :
    /\ open[i].op = "create" => i \notin Existing /\ open[i].start <= Len(launchLog)
    /\ open[i].op = "checkpoint" => i \in Existing /\ open[i].start <= Len(launchLog)

\* A session starts an instance; it does not create one.
Origins == \A i \in Existing : inst[i].origin # None => inst[i].state # "created"

\* The records an instance's spans have to cover.
MustTell(r) ==
  /\ r.inst \in Instance
  /\ r.tag = 0 \/ (event_of(r) # {} /\ event_of(r) # {"context_permit_rejected"})
Covered == \A k \in 1..Len(launchLog) : MustTell(launchLog[k]) => k \in witness(launchLog[k].inst)

\* What an adapter may claim for a package.
Backed(a, p, claimed) ==
  /\ (claimed = "partition") <=> (a.env = "bare-metal")
  /\ claimed = "os-sandbox+wasm" => a.env \in HostOs /\ a.engaged # {}
  /\ claimed = "wasm-only" => p.granted \subseteq RUNTIME_ENFORCED_CLASSES
PreparedRecord(r) == r.inst \in Instance /\ host_event_of(r) = {"prepared"}
Claimed ==
  \A k \in 1..Len(launchLog) : PreparedRecord(launchLog[k]) =>
    LET i == launchLog[k].inst
    IN  \/ i \in Existing /\ Backed(inst[i].adapter, inst[i].package, launchLog[k].claim)
        \/ open[i].op = "create" /\ Backed(open[i].adapter, open[i].package, launchLog[k].claim)

LaunchInv ==
  LaunchTyped /\ AgentsMatchInstances /\ Opened /\ Origins /\ Covered /\ Claimed
-----------------------------------------------------------------------------
(* Launch: tags tell the events of a layer apart.                          *)
LEMMA TagIs ==
  ASSUME NEW events, NEW k \in DOMAIN events
  PROVE  /\ Tag(events, events[k]) \in DOMAIN events
         /\ events[Tag(events, events[k])] = events[k]
BY DEF Tag

LEMMA HostRecordIs ==
  ASSUME NEW i, NEW e \in Event(HostEvent), NEW c \in IsolationClaim
  PROVE  LET r == HostRecord(i, e, c)
         IN  /\ r.inst = i /\ r.claim = c /\ r.tag \in 1..6
             /\ host_event_of(r) = {e} /\ event_of(r) = {}
<1>1. "none" \notin IsolationClaim
  BY DEF IsolationClaim
<1>2. DOMAIN HostEvent = 1..6
  BY DEF HostEvent
<1>3. PICK t : t = Tag(HostEvent, e)
  OBVIOUS
<1>4. t \in DOMAIN HostEvent /\ HostEvent[t] = e
  BY <1>3, TagIs DEF Event
<1>5. PICK r : r = HostRecord(i, e, c)
  OBVIOUS
<1>6. r.inst = i /\ r.claim = c /\ r.tag = t /\ r.kind = host_action_kind(e)
  BY <1>3, <1>5 DEF HostRecord
<1>7. host_event_of(r) = {e}
  BY <1>4, <1>6 DEF host_event_of
<1>8. event_of(r) = {}
  BY <1>1, <1>6 DEF event_of
<1> QED BY <1>2, <1>4, <1>5, <1>6, <1>7, <1>8

LEMMA LaunchRecordIs ==
  ASSUME NEW i, NEW e \in Event(LaunchEvent)
  PROVE  LET r == build_record(i, e)
         IN  /\ r.inst = i /\ r.claim = "none" /\ r.tag \in 1..11
             /\ host_event_of(r) = {} /\ event_of(r) = {e}
<1>1. "none" \notin IsolationClaim
  BY DEF IsolationClaim
<1>2. DOMAIN LaunchEvent = 1..11
  BY DEF LaunchEvent
<1>3. PICK t : t = Tag(LaunchEvent, e)
  OBVIOUS
<1>4. t \in DOMAIN LaunchEvent /\ LaunchEvent[t] = e
  BY <1>3, TagIs DEF Event
<1>5. PICK r : r = build_record(i, e)
  OBVIOUS
<1>6. r.inst = i /\ r.claim = "none" /\ r.tag = t /\ r.kind = action_kind(e)
  BY <1>3, <1>5 DEF build_record
<1>7. event_of(r) = {e}
  BY <1>4, <1>6 DEF event_of
<1>8. host_event_of(r) = {}
  BY <1>1, <1>6 DEF host_event_of
<1> QED BY <1>2, <1>4, <1>5, <1>6, <1>7, <1>8

LEMMA AgentRecordIs ==
  ASSUME NEW i, NEW kind
  PROVE  LET r == AgentRecord(i, kind)
         IN  r.inst = i /\ r.claim = "none" /\ r.tag = 0 /\ host_event_of(r) = {}
BY DEF AgentRecord, host_event_of, IsolationClaim

LEMMA HostEvents ==
  {"granted", "denied", "refused", "prepared", "admitted", "module_refused"} \subseteq Event(HostEvent)
<1>1. /\ DOMAIN HostEvent = 1..6 /\ HostEvent[1] = "granted" /\ HostEvent[2] = "denied"
      /\ HostEvent[3] = "refused" /\ HostEvent[4] = "prepared" /\ HostEvent[5] = "admitted"
      /\ HostEvent[6] = "module_refused"
  BY DEF HostEvent
<1> QED BY <1>1 DEF Event

LEMMA LaunchEvents ==
  {"created", "started", "suspended", "resumed", "checkpoint", "restored", "checkpoint_rejected",
   "terminated", "illegal", "context_permit_rejected", "executable_rejected"}
    \subseteq Event(LaunchEvent)
<1>1. /\ DOMAIN LaunchEvent = 1..11 /\ LaunchEvent[1] = "created" /\ LaunchEvent[2] = "started"
      /\ LaunchEvent[3] = "suspended" /\ LaunchEvent[4] = "resumed"
      /\ LaunchEvent[5] = "checkpoint" /\ LaunchEvent[6] = "restored"
      /\ LaunchEvent[7] = "checkpoint_rejected" /\ LaunchEvent[8] = "terminated"
      /\ LaunchEvent[9] = "illegal" /\ LaunchEvent[10] = "context_permit_rejected"
      /\ LaunchEvent[11] = "executable_rejected"
  BY DEF LaunchEvent
<1> QED BY <1>1 DEF Event

LEMMA RecordsTyped ==
  ASSUME NEW i \in Instance
  PROVE  /\ \A e \in Event(HostEvent), c \in IsolationClaim : HostRecord(i, e, c) \in RecordType
         /\ \A e \in Event(LaunchEvent) : build_record(i, e) \in RecordType
         /\ \A kind \in {"TaskSpawn", "PartitionSuspend", "PartitionResume", "TaskTerminate"} :
              AgentRecord(i, kind) \in RecordType
<1>1. ASSUME NEW e \in Event(HostEvent), NEW c \in IsolationClaim
      PROVE  HostRecord(i, e, c) \in RecordType
  <2>2. host_action_kind(e) \in RecordKind
    BY DEF RecordKind
  <2>3. PICK r : r = HostRecord(i, e, c)
    OBVIOUS
  <2>4. r.tag \in Nat
    BY <2>3, HostRecordIs
  <2>5. Tag(HostEvent, e) \in Nat
    BY <2>3, <2>4 DEF HostRecord
  <2> QED BY <2>2, <2>5 DEF HostRecord, RecordType
<1>2. ASSUME NEW e \in Event(LaunchEvent)
      PROVE  build_record(i, e) \in RecordType
  <2>1. action_kind(e) \in RecordKind
    BY DEF RecordKind
  <2>2. PICK r : r = build_record(i, e)
    OBVIOUS
  <2>3. r.tag \in Nat
    BY <2>2, LaunchRecordIs
  <2>4. Tag(LaunchEvent, e) \in Nat
    BY <2>2, <2>3 DEF build_record
  <2> QED BY <2>1, <2>4 DEF build_record, RecordType
<1>3. \A kind \in {"TaskSpawn", "PartitionSuspend", "PartitionResume", "TaskTerminate"} :
        AgentRecord(i, kind) \in RecordType
  BY DEF AgentRecord, RecordType, RecordKind
<1> QED BY <1>1, <1>2, <1>3

(* What an adapter that can enforce a package's classes claims.            *)
LEMMA ClaimDerived ==
  ASSUME NEW a \in Adapter, NEW p, \A c \in p.granted : enforces(a, c)
  PROVE  claim(a) \in IsolationClaim /\ Backed(a, p, claim(a))
<1>1. a.env \in HostEnvironment /\ a.engaged \subseteq IsolationMechanism
      /\ (a.env \in HostOs => a.engaged \subseteq stack_for(a.env))
      /\ (a.env \notin HostOs => a.engaged = {})
  BY DEF Adapter
<1>2. "portable" \notin HostOs /\ "bare-metal" \notin HostOs
  BY DEF HostOs
<1>3. ASSUME any_os_confinement_engaged(a)
      PROVE  a.env \in HostOs /\ a.engaged # {}
  <2>1. PICK m \in IsolationMechanism : is_engaged(a, m) /\ a.env \in host_os(m)
    BY <1>3 DEF any_os_confinement_engaged
  <2>2. a.env \in HostOs /\ m \in stack_for(a.env)
    BY <2>1 DEF host_os
  <2>3. m \in DOMAIN mechanisms(a) /\ mechanisms(a)[m] = "engaged"
    BY <2>1 DEF is_engaged
  <2>4. m \in PORTABLE_CORE \cup stack_for(a.env)
    BY <2>2
  <2>5. mechanisms(a) = [x \in PORTABLE_CORE \cup stack_for(a.env) |->
                           IF x \in stack_for(a.env) \ a.engaged THEN "unimplemented" ELSE "engaged"]
    BY <2>2 DEF mechanisms
  <2>6. m \notin a.engaged => mechanisms(a)[m] = "unimplemented"
    BY <2>2, <2>4, <2>5
  <2> QED BY <2>2, <2>3, <2>6
<1>4. ASSUME a.env \in HostOs, NEW m \in a.engaged
      PROVE  any_os_confinement_engaged(a)
  <2>1. m \in stack_for(a.env) /\ m \in IsolationMechanism
    BY <1>1, <1>4
  <2>2. a.env \in host_os(m)
    BY <1>4, <2>1 DEF host_os
  <2>3. m \in DOMAIN mechanisms(a) /\ mechanisms(a)[m] = "engaged"
    BY <1>4, <2>1 DEF mechanisms
  <2> QED BY <2>1, <2>2, <2>3 DEF any_os_confinement_engaged, is_engaged
<1>5. CASE a.env \in HostOs /\ any_os_confinement_engaged(a)
  <2>1. claim(a) = "os-sandbox+wasm"
    <3>1. a.env # "bare-metal"
      BY <1>2, <1>5
    <3> QED BY <1>5, <3>1 DEF claim
  <2> QED BY <1>2, <1>3, <1>5, <2>1 DEF Backed, IsolationClaim
<1>6. CASE a.env = "bare-metal"
  <2>1. claim(a) = "partition"
    BY <1>2, <1>6 DEF claim
  <2> QED BY <1>6, <2>1 DEF Backed, IsolationClaim
<1>7. CASE a.env # "bare-metal" /\ ~(a.env \in HostOs /\ any_os_confinement_engaged(a))
  <2>1. claim(a) = "wasm-only"
    BY <1>7 DEF claim
  <2>2. ASSUME NEW c \in p.granted PROVE c \in RUNTIME_ENFORCED_CLASSES
    <3>1. enforces(a, c)
      OBVIOUS
    <3>2. ~(a.env \in HostOs /\ \E m \in a.engaged : TRUE)
      BY <1>4, <1>7
    <3> QED BY <1>7, <3>1, <3>2 DEF enforces
  <2> QED BY <1>7, <2>1, <2>2 DEF Backed, IsolationClaim
<1> QED BY <1>5, <1>6, <1>7

-----------------------------------------------------------------------------
(* A step that adds records to the log: none of them prepares anything,    *)
(* and those that a span has to cover are covered.                         *)
Told(recs) ==
  /\ recs \in Seq(RecordType) /\ launchLog' = launchLog \o recs
  /\ \A k \in 1..Len(recs) : ~PreparedRecord(recs[k])
  /\ ranges' \in [Instance -> SUBSET (Nat \X Nat)] /\ Covered'

LEMMA SpanCovers ==
  ASSUME LaunchTyped, Covered, NEW i \in Instance, NEW start \in Nat, start <= Len(launchLog),
         NEW recs \in Seq(RecordType), \A k \in 1..Len(recs) : recs[k].inst = i,
         Span(i, start, recs)
  PROVE  Covered' /\ ranges' \in [Instance -> SUBSET (Nat \X Nat)]
<1>1. /\ launchLog \in Seq(RecordType) /\ Len(launchLog) \in Nat /\ Len(recs) \in Nat
      /\ ranges \in [Instance -> SUBSET (Nat \X Nat)]
  BY DEF LaunchTyped
<1>2. PICK e \in Nat : e = Len(launchLog) + Len(recs)
  BY <1>1
<1>3. /\ launchLog' = launchLog \o recs /\ Len(launchLog') = e
      /\ ranges' = [ranges EXCEPT ![i] = @ \cup {<<start, e>>}]
  BY <1>1, <1>2 DEF Span
<1>4. ranges' \in [Instance -> SUBSET (Nat \X Nat)]
  BY <1>1, <1>3
<1>5. ASSUME NEW k \in 1..Len(launchLog'), MustTell(launchLog'[k])
      PROVE  k \in DOMAIN launchLog' /\ \E r \in ranges'[launchLog'[k].inst] : r[1] < k /\ k <= r[2]
  <2>1. k \in DOMAIN launchLog'
    BY <1>1, <1>3
  <2>2. CASE k <= Len(launchLog)
    <3>1. launchLog'[k] = launchLog[k]
      BY <1>1, <1>3, <2>2
    <3>2. k \in witness(launchLog[k].inst) /\ launchLog[k].inst \in Instance
      <4>1. MustTell(launchLog[k]) /\ k \in 1..Len(launchLog)
        BY <1>1, <1>5, <2>2, <3>1
      <4>2. launchLog[k].inst \in Instance
        BY <4>1 DEF MustTell
      <4> QED BY <4>1, <4>2 DEF Covered
    <3>3. PICK r \in ranges[launchLog[k].inst] : r[1] < k /\ k <= r[2]
      BY <3>2 DEF witness
    <3>4. r \in ranges'[launchLog[k].inst]
      BY <1>1, <1>3, <3>2
    <3> QED BY <2>1, <3>1, <3>3, <3>4
  <2>3. CASE k > Len(launchLog)
    <3>1. k - Len(launchLog) \in 1..Len(recs) /\ launchLog'[k] = recs[k - Len(launchLog)]
      BY <1>1, <1>2, <1>3, <2>3
    <3>2. launchLog'[k].inst = i
      BY <3>1
    <3>3. <<start, e>> \in ranges'[i]
      BY <1>1, <1>3
    <3>4. <<start, e>>[1] < k /\ k <= <<start, e>>[2]
      BY <1>1, <1>3, <2>3
    <3> QED BY <2>1, <3>2, <3>3, <3>4
  <2> QED BY <1>1, <1>3, <2>2, <2>3
<1> QED BY <1>4, <1>5 DEF Covered, witness

LEMMA EmitCovers ==
  ASSUME LaunchTyped, Covered, NEW recs \in Seq(RecordType),
         \A k \in 1..Len(recs) : ~MustTell(recs[k]), Emit(recs)
  PROVE  Covered' /\ ranges' \in [Instance -> SUBSET (Nat \X Nat)]
<1>1. /\ launchLog \in Seq(RecordType) /\ Len(launchLog) \in Nat /\ Len(recs) \in Nat
      /\ launchLog' = launchLog \o recs /\ ranges' = ranges
      /\ ranges \in [Instance -> SUBSET (Nat \X Nat)]
  BY DEF LaunchTyped, Emit
<1>2. Len(launchLog') = Len(launchLog) + Len(recs)
  BY <1>1
<1>3. ASSUME NEW k \in 1..Len(launchLog'), MustTell(launchLog'[k])
      PROVE  k \in DOMAIN launchLog' /\ \E r \in ranges'[launchLog'[k].inst] : r[1] < k /\ k <= r[2]
  <2>1. k \in DOMAIN launchLog'
    BY <1>1, <1>2
  <2>2. k <= Len(launchLog)
    <3>1. SUFFICES ASSUME k > Len(launchLog) PROVE FALSE
      BY <1>1, <1>2
    <3>2. k - Len(launchLog) \in 1..Len(recs) /\ launchLog'[k] = recs[k - Len(launchLog)]
      BY <1>1, <1>2, <3>1
    <3> QED BY <1>3, <3>2
  <2>3. launchLog'[k] = launchLog[k]
    BY <1>1, <2>2
  <2>4. k \in witness(launchLog[k].inst)
    BY <1>1, <1>3, <2>2, <2>3 DEF Covered
  <2> QED BY <1>1, <2>1, <2>3, <2>4 DEF witness
<1> QED BY <1>1, <1>3 DEF Covered, witness

(* What was prepared stays backed while instances keep what they are made  *)
(* of.                                                                     *)
LEMMA ClaimsKept ==
  ASSUME LaunchTyped, Claimed, NEW recs, Told(recs),
         \A i \in Existing : /\ i \in Existing' /\ inst'[i].adapter = inst[i].adapter
                             /\ inst'[i].package = inst[i].package,
         \A i \in Instance : open[i].op = "create" =>
            \/ open'[i] = open[i]
            \/ /\ i \in Existing' /\ inst'[i].adapter = open[i].adapter
               /\ inst'[i].package = open[i].package
  PROVE  Claimed'
<1>1. /\ launchLog \in Seq(RecordType) /\ Len(launchLog) \in Nat /\ Len(recs) \in Nat
      /\ launchLog' = launchLog \o recs /\ recs \in Seq(RecordType)
  BY DEF LaunchTyped, Told
<1>2. Len(launchLog') = Len(launchLog) + Len(recs)
  BY <1>1
<1>3. ASSUME NEW k \in 1..Len(launchLog'), PreparedRecord(launchLog'[k])
      PROVE  LET i == launchLog'[k].inst
             IN  \/ i \in Existing' /\ Backed(inst'[i].adapter, inst'[i].package, launchLog'[k].claim)
                 \/ /\ open'[i].op = "create"
                    /\ Backed(open'[i].adapter, open'[i].package, launchLog'[k].claim)
  <2>1. k <= Len(launchLog)
    <3>1. SUFFICES ASSUME k > Len(launchLog) PROVE FALSE
      BY <1>1, <1>2
    <3>2. k - Len(launchLog) \in 1..Len(recs) /\ launchLog'[k] = recs[k - Len(launchLog)]
      BY <1>1, <1>2, <3>1
    <3> QED BY <1>3, <3>2 DEF Told
  <2>2. launchLog'[k] = launchLog[k] /\ k \in 1..Len(launchLog)
    BY <1>1, <2>1
  <2>3. PICK i : i = launchLog[k].inst
    OBVIOUS
  <2>4. i \in Instance
    BY <1>3, <2>2, <2>3 DEF PreparedRecord
  <2>5. \/ i \in Existing /\ Backed(inst[i].adapter, inst[i].package, launchLog[k].claim)
        \/ open[i].op = "create" /\ Backed(open[i].adapter, open[i].package, launchLog[k].claim)
    BY <1>3, <2>2, <2>3 DEF Claimed
  <2>6. \/ i \in Existing' /\ Backed(inst'[i].adapter, inst'[i].package, launchLog[k].claim)
        \/ open'[i].op = "create" /\ Backed(open'[i].adapter, open'[i].package, launchLog[k].claim)
    <3>1. CASE i \in Existing /\ Backed(inst[i].adapter, inst[i].package, launchLog[k].claim)
      BY <3>1
    <3>2. CASE open[i].op = "create" /\ Backed(open[i].adapter, open[i].package, launchLog[k].claim)
      BY <2>4, <3>2
    <3> QED BY <2>5, <3>1, <3>2
  <2> QED BY <2>2, <2>3, <2>6
<1> QED BY <1>3 DEF Claimed

-----------------------------------------------------------------------------
(* Steps that say something of one instance.                               *)
LEMMA SpanTold ==
  ASSUME LaunchInv, NEW i \in Instance, NEW start \in Nat, start <= Len(launchLog),
         NEW recs \in Seq(RecordType),
         \A k \in 1..Len(recs) : recs[k].inst = i /\ ~PreparedRecord(recs[k]),
         Span(i, start, recs)
  PROVE  Told(recs)
<1>1. launchLog' = launchLog \o recs
  BY DEF Span
<1> QED BY <1>1, SpanCovers DEF LaunchInv, Told

LEMMA EmitTold ==
  ASSUME LaunchInv, NEW recs \in Seq(RecordType),
         \A k \in 1..Len(recs) : ~MustTell(recs[k]) /\ ~PreparedRecord(recs[k]), Emit(recs)
  PROVE  Told(recs)
<1>1. launchLog' = launchLog \o recs
  BY DEF Emit
<1> QED BY <1>1, EmitCovers DEF LaunchInv, Told

LEMMA NothingTold ==
  ASSUME LaunchInv, UNCHANGED <<launchLog, ranges>>
  PROVE  Told(<<>>)
<1>1. launchLog' = launchLog \o <<>> /\ <<>> \in Seq(RecordType) /\ Len(<<>>) = 0
  BY DEF LaunchInv, LaunchTyped
<1>2. Covered'
  BY DEF LaunchInv, Covered, witness
<1> QED BY <1>1, <1>2 DEF LaunchInv, LaunchTyped, Told

LEMMA TypedInstance ==
  ASSUME LaunchTyped, NEW i \in Existing
  PROVE  i \in Instance /\ inst[i] \in InstanceType
BY DEF LaunchTyped, Existing

LEMMA NotAbsent == \A x \in InstanceType : x # Absent
BY DEF InstanceType, Absent

(* The log after a step, for the starts of the operations under way.       *)
LEMMA LogGrows ==
  ASSUME LaunchTyped, NEW recs, Told(recs)
  PROVE  /\ launchLog' \in Seq(RecordType) /\ Len(launchLog) \in Nat /\ Len(launchLog') \in Nat
         /\ Len(launchLog) <= Len(launchLog')
BY DEF LaunchTyped, Told

LEMMA RecordsOnly ==
  ASSUME LaunchInv, UNCHANGED <<inst, agents, open>>, NEW recs, Told(recs)
  PROVE  LaunchInv'
<1>1. launchLog' \in Seq(RecordType) /\ Len(launchLog) <= Len(launchLog')
      /\ Len(launchLog) \in Nat /\ Len(launchLog') \in Nat
  BY LogGrows DEF LaunchInv
<1>2. LaunchTyped'
  <2>1. ranges' \in [Instance -> SUBSET (Nat \X Nat)]
    BY DEF Told
  <2>2. inst' \in [Instance -> {Absent} \cup InstanceType] /\ open' \in [Instance -> OpenType]
    BY DEF LaunchInv, LaunchTyped
  <2>3. agents' \in [DOMAIN agents' -> AgentType] /\ DOMAIN agents' \subseteq Ids
    <3>1. agents' = agents
      OBVIOUS
    <3>2. agents \in [DOMAIN agents -> AgentType] /\ DOMAIN agents \subseteq Ids
      BY DEF LaunchInv, LaunchTyped
    <3> QED BY <3>1, <3>2, Zenon
  <2>4. launchLog' \in Seq(RecordType)
    BY <1>1
  <2> QED BY <2>1, <2>2, <2>3, <2>4 DEF LaunchTyped
<1>3. Existing' = Existing
  BY DEF Existing
<1>4. AgentsMatchInstances' /\ Origins'
  BY <1>3 DEF LaunchInv, AgentsMatchInstances, Origins, AgentIn
<1>5. ASSUME NEW i \in Instance, open[i].op \in {"create", "checkpoint"}
      PROVE  open[i].start \in Nat
  BY <1>5 DEF LaunchInv, LaunchTyped, OpenType, Idle
<1>6. Opened'
  BY <1>1, <1>3, <1>5 DEF LaunchInv, Opened
<1>7. Claimed'
  BY <1>3, ClaimsKept DEF LaunchInv
<1> QED BY <1>2, <1>4, <1>6, <1>7 DEF LaunchInv, Told

LEMMA InstanceStep ==
  ASSUME LaunchInv, NEW i \in Existing, NEW x \in InstanceType, NEW recs, Told(recs),
         x.adapter = inst[i].adapter, x.package = inst[i].package,
         x.origin # None => x.state # "created",
         inst' = [inst EXCEPT ![i] = x],
         open' = open \/ open' = [open EXCEPT ![i] = Idle],
         AgentsMatchInstances', agents' \in [DOMAIN agents' -> AgentType], DOMAIN agents' \subseteq Ids
  PROVE  LaunchInv'
<1>1. launchLog' \in Seq(RecordType) /\ Len(launchLog) <= Len(launchLog')
      /\ Len(launchLog) \in Nat /\ Len(launchLog') \in Nat
  BY LogGrows DEF LaunchInv
<1>2. /\ i \in Instance /\ inst \in [Instance -> {Absent} \cup InstanceType] /\ x # Absent
      /\ open \in [Instance -> OpenType]
  BY NotAbsent DEF LaunchInv, LaunchTyped, Existing
<1>3. Existing' = Existing /\ inst'[i] = x /\ \A j \in Existing \ {i} : inst'[j] = inst[j]
  BY <1>2 DEF Existing
<1>4. LaunchTyped'
  <2>1. inst' \in [Instance -> {Absent} \cup InstanceType]
    BY <1>2
  <2>2. open' \in [Instance -> OpenType]
    BY <1>2 DEF OpenType
  <2>3. ranges' \in [Instance -> SUBSET (Nat \X Nat)]
    BY DEF Told
  <2>4. launchLog' \in Seq(RecordType)
    BY <1>1
  <2> QED BY <2>1, <2>2, <2>3, <2>4 DEF LaunchTyped
<1>5. Origins'
  BY <1>3 DEF LaunchInv, Origins
<1>6. Idle.op # "create" /\ Idle.op # "checkpoint"
  BY DEF Idle
<1>7. ASSUME NEW j \in Instance
      PROVE  /\ open'[j].op \in {"create", "checkpoint"} => open'[j] = open[j] /\ open[j].start \in Nat
             /\ open[j].op = "create" => open'[j] = open[j]
  <2>1. open[j].op \in {"create", "checkpoint"} => open[j].start \in Nat
    BY <1>2 DEF OpenType, Idle
  <2>2. open[j].op = "create" => j # i
    BY DEF LaunchInv, Opened
  <2>3. open'[j] = open[j] \/ (j = i /\ open'[j] = Idle)
    BY <1>2
  <2> QED BY <1>6, <2>1, <2>2, <2>3
<1>8. Opened'
  BY <1>1, <1>3, <1>7 DEF LaunchInv, Opened
<1>9. Claimed'
  BY <1>3, <1>7, ClaimsKept DEF LaunchInv
<1> QED BY <1>4, <1>5, <1>8, <1>9 DEF LaunchInv, Told

-----------------------------------------------------------------------------
(* What a step of one instance does to its agent.                          *)
OfOne(i, x) ==
  /\ i \in Existing /\ x \in InstanceType /\ inst' = [inst EXCEPT ![i] = x]
  /\ x.package = inst[i].package /\ x.partition = inst[i].partition
AgentsTyped == agents \in [DOMAIN agents -> AgentType] /\ DOMAIN agents \subseteq Ids

LEMMA OthersStay ==
  ASSUME LaunchInv, NEW i, NEW x, OfOne(i, x)
  PROVE  /\ Existing' = Existing /\ inst'[i] = x /\ i \in Instance
         /\ \A j \in Existing \ {i} : inst'[j] = inst[j]
BY NotAbsent DEF LaunchInv, LaunchTyped, OfOne, Existing

LEMMA AgentKept ==
  ASSUME LaunchInv, NEW i, NEW x, OfOne(i, x), UNCHANGED agents,
         x.state = inst[i].state, x.agent = inst[i].agent, x.module = inst[i].module
  PROVE  AgentsMatchInstances' /\ AgentsTyped'
<1>1. \A j \in Existing : /\ inst'[j].state = inst[j].state /\ inst'[j].agent = inst[j].agent
                         /\ inst'[j].module = inst[j].module
                         /\ inst'[j].package = inst[j].package
                         /\ inst'[j].partition = inst[j].partition
  BY OthersStay DEF OfOne
<1>2. Existing' = Existing
  BY OthersStay
<1>3. {inst'[j].agent : j \in Existing'} = {inst[j].agent : j \in Existing}
  BY <1>1, <1>2
<1>4. AgentsMatchInstances'
  BY <1>1, <1>2, <1>3 DEF LaunchInv, AgentsMatchInstances, AgentIn
<1> QED BY <1>4 DEF LaunchInv, LaunchTyped, AgentsTyped

LEMMA AgentMoved ==
  ASSUME LaunchInv, NEW i, NEW x, OfOne(i, x), NEW st \in {"running", "suspended"},
         inst[i].state \in {"running", "suspended"},
         agents' = [agents EXCEPT ![inst[i].agent].state = st],
         x.state = st, x.agent = inst[i].agent, x.module = inst[i].module
  PROVE  AgentsMatchInstances' /\ AgentsTyped'
<1>1. PICK b : b = inst[i].agent
  OBVIOUS
<1>2. /\ b \in DOMAIN agents /\ b # None /\ agents[b].partition = inst[i].partition
      /\ inst[i].module \in inst[i].package.modules \ BadModule
  BY <1>1 DEF LaunchInv, AgentsMatchInstances, AgentIn, OfOne
<1>3. agents \in [DOMAIN agents -> AgentType]
  BY DEF LaunchInv, LaunchTyped
<1>4. PICK g : g = [agents[b] EXCEPT !.state = st]
  OBVIOUS
<1>5. g \in AgentType /\ g.state = st /\ g.partition = inst[i].partition
  BY <1>2, <1>3, <1>4 DEF AgentType
<1>6. agents' = [agents EXCEPT ![b] = g]
  BY <1>1, <1>4
<1>7. /\ DOMAIN agents' = DOMAIN agents /\ agents'[b] = g
      /\ \A c \in DOMAIN agents \ {b} : agents'[c] = agents[c]
  BY <1>2, <1>3, <1>6
<1>8. AgentsTyped'
  BY <1>3, <1>5, <1>6, <1>7 DEF LaunchInv, LaunchTyped, AgentsTyped
<1>9. Existing' = Existing /\ inst'[i] = x /\ \A j \in Existing \ {i} : inst'[j] = inst[j]
  BY OthersStay
<1>10. \A j \in Existing \ {i} : inst[j].agent # b
  BY <1>1, <1>2 DEF LaunchInv, AgentsMatchInstances, OfOne
<1>11. {inst'[j].agent : j \in Existing'} = {inst[j].agent : j \in Existing}
  BY <1>1, <1>9
<1>12. ASSUME NEW j \in Existing'
       PROVE  IF inst'[j].state \in {"running", "suspended"}
                THEN /\ inst'[j].agent \in DOMAIN agents'
                     /\ agents'[inst'[j].agent].state = inst'[j].state
                     /\ agents'[inst'[j].agent].partition = inst'[j].partition
                     /\ inst'[j].module \in inst'[j].package.modules \ BadModule
                ELSE inst'[j].agent = None
  <2>1. CASE j = i
    BY <1>1, <1>2, <1>5, <1>7, <1>9, <2>1 DEF OfOne
  <2>2. CASE j # i
    <3>1. j \in Existing \ {i} /\ inst'[j] = inst[j] /\ inst[j].agent # b
      BY <1>9, <1>10, <2>2
    <3>2. inst[j].state \in {"running", "suspended"} =>
             inst[j].agent \in DOMAIN agents /\ agents'[inst[j].agent] = agents[inst[j].agent]
      BY <1>7, <3>1 DEF LaunchInv, AgentsMatchInstances, AgentIn
    <3>3. IF inst[j].state \in {"running", "suspended"}
            THEN /\ agents[inst[j].agent].state = inst[j].state
                 /\ agents[inst[j].agent].partition = inst[j].partition
                 /\ inst[j].module \in inst[j].package.modules \ BadModule
            ELSE inst[j].agent = None
      BY <3>1 DEF LaunchInv, AgentsMatchInstances, AgentIn
    <3> QED BY <1>7, <3>1, <3>2, <3>3
  <2> QED BY <2>1, <2>2
<1>13. \A j, k \in Existing' : inst'[j].agent = inst'[k].agent /\ j # k => inst'[j].agent = None
  <2>1. \A j \in Existing : inst'[j].agent = inst[j].agent
    BY <1>9
  <2> QED BY <1>9, <2>1 DEF LaunchInv, AgentsMatchInstances
<1>14. DOMAIN agents' = {inst'[j].agent : j \in Existing'} \ {None}
  BY <1>7, <1>11 DEF LaunchInv, AgentsMatchInstances
<1> QED BY <1>8, <1>12, <1>13, <1>14 DEF AgentsMatchInstances, AgentIn

LEMMA AgentGained ==
  ASSUME LaunchInv, NEW i, NEW x, OfOne(i, x), inst[i].agent = None,
         NEW b \in Ids, b \notin DOMAIN agents, b # None,
         DOMAIN agents' = DOMAIN agents \cup {b},
         agents' = [c \in DOMAIN agents \cup {b} |->
                      IF c = b THEN [state |-> "running", partition |-> inst[i].partition] ELSE agents[c]],
         x.state = "running", x.agent = b, x.module \in x.package.modules \ BadModule
  PROVE  AgentsMatchInstances' /\ AgentsTyped'
<1>1. agents \in [DOMAIN agents -> AgentType] /\ DOMAIN agents \subseteq Ids
  BY DEF LaunchInv, LaunchTyped
<1>2. PICK g : g = [state |-> "running", partition |-> inst[i].partition]
  OBVIOUS
<1>3. g \in AgentType /\ g.state = "running" /\ g.partition = x.partition
  BY <1>2 DEF AgentType, OfOne, InstanceType
<1>4. agents'[b] = g /\ \A c \in DOMAIN agents : agents'[c] = agents[c]
  BY <1>2
<1>5. AgentsTyped'
  BY <1>1, <1>2, <1>3, <1>4 DEF AgentsTyped
<1>6. Existing' = Existing /\ inst'[i] = x /\ \A j \in Existing \ {i} : inst'[j] = inst[j]
  BY OthersStay
<1>7. i \in Existing
  BY DEF OfOne
<1>8. \A j \in Existing : inst[j].agent # None => inst[j].agent \in DOMAIN agents
  BY DEF LaunchInv, AgentsMatchInstances
<1>9. ASSUME NEW j \in Existing'
       PROVE  IF inst'[j].state \in {"running", "suspended"}
                THEN /\ inst'[j].agent \in DOMAIN agents'
                     /\ agents'[inst'[j].agent].state = inst'[j].state
                     /\ agents'[inst'[j].agent].partition = inst'[j].partition
                     /\ inst'[j].module \in inst'[j].package.modules \ BadModule
                ELSE inst'[j].agent = None
  <2>1. CASE j = i
    BY <1>3, <1>4, <1>6, <2>1
  <2>2. CASE j # i
    <3>1. j \in Existing \ {i} /\ inst'[j] = inst[j]
      BY <1>6, <2>2
    <3> QED BY <1>4, <3>1 DEF LaunchInv, AgentsMatchInstances, AgentIn
  <2> QED BY <2>1, <2>2
<1>10. \A j, k \in Existing' : inst'[j].agent = inst'[k].agent /\ j # k => inst'[j].agent = None
  <2>1. \A j \in Existing \ {i} : inst'[j].agent = inst[j].agent /\ inst[j].agent # b
    BY <1>6, <1>8
  <2> QED BY <1>6, <2>1 DEF LaunchInv, AgentsMatchInstances
<1>11. DOMAIN agents' = {inst'[j].agent : j \in Existing'} \ {None}
  <2>1. DOMAIN agents = {inst[j].agent : j \in Existing} \ {None}
    BY DEF LaunchInv, AgentsMatchInstances
  <2>2. \A c : c \in DOMAIN agents' <=> c # None /\ \E j \in Existing' : c = inst'[j].agent
    <3> SUFFICES ASSUME NEW c
                 PROVE  c \in DOMAIN agents' <=> c # None /\ \E j \in Existing' : c = inst'[j].agent
      OBVIOUS
    <3>1. CASE c = b
      BY <1>6, <1>7, <3>1
    <3>2. CASE c # b
      BY <1>6, <1>7, <2>1, <3>2
    <3> QED BY <3>1, <3>2
  <2> QED BY <2>2
<1> QED BY <1>5, <1>9, <1>10, <1>11 DEF AgentsMatchInstances, AgentIn

LEMMA AgentLost ==
  ASSUME LaunchInv, NEW i, NEW x, OfOne(i, x), agents' = Terminated(inst[i].agent),
         x.state = "terminated", x.agent = None
  PROVE  AgentsMatchInstances' /\ AgentsTyped'
<1>1. agents \in [DOMAIN agents -> AgentType] /\ DOMAIN agents \subseteq Ids
  BY DEF LaunchInv, LaunchTyped
<1>2. PICK b : b = inst[i].agent
  OBVIOUS
<1>3. agents' = [c \in DOMAIN agents \ {b} |-> agents[c]]
  BY <1>2 DEF Terminated
<1>4. DOMAIN agents' = DOMAIN agents \ {b} /\ \A c \in DOMAIN agents \ {b} : agents'[c] = agents[c]
  BY <1>3
<1>5. AgentsTyped'
  BY <1>1, <1>3, <1>4 DEF AgentsTyped
<1>6. /\ Existing' = Existing /\ inst'[i] = x /\ \A j \in Existing \ {i} : inst'[j] = inst[j]
      /\ i \in Existing
  BY OthersStay DEF OfOne
<1>7. \A j \in Existing \ {i} : inst[j].agent # None => inst[j].agent # b
  BY <1>2, <1>6 DEF LaunchInv, AgentsMatchInstances
<1>8. ASSUME NEW j \in Existing'
       PROVE  IF inst'[j].state \in {"running", "suspended"}
                THEN /\ inst'[j].agent \in DOMAIN agents'
                     /\ agents'[inst'[j].agent].state = inst'[j].state
                     /\ agents'[inst'[j].agent].partition = inst'[j].partition
                     /\ inst'[j].module \in inst'[j].package.modules \ BadModule
                ELSE inst'[j].agent = None
  <2>1. CASE j = i
    BY <1>6, <2>1
  <2>2. CASE j # i
    <3>1. j \in Existing \ {i} /\ inst'[j] = inst[j]
      BY <1>6, <2>2
    <3>2. inst[j].state \in {"running", "suspended"} =>
            inst[j].agent \in DOMAIN agents /\ inst[j].agent # None
      BY <3>1 DEF LaunchInv, AgentsMatchInstances, AgentIn
    <3> QED BY <1>4, <1>7, <3>1, <3>2 DEF LaunchInv, AgentsMatchInstances, AgentIn
  <2> QED BY <2>1, <2>2
<1>9. \A j, k \in Existing' : inst'[j].agent = inst'[k].agent /\ j # k => inst'[j].agent = None
  BY <1>6 DEF LaunchInv, AgentsMatchInstances
<1>10. DOMAIN agents' = {inst'[j].agent : j \in Existing'} \ {None}
  <2>1. DOMAIN agents = {inst[j].agent : j \in Existing} \ {None}
    BY DEF LaunchInv, AgentsMatchInstances
  <2>2. \A c : c \in DOMAIN agents' <=> c # None /\ \E j \in Existing' : c = inst'[j].agent
    <3> SUFFICES ASSUME NEW c
                 PROVE  c \in DOMAIN agents' <=> c # None /\ \E j \in Existing' : c = inst'[j].agent
      OBVIOUS
    <3>1. CASE c = b
      BY <1>4, <1>6, <1>7, <3>1
    <3>2. CASE c # b
      BY <1>2, <1>4, <1>6, <2>1, <3>2
    <3> QED BY <3>1, <3>2
  <2> QED BY <2>2
<1> QED BY <1>5, <1>8, <1>9, <1>10 DEF AgentsMatchInstances, AgentIn

-----------------------------------------------------------------------------
(* The records of one instance.                                            *)
RecordOf(i, r) == r \in RecordType /\ r.inst = i /\ ~PreparedRecord(r)

LEMMA ClaimTyped == \A a : claim(a) \in IsolationClaim
BY DEF claim, IsolationClaim

LEMMA RecordsAreOf ==
  ASSUME NEW i \in Instance
  PROVE  /\ \A e \in Event(LaunchEvent) : RecordOf(i, build_record(i, e))
         /\ \A kind \in {"TaskSpawn", "PartitionSuspend", "PartitionResume", "TaskTerminate"} :
              RecordOf(i, AgentRecord(i, kind))
         /\ \A a : \A e \in Event(HostEvent) \ {"prepared"} : RecordOf(i, HostRecord(i, e, claim(a)))
<1>1. ASSUME NEW e \in Event(LaunchEvent) PROVE RecordOf(i, build_record(i, e))
  <2>1. PICK r : r = build_record(i, e)
    OBVIOUS
  <2> QED BY <2>1, RecordsTyped, LaunchRecordIs DEF RecordOf, PreparedRecord
<1>2. ASSUME NEW kind \in {"TaskSpawn", "PartitionSuspend", "PartitionResume", "TaskTerminate"}
      PROVE  RecordOf(i, AgentRecord(i, kind))
  <2>1. PICK r : r = AgentRecord(i, kind)
    OBVIOUS
  <2> QED BY <2>1, RecordsTyped, AgentRecordIs DEF RecordOf, PreparedRecord
<1>3. ASSUME NEW e \in Event(HostEvent) \ {"prepared"}, NEW a
      PROVE  RecordOf(i, HostRecord(i, e, claim(a)))
  <2>1. PICK c \in IsolationClaim : c = claim(a)
    BY ClaimTyped
  <2>2. PICK r : r = HostRecord(i, e, c)
    OBVIOUS
  <2>3. r \in RecordType
    BY <2>2, RecordsTyped
  <2>4. r.inst = i /\ host_event_of(r) = {e}
    BY <2>2, HostRecordIs
  <2> QED BY <2>1, <2>2, <2>3, <2>4 DEF RecordOf, PreparedRecord
<1> QED BY <1>1, <1>2, <1>3

LEMMA SpanOf ==
  ASSUME LaunchInv, NEW i \in Instance, NEW start \in Nat, start <= Len(launchLog),
         NEW recs, Span(i, start, recs),
         \/ \E r : RecordOf(i, r) /\ recs = <<r>>
         \/ \E q, r : RecordOf(i, q) /\ RecordOf(i, r) /\ recs = <<q, r>>
         \/ \E p, q, r : RecordOf(i, p) /\ RecordOf(i, q) /\ RecordOf(i, r) /\ recs = <<p, q, r>>
  PROVE  Told(recs)
<1>1. recs \in Seq(RecordType) /\ \A k \in 1..Len(recs) : RecordOf(i, recs[k])
  <2>1. ASSUME NEW r, RecordOf(i, r), recs = <<r>>
        PROVE  recs \in Seq(RecordType) /\ \A k \in 1..Len(recs) : RecordOf(i, recs[k])
    <3>1. Len(recs) = 1 /\ recs[1] = r
      BY <2>1
    <3>2. \A k \in 1..Len(recs) : k = 1
      BY <3>1
    <3>3. r \in RecordType
      BY <2>1 DEF RecordOf
    <3>4. recs \in Seq(RecordType)
      BY <2>1, <3>3
    <3> QED BY <2>1, <3>1, <3>2, <3>4
  <2>2. ASSUME NEW q, NEW r, RecordOf(i, q), RecordOf(i, r), recs = <<q, r>>
        PROVE  recs \in Seq(RecordType) /\ \A k \in 1..Len(recs) : RecordOf(i, recs[k])
    <3>1. Len(recs) = 2 /\ recs[1] = q /\ recs[2] = r
      BY <2>2
    <3>2. \A k \in 1..Len(recs) : k = 1 \/ k = 2
      BY <3>1
    <3>3. q \in RecordType /\ r \in RecordType
      BY <2>2 DEF RecordOf
    <3>4. recs \in Seq(RecordType)
      BY <2>2, <3>3
    <3> QED BY <2>2, <3>1, <3>2, <3>4
  <2>3. ASSUME NEW p, NEW q, NEW r, RecordOf(i, p), RecordOf(i, q), RecordOf(i, r), recs = <<p, q, r>>
        PROVE  recs \in Seq(RecordType) /\ \A k \in 1..Len(recs) : RecordOf(i, recs[k])
    <3>1. Len(recs) = 3 /\ recs[1] = p /\ recs[2] = q /\ recs[3] = r
      BY <2>3
    <3>2. \A k \in 1..Len(recs) : k = 1 \/ k = 2 \/ k = 3
      BY <3>1
    <3>3. p \in RecordType /\ q \in RecordType /\ r \in RecordType
      BY <2>3 DEF RecordOf
    <3>4. recs \in Seq(RecordType)
      BY <2>3, <3>3
    <3> QED BY <2>3, <3>1, <3>2, <3>4
  <2> QED BY <2>1, <2>2, <2>3
<1> QED BY <1>1, SpanTold DEF RecordOf

LEMMA LogLength == LaunchInv => Len(launchLog) \in Nat
BY DEF LaunchInv, LaunchTyped

(* The agent manager's answer to a module.                                 *)
LEMMA AdmitStep ==
  ASSUME LaunchInv, NEW i \in Existing, NEW m \in Modules, NEW origin \in LaunchSession \cup {None},
         NEW op \in {"start", "restore"}, NEW event \in {"started", "restored"},
         inst[i].state = "created", Admit(i, m, origin, op, event), UNCHANGED open
  PROVE  LaunchInv'
<1>1. i \in Instance /\ inst[i] \in InstanceType
  BY TypedInstance DEF LaunchInv
<1>2. PICK p : p = inst[i].package
  OBVIOUS
<1>3. PICK adapter : adapter = inst[i].adapter
  OBVIOUS
<1>4. CASE RejectExecutable(i)
  <2>1. PICK r : r = build_record(i, "executable_rejected")
    OBVIOUS
  <2>2. RecordOf(i, r)
    BY <1>1, <2>1, RecordsAreOf, LaunchEvents
  <2>3. Span(i, Len(launchLog), <<r>>) /\ UNCHANGED <<inst, agents>>
    BY <1>4, <2>1 DEF RejectExecutable
  <2>4. PICK n \in Nat : n = Len(launchLog)
    BY LogLength
  <2>5. Told(<<r>>)
    BY <1>1, <2>2, <2>3, <2>4, SpanOf
  <2> QED BY <2>3, <2>5, RecordsOnly
<1>5. CASE Emit(<<HostRecord(i, "module_refused", claim(adapter))>>) /\ UNCHANGED <<inst, agents>>
  <2>1. PICK c \in IsolationClaim : c = claim(adapter)
    BY ClaimTyped
  <2>2. PICK r : r = HostRecord(i, "module_refused", c)
    OBVIOUS
  <2>3. "module_refused" \in Event(HostEvent)
    BY HostEvents
  <2>4. event_of(r) = {} /\ r.tag \in 1..6
    BY <2>2, <2>3, HostRecordIs
  <2>5. r \in RecordType /\ ~PreparedRecord(r)
    BY <1>1, <2>1, <2>2, <2>3, RecordsAreOf DEF RecordOf
  <2>6. ~MustTell(r)
    BY <2>4 DEF MustTell
  <2>7. Told(<<r>>)
    <3>1. <<r>> \in Seq(RecordType) /\ Len(<<r>>) = 1 /\ <<r>>[1] = r
      BY <2>5
    <3>2. \A k \in 1..Len(<<r>>) : <<r>>[k] = r
      BY <3>1
    <3>3. Emit(<<r>>)
      BY <1>5, <2>1, <2>2
    <3> QED BY <2>5, <2>6, <3>1, <3>2, <3>3, EmitTold
  <2> QED BY <1>5, <2>7, RecordsOnly
<1>6. CASE UNCHANGED <<inst, agents, launchLog, ranges>>
  BY <1>6, NothingTold, RecordsOnly
<1>7. CASE /\ accepts_wasm(p, m) /\ m \notin BadModule /\ CanSpawn(p)
           /\ agents' = Spawned(p, inst[i].partition)
           /\ inst' = [inst EXCEPT ![i].state = resulting_state(op, @), ![i].agent = Badge(p),
                                   ![i].module = m, ![i].origin = origin]
           /\ Span(i, Len(launchLog), <<AgentRecord(i, "TaskSpawn"),
                                       HostRecord(i, "admitted", claim(adapter)),
                                       build_record(i, event)>>)
  <2>1. PICK b : b = p.identity
    OBVIOUS
  <2>2. PICK x : x = [inst[i] EXCEPT !.state = "running", !.agent = b, !.module = m, !.origin = origin]
    OBVIOUS
  <2>3. b \in Ids /\ b # None
    <3>1. p \in Package
      BY <1>1, <1>2 DEF InstanceType
    <3>2. PICK r \in Report : p \in from_report(r)
      BY <3>1 DEF Package
    <3>3. p.identity = r.identity
      BY <3>2 DEF from_report
    <3> QED BY <2>1, <3>1, <3>3, LaunchAssumption DEF Ids, None
  <2>4. /\ x \in InstanceType /\ x.state = "running" /\ x.agent = b /\ x.module = m
        /\ x.adapter = inst[i].adapter /\ x.package = inst[i].package
        /\ x.partition = inst[i].partition
    BY <1>1, <2>2, <2>3 DEF InstanceType
  <2>5. resulting_state(op, inst[i].state) = "running"
    BY DEF resulting_state
  <2>6. inst' = [inst EXCEPT ![i] = x]
    BY <1>7, <2>1, <2>2, <2>5 DEF Badge
  <2>7. OfOne(i, x)
    BY <2>4, <2>6 DEF OfOne
  <2>8. /\ b \notin DOMAIN agents /\ m \in p.modules \ BadModule
        /\ agents' = [c \in DOMAIN agents \cup {b} |->
                        IF c = b THEN [state |-> "running", partition |-> inst[i].partition]
                                 ELSE agents[c]]
    BY <1>7, <2>1 DEF CanSpawn, Badge, Spawned, accepts_wasm
  <2>9. inst[i].agent = None
    BY DEF LaunchInv, AgentsMatchInstances
  <2>10. DOMAIN agents' = DOMAIN agents \cup {b}
    BY <2>8
  <2>11. AgentsMatchInstances' /\ AgentsTyped'
    BY <1>2, <2>3, <2>4, <2>7, <2>8, <2>9, <2>10, AgentGained
  <2>12. PICK q, h, r : /\ q = AgentRecord(i, "TaskSpawn") /\ h = HostRecord(i, "admitted", claim(adapter))
                        /\ r = build_record(i, event)
    OBVIOUS
  <2>13. RecordOf(i, q) /\ RecordOf(i, h) /\ RecordOf(i, r)
    BY <1>1, <2>12, RecordsAreOf, LaunchEvents, HostEvents
  <2>14. PICK n \in Nat : n = Len(launchLog)
    BY LogLength
  <2>15. Told(<<q, h, r>>)
    BY <1>1, <1>7, <2>12, <2>13, <2>14, SpanOf
  <2> QED BY <2>4, <2>6, <2>11, <2>15, InstanceStep DEF AgentsTyped
<1> QED BY <1>2, <1>3, <1>4, <1>5, <1>6, <1>7 DEF Admit

LEMMA OneTold ==
  ASSUME LaunchInv, NEW i \in Instance, NEW start \in Nat, start <= Len(launchLog),
         NEW r, RecordOf(i, r), Span(i, start, <<r>>)
  PROVE  Told(<<r>>)
BY SpanOf

LEMMA OneEmitted ==
  ASSUME LaunchInv, NEW i, NEW r, RecordOf(i, r), ~MustTell(r), Emit(<<r>>)
  PROVE  Told(<<r>>)
<1>1. <<r>> \in Seq(RecordType) /\ Len(<<r>>) = 1 /\ <<r>>[1] = r
  BY DEF RecordOf
<1>2. \A k \in 1..Len(<<r>>) : <<r>>[k] = r
  BY <1>1
<1> QED BY <1>1, <1>2, EmitTold DEF RecordOf

(* The records of a preparation.                                           *)
LEMMA PreparedAre ==
  ASSUME NEW i \in Instance, NEW a, NEW p \in Package
  PROVE  Prepared(i, a, p) \in
           Seq({r \in RecordType : r.inst = i /\ r.claim = claim(a) /\ ~MustTell(r)})
<1> DEFINE S == {r \in RecordType : r.inst = i /\ r.claim = claim(a) /\ ~MustTell(r)}
<1> DEFINE T(n, e) == [k \in 1..n |-> HostRecord(i, e, claim(a))]
<1>1. PICK c \in IsolationClaim : c = claim(a)
  BY ClaimTyped
<1>2. ASSUME NEW e \in Event(HostEvent) PROVE HostRecord(i, e, claim(a)) \in S
  <2>1. PICK r : r = HostRecord(i, e, c)
    OBVIOUS
  <2>2. r \in RecordType
    BY <2>1, RecordsTyped
  <2>3. r.inst = i /\ r.claim = c /\ r.tag \in 1..6 /\ event_of(r) = {}
    BY <2>1, HostRecordIs
  <2>4. ~MustTell(r)
    BY <2>3 DEF MustTell
  <2> QED BY <1>1, <2>1, <2>2, <2>3, <2>4
<1>3. PICK r \in Report : p \in from_report(r)
  BY DEF Package
<1>4. p.granted \subseteq HostClass
  BY <1>3, LaunchAssumption DEF from_report
<1>5. IsFiniteSet(HostClass)
  BY LaunchAssumption
<1>6. Cardinality(p.granted) \in Nat /\ Cardinality(HostClass \ p.granted) \in Nat
  BY <1>4, <1>5, FS_Subset, FS_CardinalityType, FS_Difference
<1>7. "granted" \in Event(HostEvent) /\ "denied" \in Event(HostEvent) /\ "prepared" \in Event(HostEvent)
  BY HostEvents
<1>8. ASSUME NEW n \in Nat, NEW e \in Event(HostEvent) PROVE T(n, e) \in Seq(S)
  BY <1>2, <1>8
<1>9. /\ T(Cardinality(p.granted), "granted") \in Seq(S)
      /\ T(Cardinality(HostClass \ p.granted), "denied") \in Seq(S)
  BY <1>6, <1>7, <1>8
<1>10. <<HostRecord(i, "prepared", claim(a))>> \in Seq(S)
  BY <1>2, <1>7
<1>11. Prepared(i, a, p) = T(Cardinality(p.granted), "granted")
                             \o T(Cardinality(HostClass \ p.granted), "denied")
                             \o <<HostRecord(i, "prepared", claim(a))>>
  BY DEF Prepared
<1> HIDE DEF S, T
<1>12. Prepared(i, a, p) \in Seq(S)
  BY <1>9, <1>10, <1>11, ConcatProperties
<1> QED BY <1>12 DEF S

LEMMA BeginCreateStep ==
  ASSUME LaunchInv, NEW i \in Instance, NEW a \in UsedAdapter, NEW p \in Package,
         NEW part \in Partition, BeginCreate(i, a, p, part)
  PROVE  LaunchInv'
<1>1. inst[i] = Absent /\ open[i] = Idle /\ UNCHANGED <<inst, agents>>
  BY DEF BeginCreate
<1>2. CASE Emit(<<HostRecord(i, "refused", claim(a))>>) /\ UNCHANGED open
  <2>1. PICK c \in IsolationClaim : c = claim(a)
    BY ClaimTyped
  <2>2. PICK r : r = HostRecord(i, "refused", c)
    OBVIOUS
  <2>3. "refused" \in Event(HostEvent)
    BY HostEvents
  <2>4. event_of(r) = {} /\ r.tag \in 1..6
    BY <2>2, <2>3, HostRecordIs
  <2>5. RecordOf(i, r)
    BY <2>1, <2>2, <2>3, RecordsAreOf
  <2>6. ~MustTell(r)
    BY <2>4 DEF MustTell
  <2>7. Told(<<r>>)
    BY <1>2, <2>1, <2>2, <2>5, <2>6, OneEmitted
  <2> QED BY <1>1, <1>2, <2>7, RecordsOnly
<1>3. CASE /\ \A c \in p.granted : enforces(a, c)
           /\ open' = [open EXCEPT ![i] =
                         [op |-> "create", start |-> Len(launchLog), adapter |-> a,
                          package |-> p, partition |-> part]]
           /\ Emit(Prepared(i, a, p))
  <2>1. PICK recs : recs = Prepared(i, a, p)
    OBVIOUS
  <2>2. PICK c \in IsolationClaim : c = claim(a)
    BY ClaimTyped
  <2>3. recs \in Seq({r \in RecordType : r.inst = i /\ r.claim = c /\ ~MustTell(r)})
    BY <2>1, <2>2, PreparedAre
  <2>4. /\ recs \in Seq(RecordType)
        /\ \A k \in 1..Len(recs) : recs[k].inst = i /\ recs[k].claim = c /\ ~MustTell(recs[k])
    BY <2>3
  <2>5. PICK n \in Nat : n = Len(launchLog)
    BY LogLength
  <2>6. PICK o : o = [op |-> "create", start |-> n, adapter |-> a, package |-> p, partition |-> part]
    OBVIOUS
  <2>7. open' = [open EXCEPT ![i] = o] /\ open \in [Instance -> OpenType]
    BY <1>3, <2>5, <2>6 DEF LaunchInv, LaunchTyped
  <2>8. o \in OpenType /\ o.op = "create" /\ o.start = n /\ o.adapter = a /\ o.package = p
    BY <2>6 DEF OpenType
  <2>9. open' \in [Instance -> OpenType] /\ open'[i] = o /\ \A j \in Instance \ {i} : open'[j] = open[j]
    BY <2>7, <2>8
  <2>10. Emit(recs)
    BY <1>3, <2>1
  <2>11. Covered' /\ ranges' \in [Instance -> SUBSET (Nat \X Nat)]
    BY <2>4, <2>10, EmitCovers DEF LaunchInv
  <2>12. launchLog \in Seq(RecordType) /\ launchLog' = launchLog \o recs
    BY <2>10 DEF LaunchInv, LaunchTyped, Emit
  <2>13. launchLog' \in Seq(RecordType) /\ Len(launchLog') = n + Len(recs) /\ Len(recs) \in Nat
    BY <2>4, <2>5, <2>12
  <2>14. Existing' = Existing /\ i \notin Existing
    BY <1>1 DEF Existing
  <2>15. LaunchTyped'
    BY <1>1, <2>9, <2>11, <2>13 DEF LaunchInv, LaunchTyped
  <2>16. AgentsMatchInstances' /\ Origins'
    BY <1>1, <2>14 DEF LaunchInv, AgentsMatchInstances, Origins, AgentIn
  <2>17. Opened'
    <3>1. ASSUME NEW j \in Instance
          PROVE  /\ open'[j].op = "create" => j \notin Existing' /\ open'[j].start <= Len(launchLog')
                 /\ open'[j].op = "checkpoint" => j \in Existing' /\ open'[j].start <= Len(launchLog')
      <4>1. CASE j = i
        BY <2>8, <2>9, <2>13, <2>14, <4>1
      <4>2. CASE j # i
        <5>1. open'[j] = open[j]
          BY <2>9, <4>2
        <5>2. open[j].op \in {"create", "checkpoint"} => open[j].start \in Nat
          BY <2>7 DEF OpenType, Idle
        <5> QED BY <2>5, <2>13, <2>14, <5>1, <5>2 DEF LaunchInv, Opened
      <4> QED BY <4>1, <4>2
    <3> QED BY <3>1 DEF Opened
  <2>18. ASSUME NEW k \in 1..Len(launchLog'), PreparedRecord(launchLog'[k])
         PROVE  LET j == launchLog'[k].inst
                IN  \/ j \in Existing' /\ Backed(inst'[j].adapter, inst'[j].package, launchLog'[k].claim)
                    \/ /\ open'[j].op = "create"
                       /\ Backed(open'[j].adapter, open'[j].package, launchLog'[k].claim)
    <3>1. CASE k <= n
      <4>1. launchLog'[k] = launchLog[k] /\ k \in 1..Len(launchLog)
        BY <2>4, <2>5, <2>12, <3>1
      <4>2. launchLog[k].inst \in Instance
        BY <2>18, <4>1 DEF PreparedRecord
      <4>3. PICK j \in Instance : j = launchLog[k].inst
        BY <4>2
      <4>4. \/ j \in Existing /\ Backed(inst[j].adapter, inst[j].package, launchLog[k].claim)
            \/ open[j].op = "create" /\ Backed(open[j].adapter, open[j].package, launchLog[k].claim)
        BY <2>18, <4>1, <4>3 DEF LaunchInv, Claimed
      <4>5. j # i
        BY <1>1, <2>14, <4>4 DEF Idle
      <4>6. open'[j] = open[j] /\ inst'[j] = inst[j]
        BY <1>1, <2>9, <4>5
      <4> QED BY <2>14, <4>1, <4>3, <4>4, <4>6
    <3>2. CASE k > n
      <4>1. k - n \in 1..Len(recs) /\ launchLog'[k] = recs[k - n]
        BY <2>4, <2>5, <2>12, <2>13, <3>2
      <4>2. launchLog'[k].inst = i /\ launchLog'[k].claim = c
        BY <2>4, <4>1
      <4>3. Backed(a, p, c)
        BY <1>3, <2>2, ClaimDerived, LaunchAssumption
      <4> QED BY <2>8, <2>9, <4>2, <4>3
    <3> QED BY <2>5, <2>13, <3>1, <3>2
  <2>19. Claimed'
    BY <2>18 DEF Claimed
  <2> QED BY <2>11, <2>15, <2>16, <2>17, <2>19 DEF LaunchInv
<1> QED BY <1>2, <1>3 DEF BeginCreate

LEMMA RefuseContextStep ==
  ASSUME LaunchInv, NEW i \in Instance, NEW p, NEW part, NEW permit, RefuseContext(i, p, part, permit)
  PROVE  LaunchInv'
<1>1. PICK r : r = build_record(i, "context_permit_rejected")
  OBVIOUS
<1>2. r.tag \in 1..11 /\ event_of(r) = {"context_permit_rejected"}
  BY <1>1, LaunchRecordIs, LaunchEvents
<1>3. RecordOf(i, r)
  BY <1>1, RecordsAreOf, LaunchEvents
<1>4. ~MustTell(r)
  BY <1>2 DEF MustTell
<1>5. Emit(<<r>>) /\ UNCHANGED <<inst, agents, open>>
  BY <1>1 DEF RefuseContext
<1> QED BY <1>3, <1>4, <1>5, OneEmitted, RecordsOnly

LEMMA EndCreateStep ==
  ASSUME LaunchInv, NEW i \in Instance, EndCreate(i)
  PROVE  LaunchInv'
<1>1. PICK o : o = open[i]
  OBVIOUS
<1>2. /\ inst \in [Instance -> {Absent} \cup InstanceType] /\ open \in [Instance -> OpenType]
      /\ launchLog \in Seq(RecordType)
  BY DEF LaunchInv, LaunchTyped
<1>3. o.op = "create" /\ i \notin Existing /\ o.start <= Len(launchLog)
  BY <1>1 DEF EndCreate, LaunchInv, Opened
<1>4. o.start \in Nat /\ o.adapter \in UsedAdapter /\ o.package \in Package /\ o.partition \in Partition
  BY <1>1, <1>2, <1>3 DEF OpenType, Idle
<1>5. PICK x : x = [state |-> "created", adapter |-> o.adapter, package |-> o.package,
                    partition |-> o.partition, agent |-> None, module |-> None,
                    origin |-> None, checkpoints |-> 0]
  OBVIOUS
<1>6. /\ x \in InstanceType /\ x.state = "created" /\ x.agent = None /\ x.origin = None
      /\ x.adapter = o.adapter /\ x.package = o.package
  BY <1>4, <1>5 DEF InstanceType
<1>7. inst' = [inst EXCEPT ![i] = x] /\ open' = [open EXCEPT ![i] = Idle] /\ UNCHANGED agents
  BY <1>1, <1>5 DEF EndCreate
<1>8. x # Absent
  BY <1>6, NotAbsent
<1>9. /\ Existing' = Existing \cup {i} /\ inst'[i] = x
      /\ \A j \in Instance \ {i} : inst'[j] = inst[j] /\ open'[j] = open[j]
      /\ open'[i] = Idle
  BY <1>2, <1>7, <1>8 DEF Existing
<1>10. PICK r : r = build_record(i, "created")
  OBVIOUS
<1>11. RecordOf(i, r)
  BY <1>10, RecordsAreOf, LaunchEvents
<1>12. Told(<<r>>)
  <2>1. Span(i, o.start, <<r>>)
    BY <1>1, <1>10 DEF EndCreate
  <2> QED BY <1>3, <1>4, <1>11, <2>1, OneTold
<1>13. /\ launchLog' \in Seq(RecordType) /\ Len(launchLog) \in Nat /\ Len(launchLog') \in Nat
       /\ Len(launchLog) <= Len(launchLog')
  BY <1>12, LogGrows DEF LaunchInv
<1>14. LaunchTyped'
  <2>1. inst' \in [Instance -> {Absent} \cup InstanceType]
    BY <1>2, <1>6, <1>7
  <2>2. open' \in [Instance -> OpenType]
    BY <1>2, <1>7 DEF OpenType
  <2> QED BY <1>7, <1>12, <1>13, <2>1, <2>2 DEF LaunchInv, LaunchTyped, Told
<1>15. AgentsMatchInstances'
  <2>1. \A j \in Existing : j # i /\ inst'[j] = inst[j]
    BY <1>3, <1>9 DEF Existing
  <2>2. {inst'[j].agent : j \in Existing'} = {inst[j].agent : j \in Existing} \cup {None}
    BY <1>6, <1>9, <2>1
  <2>3. DOMAIN agents' = {inst'[j].agent : j \in Existing'} \ {None}
    BY <1>7, <2>2 DEF LaunchInv, AgentsMatchInstances
  <2>4. \A j, k \in Existing' : inst'[j].agent = inst'[k].agent /\ j # k => inst'[j].agent = None
    BY <1>6, <1>9, <2>1 DEF LaunchInv, AgentsMatchInstances
  <2>5. ASSUME NEW j \in Existing'
        PROVE  IF inst'[j].state \in {"running", "suspended"}
                 THEN /\ inst'[j].agent \in DOMAIN agents'
                      /\ agents'[inst'[j].agent].state = inst'[j].state
                      /\ agents'[inst'[j].agent].partition = inst'[j].partition
                      /\ inst'[j].module \in inst'[j].package.modules \ BadModule
                 ELSE inst'[j].agent = None
    <3>1. CASE j = i
      BY <1>6, <1>9, <3>1
    <3>2. CASE j # i
      <4>1. j \in Existing /\ inst'[j] = inst[j]
        BY <1>9, <2>1, <3>2
      <4> QED BY <1>7, <4>1 DEF LaunchInv, AgentsMatchInstances, AgentIn
    <3> QED BY <3>1, <3>2
  <2> QED BY <2>3, <2>4, <2>5 DEF AgentsMatchInstances, AgentIn
<1>16. Origins'
  <2>1. \A j \in Existing : inst'[j] = inst[j]
    BY <1>3, <1>9 DEF Existing
  <2> QED BY <1>6, <1>9, <2>1 DEF LaunchInv, Origins
<1>17. Opened'
  <2>1. ASSUME NEW j \in Instance
        PROVE  /\ open'[j].op = "create" => j \notin Existing' /\ open'[j].start <= Len(launchLog')
               /\ open'[j].op = "checkpoint" => j \in Existing' /\ open'[j].start <= Len(launchLog')
    <3>1. CASE j = i
      BY <1>9, <3>1 DEF Idle
    <3>2. CASE j # i
      <4>1. open'[j] = open[j]
        BY <1>9, <3>2
      <4>2. open[j].op \in {"create", "checkpoint"} => open[j].start \in Nat
        BY <1>2 DEF OpenType, Idle
      <4> QED BY <1>9, <1>13, <3>2, <4>1, <4>2 DEF LaunchInv, Opened
    <3> QED BY <3>1, <3>2
  <2> QED BY <2>1 DEF Opened
<1>18. Claimed'
  <2>1. \A j \in Existing : j \in Existing' /\ inst'[j] = inst[j]
    BY <1>3, <1>9 DEF Existing
  <2>2. \A j \in Instance : open[j].op = "create" =>
           \/ open'[j] = open[j]
           \/ j \in Existing' /\ inst'[j].adapter = open[j].adapter /\ inst'[j].package = open[j].package
    BY <1>1, <1>6, <1>9
  <2> QED BY <1>12, <2>1, <2>2, ClaimsKept DEF LaunchInv
<1> QED BY <1>12, <1>14, <1>15, <1>16, <1>17, <1>18 DEF LaunchInv, Told

LEMMA SuspendStep ==
  ASSUME LaunchInv, NEW i \in Instance, Suspend(i)
  PROVE  LaunchInv'
<1>1. i \in Existing /\ inst[i].state = "running" /\ inst[i] \in InstanceType
  BY TypedInstance DEF Suspend, Ready, is_legal, LaunchInv
<1>2. PICK x : x = [inst[i] EXCEPT !.state = "suspended"]
  OBVIOUS
<1>3. /\ x \in InstanceType /\ x.state = "suspended" /\ x.agent = inst[i].agent
      /\ x.module = inst[i].module /\ x.adapter = inst[i].adapter /\ x.package = inst[i].package
      /\ x.partition = inst[i].partition
  BY <1>1, <1>2 DEF InstanceType
<1>4. /\ inst' = [inst EXCEPT ![i] = x] /\ UNCHANGED open
      /\ agents' = [agents EXCEPT ![inst[i].agent].state = "suspended"]
  BY <1>2 DEF Suspend, resulting_state
<1>5. OfOne(i, x)
  BY <1>1, <1>3, <1>4 DEF OfOne
<1>6. AgentsMatchInstances' /\ AgentsTyped'
  BY <1>1, <1>3, <1>4, <1>5, AgentMoved
<1>7. PICK q, r : q = AgentRecord(i, "PartitionSuspend") /\ r = build_record(i, "suspended")
  OBVIOUS
<1>8. RecordOf(i, q) /\ RecordOf(i, r)
  BY <1>7, RecordsAreOf, LaunchEvents
<1>9. PICK n \in Nat : n = Len(launchLog)
  BY LogLength
<1>10. Told(<<q, r>>)
  <2>1. Span(i, n, <<q, r>>)
    BY <1>7, <1>9 DEF Suspend
  <2> QED BY <1>8, <1>9, <2>1, SpanOf
<1> QED BY <1>1, <1>3, <1>4, <1>6, <1>10, InstanceStep DEF AgentsTyped

LEMMA ContinueStep ==
  ASSUME LaunchInv, NEW i \in Existing, NEW op \in {"resume", "restore"},
         NEW event \in {"resumed", "restored"}, inst[i].state = "suspended",
         Continue(i, op, event), UNCHANGED open
  PROVE  LaunchInv'
<1>1. i \in Instance /\ inst[i] \in InstanceType
  BY TypedInstance DEF LaunchInv
<1>2. PICK x : x = [inst[i] EXCEPT !.state = "running"]
  OBVIOUS
<1>3. /\ x \in InstanceType /\ x.state = "running" /\ x.agent = inst[i].agent
      /\ x.module = inst[i].module /\ x.adapter = inst[i].adapter /\ x.package = inst[i].package
      /\ x.partition = inst[i].partition
  BY <1>1, <1>2 DEF InstanceType
<1>4. /\ inst' = [inst EXCEPT ![i] = x]
      /\ agents' = [agents EXCEPT ![inst[i].agent].state = "running"]
  BY <1>2 DEF Continue, resulting_state
<1>5. OfOne(i, x)
  BY <1>3, <1>4 DEF OfOne
<1>6. AgentsMatchInstances' /\ AgentsTyped'
  BY <1>3, <1>4, <1>5, AgentMoved
<1>7. PICK q, r : q = AgentRecord(i, "PartitionResume") /\ r = build_record(i, event)
  OBVIOUS
<1>8. RecordOf(i, q) /\ RecordOf(i, r)
  BY <1>1, <1>7, RecordsAreOf, LaunchEvents
<1>9. PICK n \in Nat : n = Len(launchLog)
  BY LogLength
<1>10. Told(<<q, r>>)
  <2>1. Span(i, n, <<q, r>>)
    BY <1>7, <1>9 DEF Continue
  <2> QED BY <1>1, <1>8, <1>9, <2>1, SpanOf
<1> QED BY <1>3, <1>4, <1>6, <1>10, InstanceStep DEF AgentsTyped

LEMMA BeginCheckpointStep ==
  ASSUME LaunchInv, NEW i \in Instance, BeginCheckpoint(i)
  PROVE  LaunchInv'
<1>1. i \in Existing /\ open[i] = Idle
  BY DEF BeginCheckpoint, Ready
<1>2. PICK n \in Nat : n = Len(launchLog)
  BY LogLength
<1>3. PICK o : o = [op |-> "checkpoint", start |-> n]
  OBVIOUS
<1>4. /\ open' = [open EXCEPT ![i] = o] /\ UNCHANGED <<inst, agents, launchLog, ranges>>
      /\ open \in [Instance -> OpenType]
  BY <1>2, <1>3 DEF BeginCheckpoint, LaunchInv, LaunchTyped
<1>5. o \in OpenType /\ o.op = "checkpoint" /\ o.start = n
  BY <1>3 DEF OpenType
<1>6. open' \in [Instance -> OpenType] /\ open'[i] = o /\ \A j \in Instance \ {i} : open'[j] = open[j]
  BY <1>4, <1>5
<1>7. Existing' = Existing
  BY <1>4 DEF Existing
<1>8. LaunchTyped' /\ AgentsMatchInstances' /\ Origins' /\ Covered'
  BY <1>4, <1>6, <1>7
     DEF LaunchInv, LaunchTyped, AgentsMatchInstances, Origins, AgentIn, Covered, witness
<1>9. Opened'
  BY <1>1, <1>2, <1>4, <1>5, <1>6, <1>7 DEF LaunchInv, Opened
<1>10. Claimed'
  <2>1. Told(<<>>)
    BY <1>4, NothingTold
  <2>2. \A j \in Instance : open[j].op = "create" => open'[j] = open[j]
    BY <1>1, <1>6 DEF Idle
  <2> QED BY <1>4, <1>7, <2>1, <2>2, ClaimsKept DEF LaunchInv
<1> QED BY <1>8, <1>9, <1>10 DEF LaunchInv

LEMMA EndCheckpointStep ==
  ASSUME LaunchInv, NEW i \in Instance, EndCheckpoint(i)
  PROVE  LaunchInv'
<1>1. i \in Existing /\ open[i].start <= Len(launchLog) /\ open[i].start \in Nat
  BY DEF EndCheckpoint, LaunchInv, Opened, LaunchTyped, OpenType, Idle
<1>2. inst[i] \in InstanceType
  BY <1>1, TypedInstance DEF LaunchInv
<1>3. PICK x : x = [inst[i] EXCEPT !.checkpoints = @ + 1]
  OBVIOUS
<1>4. /\ x \in InstanceType /\ x.state = inst[i].state /\ x.agent = inst[i].agent
      /\ x.module = inst[i].module /\ x.adapter = inst[i].adapter /\ x.package = inst[i].package
      /\ x.partition = inst[i].partition /\ x.origin = inst[i].origin
  <2>1. PICK c \in Nat : c = inst[i].checkpoints + 1
    BY <1>2 DEF InstanceType
  <2>2. x = [inst[i] EXCEPT !.checkpoints = c]
    BY <1>2, <1>3, <2>1 DEF InstanceType
  <2> QED BY <1>2, <2>1, <2>2 DEF InstanceType
<1>5. inst' = [inst EXCEPT ![i] = x] /\ UNCHANGED agents /\ open' = [open EXCEPT ![i] = Idle]
  BY <1>3 DEF EndCheckpoint
<1>6. OfOne(i, x)
  BY <1>1, <1>4, <1>5 DEF OfOne
<1>7. AgentsMatchInstances' /\ AgentsTyped'
  BY <1>4, <1>5, <1>6, AgentKept
<1>8. PICK r : r = build_record(i, "checkpoint")
  OBVIOUS
<1>9. RecordOf(i, r)
  BY <1>8, RecordsAreOf, LaunchEvents
<1>10. PICK n \in Nat : n = open[i].start
  BY <1>1
<1>11. Told(<<r>>)
  <2>1. Span(i, n, <<r>>)
    BY <1>8, <1>10 DEF EndCheckpoint
  <2> QED BY <1>1, <1>9, <1>10, <2>1, OneTold
<1>12. x.origin # None => x.state # "created"
  BY <1>1, <1>4 DEF LaunchInv, Origins
<1> QED BY <1>1, <1>4, <1>5, <1>7, <1>11, <1>12, InstanceStep DEF AgentsTyped

LEMMA TerminateStep ==
  ASSUME LaunchInv, NEW i \in Instance, Terminate(i)
  PROVE  LaunchInv'
<1>1. i \in Existing /\ inst[i] \in InstanceType
  BY TypedInstance DEF Terminate, Ready, LaunchInv
<1>2. PICK x : x = [inst[i] EXCEPT !.state = "terminated", !.agent = None]
  OBVIOUS
<1>3. /\ x \in InstanceType /\ x.state = "terminated" /\ x.agent = None
      /\ x.adapter = inst[i].adapter /\ x.package = inst[i].package
      /\ x.partition = inst[i].partition
  BY <1>1, <1>2 DEF InstanceType
<1>4. /\ inst' = [inst EXCEPT ![i] = x] /\ UNCHANGED open
      /\ agents' = Terminated(inst[i].agent)
  BY <1>2 DEF Terminate, resulting_state
<1>5. OfOne(i, x)
  BY <1>1, <1>3, <1>4 DEF OfOne
<1>6. AgentsMatchInstances' /\ AgentsTyped'
  BY <1>3, <1>4, <1>5, AgentLost
<1>7. PICK q, r : q = AgentRecord(i, "TaskTerminate") /\ r = build_record(i, "terminated")
  OBVIOUS
<1>8. RecordOf(i, q) /\ RecordOf(i, r)
  BY <1>7, RecordsAreOf, LaunchEvents
<1>9. PICK n \in Nat : n = Len(launchLog)
  BY LogLength
<1>10. PICK recs : recs = Ended(i)
  OBVIOUS
<1>11. recs = <<r>> \/ recs = <<q, r>>
  <2>1. CASE inst[i].agent = None
    BY <1>7, <1>10, <2>1 DEF Ended
  <2>2. CASE inst[i].agent # None
    <3>1. recs = <<q>> \o <<r>>
      BY <1>7, <1>10, <2>2 DEF Ended
    <3>2. q \in RecordType /\ r \in RecordType
      BY <1>8 DEF RecordOf
    <3>3. /\ <<q>> \in Seq(RecordType) /\ <<r>> \in Seq(RecordType)
          /\ Len(<<q>>) = 1 /\ Len(<<r>>) = 1
      BY <3>2
    <3>4. /\ recs \in Seq(RecordType) /\ Len(recs) = 2 /\ recs[1] = q /\ recs[2] = r
      BY <3>1, <3>3
    <3>5. /\ <<q, r>> \in Seq(RecordType) /\ Len(<<q, r>>) = 2 /\ <<q, r>>[1] = q /\ <<q, r>>[2] = r
      BY <3>2
    <3>6. \A k \in 1..2 : k = 1 \/ k = 2
      OBVIOUS
    <3> QED BY <3>4, <3>5, <3>6, SeqEqual
  <2> QED BY <2>1, <2>2
<1>12. Told(recs)
  <2>1. Span(i, n, recs)
    BY <1>9, <1>10 DEF Terminate
  <2> QED BY <1>8, <1>9, <1>11, <2>1, SpanOf
<1> QED BY <1>1, <1>3, <1>4, <1>6, <1>12, InstanceStep DEF AgentsTyped

LEMMA RefusedStep ==
  ASSUME LaunchInv, NEW i \in Instance,
         NEW e \in {"illegal", "checkpoint_rejected", "executable_rejected"},
         Span(i, Len(launchLog), <<build_record(i, e)>>), UNCHANGED <<inst, agents, open>>
  PROVE  LaunchInv'
<1>1. PICK r : r = build_record(i, e)
  OBVIOUS
<1>2. RecordOf(i, r)
  BY <1>1, RecordsAreOf, LaunchEvents
<1>3. PICK n \in Nat : n = Len(launchLog)
  BY LogLength
<1>4. Span(i, n, <<r>>)
  BY <1>1, <1>3
<1> QED BY <1>2, <1>3, <1>4, OneTold, RecordsOnly

LEMMA StartStep ==
  ASSUME LaunchInv, NEW i \in Instance, NEW m \in Modules, Start(i, m)
  PROVE  LaunchInv'
<1>1. i \in Existing /\ inst[i].state = "created"
  BY DEF Start, Ready, is_legal
<1>2. Admit(i, m, None, "start", "started") /\ UNCHANGED open
  BY DEF Start
<1> QED BY <1>1, <1>2, AdmitStep

LEMMA StartVerifiedStep ==
  ASSUME LaunchInv, NEW i \in Instance, NEW v \in VerifiedModule, StartVerified(i, v)
  PROVE  LaunchInv'
<1>1. i \in Existing /\ inst[i].state = "created"
  BY DEF StartVerified, Ready, is_legal
<1>2. PICK m \in Modules : m = v.module
  BY DEF VerifiedModule, Modules
<1>3. PICK s \in LaunchSession : s = v.session
  BY DEF VerifiedModule
<1>4. CASE RejectExecutable(i) /\ UNCHANGED open
  BY <1>4, RefusedStep DEF RejectExecutable
<1>5. CASE Admit(i, m, s, "start", "started") /\ UNCHANGED open
  BY <1>1, <1>5, AdmitStep
<1> QED BY <1>2, <1>3, <1>4, <1>5 DEF StartVerified

LEMMA RestoreStep ==
  ASSUME LaunchInv, NEW i \in Instance, NEW m \in Modules, NEW c, Restore(i, c, m)
  PROVE  LaunchInv'
<1>1. i \in Existing /\ UNCHANGED open
  BY DEF Restore, Ready
<1>2. CASE /\ Span(i, Len(launchLog), <<build_record(i, "checkpoint_rejected")>>)
           /\ UNCHANGED <<inst, agents>>
  BY <1>1, <1>2, RefusedStep
<1>3. CASE inst[i].state = "created" /\ Admit(i, m, None, "restore", "restored")
  BY <1>1, <1>3, AdmitStep
<1>4. CASE inst[i].state = "suspended" /\ Continue(i, "restore", "restored")
  BY <1>1, <1>4, ContinueStep
<1> QED BY <1>2, <1>3, <1>4 DEF Restore

(* Discharging an obligation terminates what its session started: two      *)
(* records of each instance, in the order the discharge takes them.        *)
OrderRecord(order, k) == Ended(order[(k + 1) \div 2])[IF k % 2 = 1 THEN 1 ELSE 2]

LEMMA DischargeRecords ==
  ASSUME NEW S \in SUBSET Instance, \A i \in S : inst[i].agent # None,
         NEW n \in Nat, NEW order \in [1..n -> S], NEW w \in Nat, w = 2 * n
  PROVE  \A k \in 1..w : /\ (k + 1) \div 2 \in 1..n
                         /\ RecordOf(order[(k + 1) \div 2], OrderRecord(order, k))
<1> SUFFICES ASSUME NEW k \in 1..w
             PROVE  /\ (k + 1) \div 2 \in 1..n
                    /\ RecordOf(order[(k + 1) \div 2], OrderRecord(order, k))
  OBVIOUS
<1>1. (k + 1) \div 2 \in 1..n
  OBVIOUS
<1>2. PICK i \in S : i = order[(k + 1) \div 2]
  BY <1>1
<1>3. PICK q, r : q = AgentRecord(i, "TaskTerminate") /\ r = build_record(i, "terminated")
  OBVIOUS
<1>4. RecordOf(i, q) /\ RecordOf(i, r)
  BY <1>3, RecordsAreOf, LaunchEvents
<1>5. Ended(i)[1] = q /\ Ended(i)[2] = r
  <2>1. Ended(i) = <<q>> \o <<r>>
    BY <1>3 DEF Ended
  <2>2. <<q>> \in Seq(RecordType) /\ <<r>> \in Seq(RecordType) /\ Len(<<q>>) = 1 /\ Len(<<r>>) = 1
    BY <1>4 DEF RecordOf
  <2> QED BY <2>1, <2>2
<1>6. OrderRecord(order, k) = Ended(i)[IF k % 2 = 1 THEN 1 ELSE 2]
  BY <1>2 DEF OrderRecord
<1> QED BY <1>1, <1>2, <1>4, <1>5, <1>6

LEMMA AllTold ==
  ASSUME LaunchInv, NEW recs \in Seq(RecordType), launchLog' = launchLog \o recs,
         ranges' \in [Instance -> SUBSET (Nat \X Nat)],
         \A i \in Instance : ranges[i] \subseteq ranges'[i],
         NEW len \in Nat, len = Len(launchLog),
         \A k \in 1..Len(recs) : /\ ~PreparedRecord(recs[k])
                                /\ \E r \in ranges'[recs[k].inst] : r[1] < len + k /\ len + k <= r[2]
  PROVE  Told(recs)
<1>1. launchLog \in Seq(RecordType) /\ ranges \in [Instance -> SUBSET (Nat \X Nat)]
  BY DEF LaunchInv, LaunchTyped
<1>2. PICK w \in Nat : w = Len(recs)
  OBVIOUS
<1>3. launchLog' \in Seq(RecordType) /\ Len(launchLog') = len + w
  BY <1>1, <1>2
<1>4. ASSUME NEW k \in 1..Len(launchLog'), MustTell(launchLog'[k])
      PROVE  k \in DOMAIN launchLog' /\ \E r \in ranges'[launchLog'[k].inst] : r[1] < k /\ k <= r[2]
  <2>1. k \in DOMAIN launchLog' /\ k \in 1..(len + w)
    BY <1>3
  <2>2. CASE k <= len
    <3>1. launchLog'[k] = launchLog[k] /\ k \in 1..Len(launchLog)
      BY <1>1, <2>1, <2>2
    <3>3. PICK i \in Instance : i = launchLog[k].inst
      BY <1>4, <3>1 DEF MustTell
    <3>4. k \in witness(i)
      BY <1>4, <3>1, <3>3 DEF LaunchInv, Covered
    <3>5. PICK r \in ranges[i] : r[1] < k /\ k <= r[2]
      BY <3>4 DEF witness
    <3> QED BY <2>1, <3>1, <3>3, <3>5
  <2>3. CASE k > len
    <3>1. PICK m \in 1..w : m = k - len
      BY <2>1, <2>3
    <3>2. launchLog'[k] = recs[m]
      BY <1>1, <1>2, <2>1, <3>1
    <3>3. len + m = k
      BY <3>1
    <3> QED BY <1>2, <2>1, <3>2, <3>3
  <2> QED BY <2>1, <2>2, <2>3
<1>5. Covered'
  BY <1>4 DEF Covered, witness
<1> QED BY <1>5 DEF Told

(* The spans the discharge adds.                                           *)
SpansAdded(old, len, n, order) ==
  [i \in Instance |->
     old[i] \cup {<<len + 2 * k - 2, len + 2 * k>> : k \in {j \in 1..n : order[j] = i}}]

PairOf(j) == {2 * j - 1, 2 * j}

LEMMA DischargeSpans ==
  ASSUME NEW len \in Nat, NEW n \in Nat, NEW order \in [1..n -> Instance],
         NEW old \in [Instance -> SUBSET (Nat \X Nat)], NEW new, new = SpansAdded(old, len, n, order)
  PROVE  /\ new \in [Instance -> SUBSET (Nat \X Nat)]
         /\ \A i \in Instance : old[i] \subseteq new[i]
         /\ \A j \in 1..n : \A k \in PairOf(j) :
              \E r \in new[order[j]] : r[1] < len + k /\ len + k <= r[2]
<1>0. new = [i \in Instance |->
               old[i] \cup {<<len + 2 * k - 2, len + 2 * k>> : k \in {j \in 1..n : order[j] = i}}]
  BY DEF SpansAdded
<1>1. new \in [Instance -> SUBSET (Nat \X Nat)]
  <2>1. ASSUME NEW i \in Instance
        PROVE  new[i] \subseteq Nat \X Nat
    <3>1. {<<len + 2 * k - 2, len + 2 * k>> : k \in {j \in 1..n : order[j] = i}} \subseteq Nat \X Nat
      OBVIOUS
    <3> QED BY <1>0, <3>1
  <2> QED BY <1>0, <2>1
<1>2. \A i \in Instance : old[i] \subseteq new[i]
  BY <1>0
<1>3. ASSUME NEW j \in 1..n, NEW k \in PairOf(j)
      PROVE  \E r \in new[order[j]] : r[1] < len + k /\ len + k <= r[2]
  <2>1. <<len + 2 * j - 2, len + 2 * j>> \in new[order[j]]
    BY <1>0
  <2>2. PICK a, b : a = len + 2 * j - 2 /\ b = len + 2 * j
    OBVIOUS
  <2>3. a < len + k /\ len + k <= b
    BY <2>2 DEF PairOf
  <2>4. <<a, b>> \in new[order[j]]
    BY <2>1, <2>2
  <2>5. <<a, b>>[1] = a /\ <<a, b>>[2] = b
    OBVIOUS
  <2> QED BY <2>3, <2>4, <2>5
<1> QED BY <1>1, <1>2, <1>3

LEMMA DischargeStep ==
  ASSUME LaunchInv, NEW s \in LaunchSession, Discharge(s)
  PROVE  LaunchInv'
<1>1. PICK S : S = AgentStarted(s)
  OBVIOUS
<1>2. S \subseteq Existing /\ \A i \in S : inst[i].origin = s /\ inst[i].state # "terminated"
  BY <1>1 DEF AgentStarted
<1>3. /\ Existing \subseteq Instance /\ \A i \in Existing : inst[i] \in InstanceType
      /\ inst \in [Instance -> {Absent} \cup InstanceType]
      /\ agents \in [DOMAIN agents -> AgentType] /\ DOMAIN agents \subseteq Ids
  BY TypedInstance DEF LaunchInv, LaunchTyped, Existing
<1>4. \A i \in S : inst[i].state \in {"running", "suspended"}
  <2>1. s # None
    BY LaunchAssumption DEF None
  <2> QED BY <1>2, <1>3, <2>1 DEF LaunchInv, Origins, InstanceType
<1>5. \A i \in S : inst[i].agent \in DOMAIN agents /\ inst[i].agent # None
  BY <1>2, <1>4 DEF LaunchInv, AgentsMatchInstances, AgentIn
<1>6. /\ agents' = [b \in DOMAIN agents \ {inst[i].agent : i \in S} |-> agents[b]]
      /\ inst' = [i \in Instance |->
                    IF i \in S THEN [inst[i] EXCEPT !.state = "terminated", !.agent = None]
                    ELSE inst[i]]
      /\ UNCHANGED open
  BY <1>1 DEF Discharge
<1>7. \E recs : Told(recs)
  <2>1. IsFiniteSet(S)
    BY <1>2, <1>3, FS_Subset, LaunchAssumption
  <2>2. PICK n \in Nat : n = Cardinality(S)
    BY <2>1, FS_CardinalityType
  <2>3. PICK order \in [1..n -> S] :
          /\ launchLog' = launchLog \o [k \in 1..(2 * Len(order)) |->
                            Ended(order[(k + 1) \div 2])[IF k % 2 = 1 THEN 1 ELSE 2]]
          /\ ranges' = [i \in Instance |->
                          ranges[i] \cup {<<Len(launchLog) + 2 * k - 2, Len(launchLog) + 2 * k>> :
                                            k \in {j \in DOMAIN order : order[j] = i}}]
    BY <1>1, <2>2 DEF Discharge
  <2>4. PICK w \in Nat : w = 2 * n
    OBVIOUS
  <2>5. PICK len \in Nat : len = Len(launchLog)
    BY LogLength
  <2>6. PICK recs : recs = [k \in 1..w |-> OrderRecord(order, k)]
    OBVIOUS
  <2>7. \A k \in 1..w : (k + 1) \div 2 \in 1..n /\ RecordOf(order[(k + 1) \div 2], recs[k])
    <3>1. \A k \in 1..w : recs[k] = OrderRecord(order, k)
      BY <2>6
    <3>2. S \in SUBSET Instance
      BY <1>2, <1>3
    <3>3. \A k \in 1..w : /\ (k + 1) \div 2 \in 1..n
                          /\ RecordOf(order[(k + 1) \div 2], OrderRecord(order, k))
      BY <1>5, <2>4, <3>2, DischargeRecords
    <3> QED BY <3>1, <3>3
  <2>8. recs \in Seq(RecordType) /\ Len(recs) = w
    <3>1. \A k \in 1..w : recs[k] \in RecordType
      BY <2>7 DEF RecordOf
    <3>2. DOMAIN recs = 1..w /\ recs = [k \in 1..w |-> recs[k]]
      BY <2>6
    <3> HIDE <2>6
    <3>3. recs \in [1..w -> RecordType]
      BY <3>1, <3>2
    <3>4. recs \in Seq(RecordType)
      BY <3>3, SeqDef
    <3> QED BY <3>2, <3>4, LenProperties
  <2>9. launchLog' = launchLog \o recs
    <3>1. Len(order) = n
      OBVIOUS
    <3> QED BY <2>3, <2>4, <2>6, <3>1 DEF OrderRecord
  <2>10. ranges' = [i \in Instance |->
                      ranges[i] \cup {<<len + 2 * k - 2, len + 2 * k>> :
                                        k \in {j \in 1..n : order[j] = i}}]
    <3>1. DOMAIN order = 1..n
      OBVIOUS
    <3> QED BY <2>3, <2>5, <3>1
  <2>11. S \in SUBSET Instance
    BY <1>2, <1>3
  <2>12. ranges \in [Instance -> SUBSET (Nat \X Nat)]
    BY DEF LaunchInv, LaunchTyped
  <2>13. /\ ranges' \in [Instance -> SUBSET (Nat \X Nat)]
         /\ \A i \in Instance : ranges[i] \subseteq ranges'[i]
         /\ \A k \in 1..w :
              \E r \in ranges'[order[(k + 1) \div 2]] : r[1] < len + k /\ len + k <= r[2]
    <3>1. PICK old, new : old = ranges /\ new = ranges'
      OBVIOUS
    <3>2. new = SpansAdded(old, len, n, order)
      BY <2>10, <3>1 DEF SpansAdded
    <3>3. old \in [Instance -> SUBSET (Nat \X Nat)]
      BY <2>12, <3>1
    <3>4. order \in [1..n -> Instance]
      BY <2>11
    <3>5. /\ new \in [Instance -> SUBSET (Nat \X Nat)]
          /\ \A i \in Instance : old[i] \subseteq new[i]
          /\ \A j \in 1..n : \A k \in PairOf(j) :
               \E r \in new[order[j]] : r[1] < len + k /\ len + k <= r[2]
      BY <3>2, <3>3, <3>4, DischargeSpans
    <3>6. \A k \in 1..w : \E j \in 1..n : j = (k + 1) \div 2 /\ k \in PairOf(j)
      BY <2>4 DEF PairOf
    <3> QED BY <3>1, <3>5, <3>6
  <2>14. \A k \in 1..Len(recs) :
           /\ ~PreparedRecord(recs[k])
           /\ \E r \in ranges'[recs[k].inst] : r[1] < len + k /\ len + k <= r[2]
    BY <2>7, <2>8, <2>13 DEF RecordOf
  <2> QED BY <2>5, <2>8, <2>9, <2>13, <2>14, AllTold
<1>8. PICK recs : Told(recs)
  BY <1>7
<1>9. ASSUME NEW i \in S
      PROVE  /\ inst'[i] \in InstanceType /\ inst'[i].state = "terminated" /\ inst'[i].agent = None
             /\ inst'[i].adapter = inst[i].adapter /\ inst'[i].package = inst[i].package
  <2>1. inst'[i] = [inst[i] EXCEPT !.state = "terminated", !.agent = None] /\ inst[i] \in InstanceType
    BY <1>2, <1>3, <1>6
  <2> QED BY <2>1 DEF InstanceType
<1>10. \A i \in Instance \ S : inst'[i] = inst[i]
  BY <1>6
<1>11. Existing' = Existing
  <2>1. \A i \in S : inst'[i] # Absent /\ inst[i] # Absent /\ i \in Instance
    BY <1>2, <1>3, <1>9, NotAbsent
  <2> QED BY <1>10, <2>1 DEF Existing
<1>12. /\ launchLog' \in Seq(RecordType) /\ Len(launchLog) \in Nat /\ Len(launchLog') \in Nat
       /\ Len(launchLog) <= Len(launchLog')
  BY <1>8, LogGrows DEF LaunchInv
<1>13. LaunchTyped'
  <2>1. inst' \in [Instance -> {Absent} \cup InstanceType]
    <3>1. \A i \in Instance : inst'[i] \in {Absent} \cup InstanceType
      BY <1>3, <1>9, <1>10
    <3> QED BY <1>6, <3>1
  <2>2. agents' \in [DOMAIN agents' -> AgentType] /\ DOMAIN agents' \subseteq Ids
    BY <1>3, <1>6
  <2> QED BY <1>6, <1>8, <1>12, <2>1, <2>2 DEF LaunchInv, LaunchTyped, Told
<1>14. DOMAIN agents' = DOMAIN agents \ {inst[i].agent : i \in S}
       /\ \A b \in DOMAIN agents' : agents'[b] = agents[b]
  BY <1>6
<1>15. \A j \in Existing \ S : /\ inst'[j] = inst[j]
                               /\ inst[j].agent # None => inst[j].agent \in DOMAIN agents'
  <2>1. ASSUME NEW j \in Existing \ S, inst[j].agent # None
        PROVE  inst[j].agent \in DOMAIN agents'
    <3>1. inst[j].agent \in DOMAIN agents
      BY <2>1 DEF LaunchInv, AgentsMatchInstances
    <3>2. \A i \in S : inst[i].agent # inst[j].agent
      BY <1>2, <2>1 DEF LaunchInv, AgentsMatchInstances
    <3> QED BY <1>14, <3>1, <3>2
  <2> QED BY <1>3, <1>10, <2>1
<1>16. AgentsMatchInstances'
  <2>1. ASSUME NEW j \in Existing'
        PROVE  IF inst'[j].state \in {"running", "suspended"}
                 THEN /\ inst'[j].agent \in DOMAIN agents'
                      /\ agents'[inst'[j].agent].state = inst'[j].state
                      /\ agents'[inst'[j].agent].partition = inst'[j].partition
                      /\ inst'[j].module \in inst'[j].package.modules \ BadModule
                 ELSE inst'[j].agent = None
    <3>1. CASE j \in S
      BY <1>9, <3>1
    <3>2. CASE j \notin S
      <4>1. j \in Existing \ S /\ inst'[j] = inst[j]
        BY <1>11, <1>15, <3>2
      <4>2. inst[j].state \in {"running", "suspended"} =>
               inst[j].agent \in DOMAIN agents /\ inst[j].agent # None
        BY <4>1 DEF LaunchInv, AgentsMatchInstances, AgentIn
      <4> QED BY <1>14, <1>15, <4>1, <4>2 DEF LaunchInv, AgentsMatchInstances, AgentIn
    <3> QED BY <3>1, <3>2
  <2>2. \A j, k \in Existing' : inst'[j].agent = inst'[k].agent /\ j # k => inst'[j].agent = None
    BY <1>9, <1>11, <1>15 DEF LaunchInv, AgentsMatchInstances
  <2>3. DOMAIN agents' = {inst'[j].agent : j \in Existing'} \ {None}
    <3>1. DOMAIN agents = {inst[j].agent : j \in Existing} \ {None}
      BY DEF LaunchInv, AgentsMatchInstances
    <3>2. ASSUME NEW b \in DOMAIN agents'
          PROVE  b # None /\ \E j \in Existing' : b = inst'[j].agent
      <4>1. PICK j \in Existing : b = inst[j].agent /\ b # None
        BY <1>14, <3>1
      <4>2. j \notin S
        BY <1>14, <4>1
      <4> QED BY <1>11, <1>15, <4>1, <4>2
    <3>3. ASSUME NEW j \in Existing', inst'[j].agent # None
          PROVE  inst'[j].agent \in DOMAIN agents'
      BY <1>9, <1>11, <1>15, <3>3
    <3> QED BY <3>2, <3>3
  <2> QED BY <2>1, <2>2, <2>3 DEF AgentsMatchInstances, AgentIn
<1>17. Origins'
  BY <1>9, <1>11, <1>15 DEF LaunchInv, Origins
<1>18. Opened'
  <2>1. ASSUME NEW i \in Instance, open[i].op \in {"create", "checkpoint"}
        PROVE  open[i].start \in Nat
    BY <2>1 DEF LaunchInv, LaunchTyped, OpenType, Idle
  <2>2. ASSUME NEW i \in Instance
        PROVE  /\ open'[i].op = "create" => i \notin Existing' /\ open'[i].start <= Len(launchLog')
               /\ open'[i].op = "checkpoint" => i \in Existing' /\ open'[i].start <= Len(launchLog')
    <3>1. open'[i] = open[i]
      BY <1>6
    <3>2. open[i].op = "create" => i \notin Existing /\ open[i].start <= Len(launchLog)
      BY DEF LaunchInv, Opened
    <3>3. open[i].op = "checkpoint" => i \in Existing /\ open[i].start <= Len(launchLog)
      BY DEF LaunchInv, Opened
    <3> QED BY <1>11, <1>12, <2>1, <3>1, <3>2, <3>3
  <2> QED BY <2>2 DEF Opened
<1>19. Claimed'
  <2>1. \A i \in Existing : inst'[i].adapter = inst[i].adapter /\ inst'[i].package = inst[i].package
    BY <1>9, <1>15
  <2> QED BY <1>6, <1>8, <1>11, <2>1, ClaimsKept DEF LaunchInv
<1> QED BY <1>8, <1>13, <1>16, <1>17, <1>18, <1>19 DEF LaunchInv, Told

LEMMA LaunchStarts == LaunchInit => LaunchInv
<1> SUFFICES ASSUME LaunchInit PROVE LaunchInv
  OBVIOUS
<1>1. Existing = {}
  BY DEF LaunchInit, Existing
<1>2. launchLog = <<>> /\ Len(launchLog) = 0 /\ launchLog \in Seq(RecordType)
  BY DEF LaunchInit
<1>3. LaunchTyped
  BY <1>2 DEF LaunchInit, LaunchTyped, OpenType
<1>4. AgentsMatchInstances /\ Opened /\ Origins
  BY <1>1 DEF LaunchInit, AgentsMatchInstances, Opened, Origins, Idle
<1>5. Covered /\ Claimed
  BY <1>2 DEF Covered, Claimed
<1> QED BY <1>3, <1>4, <1>5 DEF LaunchInv

(* A verification record is not of an instance, and nothing has to tell of *)
(* it.                                                                     *)
LEMMA EmitResultStep ==
  ASSUME LaunchInv, NEW index \in SegmentIndex, NEW result \in VerificationOutcome, EmitResult(index, result)
  PROVE  LaunchInv'
<1>1. PICK r : r = VerificationRecord(index, result)
  OBVIOUS
<1>2. r.inst \notin Instance
  BY <1>1, LaunchAssumption DEF VerificationRecord
<1>3. r \in RecordType
  <2>1. index \in Nat
    BY LaunchAssumption
  <2>2. index % 256 \in Nat
    BY <2>1
  <2>3. PICK byte : byte = (index \div 65536) % 256
    OBVIOUS
  <2>4. claim_code(byte) \in IsolationClaim \cup {"none", "unknown"}
    BY DEF claim_code, IsolationClaim
  <2>5. action_kind_for(result) \in RecordKind
    <3>1. host_action_kind("prepared") = "ProofVerifiedP2" /\ host_action_kind("denied") = "ProofRejected"
      BY DEF host_action_kind
    <3>2. {"ProofVerifiedP2", "ProofRejected", "ProofEscalated"} \subseteq RecordKind
      BY <3>1, HostEvents DEF RecordKind
    <3> QED BY <3>2 DEF action_kind_for, VerificationOutcome
  <2> QED BY <1>1, <2>2, <2>3, <2>4, <2>5 DEF VerificationRecord, RecordType, None
<1>4. ~MustTell(r) /\ ~PreparedRecord(r)
  BY <1>2 DEF MustTell, PreparedRecord
<1>5. <<r>> \in Seq(RecordType) /\ Len(<<r>>) = 1 /\ <<r>>[1] = r
  BY <1>3
<1>6. \A k \in 1..Len(<<r>>) : <<r>>[k] = r
  BY <1>5
<1>7. Emit(<<r>>) /\ UNCHANGED <<inst, agents, open>>
  BY <1>1 DEF EmitResult
<1>8. Told(<<r>>)
  BY <1>4, <1>5, <1>6, <1>7, EmitTold
<1> QED BY <1>7, <1>8, RecordsOnly

LEMMA LaunchSteps == LaunchInv /\ [LaunchNext]_launchVars => LaunchInv'
<1> SUFFICES ASSUME LaunchInv, [LaunchNext]_launchVars PROVE LaunchInv'
  OBVIOUS
<1>1. ASSUME NEW i \in Instance, NEW a \in UsedAdapter, NEW p \in Package, NEW part \in Partition,
             BeginCreate(i, a, p, part)
      PROVE  LaunchInv'
  BY <1>1, BeginCreateStep
<1>2. ASSUME NEW i \in Instance, NEW p \in Package, NEW part \in Partition,
             NEW permit \in [identity : Ids, actor : Partition], RefuseContext(i, p, part, permit)
      PROVE  LaunchInv'
  BY <1>2, RefuseContextStep
<1>3. ASSUME NEW i \in Instance, EndCreate(i) PROVE LaunchInv'
  BY <1>3, EndCreateStep
<1>4. ASSUME NEW i \in Instance, Suspend(i) PROVE LaunchInv'
  BY <1>4, SuspendStep
<1>5. ASSUME NEW i \in Instance, Resume(i) PROVE LaunchInv'
  BY <1>5, ContinueStep DEF Resume, Ready, is_legal
<1>6. ASSUME NEW i \in Instance, BeginCheckpoint(i) PROVE LaunchInv'
  BY <1>6, BeginCheckpointStep
<1>7. ASSUME NEW i \in Instance, EndCheckpoint(i) PROVE LaunchInv'
  BY <1>7, EndCheckpointStep
<1>8. ASSUME NEW i \in Instance, Terminate(i) PROVE LaunchInv'
  BY <1>8, TerminateStep
<1>9. ASSUME NEW i \in Instance, NEW m \in Modules, Start(i, m) PROVE LaunchInv'
  BY <1>9, StartStep
<1>10. ASSUME NEW i \in Instance, NEW v \in VerifiedModule, StartVerified(i, v) PROVE LaunchInv'
  BY <1>10, StartVerifiedStep
<1>11. ASSUME NEW i \in Instance, NEW m \in Modules, NEW c \in checkpoints, Restore(i, c, m)
       PROVE  LaunchInv'
  BY <1>11, RestoreStep
<1>12. ASSUME NEW i \in Instance, NEW op \in LifecycleOp, Illegal(i, op) PROVE LaunchInv'
  BY <1>12, RefusedStep DEF Illegal
<1>13. ASSUME UNCHANGED <<inst, agents, launchLog, ranges, open>> PROVE LaunchInv'
  <2>1. Told(<<>>)
    BY <1>13, NothingTold
  <2> QED BY <1>13, <2>1, RecordsOnly
<1>14. ASSUME NEW s \in LaunchSession, NEW c \in CapIndex, Install(s, c) PROVE LaunchInv'
  BY <1>13, <1>14 DEF Install
<1>15. ASSUME NEW c \in CapIndex, NEW d \in CapIndex, Derive(c, d) PROVE LaunchInv'
  BY <1>13, <1>15 DEF Derive
<1>16. ASSUME NEW c \in CapIndex, RemoveCapability(c) PROVE LaunchInv'
  BY <1>13, <1>16 DEF RemoveCapability
<1>17. ASSUME NEW s \in LaunchSession, Discharge(s) PROVE LaunchInv'
  BY <1>17, DischargeStep
<1>18. CASE UNCHANGED launchVars
  BY <1>13, <1>18 DEF launchVars
<1>19. ASSUME NEW index \in SegmentIndex, NEW result \in VerificationOutcome, EmitResult(index, result)
       PROVE  LaunchInv'
  BY <1>19, EmitResultStep
<1> QED BY <1>1, <1>2, <1>3, <1>4, <1>5, <1>6, <1>7, <1>8, <1>9, <1>10, <1>11, <1>12, <1>14,
          <1>15, <1>16, <1>17, <1>18, <1>19 DEF LaunchNext

(* The inductive invariant: instances, agents, operations under way and    *)
(* spans fit together, every record that tells of an instance is in one,   *)
(* and what was claimed is backed by the adapter of instance or creation.  *)
THEOREM LaunchInvariant == LaunchSpec => []LaunchInv
BY LaunchStarts, LaunchSteps, PTL DEF LaunchSpec

LEMMA InvariantIsSound == LaunchInv => LaunchSound
<1> SUFFICES ASSUME LaunchInv PROVE LaunchSound
  OBVIOUS
<1>1. launchLog \in Seq(RecordType)
  BY DEF LaunchInv, LaunchTyped
<1>2. OwnRecordsInSpans
  <2>1. ASSUME NEW k \in 1..Len(launchLog)
        PROVE  event_of(launchLog[k]) = {} \/ host_event_of(launchLog[k]) = {}
    <3>1. PICK r : r = launchLog[k]
      OBVIOUS
    <3>2. CASE r.claim = "none"
      <4>1. r.claim \notin IsolationClaim
        BY <3>2 DEF IsolationClaim
      <4>2. host_event_of(r) = {}
        BY <4>1 DEF host_event_of
      <4> QED BY <3>1, <4>2
    <3>3. CASE r.claim # "none"
      <4>1. event_of(r) = {}
        BY <3>3 DEF event_of
      <4> QED BY <3>1, <4>1
    <3> QED BY <3>2, <3>3
  <2> QED BY <2>1 DEF LaunchInv, Covered, MustTell, OwnRecordsInSpans, Existing
<1>3. ClaimsBacked
  <2>1. ASSUME NEW k \in 1..Len(launchLog), NEW i \in Existing, launchLog[k].inst = i,
               host_event_of(launchLog[k]) = {"prepared"}
        PROVE  Backed(inst[i].adapter, inst[i].package, launchLog[k].claim)
    <3>1. \/ Backed(inst[i].adapter, inst[i].package, launchLog[k].claim)
          \/ open[i].op = "create"
      BY <2>1 DEF LaunchInv, Claimed, PreparedRecord, Existing
    <3>2. open[i].op # "create"
      BY DEF LaunchInv, Opened, Existing
    <3> QED BY <3>1, <3>2
  <2> QED BY <2>1 DEF Backed, ClaimsBacked
<1> QED BY <1>2, <1>3 DEF LaunchInv, LaunchSound

(* For any number of instances, agents and sessions: an instance runs or   *)
(* is suspended exactly when its agent is, its spans cover every record of *)
(* its lifecycle however others write in between, and the confinement the  *)
(* log claims for it is what its adapter enforces.                         *)
THEOREM LaunchSoundHolds == LaunchSpec => []LaunchSound
BY LaunchInvariant, InvariantIsSound, PTL

-----------------------------------------------------------------------------
(* The sweep of a discharge is a recursive function: that it exists, and   *)
(* what it has reached when it stops, is proved by induction on the round. *)

(* A nonempty set of naturals has a least element.                         *)
LEMMA LeastNatural ==
  ASSUME NEW T \in SUBSET Nat, T # {}
  PROVE  \E m \in T : \A x \in T : m <= x
<1> DEFINE R == OpToRel(<, Nat)
<1>1. IsWellFoundedOn(R, Nat)
  BY NatLessThanWellFounded
<1>2. \A x, y \in Nat : x < y => <<x, y>> \in R
  BY DEF OpToRel
<1> HIDE DEF R
<1>3. PICK m \in T : \A y \in T : ~ (<<y, m>> \in R)
  BY <1>1, WFMin
<1>4. ASSUME NEW x \in T PROVE m <= x
  <2>1. x \in Nat /\ m \in Nat /\ ~(x < m)
    BY <1>2, <1>3
  <2> QED BY <2>1
<1> QED BY <1>4

(* Induction up to n, over a set.                                          *)
LEMMA InductionTo ==
  ASSUME NEW n \in Nat, NEW S, 0 \in S, \A i \in 0 .. n - 1 : i \in S => i + 1 \in S
  PROVE  0 .. n \subseteq S
<1> DEFINE T == (0 .. n) \ S
<1> SUFFICES ASSUME T # {} PROVE FALSE
  OBVIOUS
<1>1. PICK m \in T : \A x \in T : m <= x
  <2>1. T \in SUBSET Nat
    OBVIOUS
  <2> HIDE DEF T
  <2> QED BY <2>1, LeastNatural
<1>2. m # 0 /\ m - 1 \in 0 .. n - 1
  BY <1>1
<1>3. m - 1 \in S
  BY <1>1, <1>2
<1>4. (m - 1) + 1 = m
  BY <1>2
<1> QED BY <1>1, <1>2, <1>3, <1>4

\* What one round adds, the capabilities the sweep starts from, and its rounds up to n.
Under(g) == {c \in CapIndex : caps[c].live /\ caps[c].depth > 0 /\ caps[c].parent \in g}
Held(hs) == {c \in CapIndex : caps[c].live /\ Handle(c) \in hs}
Rounds(f, root, n) ==
  f = [m \in 0..n |-> IF m = 0 THEN root ELSE f[m - 1] \cup Under(f[m - 1])]

(* There is such a function.                                               *)
LEMMA RoundsExist ==
  ASSUME NEW n \in Nat, NEW root
  PROVE  \E f : Rounds(f, root, n)
<1> DEFINE S == {i \in 0..n : \E f : Rounds(f, root, i)}
<1>1. 0 \in S
  <2>1. PICK f : f = [m \in 0..0 |-> root]
    OBVIOUS
  <2>2. [m \in 0..0 |-> root] =
          [m \in 0..0 |-> IF m = 0 THEN root ELSE f[m - 1] \cup Under(f[m - 1])]
    <3>1. \A m \in 0..0 : m = 0
      OBVIOUS
    <3> QED BY <3>1
  <2> QED BY <2>1, <2>2 DEF Rounds
<1>2. ASSUME NEW i \in 0 .. n - 1, i \in S
      PROVE  i + 1 \in S
  <2>1. PICK f : Rounds(f, root, i)
    BY <1>2
  <2>2. PICK h : h = [m \in 0 .. i + 1 |-> IF m = i + 1 THEN f[i] \cup Under(f[i]) ELSE f[m]]
    OBVIOUS
  <2>3. \A m \in 0..i : f[m] = IF m = 0 THEN root ELSE f[m - 1] \cup Under(f[m - 1])
    BY <2>1 DEF Rounds
  <2>4. \A m \in 0..i : h[m] = f[m]
    BY <2>2
  <2>5. ASSUME NEW m \in 0 .. i + 1
        PROVE  h[m] = IF m = 0 THEN root ELSE h[m - 1] \cup Under(h[m - 1])
    <3>1. CASE m = i + 1
      <4>1. m # 0 /\ m - 1 = i /\ i \in 0..i
        BY <3>1
      <4>2. h[m] = f[i] \cup Under(f[i])
        BY <2>2, <3>1
      <4>3. h[i] = f[i]
        BY <2>4, <4>1
      <4> QED BY <4>1, <4>2, <4>3
    <3>2. CASE m # i + 1
      <4>1. m \in 0..i /\ (m # 0 => m - 1 \in 0..i)
        BY <3>2
      <4>2. h[m] = f[m] /\ (m # 0 => h[m - 1] = f[m - 1])
        BY <2>4, <4>1
      <4> QED BY <2>3, <4>1, <4>2
    <3> QED BY <3>1, <3>2
  <2>6. h = [m \in 0 .. i + 1 |-> h[m]]
    BY <2>2
  <2>7. Rounds(h, root, i + 1)
    BY <2>5, <2>6 DEF Rounds
  <2> QED BY <2>7
<1>3. 0..n \subseteq S
  <2> HIDE DEF S
  <2> QED BY <1>1, <1>2, InductionTo
<1> QED BY <1>3

\* A sweep that has reached everything under what it has, and nothing else.
Reached(g, root) ==
  /\ root \subseteq g /\ g \subseteq CapIndex /\ Under(g) \subseteq g
  /\ \A c \in g : c \in root \/ caps[c].depth > 0

(* After as many rounds as there are slots nothing is left to reach: until *)
(* then every round adds at least one.                                     *)
LEMMA RoundsReach ==
  ASSUME NEW n, n = Cardinality(CapIndex), NEW root \in SUBSET CapIndex,
         NEW f, Rounds(f, root, n)
  PROVE  Reached(f[n], root)
<1> DEFINE Far(i) == /\ root \subseteq f[i] /\ f[i] \subseteq CapIndex
                     /\ \A c \in f[i] : c \in root \/ caps[c].depth > 0
                     /\ Under(f[i]) \subseteq f[i] \/ Cardinality(f[i]) >= i + 1
           S == {i \in 0..n : Far(i)}
<1>1. IsFiniteSet(CapIndex) /\ n \in Nat
  BY LaunchAssumption, FS_CardinalityType
<1>2. \A i \in 0..n : f[i] = IF i = 0 THEN root ELSE f[i - 1] \cup Under(f[i - 1])
  BY DEF Rounds
<1>3. 0 \in S
  <2>1. f[0] = root
    <3>1. 0 \in 0..n
      BY <1>1
    <3> HIDE DEF S
    <3> QED BY <1>2, <3>1
  <2>2. CASE root = {}
    <3>1. Under(root) = {}
      BY <2>2 DEF Under
    <3> QED BY <1>1, <2>1, <3>1
  <2>3. CASE root # {}
    <3>1. IsFiniteSet(root)
      BY <1>1, FS_Subset
    <3>2. Cardinality(root) \in Nat /\ Cardinality(root) # 0
      BY <2>3, <3>1, FS_CardinalityType, FS_EmptySet
    <3>3. Cardinality(root) >= 0 + 1
      BY <3>2
    <3> QED BY <1>1, <2>1, <3>3
  <2> QED BY <2>2, <2>3
<1>4. ASSUME NEW i \in 0 .. n - 1, i \in S
      PROVE  i + 1 \in S
  <2>1. Far(i) /\ i \in Nat /\ i + 1 \in 0..n /\ i + 1 # 0 /\ (i + 1) - 1 = i
    BY <1>1, <1>4
  <2>2. PICK g, more : g = f[i] /\ more = f[i + 1]
    OBVIOUS
  <2>3. more = g \cup Under(g)
    BY <1>2, <2>1, <2>2
  <2>4. root \subseteq more /\ more \subseteq CapIndex
        /\ \A c \in more : c \in root \/ caps[c].depth > 0
    BY <2>1, <2>2, <2>3 DEF Under
  <2>5. CASE Under(g) \subseteq g
    <3>1. more = g
      BY <2>3, <2>5
    <3> QED BY <2>1, <2>2, <2>4, <2>5, <3>1
  <2>6. CASE ~(Under(g) \subseteq g)
    <3>1. g \subseteq more /\ g # more
      BY <2>3, <2>6
    <3>2. IsFiniteSet(more) /\ IsFiniteSet(g)
      BY <1>1, <2>4, <3>1, FS_Subset
    <3>3. Cardinality(g) \in Nat /\ Cardinality(more) \in Nat
      BY <3>2, FS_CardinalityType
    <3>4. Cardinality(g) <= Cardinality(more) /\ Cardinality(g) # Cardinality(more)
      BY <3>1, <3>2, FS_Subset
    <3>5. Cardinality(g) >= i + 1
      BY <2>1, <2>2, <2>6
    <3>6. Cardinality(more) >= (i + 1) + 1
      BY <2>1, <3>3, <3>4, <3>5
    <3> QED BY <2>1, <2>2, <2>4, <3>6
  <2> QED BY <2>5, <2>6
<1>5. n \in S
  <2>1. 0..n \subseteq S
    <3> HIDE DEF S
    <3> QED BY <1>1, <1>3, <1>4, InductionTo
  <2> QED BY <1>1, <2>1
<1>6. Cardinality(f[n]) \in Nat /\ Cardinality(f[n]) <= n
  <2>1. f[n] \in SUBSET CapIndex
    BY <1>5
  <2> HIDE DEF S
  <2> QED BY <1>1, <2>1, FS_Subset, FS_CardinalityType
<1> QED BY <1>1, <1>5, <1>6 DEF Reached

(* What discharge revokes: the handles still current and what hangs from   *)
(* them, to any depth.                                                     *)
LEMMA SweptReaches == ASSUME NEW hs PROVE Reached(Swept(hs), Held(hs))
<1> DEFINE n == Cardinality(CapIndex)
           root == Held(hs)
           swept == CHOOSE f : Rounds(f, root, n)
<1>1. n \in Nat
  BY LaunchAssumption, FS_CardinalityType
<1>2. Rounds(swept, root, n)
  BY <1>1, RoundsExist
<1>3. Swept(hs) = swept[n]
  BY DEF Swept, Rounds, Under, Held
<1>4. root \in SUBSET CapIndex
  BY DEF Held
<1> HIDE DEF n, root, swept
<1>5. Reached(swept[n], root)
  BY <1>2, <1>4, RoundsReach DEF n
<1> QED BY <1>3, <1>5 DEF root

CapSlot == [live : BOOLEAN, generation : Nat, depth : Nat, parent : CapIndex]
CapsTyped ==
  /\ caps \in [CapIndex -> CapSlot]
  /\ handles \in [LaunchSession -> SUBSET (CapIndex \X Nat)]

(* A slot that is filled holds a capability.                               *)
LEMMA FilledTyped ==
  ASSUME CapsTyped, NEW c \in CapIndex, NEW depth \in Nat, NEW parent \in CapIndex
  PROVE  Filled(c, depth, parent) \in [CapIndex -> CapSlot]
BY DEF CapsTyped, CapSlot, Filled

(* The steps that touch capabilities or the handles of sessions.           *)
LEMMA CapsActions ==
  ASSUME [LaunchNext]_launchVars
  PROVE  \/ UNCHANGED <<caps, handles>>
         \/ \E s \in LaunchSession, c \in CapIndex : Install(s, c)
         \/ \E c, d \in CapIndex : Derive(c, d)
         \/ \E c \in CapIndex : RemoveCapability(c)
         \/ \E s \in LaunchSession : Discharge(s)
<1> DEFINE Kept == UNCHANGED <<caps, handles>>
<1>1. ASSUME NEW i \in Instance, NEW a \in UsedAdapter, NEW p \in Package, NEW part \in Partition,
             BeginCreate(i, a, p, part)
      PROVE  Kept
  BY <1>1 DEF BeginCreate
<1>2. ASSUME NEW i \in Instance, NEW p \in Package, NEW part \in Partition,
             NEW permit \in [identity : Ids, actor : Partition], RefuseContext(i, p, part, permit)
      PROVE  Kept
  BY <1>2 DEF RefuseContext
<1>3. ASSUME NEW i \in Instance,
             \/ EndCreate(i) \/ Suspend(i) \/ Resume(i)
             \/ BeginCheckpoint(i) \/ EndCheckpoint(i) \/ Terminate(i)
      PROVE  Kept
  BY <1>3 DEF EndCreate, Suspend, Resume, BeginCheckpoint, EndCheckpoint, Terminate
<1>4. ASSUME NEW i \in Instance, NEW m \in Modules, Start(i, m) PROVE Kept
  BY <1>4 DEF Start
<1>5. ASSUME NEW i \in Instance, NEW v \in VerifiedModule, StartVerified(i, v) PROVE Kept
  BY <1>5 DEF StartVerified
<1>6. ASSUME NEW i \in Instance, NEW m \in Modules, NEW c \in checkpoints, Restore(i, c, m)
      PROVE  Kept
  BY <1>6 DEF Restore
<1>7. ASSUME NEW i \in Instance, NEW op \in LifecycleOp, Illegal(i, op) PROVE Kept
  BY <1>7 DEF Illegal
<1>8. UNCHANGED launchVars => Kept
  BY DEF launchVars
<1>10. ASSUME NEW index \in SegmentIndex, NEW result \in VerificationOutcome, EmitResult(index, result)
       PROVE  Kept
  BY <1>10 DEF EmitResult
<1> HIDE DEF Kept
<1>9. \/ Kept
      \/ \E s \in LaunchSession, c \in CapIndex : Install(s, c)
      \/ \E c, d \in CapIndex : Derive(c, d)
      \/ \E c \in CapIndex : RemoveCapability(c)
      \/ \E s \in LaunchSession : Discharge(s)
  BY <1>1, <1>2, <1>3, <1>4, <1>5, <1>6, <1>7, <1>8, <1>10 DEF LaunchNext
<1> QED BY <1>9 DEF Kept

LEMMA CapsSteps == CapsTyped /\ [LaunchNext]_launchVars => CapsTyped'
<1> SUFFICES ASSUME CapsTyped, [LaunchNext]_launchVars PROVE CapsTyped'
  OBVIOUS
<1>1. CASE UNCHANGED <<caps, handles>>
  BY <1>1 DEF CapsTyped
<1>2. ASSUME NEW s \in LaunchSession, NEW c \in CapIndex, Install(s, c) PROVE CapsTyped'
  <2>1. caps' \in [CapIndex -> CapSlot]
    BY <1>2, FilledTyped DEF Install
  <2>2. caps[c].generation + 1 \in Nat
    BY DEF CapsTyped, CapSlot
  <2>3. handles' \in [LaunchSession -> SUBSET (CapIndex \X Nat)]
    BY <1>2, <2>2 DEF CapsTyped, Install
  <2> QED BY <2>1, <2>3 DEF CapsTyped
<1>3. ASSUME NEW c \in CapIndex, NEW d \in CapIndex, Derive(c, d) PROVE CapsTyped'
  <2>1. caps[d].depth + 1 \in Nat
    BY DEF CapsTyped, CapSlot
  <2>2. caps' \in [CapIndex -> CapSlot]
    BY <1>3, <2>1, FilledTyped DEF Derive
  <2> QED BY <1>3, <2>2 DEF CapsTyped, Derive
<1>4. ASSUME NEW c \in CapIndex, RemoveCapability(c) PROVE CapsTyped'
  BY <1>4 DEF CapsTyped, CapSlot, RemoveCapability
<1>5. ASSUME NEW s \in LaunchSession, Discharge(s) PROVE CapsTyped'
  <2>1. PICK swept : swept = Swept(handles[s])
    OBVIOUS
  <2>2. caps' = [c \in CapIndex |-> [caps[c] EXCEPT !.live = @ /\ c \notin swept]]
        /\ handles' = [handles EXCEPT ![s] = {}]
    BY <1>5, <2>1 DEF Discharge
  <2>3. ASSUME NEW c \in CapIndex PROVE caps'[c] \in CapSlot
    <3>1. caps[c] \in CapSlot /\ caps'[c] = [caps[c] EXCEPT !.live = @ /\ c \notin swept]
      BY <2>2 DEF CapsTyped
    <3>2. PICK live : live = (caps[c].live /\ c \notin swept)
      OBVIOUS
    <3>3. live \in BOOLEAN
      BY <3>2
    <3>4. caps'[c] = [caps[c] EXCEPT !.live = live]
      BY <3>1, <3>2
    <3> QED BY <3>1, <3>3, <3>4 DEF CapSlot
  <2> QED BY <2>2, <2>3 DEF CapsTyped
<1> QED BY <1>1, <1>2, <1>3, <1>4, <1>5, CapsActions

(* One step of it: what a discharge leaves.                                *)
LEMMA DischargeStops ==
  ASSUME CapsTyped, LaunchInv, NEW s \in LaunchSession, Discharge(s)
  PROVE  LET mine == Held(handles[s])
         IN  /\ \A c \in CapIndex :
                  caps'[c].live /\ caps[c].depth > 0 /\ caps[caps[c].parent].live
                    => caps'[caps[c].parent].live
             /\ \A c \in mine : ~ caps'[c].live
             /\ \A c \in CapIndex :
                  caps[c].live /\ caps[c].depth = 0 /\ c \notin mine => caps'[c].live
             /\ \A i \in Existing : inst[i].origin = s => inst'[i].state = "terminated"
<1>1. PICK swept : swept = Swept(handles[s])
  OBVIOUS
<1>2. Reached(swept, Held(handles[s]))
  BY <1>1, SweptReaches
<1>3. \A c \in CapIndex : caps[c] \in CapSlot /\ caps[c].parent \in CapIndex /\ caps[c].depth \in Nat
  BY DEF CapsTyped, CapSlot
<1>4. \A c \in CapIndex : caps'[c].live <=> caps[c].live /\ c \notin swept
  <2>1. caps' = [c \in CapIndex |-> [caps[c] EXCEPT !.live = @ /\ c \notin swept]]
    BY <1>1 DEF Discharge
  <2>2. ASSUME NEW c \in CapIndex PROVE caps'[c].live <=> caps[c].live /\ c \notin swept
    <3>1. caps'[c] = [caps[c] EXCEPT !.live = @ /\ c \notin swept] /\ caps[c] \in CapSlot
      BY <1>3, <2>1
    <3> QED BY <3>1 DEF CapSlot
  <2> QED BY <2>2
<1>5. ASSUME NEW c \in CapIndex, caps'[c].live, caps[c].depth > 0, caps[caps[c].parent].live
      PROVE  caps'[caps[c].parent].live
  <2>1. caps[c].live /\ c \notin swept /\ caps[c].parent \in CapIndex
    BY <1>3, <1>4, <1>5
  <2>2. caps[c].parent \notin swept
    BY <1>2, <1>5, <2>1 DEF Reached, Under
  <2> QED BY <1>4, <1>5, <2>1, <2>2
<1>6. \A c \in Held(handles[s]) : ~ caps'[c].live
  BY <1>2, <1>4 DEF Reached
<1>7. ASSUME NEW c \in CapIndex, caps[c].live, caps[c].depth = 0, c \notin Held(handles[s])
      PROVE  caps'[c].live
  <2>1. c \notin swept
    BY <1>2, <1>3, <1>7 DEF Reached
  <2> QED BY <1>4, <1>7, <2>1
<1>8. ASSUME NEW i \in Existing, inst[i].origin = s
      PROVE  inst'[i].state = "terminated"
  <2>1. i \in Instance /\ inst[i] \in InstanceType
    BY TypedInstance DEF LaunchInv, LaunchTyped, Existing
  <2>2. inst'[i] = IF i \in AgentStarted(s)
                     THEN [inst[i] EXCEPT !.state = "terminated", !.agent = None] ELSE inst[i]
    BY <2>1 DEF Discharge
  <2>3. CASE i \in AgentStarted(s)
    BY <2>1, <2>2, <2>3 DEF InstanceType
  <2>4. CASE i \notin AgentStarted(s)
    BY <1>8, <2>2, <2>4 DEF AgentStarted
  <2> QED BY <2>3, <2>4
<1> QED BY <1>5, <1>6, <1>7, <1>8

(* Only a discharge takes handles from a session.                          *)
LEMMA OnlyDischargeEmpties ==
  ASSUME CapsTyped, [LaunchNext]_launchVars,
         NEW s \in LaunchSession, handles[s] # {}, handles'[s] = {}
  PROVE  Discharge(s)
<1>1. handles \in [LaunchSession -> SUBSET (CapIndex \X Nat)]
  BY DEF CapsTyped
<1>2. handles' # handles
  OBVIOUS
<1>3. ASSUME NEW t \in LaunchSession, NEW c \in CapIndex, Install(t, c) PROVE FALSE
  <2>1. handles[s] \subseteq handles'[s]
    BY <1>1, <1>3 DEF Install
  <2> QED BY <2>1
<1>4. \A c, d \in CapIndex : ~ Derive(c, d)
  BY <1>2 DEF Derive
<1>5. \A c \in CapIndex : ~ RemoveCapability(c)
  BY <1>2 DEF RemoveCapability
<1>6. PICK t \in LaunchSession : Discharge(t)
  BY <1>2, <1>3, <1>4, <1>5, CapsActions
<1>7. t = s
  <2>1. handles' = [handles EXCEPT ![t] = {}]
    BY <1>6 DEF Discharge
  <2> QED BY <1>1, <2>1
<1> QED BY <1>6, <1>7

LEMMA CapsStart == LaunchInit => CapsTyped
BY DEF LaunchInit, CapsTyped, CapSlot

(* For any table and any tree of derivations: discharging the obligation   *)
(* of a poisoned stream leaves no capability derived from what the session *)
(* held, at any depth, takes no root of another's, and leaves no instance  *)
(* the session started.                                                    *)
THEOREM DischargeHolds == LaunchSpec => DischargeLeavesNothing
<1> DEFINE Left(s) ==
      handles[s] # {} /\ handles'[s] = {} =>
        LET mine == {c \in CapIndex : caps[c].live /\ Handle(c) \in handles[s]}
        IN  /\ \A c \in CapIndex :
                 caps'[c].live /\ caps[c].depth > 0 /\ caps[caps[c].parent].live
                   => caps'[caps[c].parent].live
            /\ \A c \in mine : ~ caps'[c].live
            /\ \A c \in CapIndex :
                 caps[c].live /\ caps[c].depth = 0 /\ c \notin mine => caps'[c].live
            /\ \A i \in Existing : inst[i].origin = s => inst'[i].state = "terminated"
<1>1. LaunchSpec => []CapsTyped
  BY CapsStart, CapsSteps, PTL DEF LaunchSpec
<1>2. ASSUME CapsTyped, LaunchInv, [LaunchNext]_launchVars, NEW s \in LaunchSession
      PROVE  Left(s)
  <2> SUFFICES ASSUME handles[s] # {}, handles'[s] = {} PROVE Left(s)
    OBVIOUS
  <2>1. Discharge(s)
    BY <1>2, OnlyDischargeEmpties
  <2>2. Held(handles[s]) = {c \in CapIndex : caps[c].live /\ Handle(c) \in handles[s]}
    BY DEF Held
  <2> QED BY <1>2, <2>1, <2>2, DischargeStops
<1>3. CapsTyped /\ LaunchInv /\ [LaunchNext]_launchVars => [\A s \in LaunchSession : Left(s)]_launchVars
  BY <1>2
<1> QED BY <1>1, <1>3, LaunchInvariant, PTL DEF LaunchSpec, DischargeLeavesNothing

-----------------------------------------------------------------------------
(* The broker. *)

Call == [sequence : Nat, at : Nat]
BrokerDecision == {"clock_regressed", "capability_denied", "policy_unavailable", "policy_denied",
                   "allow"}
Evidence == [sequence : Nat, decision : BrokerDecision]

BrokerTyped ==
  /\ sequence \in Nat /\ last_ns \in Nat /\ remaining \in Nat
  /\ admitted \subseteq Call /\ IsFiniteSet(admitted)
  /\ receipts \in Seq(Evidence)
  /\ executed \in Seq(Call)

\* Numbers still to come are new.
NumbersAreNew ==
  /\ \A k \in 1..Len(executed) : executed[k].sequence < sequence
  /\ \A k \in 1..Len(receipts) : receipts[k].sequence < sequence

\* An effect is not of the future, and the window's memory still has it unless it has left
\* the window of every later call.
EffectsRemembered ==
  \A k \in 1..Len(executed) :
    /\ executed[k].at <= last_ns
    /\ last_ns - executed[k].at < Window => executed[k] \in admitted

BrokerInv ==
  /\ BrokerTyped /\ NumbersAreNew /\ EffectsRemembered /\ EffectsAudited
  /\ Len(executed) + remaining <= Attempts
  /\ \A t \in Nat : IsFiniteSet(Within(t)) /\ Cardinality(Within(t)) <= Limit

LEMMA BrokerStarts == BrokerInit => BrokerInv
<1> SUFFICES ASSUME BrokerInit PROVE BrokerInv
  OBVIOUS
<1> USE DEF BrokerInit
<1>1. BrokerTyped /\ NumbersAreNew /\ EffectsRemembered
  BY BrokerAssumption, FS_EmptySet DEF BrokerTyped, NumbersAreNew, EffectsRemembered
<1>2. EffectsAudited
  BY DEF EffectsAudited, Allowed
<1>3. Len(executed) + remaining <= Attempts
  BY BrokerAssumption
<1>4. ASSUME NEW t \in Nat PROVE IsFiniteSet(Within(t)) /\ Cardinality(Within(t)) <= Limit
  <2>1. Within(t) = {}
    BY DEF Within
  <2> QED BY <2>1, FS_EmptySet, BrokerAssumption
<1> QED BY <1>1, <1>2, <1>3, <1>4 DEF BrokerInv

\* A call that does nothing.
LEMMA BrokerRests ==
  ASSUME BrokerInv, UNCHANGED <<sequence, last_ns, remaining, admitted, receipts, executed>>
  PROVE  BrokerInv'
<1>1. BrokerTyped' /\ NumbersAreNew' /\ EffectsRemembered'
  BY DEF BrokerInv, BrokerTyped, NumbersAreNew, EffectsRemembered
<1>2. EffectsAudited'
  BY DEF BrokerInv, EffectsAudited, Allowed
<1>3. \A t \in Nat : Within(t)' = Within(t)
  BY DEF Within
<1> QED BY <1>1, <1>2, <1>3 DEF BrokerInv

LEMMA DecisionIsOne ==
  ASSUME NEW a, NEW now
  PROVE  Decision(a, now) \in BrokerDecision
BY DEF Decision, BrokerDecision

\* What the policy allows is of now, has room in the window and a charge left.
LEMMA AllowedHasRoom ==
  ASSUME NEW a, NEW now \in Nat, BrokerTyped, Decision(a, now) = "allow"
  PROVE  /\ now >= last_ns /\ Asked(a, now) /\ ~ Future(now) /\ remaining > 0
         /\ Cardinality(Recent(now)) < Limit
<1>1. /\ ~ (now < last_ns) /\ a.class \in authority /\ ~ Future(now) /\ ~ Full(now)
      /\ RulesPermit(a)
  BY DEF Decision
<1>2. Cardinality(Recent(now)) \in Nat
  BY FS_Subset, FS_CardinalityType DEF BrokerTyped, Recent
<1> QED BY <1>1, <1>2, BrokerAssumption DEF BrokerTyped, Asked, Full, RulesPermit

\* The memory after a call: every attempt in the window is kept, nothing is made up.
LEMMA MemoryAfter ==
  ASSUME BrokerInv, NEW a \in Action, NEW now \in Time, NEW persisted \in BOOLEAN,
         dispatch(a, now, persisted)
  PROVE  /\ now \in Nat /\ last_ns' \in Nat /\ last_ns <= last_ns' /\ now <= last_ns'
         /\ admitted' \subseteq Call /\ IsFiniteSet(admitted')
         /\ \A e \in admitted : last_ns' - e.at < Window => e \in admitted'
         /\ Decision(a, now) = "allow" =>
              [sequence |-> sequence, at |-> now] \in admitted' /\ last_ns' = now
<1> DEFINE d == Decision(a, now)
           call == [sequence |-> sequence, at |-> now]
<1>1. BrokerTyped /\ now \in Nat
  BY BrokerAssumption DEF BrokerInv
<1>2. last_ns' = IF now > last_ns THEN now ELSE last_ns
  BY DEF dispatch
<1>3. admitted' = IF ~ Asked(a, now) \/ Future(now) THEN admitted
                  ELSE IF d = "allow" THEN Recent(now) \cup {call} ELSE Recent(now)
  BY DEF dispatch
<1>4. last_ns' \in Nat /\ last_ns <= last_ns' /\ now <= last_ns'
  BY <1>1, <1>2 DEF BrokerTyped
<1>5. call \in Call /\ Recent(now) \subseteq admitted /\ Recent(now) \subseteq Call
  BY <1>1 DEF BrokerTyped, Call, Recent
<1>6. IsFiniteSet(Recent(now)) /\ IsFiniteSet(Recent(now) \cup {call})
  BY <1>1, <1>5, FS_Subset, FS_AddElement DEF BrokerTyped
<1>7. admitted' \subseteq Call /\ IsFiniteSet(admitted')
  <2> HIDE DEF d, call
  <2> QED BY <1>1, <1>3, <1>5, <1>6 DEF BrokerTyped
<1>8. ASSUME NEW e \in admitted, last_ns' - e.at < Window PROVE e \in admitted'
  <2>1. CASE ~ Asked(a, now) \/ Future(now)
    BY <1>3, <2>1
  <2>2. CASE ~ (~ Asked(a, now) \/ Future(now))
    <3>1. last_ns' = now
      BY <1>1, <1>2, <2>2 DEF Asked, BrokerTyped
    <3>2. e \in Recent(now)
      BY <1>8, <3>1 DEF Recent
    <3> HIDE DEF d, call
    <3> QED BY <1>3, <2>2, <3>2
  <2> QED BY <2>1, <2>2
<1>9. ASSUME d = "allow" PROVE call \in admitted' /\ last_ns' = now
  <2>1. now >= last_ns /\ Asked(a, now) /\ ~ Future(now)
    BY <1>1, <1>9, AllowedHasRoom
  <2>2. last_ns' = now
    BY <1>1, <1>2, <2>1 DEF BrokerTyped
  <2> QED BY <1>3, <1>9, <2>1, <2>2
<1> QED BY <1>1, <1>4, <1>7, <1>8, <1>9

\* An effect more: every window that has it had room, for what else it has is remembered.
LEMMA EffectHasRoom ==
  ASSUME BrokerInv, NEW a \in Action, NEW now \in Nat, Decision(a, now) = "allow",
         NEW t \in Nat, t - Window < now, now <= t
  PROVE  Cardinality(Within(t)) < Limit
<1>1. BrokerTyped /\ EffectsRemembered
  BY DEF BrokerInv
<1>2. now >= last_ns /\ Cardinality(Recent(now)) < Limit
  BY <1>1, AllowedHasRoom
<1>3. ASSUME NEW k \in 1..Len(executed), executed[k].at \in (t - Window + 1)..t
      PROVE  executed[k] \in Recent(now)
  <2>1. executed[k] \in Call
    BY <1>1 DEF BrokerTyped
  <2>2. executed[k].at <= last_ns /\ executed[k].at \in Nat /\ last_ns \in Nat /\ Window \in Nat
    BY <1>1, <2>1, BrokerAssumption DEF EffectsRemembered, BrokerTyped, Call
  <2>3. last_ns - executed[k].at < Window /\ now - executed[k].at < Window
    BY <1>2, <1>3, <2>2
  <2> QED BY <1>1, <2>3 DEF EffectsRemembered, Recent
<1>4. Within(t) \subseteq Recent(now)
  BY <1>3 DEF Within
<1>5. IsFiniteSet(Recent(now))
  BY <1>1, FS_Subset DEF BrokerTyped, Recent
<1>6. Cardinality(Within(t)) <= Cardinality(Recent(now))
  BY <1>4, <1>5, FS_Subset
<1>7. Cardinality(Within(t)) \in Nat /\ Cardinality(Recent(now)) \in Nat /\ Limit \in Nat
  BY <1>4, <1>5, FS_Subset, FS_CardinalityType, BrokerAssumption
<1> QED BY <1>2, <1>6, <1>7

LEMMA DispatchKeeps ==
  ASSUME BrokerInv, NEW a \in Action, NEW now \in Time, NEW persisted \in BOOLEAN,
         dispatch(a, now, persisted)
  PROVE  BrokerInv'
<1> DEFINE d == Decision(a, now)
           call == [sequence |-> sequence, at |-> now]
           evidence == [sequence |-> sequence, decision |-> d]
           n == Len(executed)
           m == Len(receipts)
<1>1. BrokerTyped /\ NumbersAreNew /\ EffectsRemembered /\ EffectsAudited
  BY DEF BrokerInv
<1>2. /\ now \in Nat /\ last_ns' \in Nat /\ last_ns <= last_ns' /\ now <= last_ns'
      /\ admitted' \subseteq Call /\ IsFiniteSet(admitted')
      /\ \A e \in admitted : last_ns' - e.at < Window => e \in admitted'
      /\ d = "allow" => call \in admitted' /\ last_ns' = now
  BY MemoryAfter
<1>3. /\ sequence' = sequence + 1
      /\ remaining' = IF d = "allow" THEN remaining - 1 ELSE remaining
      /\ receipts' = IF persisted THEN Append(receipts, evidence) ELSE receipts
      /\ executed' = IF persisted /\ d = "allow" THEN Append(executed, call) ELSE executed
  BY DEF dispatch, Executes
<1>4. /\ sequence \in Nat /\ last_ns \in Nat /\ remaining \in Nat /\ n \in Nat /\ m \in Nat
      /\ executed \in Seq(Call) /\ receipts \in Seq(Evidence)
      /\ call \in Call /\ call.sequence = sequence /\ call.at = now
      /\ evidence \in Evidence
      /\ evidence.sequence = sequence /\ evidence.decision = d
  BY <1>1, <1>2, DecisionIsOne DEF BrokerTyped, Call, Evidence
<1>5. d = "allow" => remaining > 0
  BY <1>1, <1>2, AllowedHasRoom
<1>6. \A k \in 1..n : executed[k] \in Call
  BY <1>4
<1> HIDE DEF d, call, evidence
<1>7. BrokerTyped'
  <2>1. sequence' \in Nat /\ remaining' \in Nat
    BY <1>3, <1>4, <1>5
  <2>2. executed' \in Seq(Call)
    BY <1>3, <1>4, AppendProperties
  <2>3. receipts' \in Seq(Evidence)
    BY <1>3, <1>4, AppendProperties
  <2> QED BY <1>2, <2>1, <2>2, <2>3 DEF BrokerTyped
<1>8. /\ Len(receipts') = IF persisted THEN m + 1 ELSE m
      /\ \A k \in 1..m : receipts'[k] = receipts[k]
      /\ persisted => receipts'[m + 1] = evidence
  BY <1>3, <1>4, AppendProperties
<1>9. /\ Len(executed') = IF persisted /\ d = "allow" THEN n + 1 ELSE n
      /\ \A k \in 1..n : executed'[k] = executed[k]
      /\ persisted /\ d = "allow" => executed'[n + 1] = call
  BY <1>3, <1>4, AppendProperties
<1> HIDE DEF n, m
<1>10. \A k \in 1..n : executed[k].sequence < sequence
  BY <1>1 DEF NumbersAreNew, n
<1>11. \A k \in 1..m : receipts[k].sequence < sequence
  BY <1>1 DEF NumbersAreNew, m
<1>12. (\A k \in 1..n : executed[k].sequence \in Nat) /\ (\A k \in 1..m : receipts[k].sequence \in Nat)
  <2>1. ASSUME NEW k \in 1..n PROVE executed[k].sequence \in Nat
    BY <1>6 DEF Call
  <2>2. ASSUME NEW k \in 1..m PROVE receipts[k].sequence \in Nat
    <3>1. receipts[k] \in Evidence
      BY <1>4 DEF m
    <3> QED BY <3>1 DEF Evidence
  <2> QED BY <2>1, <2>2
<1>13. NumbersAreNew'
  <2>1. ASSUME NEW k \in 1..Len(executed') PROVE executed'[k].sequence < sequence'
    <3>1. CASE k \in 1..n
      BY <1>3, <1>4, <1>9, <1>10, <1>12, <3>1
    <3>2. CASE k \notin 1..n
      <4>1. persisted /\ d = "allow" /\ k = n + 1
        BY <1>4, <1>9, <3>2
      <4> QED BY <1>3, <1>4, <1>9, <4>1
    <3> QED BY <3>1, <3>2
  <2>2. ASSUME NEW k \in 1..Len(receipts') PROVE receipts'[k].sequence < sequence'
    <3>1. CASE k \in 1..m
      BY <1>3, <1>4, <1>8, <1>11, <1>12, <3>1
    <3>2. CASE k \notin 1..m
      <4>1. persisted /\ k = m + 1
        BY <1>4, <1>8, <3>2
      <4> QED BY <1>3, <1>4, <1>8, <4>1
    <3> QED BY <3>1, <3>2
  <2> QED BY <2>1, <2>2 DEF NumbersAreNew
<1>14. EffectsRemembered'
  <2>1. ASSUME NEW k \in 1..Len(executed')
        PROVE  /\ executed'[k].at <= last_ns'
               /\ last_ns' - executed'[k].at < Window => executed'[k] \in admitted'
    <3>1. CASE k \in 1..n
      <4>1. executed'[k] = executed[k] /\ executed[k].at \in Nat
        BY <1>6, <1>9, <3>1 DEF Call, n
      <4>2. /\ executed[k].at <= last_ns
            /\ last_ns - executed[k].at < Window => executed[k] \in admitted
        BY <1>1, <3>1 DEF EffectsRemembered, n
      <4>3. Window \in Nat
        BY BrokerAssumption
      <4>4. executed'[k].at <= last_ns'
        BY <1>2, <1>4, <4>1, <4>2
      <4>5. ASSUME last_ns' - executed'[k].at < Window PROVE executed'[k] \in admitted'
        <5>1. last_ns - executed[k].at < Window
          BY <1>2, <1>4, <4>1, <4>3, <4>5
        <5>2. executed[k] \in admitted
          BY <4>2, <5>1
        <5> QED BY <1>2, <4>1, <4>5, <5>2
      <4> QED BY <4>4, <4>5
    <3>2. CASE k \notin 1..n
      <4>1. d = "allow" /\ executed'[k] = call
        BY <1>4, <1>9, <3>2
      <4> QED BY <1>2, <1>4, <4>1
    <3> QED BY <3>1, <3>2
  <2> QED BY <2>1 DEF EffectsRemembered
<1>15. EffectsAudited'
  <2>1. /\ {executed[k].sequence : k \in 1..n} = {receipts[k].sequence : k \in Allowed}
        /\ \A j, k \in 1..n : j < k => executed[j].sequence < executed[k].sequence
        /\ \A j, k \in 1..m : j < k => receipts[j].sequence < receipts[k].sequence
    BY <1>1 DEF EffectsAudited, n, m
  <2>2. Allowed' = Allowed \cup (IF persisted /\ d = "allow" THEN {m + 1} ELSE {})
    <3>1. Allowed = {k \in 1..m : receipts[k].decision = "allow"}
      BY DEF Allowed, m
    <3>2. Allowed' = {k \in 1..Len(receipts') : receipts'[k].decision = "allow"}
      BY DEF Allowed
    <3> QED BY <1>4, <1>8, <3>1, <3>2
  <2>3. Allowed \subseteq 1..m
    BY DEF Allowed, m
  <2>4. {receipts'[k].sequence : k \in Allowed'}
          = {receipts[k].sequence : k \in Allowed}
              \cup (IF persisted /\ d = "allow" THEN {sequence} ELSE {})
    <3>1. \A k \in Allowed : receipts'[k] = receipts[k]
      BY <1>8, <2>3
    <3>2. CASE persisted /\ d = "allow"
      <4>1. receipts'[m + 1].sequence = sequence /\ Allowed' = Allowed \cup {m + 1}
        BY <1>4, <1>8, <2>2, <3>2
      <4> QED BY <3>1, <3>2, <4>1
    <3>3. CASE ~ (persisted /\ d = "allow")
      BY <2>2, <3>1, <3>3
    <3> QED BY <3>2, <3>3
  <2>5. {executed'[k].sequence : k \in 1..Len(executed')}
          = {executed[k].sequence : k \in 1..n}
              \cup (IF persisted /\ d = "allow" THEN {sequence} ELSE {})
    <3>1. CASE persisted /\ d = "allow"
      <4>1. executed'[n + 1].sequence = sequence /\ 1..Len(executed') = (1..n) \cup {n + 1}
        BY <1>4, <1>9, <3>1
      <4> QED BY <1>9, <3>1, <4>1
    <3>2. CASE ~ (persisted /\ d = "allow")
      BY <1>9, <3>2
    <3> QED BY <3>1, <3>2
  <2>6. ASSUME NEW j \in 1..Len(executed'), NEW k \in 1..Len(executed'), j < k
        PROVE  executed'[j].sequence < executed'[k].sequence
    <3>1. CASE k \in 1..n
      BY <1>4, <1>9, <2>1, <2>6, <3>1
    <3>2. CASE k \notin 1..n
      <4>1. persisted /\ d = "allow" /\ k = n + 1 /\ j \in 1..n
        BY <1>4, <1>9, <2>6, <3>2
      <4> QED BY <1>4, <1>9, <1>10, <4>1
    <3> QED BY <3>1, <3>2
  <2>7. ASSUME NEW j \in 1..Len(receipts'), NEW k \in 1..Len(receipts'), j < k
        PROVE  receipts'[j].sequence < receipts'[k].sequence
    <3>1. CASE k \in 1..m
      BY <1>4, <1>8, <2>1, <2>7, <3>1
    <3>2. CASE k \notin 1..m
      <4>1. persisted /\ k = m + 1 /\ j \in 1..m
        BY <1>4, <1>8, <2>7, <3>2
      <4> QED BY <1>4, <1>8, <1>11, <4>1
    <3> QED BY <3>1, <3>2
  <2> QED BY <2>1, <2>4, <2>5, <2>6, <2>7 DEF EffectsAudited
<1>16. Len(executed') + remaining' <= Attempts
  <2>1. n + remaining <= Attempts /\ Attempts \in Nat
    BY BrokerAssumption DEF BrokerInv, n
  <2>2. CASE d = "allow"
    BY <1>3, <1>4, <1>9, <2>1, <2>2
  <2>3. CASE d # "allow"
    BY <1>3, <1>4, <1>9, <2>1, <2>3
  <2> QED BY <2>2, <2>3
<1>17. ASSUME NEW t \in Nat
       PROVE  IsFiniteSet(Within(t)') /\ Cardinality(Within(t)') <= Limit
  <2>1. IsFiniteSet(Within(t)) /\ Cardinality(Within(t)) <= Limit
    BY DEF BrokerInv
  <2>2. CASE ~ (persisted /\ d = "allow")
    <3>1. executed' = executed
      BY <1>3, <2>2
    <3>2. Within(t)' = Within(t)
      BY <3>1 DEF Within
    <3> QED BY <2>1, <3>2
  <2>3. CASE persisted /\ d = "allow" /\ ~ (t - Window < now /\ now <= t)
    <3>1. call.at \notin (t - Window + 1)..t
      BY <1>2, <1>4, <2>3, BrokerAssumption
    <3>2. Within(t)' = Within(t)
      BY <1>4, <1>9, <2>3, <3>1 DEF Within, n
    <3> QED BY <2>1, <3>2
  <2>4. CASE persisted /\ d = "allow" /\ t - Window < now /\ now <= t
    <3>1. Cardinality(Within(t)) < Limit
      BY <1>2, <2>4, EffectHasRoom DEF d
    <3>2. Within(t)' \subseteq Within(t) \cup {call}
      BY <1>4, <1>9, <2>4 DEF Within, n
    <3>3. /\ IsFiniteSet(Within(t) \cup {call})
          /\ Cardinality(Within(t) \cup {call}) <= Cardinality(Within(t)) + 1
          /\ Cardinality(Within(t)) \in Nat /\ Cardinality(Within(t) \cup {call}) \in Nat
      <4> DEFINE W == Within(t)
      <4>1. IsFiniteSet(W) /\ Cardinality(W) \in Nat
        BY <2>1, FS_CardinalityType
      <4> HIDE DEF W
      <4>2. /\ IsFiniteSet(W \cup {call})
            /\ Cardinality(W \cup {call}) = IF call \in W THEN Cardinality(W) ELSE Cardinality(W) + 1
        BY <4>1, FS_AddElement
      <4>3. /\ IsFiniteSet(W \cup {call}) /\ Cardinality(W) \in Nat
            /\ Cardinality(W \cup {call}) <= Cardinality(W) + 1 /\ Cardinality(W \cup {call}) \in Nat
        BY <4>1, <4>2
      <4> QED BY <4>3 DEF W
    <3>4. /\ IsFiniteSet(Within(t)') /\ Cardinality(Within(t)') \in Nat
          /\ Cardinality(Within(t)') <= Cardinality(Within(t) \cup {call})
      <4> DEFINE W == Within(t)'
      <4>1. W \subseteq Within(t) \cup {call}
        BY <3>2
      <4> HIDE DEF W
      <4>2. IsFiniteSet(W) /\ Cardinality(W) <= Cardinality(Within(t) \cup {call})
        BY <3>3, <4>1, FS_Subset
      <4>3. Cardinality(W) \in Nat
        BY <4>2, FS_CardinalityType
      <4> QED BY <4>2, <4>3 DEF W
    <3> QED BY <3>1, <3>3, <3>4, BrokerAssumption
  <2> QED BY <2>2, <2>3, <2>4
<1> QED BY <1>7, <1>13, <1>14, <1>15, <1>16, <1>17 DEF BrokerInv

LEMMA BrokerSteps == BrokerInv /\ [BrokerNext]_brokerVars => BrokerInv'
<1> SUFFICES ASSUME BrokerInv, [BrokerNext]_brokerVars PROVE BrokerInv'
  OBVIOUS
<1>1. ASSUME NEW a \in Action, NEW now \in Time, NEW persisted \in BOOLEAN,
             dispatch(a, now, persisted)
      PROVE  BrokerInv'
  BY <1>1, DispatchKeeps
<1>2. ASSUME NEW c \in Class, ChangeAuthority(c) PROVE BrokerInv'
  BY <1>2, BrokerRests DEF ChangeAuthority
<1>3. CASE UNCHANGED brokerVars
  BY <1>3, BrokerRests DEF brokerVars
<1> QED BY <1>1, <1>2, <1>3 DEF BrokerNext

(* Whatever the authority withdraws, the audit loses and the caller's      *)
(* clock does: the effects of an agent are the persisted receipts that     *)
(* allow, in their order, no window holds more than its quota of them, and *)
(* there are never more than the lifetime quota (rvm-host: semantic.rs).   *)
THEOREM BrokerSoundHolds == BrokerSpec => []BrokerSound
<1>1. BrokerInv => BrokerSound
  <2> SUFFICES ASSUME BrokerInv PROVE BrokerSound
    OBVIOUS
  <2>1. BrokerTyped /\ Len(executed) + remaining <= Attempts /\ Time \subseteq Nat
    BY BrokerAssumption DEF BrokerInv
  <2>2. Len(executed) <= Attempts
    BY <2>1, BrokerAssumption DEF BrokerTyped
  <2> QED BY <2>1, <2>2 DEF BrokerInv, BrokerSound, EffectsBounded
<1>2. BrokerSpec => []BrokerInv
  BY BrokerStarts, BrokerSteps, PTL DEF BrokerSpec
<1> QED BY <1>1, <1>2, PTL
=============================================================================
