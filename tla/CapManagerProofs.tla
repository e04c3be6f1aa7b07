-------------------------- MODULE CapManagerProofs --------------------------
(***************************************************************************)
(* Proofs about CapManager for every table size, every set of rights and   *)
(* every bound.  The walks of the derivation tree are recursive functions: *)
(* nothing here depends on what they return beyond the set they return it  *)
(* in, so the theorems hold also when a stale sibling list sends a         *)
(* revocation to the wrong capabilities.                                   *)
(***************************************************************************)
EXTENDS CapManager, FiniteSetTheorems, TLAPS

USE SizeAssumption, RightsAssumption, BoundAssumption

-----------------------------------------------------------------------------
(* Facts about the operators. *)

\* Sets of slots are finite, so their cardinality is a number.
LEMMA SlotSetFinite ==
  ASSUME NEW S \in SUBSET Slot
  PROVE  IsFiniteSet(S) /\ Cardinality(S) \in Nat
<1>1. IsFiniteSet(Slot)
  BY FS_Interval DEF Slot
<1>2. QED
  BY <1>1, FS_Subset, FS_CardinalityType

\* A bumped generation is a u32 other than the free sentinel.
LEMMA BumpedGenerationType ==
  ASSUME NEW g \in 0 .. U32MAX - 1
  PROVE  BumpedGeneration(g) \in 1 .. U32MAX /\ BumpedGeneration(g) = g + 1
<1>1. (g + 1) % (U32MAX + 1) = g + 1
  OBVIOUS
<1>2. QED
  BY <1>1 DEF BumpedGeneration

\* The next generation of a slot is below u32::MAX.
LEMMA NextGenerationType ==
  ASSUME TypeOK, NEW i \in Slot
  PROVE  NextGeneration(i) \in 0 .. U32MAX - 1
BY DEF TypeOK, NextGeneration, SlotRecord

\* The slot that insert_root or insert_derived writes is a slot record.
LEMMA NewSlotType ==
  ASSUME TypeOK, NEW i \in Slot, NEW rights \in SUBSET Rights, NEW d \in 0 .. MaxDepth,
         NEW p \in 0 .. U32MAX, next_id <= MaxId
  PROVE  NewSlot(i, rights, d, p) \in SlotRecord
BY NextGenerationType DEF NewSlot, SlotRecord, TypeOK

\* The history entry of a new capability is a birth record.
LEMMA BirthType ==
  ASSUME TypeOK, NEW i \in Slot, NEW rights \in SUBSET Rights, NEW p \in 0 .. MaxId
  PROVE  Birth(i, rights, p) \in BirthRecord
<1>1. (IF p = 0 THEN {} ELSE born[p].ancestors \cup {p}) \in SUBSET Id
  <2>1. CASE p = 0
    BY <2>1
  <2>2. CASE p # 0
    <3>1. p \in Id
      BY <2>2 DEF Id
    <3>2. born[p].ancestors \in SUBSET Id
      BY <3>1 DEF TypeOK, BirthRecord
    <3>3. QED
      BY <2>2, <3>1, <3>2
  <2>3. QED
    BY <2>1, <2>2
<1>2. uses[i] + 1 \in Nat
  BY DEF TypeOK
<1>3. QED
  BY <1>1, <1>2, NextGenerationType DEF Birth, BirthRecord, TypeOK

\* A slot that force_invalidate has freed is a slot record.
LEMMA EmptySlotType ==
  ASSUME NEW stash \in 0 .. U32MAX
  PROVE  EmptySlot(stash) \in SlotRecord
BY DEF EmptySlot, SlotRecord

\* A node that revoke_subtree has invalidated is a node record.
LEMMA EmptyNodeType ==
  ASSUME NEW next \in Slot \cup {NIL}
  PROVE  EmptyNode(next) \in NodeRecord
BY DEF EmptyNode, NodeRecord

-----------------------------------------------------------------------------
(* Type correctness. *)

\* The empty manager is type-correct.
LEMMA InitType == Init => TypeOK
<1> SUFFICES ASSUME Init PROVE TypeOK
  OBVIOUS
<1>1. slots \in [Slot -> SlotRecord]
  BY EmptySlotType DEF Init
<1>2. nodes \in [Slot -> NodeRecord]
  BY EmptyNodeType DEF Init
<1>3. born \in [Id -> BirthRecord]
  <2>1. NotBorn \in BirthRecord
    BY DEF NotBorn, BirthRecord, Slot
  <2>2. QED
    BY <2>1 DEF Init
<1>4. hung \in BOOLEAN
  BY Zenon DEF Init
<1>5. /\ count \in Int /\ free_hint \in 0 .. N /\ tree_count \in Int
      /\ epoch \in 0 .. MaxEpoch /\ next_id \in 1 .. MaxId + 1
      /\ stats \in [created : Int, granted : Int, revoked : Int]
      /\ uses \in [Slot -> Nat]
  BY DEF Init
<1>6. QED
  BY <1>1, <1>2, <1>3, <1>4, <1>5, Zenon DEF TypeOK

\* create_root_capability keeps the types.
LEMMA CreateRootType ==
  ASSUME TypeOK, NEW rights \in RightsChoices, CreateRoot(rights)
  PROVE  TypeOK'
<1>1. PICK i \in Slot :
        /\ slots' = [slots EXCEPT ![i] = NewSlot(i, rights, 0, U32MAX)]
        /\ free_hint' = i + 1
        /\ AddRoot(i)
        /\ born' = [born EXCEPT ![next_id] = Birth(i, rights, 0)]
        /\ uses' = [uses EXCEPT ![i] = @ + 1]
  BY DEF CreateRoot
<1>2. slots' \in [Slot -> SlotRecord]
  BY <1>1, NewSlotType DEF TypeOK, CreateRoot
<1>3. nodes' \in [Slot -> NodeRecord] /\ tree_count' \in Int
  <2>1. RootNode \in NodeRecord
    BY DEF RootNode, NodeRecord, TypeOK
  <2>2. QED
    BY <1>1, <2>1 DEF AddRoot, TypeOK
<1>4. born' \in [Id -> BirthRecord]
  <2>1. Birth(i, rights, 0) \in BirthRecord
    BY BirthType
  <2>2. QED
    BY <1>1, <2>1 DEF TypeOK
<1>5. free_hint' \in 0 .. N /\ uses' \in [Slot -> Nat]
  BY <1>1 DEF TypeOK, Slot
<1>6. QED
  BY <1>2, <1>3, <1>4, <1>5 DEF TypeOK, CreateRoot

\* A successful grant keeps the types.
LEMMA GrantType ==
  ASSUME TypeOK, NEW s \in Slot, NEW rights \in RightsChoices, Grant(s, rights)
  PROVE  TypeOK'
<1>1. PICK c \in Slot :
        /\ FindFreeSlot(c)
        /\ slots' = [slots EXCEPT ![c] = NewSlot(c, rights, slots[s].depth + 1, s),
                                  ![s].rights = SourceRightsAfter(s)]
        /\ free_hint' = c + 1
        /\ AddChild(s, c)
        /\ born' = [born EXCEPT ![next_id] = Birth(c, rights, slots[s].id)]
        /\ uses' = [uses EXCEPT ![c] = @ + 1]
  BY DEF Grant
<1>2. slots[s].depth + 1 \in 0 .. MaxDepth /\ s \in 0 .. U32MAX
  <2>1. slots[s].depth \in 0 .. MaxDepth
    BY DEF TypeOK, SlotRecord
  <2>2. slots[s].depth + 1 <= MaxDepth
    BY DEF Grant, GrantValid
  <2>3. QED
    BY <2>1, <2>2 DEF Slot
<1>3. NewSlot(c, rights, slots[s].depth + 1, s) \in SlotRecord
  BY <1>2, NewSlotType DEF Grant
<1>4. SourceRightsAfter(s) \in SUBSET Rights
  BY DEF SourceRightsAfter, TypeOK, SlotRecord
<1>5. slots' \in [Slot -> SlotRecord]
  BY <1>1, <1>3, <1>4 DEF TypeOK, SlotRecord
<1>6. nodes' \in [Slot -> NodeRecord] /\ tree_count' \in Int
  BY <1>1, <1>2 DEF AddChild, ChildNode, NodeRecord, TypeOK
<1>7. born' \in [Id -> BirthRecord]
  BY <1>1, BirthType DEF TypeOK, SlotRecord
<1>8. free_hint' \in 0 .. N /\ uses' \in [Slot -> Nat]
  <2>1. uses[c] + 1 \in Nat /\ c + 1 \in 0 .. N
    BY DEF TypeOK, Slot
  <2>2. QED
    BY <1>1, <2>1 DEF TypeOK
<1>9. QED
  BY <1>5, <1>6, <1>7, <1>8 DEF TypeOK, Grant

\* A grant that is rolled back keeps the types.
LEMMA GrantRolledBackType ==
  ASSUME TypeOK, NEW s \in Slot, NEW rights \in RightsChoices, GrantRolledBack(s, rights)
  PROVE  TypeOK'
<1>1. PICK c \in Slot :
        /\ slots' = [slots EXCEPT ![c] = EmptySlot(BumpedGeneration(NextGeneration(c)))]
        /\ free_hint' = c
        /\ uses' = [uses EXCEPT ![c] = @ + 1]
  BY DEF GrantRolledBack
<1>2. EmptySlot(BumpedGeneration(NextGeneration(c))) \in SlotRecord
  BY NextGenerationType, BumpedGenerationType, EmptySlotType
<1>3. slots' \in [Slot -> SlotRecord]
  BY <1>1, <1>2 DEF TypeOK
<1>4. free_hint' \in 0 .. N /\ uses' \in [Slot -> Nat]
  BY <1>1 DEF TypeOK, Slot
<1>5. QED
  BY <1>3, <1>4 DEF TypeOK, GrantRolledBack

\* revoke_capability keeps the types, whatever its two walks reach.
LEMMA RevokeType ==
  ASSUME TypeOK, NEW i \in Slot, Revoke(i)
  PROVE  TypeOK'
<1> DEFINE freed == CollectSubtree(i) \cap HeldSlots
           dead  == RevokeSubtree(i)
<1>1. /\ slots' = Invalidate(freed)
      /\ count' = count - Cardinality(freed)
      /\ free_hint' \in 0 .. N
      /\ nodes' = [j \in Slot |-> IF j \in dead THEN EmptyNode(nodes[j].next_sibling)
                                  ELSE nodes[j]]
      /\ tree_count' = tree_count - Cardinality(dead)
      /\ stats' = [stats EXCEPT !.revoked = @ + Cardinality(dead)]
  BY DEF Revoke
<1>2. freed \in SUBSET Slot /\ dead \in SUBSET Slot
  BY DEF HeldSlots, RevokeSubtree, LiveNodes
<1>3. Cardinality(freed) \in Nat /\ Cardinality(dead) \in Nat
  BY <1>2, SlotSetFinite
<1> HIDE DEF freed, dead
<1>4. slots' \in [Slot -> SlotRecord]
  <2>1. ASSUME NEW j \in Slot
        PROVE  EmptySlot(BumpedGeneration(slots[j].generation)) \in SlotRecord
    BY BumpedGenerationType, EmptySlotType DEF TypeOK, SlotRecord
  <2>2. QED
    BY <1>1, <2>1 DEF Invalidate, TypeOK
<1>5. nodes' \in [Slot -> NodeRecord]
  <2>1. ASSUME NEW j \in Slot PROVE EmptyNode(nodes[j].next_sibling) \in NodeRecord
    BY EmptyNodeType DEF TypeOK, NodeRecord
  <2>2. QED
    BY <1>1, <2>1 DEF TypeOK
<1>6. count' \in Int /\ tree_count' \in Int
      /\ stats' \in [created : Int, granted : Int, revoked : Int]
  BY <1>1, <1>3 DEF TypeOK
<1>7. QED
  BY <1>1, <1>4, <1>5, <1>6 DEF TypeOK, Revoke

\* Every operation keeps the types.
LEMMA NextType == TypeOK /\ [Next]_vars => TypeOK'
<1> SUFFICES ASSUME TypeOK, [Next]_vars PROVE TypeOK'
  OBVIOUS
<1>1. ASSUME NEW rights \in RightsChoices, CreateRoot(rights) PROVE TypeOK'
  BY <1>1, CreateRootType
<1>2. ASSUME NEW s \in Slot, NEW rights \in RightsChoices, Grant(s, rights) PROVE TypeOK'
  BY <1>2, GrantType
<1>3. ASSUME NEW s \in Slot, NEW rights \in RightsChoices, GrantRolledBack(s, rights)
      PROVE  TypeOK'
  BY <1>3, GrantRolledBackType
<1>4. CASE IdSpent
  BY <1>4 DEF IdSpent, TypeOK
<1>5. ASSUME NEW i \in Slot, Revoke(i) PROVE TypeOK'
  BY <1>5, RevokeType
<1>6. ASSUME NEW i \in Slot, RevokeHangs(i) PROVE TypeOK'
  BY <1>6 DEF RevokeHangs, TypeOK
<1>7. CASE IncrementEpoch
  BY <1>7 DEF IncrementEpoch, TypeOK
<1>8. CASE UNCHANGED vars
  BY <1>8 DEF vars, TypeOK
<1>9. QED
  BY <1>1, <1>2, <1>3, <1>4, <1>5, <1>6, <1>7, <1>8 DEF Next

\* Every field of the manager stays in its type: in particular a generation never
\* reaches the value that marks a slot as never used (table.rs).
THEOREM TypeCorrect == Spec => []TypeOK
<1>1. QED
  BY InitType, NextType, PTL DEF Spec

-----------------------------------------------------------------------------
(* Authority: attenuation and the single use of GRANT_ONCE. *)

\* Ids from next_id on have not been handed out, and no id was derived from them.
IdsFresh ==
  /\ \A c \in Id : c >= next_id => ~Born(c)
  /\ \A c \in Id : Born(c) => born[c].parent < next_id

\* A held slot carries an id of its own, and rights it was born with.
HeldSlotsBorn ==
  /\ \A i \in Slot : Held(i) =>
       /\ slots[i].id \in Id /\ slots[i].id < next_id
       /\ Born(slots[i].id)
       /\ slots[i].rights \subseteq born[slots[i].id].rights
  /\ \A i, j \in Slot : (Held(i) /\ Held(j) /\ slots[i].id = slots[j].id) => i = j

\* The birth rights shrink along every line of descent.
BirthsAttenuate ==
  \A c \in Id : Born(c) => \A a \in born[c].ancestors :
    Born(a) /\ born[c].rights \subseteq born[a].rights

\* A capability that could only delegate once and still can has not delegated.
OnceUnspent ==
  \A i \in Slot : (Held(i) /\ GRANT \notin slots[i].rights /\ GRANT_ONCE \in slots[i].rights)
    => \A d \in Id : Born(d) => born[d].parent # slots[i].id

AuthorityInv ==
  /\ TypeOK
  /\ IdsFresh
  /\ HeldSlotsBorn
  /\ BirthsAttenuate
  /\ OnceUnspent
  /\ GrantOnceSpent

\* What a birth does to the history, whoever is born.
LEMMA BirthStep ==
  ASSUME TypeOK, IdsFresh, BirthsAttenuate,
         NEW i \in Slot, NEW rights \in SUBSET Rights, NEW p \in 0 .. MaxId,
         next_id \in Id, next_id' = next_id + 1,
         born' = [born EXCEPT ![next_id] = Birth(i, rights, p)],
         p # 0 => p < next_id /\ Born(p) /\ rights \subseteq born[p].rights
  PROVE  /\ \A c \in Id : c # next_id => born'[c] = born[c]
         /\ \A c \in Id : Born(c)' <=> (Born(c) \/ c = next_id)
         /\ born'[next_id].rights = rights /\ born'[next_id].parent = p
         /\ IdsFresh' /\ BirthsAttenuate'
<1>1. ~Born(next_id)
  <2>1. next_id >= next_id
    BY DEF Id
  <2>2. QED
    BY <2>1 DEF IdsFresh
<1>2. \A c \in Id : c # next_id => born'[c] = born[c]
  BY DEF TypeOK
<1>3. /\ born'[next_id].rights = rights /\ born'[next_id].parent = p
      /\ born'[next_id].ancestors = IF p = 0 THEN {} ELSE born[p].ancestors \cup {p}
      /\ born'[next_id].nth = uses[i] + 1
  BY DEF TypeOK, Birth
<1>4. born'[next_id].nth # 0
  BY <1>3 DEF TypeOK
<1>5. \A c \in Id : Born(c)' <=> (Born(c) \/ c = next_id)
  BY <1>2, <1>4 DEF Born
<1>6. IdsFresh'
  <2>1. ASSUME NEW c \in Id, c >= next_id' PROVE ~Born(c)'
    BY <1>5, <2>1 DEF IdsFresh, Id
  <2>2. ASSUME NEW c \in Id, Born(c)' PROVE born'[c].parent < next_id'
    <3>1. CASE c = next_id
      BY <1>3, <3>1 DEF Id
    <3>2. CASE c # next_id
      <4>1. born'[c].parent = born[c].parent /\ born[c].parent < next_id
        BY <1>2, <1>5, <2>2, <3>2 DEF IdsFresh
      <4>2. born[c].parent \in 0 .. MaxId
        BY DEF TypeOK, BirthRecord
      <4>3. QED
        BY <4>1, <4>2 DEF Id
    <3>3. QED
      BY <3>1, <3>2
  <2>3. QED
    BY <2>1, <2>2 DEF IdsFresh
<1>7. BirthsAttenuate'
  <2> SUFFICES ASSUME NEW c \in Id, Born(c)', NEW a \in born'[c].ancestors
               PROVE  Born(a)' /\ born'[c].rights \subseteq born'[a].rights
    BY DEF BirthsAttenuate
  <2>1. CASE c # next_id
    <3>1. Born(c) /\ born'[c] = born[c]
      BY <1>2, <1>5, <2>1
    <3>2. Born(a) /\ born[c].rights \subseteq born[a].rights /\ a \in Id
      BY <3>1 DEF BirthsAttenuate, TypeOK, BirthRecord
    <3>3. a # next_id
      BY <1>1, <3>2
    <3>4. QED
      BY <1>2, <1>5, <3>1, <3>2, <3>3
  <2>2. CASE c = next_id
    <3>1. p # 0 /\ p \in Id /\ p # next_id /\ a \in born[p].ancestors \cup {p}
      BY <1>3, <2>2 DEF Id
    <3>2. Born(p) /\ rights \subseteq born[p].rights
      BY <3>1
    <3>3. Born(a) /\ born[p].rights \subseteq born[a].rights /\ a \in Id
      <4>1. CASE a = p
        BY <3>1, <3>2, <4>1
      <4>2. CASE a \in born[p].ancestors
        BY <3>1, <3>2, <4>2 DEF BirthsAttenuate, TypeOK, BirthRecord
      <4>3. QED
        BY <3>1, <4>1, <4>2
    <3>4. a # next_id
      BY <1>1, <3>3
    <3>5. QED
      BY <1>2, <1>3, <1>5, <2>2, <3>2, <3>3, <3>4
  <2>3. QED
    BY <2>1, <2>2
<1>8. QED
  BY <1>2, <1>3, <1>5, <1>6, <1>7

\* A step that bears nothing and only frees slots keeps the invariant.
LEMMA FreeingStep ==
  ASSUME AuthorityInv, TypeOK', born' = born, next_id' \in {next_id, next_id + 1},
         \A i \in Slot : Held(i)' => Held(i) /\ slots'[i] = slots[i]
  PROVE  AuthorityInv'
<1>1. next_id \in Nat /\ next_id' \in Nat /\ next_id <= next_id'
  BY DEF AuthorityInv, TypeOK
<1>2. \A c \in Id : Born(c)' <=> Born(c)
  BY DEF Born
<1>3. IdsFresh'
  <2>1. ASSUME NEW c \in Id, c >= next_id' PROVE ~Born(c)'
    BY <1>1, <1>2, <2>1 DEF AuthorityInv, IdsFresh, Id
  <2>2. ASSUME NEW c \in Id, Born(c)' PROVE born'[c].parent < next_id'
    <3>1. born[c].parent < next_id
      BY <1>2, <2>2 DEF AuthorityInv, IdsFresh
    <3>2. born[c].parent \in 0 .. MaxId
      BY DEF AuthorityInv, TypeOK, BirthRecord
    <3>3. QED
      BY <1>1, <3>1, <3>2
  <2>3. QED
    BY <2>1, <2>2 DEF IdsFresh
<1>4. HeldSlotsBorn'
  <2>1. ASSUME NEW i \in Slot, Held(i)'
        PROVE  /\ slots'[i].id \in Id /\ slots'[i].id < next_id'
               /\ Born(slots[i].id)'
               /\ slots'[i].rights \subseteq born'[slots'[i].id].rights
    <3>1. /\ Held(i) /\ slots'[i] = slots[i] /\ slots[i].id \in Id /\ slots[i].id < next_id
          /\ Born(slots[i].id) /\ slots[i].rights \subseteq born[slots[i].id].rights
      BY <2>1 DEF AuthorityInv, HeldSlotsBorn
    <3>2. QED
      BY <1>1, <1>2, <3>1 DEF Id
  <2>2. ASSUME NEW i \in Slot, NEW j \in Slot, Held(i)', Held(j)', slots'[i].id = slots'[j].id
        PROVE  i = j
    BY <2>2 DEF AuthorityInv, HeldSlotsBorn
  <2>3. QED
    BY <2>1, <2>2 DEF HeldSlotsBorn
<1>5. BirthsAttenuate'
  BY DEF AuthorityInv, BirthsAttenuate, Born
<1>6. OnceUnspent'
  BY <1>2 DEF AuthorityInv, OnceUnspent
<1>7. GrantOnceSpent'
  BY <1>2 DEF AuthorityInv, GrantOnceSpent
<1>8. QED
  BY <1>3, <1>4, <1>5, <1>6, <1>7 DEF AuthorityInv

\* A new root has no ancestors, and its id is new.
LEMMA CreateRootAuthority ==
  ASSUME AuthorityInv, TypeOK', NEW rights \in RightsChoices, CreateRoot(rights)
  PROVE  AuthorityInv'
<1>1. PICK i \in Slot :
        /\ Free(i)
        /\ slots' = [slots EXCEPT ![i] = NewSlot(i, rights, 0, U32MAX)]
        /\ born' = [born EXCEPT ![next_id] = Birth(i, rights, 0)]
  BY DEF CreateRoot, FindFreeSlot
<1>2. next_id \in Id /\ next_id' = next_id + 1
  BY DEF CreateRoot, AuthorityInv, TypeOK, Id
<1>3. /\ \A c \in Id : c # next_id => born'[c] = born[c]
      /\ \A c \in Id : Born(c)' <=> (Born(c) \/ c = next_id)
      /\ born'[next_id].rights = rights /\ born'[next_id].parent = 0
      /\ IdsFresh' /\ BirthsAttenuate'
  <2>1. rights \in SUBSET Rights /\ 0 \in 0 .. MaxId
    OBVIOUS
  <2>2. QED
    BY <1>1, <1>2, <2>1, BirthStep DEF AuthorityInv
<1>4. /\ slots'[i].id = next_id /\ slots'[i].rights = rights
      /\ \A j \in Slot : j # i => slots'[j] = slots[j] /\ (Held(j)' <=> Held(j))
  BY <1>1 DEF NewSlot, Held, AuthorityInv, TypeOK
<1>5. \A j \in Slot : (Held(j) /\ j # i) =>
        slots[j].id \in Id /\ slots[j].id < next_id /\ slots[j].id # next_id
  BY <1>2 DEF AuthorityInv, HeldSlotsBorn, Id
<1>6. HeldSlotsBorn'
  <2>1. ASSUME NEW j \in Slot, Held(j)'
        PROVE  /\ slots'[j].id \in Id /\ slots'[j].id < next_id'
               /\ Born(slots[j].id)'
               /\ slots'[j].rights \subseteq born'[slots'[j].id].rights
    <3>1. CASE j = i
      BY <1>2, <1>3, <1>4, <3>1 DEF Id
    <3>2. CASE j # i
      <4>1. Held(j) /\ slots'[j] = slots[j]
        BY <1>4, <2>1, <3>2
      <4>2. Born(slots[j].id) /\ slots[j].rights \subseteq born[slots[j].id].rights
        BY <4>1 DEF AuthorityInv, HeldSlotsBorn
      <4>3. slots[j].id \in Id /\ slots[j].id < next_id /\ slots[j].id # next_id
        BY <1>5, <3>2, <4>1
      <4>4. QED
        BY <1>2, <1>3, <4>1, <4>2, <4>3 DEF Id
    <3>3. QED
      BY <3>1, <3>2
  <2>2. ASSUME NEW j \in Slot, NEW k \in Slot, Held(j)', Held(k)', slots'[j].id = slots'[k].id
        PROVE  j = k
    BY <1>4, <1>5, <2>2 DEF AuthorityInv, HeldSlotsBorn
  <2>3. QED
    BY <2>1, <2>2 DEF HeldSlotsBorn
<1>7. OnceUnspent'
  <2> SUFFICES ASSUME NEW j \in Slot, Held(j)', GRANT \notin slots'[j].rights,
                      GRANT_ONCE \in slots'[j].rights, NEW d \in Id, Born(d)'
               PROVE  born'[d].parent # slots'[j].id
    BY DEF OnceUnspent
  <2>1. CASE d = next_id
    <3>1. slots'[j].id \in Id
      BY <1>6 DEF HeldSlotsBorn
    <3>2. QED
      BY <1>3, <2>1, <3>1 DEF Id
  <2>2. CASE d # next_id
    <3>1. Born(d) /\ born'[d] = born[d]
      BY <1>3, <2>2
    <3>2. CASE j = i
      <4>1. born[d].parent < next_id /\ next_id \in Int
        BY <1>2, <3>1 DEF AuthorityInv, IdsFresh, Id
      <4>2. QED
        BY <1>4, <3>1, <3>2, <4>1
    <3>3. CASE j # i
      BY <1>4, <3>1, <3>3 DEF AuthorityInv, OnceUnspent
    <3>4. QED
      BY <3>2, <3>3
  <2>3. QED
    BY <2>1, <2>2
<1>8. GrantOnceSpent'
  <2> SUFFICES ASSUME NEW c \in Id, NEW d \in Id, Born(c)', Born(d)', c # d,
                      born'[c].parent = born'[d].parent, born'[c].parent # 0
               PROVE  GRANT \in born'[born'[c].parent].rights
    BY DEF GrantOnceSpent
  <2>1. c # next_id /\ d # next_id
    BY <1>3
  <2>2. Born(c) /\ Born(d) /\ born'[c] = born[c] /\ born'[d] = born[d]
    BY <1>3, <2>1
  <2>3. GRANT \in born[born[c].parent].rights
    BY <2>2 DEF AuthorityInv, GrantOnceSpent
  <2>4. born[c].parent \in Id /\ born[c].parent # next_id
    <3>1. born[c].parent < next_id /\ born[c].parent \in 0 .. MaxId
      BY <2>2 DEF AuthorityInv, IdsFresh, TypeOK, BirthRecord
    <3>2. QED
      BY <1>2, <2>2, <3>1 DEF Id
  <2>5. QED
    BY <1>3, <2>2, <2>3, <2>4
<1>9. QED
  BY <1>3, <1>6, <1>7, <1>8 DEF AuthorityInv

\* A grant attenuates (validate_grant) and spends GRANT_ONCE.
LEMMA GrantAuthority ==
  ASSUME AuthorityInv, TypeOK', NEW s \in Slot, NEW rights \in RightsChoices, Grant(s, rights)
  PROVE  AuthorityInv'
<1> DEFINE p == slots[s].id
<1>1. PICK i \in Slot :
        /\ Free(i)
        /\ slots' = [slots EXCEPT ![i] = NewSlot(i, rights, slots[s].depth + 1, s),
                                  ![s].rights = SourceRightsAfter(s)]
        /\ born' = [born EXCEPT ![next_id] = Birth(i, rights, slots[s].id)]
  BY DEF Grant, FindFreeSlot
<1>2. next_id \in Id /\ next_id' = next_id + 1 /\ Held(s) /\ i # s
  <2>1. next_id \in Id /\ next_id' = next_id + 1
    BY DEF Grant, AuthorityInv, TypeOK, Id
  <2>2. Held(s)
    BY DEF Grant
  <2>3. QED
    BY <1>1, <2>1, <2>2 DEF Held, Free
<1>3. /\ p \in Id /\ p < next_id /\ p # next_id /\ p # 0 /\ Born(p)
      /\ slots[s].rights \subseteq born[p].rights
      /\ rights \subseteq slots[s].rights
  <2>1. /\ p \in Id /\ p < next_id /\ Born(p)
        /\ slots[s].rights \subseteq born[p].rights
    BY <1>2 DEF AuthorityInv, HeldSlotsBorn
  <2>2. p # next_id /\ p # 0
    BY <1>2, <2>1 DEF Id
  <2>3. QED
    BY <2>1, <2>2 DEF Grant, GrantValid
<1>4. /\ \A c \in Id : c # next_id => born'[c] = born[c]
      /\ \A c \in Id : Born(c)' <=> (Born(c) \/ c = next_id)
      /\ born'[next_id].rights = rights /\ born'[next_id].parent = p
      /\ IdsFresh' /\ BirthsAttenuate'
  <2>1. p \in 0 .. MaxId /\ rights \in SUBSET Rights /\ rights \subseteq born[p].rights
    BY <1>3 DEF Id
  <2>2. QED
    BY <1>1, <1>2, <1>3, <2>1, BirthStep DEF AuthorityInv
<1>5. /\ slots'[i].id = next_id /\ slots'[i].rights = rights
      /\ slots'[s].id = p /\ slots'[s].rights = SourceRightsAfter(s)
      /\ \A j \in Slot : j # i => slots'[j].id = slots[j].id /\ (Held(j)' <=> Held(j))
      /\ \A j \in Slot : (j # i /\ j # s) => slots'[j] = slots[j]
  BY <1>1, <1>2 DEF NewSlot, Held, AuthorityInv, TypeOK, SlotRecord
<1>6. SourceRightsAfter(s) \subseteq slots[s].rights
  BY DEF SourceRightsAfter
<1>7. \A j \in Slot : (Held(j) /\ j # i) =>
        slots[j].id \in Id /\ slots[j].id < next_id /\ slots[j].id # next_id
  BY <1>2 DEF AuthorityInv, HeldSlotsBorn, Id
<1> HIDE DEF p
<1>8. HeldSlotsBorn'
  <2>1. ASSUME NEW j \in Slot, Held(j)'
        PROVE  /\ slots'[j].id \in Id /\ slots'[j].id < next_id'
               /\ Born(slots[j].id)'
               /\ slots'[j].rights \subseteq born'[slots'[j].id].rights
    <3>1. CASE j = i
      BY <1>2, <1>4, <1>5, <3>1 DEF Id
    <3>2. CASE j # i
      <4>1. Held(j) /\ slots'[j].id = slots[j].id /\ slots'[j].rights \subseteq slots[j].rights
        BY <1>5, <1>6, <2>1, <3>2
      <4>2. Born(slots[j].id) /\ slots[j].rights \subseteq born[slots[j].id].rights
        BY <4>1 DEF AuthorityInv, HeldSlotsBorn
      <4>3. slots[j].id \in Id /\ slots[j].id < next_id /\ slots[j].id # next_id
        BY <1>7, <3>2, <4>1
      <4>4. QED
        BY <1>2, <1>4, <4>1, <4>2, <4>3 DEF Id
    <3>3. QED
      BY <3>1, <3>2
  <2>2. ASSUME NEW j \in Slot, NEW k \in Slot, Held(j)', Held(k)', slots'[j].id = slots'[k].id
        PROVE  j = k
    BY <1>5, <1>7, <2>2 DEF AuthorityInv, HeldSlotsBorn
  <2>3. QED
    BY <2>1, <2>2 DEF HeldSlotsBorn
<1>9. OnceUnspent'
  <2> SUFFICES ASSUME NEW j \in Slot, Held(j)', GRANT \notin slots'[j].rights,
                      GRANT_ONCE \in slots'[j].rights, NEW d \in Id, Born(d)'
               PROVE  born'[d].parent # slots'[j].id
    BY DEF OnceUnspent
  <2>1. j # s
    BY <1>5 DEF SourceRightsAfter
  <2>2. CASE d = next_id
    <3>1. CASE j = i
      BY <1>3, <1>4, <1>5, <2>2, <3>1
    <3>2. CASE j # i
      <4>1. Held(j) /\ slots'[j].id = slots[j].id
        BY <1>5, <3>2
      <4>2. slots[j].id # p
        BY <1>2, <2>1, <4>1 DEF p, AuthorityInv, HeldSlotsBorn
      <4>3. QED
        BY <1>4, <2>2, <4>1, <4>2
    <3>3. QED
      BY <3>1, <3>2
  <2>3. CASE d # next_id
    <3>1. Born(d) /\ born'[d] = born[d]
      BY <1>4, <2>3
    <3>2. CASE j = i
      <4>1. born[d].parent < next_id /\ next_id \in Int
        BY <1>2, <3>1 DEF AuthorityInv, IdsFresh, Id
      <4>2. QED
        BY <1>5, <3>1, <3>2, <4>1
    <3>3. CASE j # i
      <4>1. slots'[j] = slots[j] /\ Held(j)
        BY <1>5, <2>1, <3>3
      <4>2. QED
        BY <3>1, <4>1 DEF AuthorityInv, OnceUnspent
    <3>4. QED
      BY <3>2, <3>3
  <2>4. QED
    BY <2>2, <2>3
<1>10. GrantOnceSpent'
  <2>1. ASSUME NEW d \in Id, Born(d), born[d].parent = p PROVE GRANT \in born[p].rights
    <3>1. GRANT \in slots[s].rights
      <4>1. GRANT \in slots[s].rights \/ GRANT_ONCE \in slots[s].rights
        BY DEF Grant, GrantValid
      <4>2. CASE GRANT \notin slots[s].rights
        BY <1>2, <2>1, <4>1, <4>2 DEF p, AuthorityInv, OnceUnspent
      <4>3. QED
        BY <4>2
    <3>2. QED
      BY <1>3, <3>1
  <2> SUFFICES ASSUME NEW c \in Id, NEW d \in Id, Born(c)', Born(d)', c # d,
                      born'[c].parent = born'[d].parent, born'[c].parent # 0
               PROVE  GRANT \in born'[born'[c].parent].rights
    BY DEF GrantOnceSpent
  <2>2. CASE c = next_id \/ d = next_id
    <3>1. born'[c].parent = p
      BY <1>4, <2>2
    <3>2. \E e \in Id : Born(e) /\ born[e].parent = p
      BY <1>4, <2>2, <3>1
    <3>3. QED
      BY <1>3, <1>4, <2>1, <3>1, <3>2
  <2>3. CASE c # next_id /\ d # next_id
    <3>1. Born(c) /\ Born(d) /\ born'[c] = born[c] /\ born'[d] = born[d]
      BY <1>4, <2>3
    <3>2. GRANT \in born[born[c].parent].rights
      BY <3>1 DEF AuthorityInv, GrantOnceSpent
    <3>3. born[c].parent \in Id /\ born[c].parent # next_id
      <4>1. born[c].parent < next_id /\ born[c].parent \in 0 .. MaxId
        BY <3>1 DEF AuthorityInv, IdsFresh, TypeOK, BirthRecord
      <4>2. QED
        BY <1>2, <3>1, <4>1 DEF Id
    <3>4. QED
      BY <1>4, <3>1, <3>2, <3>3
  <2>4. QED
    BY <2>2, <2>3
<1>11. QED
  BY <1>4, <1>8, <1>9, <1>10 DEF AuthorityInv

\* The empty manager has no capabilities to relate.
LEMMA InitAuthority == Init => AuthorityInv
<1> SUFFICES ASSUME Init PROVE AuthorityInv
  OBVIOUS
<1>1. TypeOK
  BY InitType
<1>2. \A c \in Id : ~Born(c)
  BY DEF Init, Born, NotBorn
<1>3. \A i \in Slot : ~Held(i)
  BY DEF Init, Held, EmptySlot
<1>4. QED
  BY <1>1, <1>2, <1>3
     DEF AuthorityInv, IdsFresh, HeldSlotsBorn, BirthsAttenuate, OnceUnspent, GrantOnceSpent

\* A freed slot is not held.
LEMMA FreedNotHeld ==
  ASSUME NEW S, slots' = Invalidate(S), NEW i \in Slot, Held(i)'
  PROVE  Held(i) /\ slots'[i] = slots[i]
BY DEF Invalidate, Held, EmptySlot

\* Every operation preserves the authority invariant.
LEMMA NextAuthority == AuthorityInv /\ [Next]_vars => AuthorityInv'
<1> SUFFICES ASSUME AuthorityInv, [Next]_vars PROVE AuthorityInv'
  OBVIOUS
<1>1. TypeOK'
  BY NextType DEF AuthorityInv
<1>2. ASSUME NEW rights \in RightsChoices, CreateRoot(rights) PROVE AuthorityInv'
  BY <1>1, <1>2, CreateRootAuthority
<1>3. ASSUME NEW s \in Slot, NEW rights \in RightsChoices, Grant(s, rights)
      PROVE  AuthorityInv'
  BY <1>1, <1>3, GrantAuthority
<1>4. ASSUME NEW s \in Slot, NEW rights \in RightsChoices, GrantRolledBack(s, rights)
      PROVE  AuthorityInv'
  <2>1. born' = born /\ next_id' = next_id + 1
    BY <1>4 DEF GrantRolledBack
  <2>2. \A i \in Slot : Held(i)' => Held(i) /\ slots'[i] = slots[i]
    BY <1>4 DEF GrantRolledBack, Held, EmptySlot, AuthorityInv, TypeOK
  <2>3. QED
    BY <1>1, <2>1, <2>2, FreeingStep
<1>5. CASE IdSpent
  <2>1. born' = born /\ next_id' = next_id + 1 /\ slots' = slots
    BY <1>5 DEF IdSpent
  <2>2. \A i \in Slot : Held(i)' => Held(i) /\ slots'[i] = slots[i]
    BY <2>1 DEF Held
  <2>3. QED
    BY <1>1, <2>1, <2>2, FreeingStep
<1>6. ASSUME NEW i \in Slot, Revoke(i) PROVE AuthorityInv'
  <2>1. born' = born /\ next_id' = next_id /\ slots' = Invalidate(CollectSubtree(i) \cap HeldSlots)
    BY <1>6 DEF Revoke
  <2>2. \A j \in Slot : Held(j)' => Held(j) /\ slots'[j] = slots[j]
    BY <2>1, FreedNotHeld
  <2>3. QED
    BY <1>1, <2>1, <2>2, FreeingStep
<1>7. ASSUME UNCHANGED <<slots, next_id, born>> PROVE AuthorityInv'
  <2>1. \A i \in Slot : Held(i)' => Held(i) /\ slots'[i] = slots[i]
    BY <1>7 DEF Held
  <2>2. QED
    BY <1>1, <1>7, <2>1, FreeingStep
<1>8. ASSUME NEW i \in Slot, RevokeHangs(i) PROVE AuthorityInv'
  BY <1>7, <1>8 DEF RevokeHangs
<1>9. CASE IncrementEpoch
  BY <1>7, <1>9 DEF IncrementEpoch
<1>10. CASE UNCHANGED vars
  BY <1>7, <1>10 DEF vars
<1>11. QED
  BY <1>2, <1>3, <1>4, <1>5, <1>6, <1>8, <1>9, <1>10 DEF Next

\* The inductive invariant behind attenuation and single delegation.
THEOREM AuthorityInvariant == Spec => []AuthorityInv
<1>1. QED
  BY InitAuthority, NextAuthority, PTL DEF Spec

\* However many grants, refusals and revocations happen, a live capability holds no
\* right that one of its ancestors was created without (validate_grant).
THEOREM AttenuationHolds == Spec => []Attenuation
<1>1. AuthorityInv => Attenuation
  <2> SUFFICES ASSUME AuthorityInv, NEW i \in Slot, Held(i),
                      NEW a \in born[slots[i].id].ancestors
               PROVE  slots[i].rights \subseteq born[a].rights
    BY DEF Attenuation
  <2>1. slots[i].id \in Id /\ Born(slots[i].id)
        /\ slots[i].rights \subseteq born[slots[i].id].rights
    BY DEF AuthorityInv, HeldSlotsBorn
  <2>2. born[slots[i].id].rights \subseteq born[a].rights
    BY <2>1 DEF AuthorityInv, BirthsAttenuate
  <2>3. QED
    BY <2>1, <2>2
<1>2. QED
  BY <1>1, AuthorityInvariant, PTL

\* A capability created with GRANT_ONCE as its only authority to delegate has at
\* most one child in the whole history of the manager (grant_with_caller, Fix 5).
THEOREM GrantOnceSpentHolds == Spec => []GrantOnceSpent
<1>1. AuthorityInv => GrantOnceSpent
  BY DEF AuthorityInv
<1>2. QED
  BY <1>1, AuthorityInvariant, PTL

-----------------------------------------------------------------------------
(* Depths. *)

\* No capability descends from itself: its ancestors were there before it.
NotOwnAncestor == \A c \in Id : Born(c) => c \notin born[c].ancestors

DepthInv == AuthorityInv /\ NotOwnAncestor /\ DepthIsAncestry

\* A birth from p, of depth d, in slot i; the other slots keep id and depth.
LEMMA BirthDepth ==
  ASSUME DepthInv, TypeOK', NEW i \in Slot, NEW rights, NEW p \in 0 .. MaxId, NEW d \in 0 .. MaxDepth,
         next_id \in Id, born' = [born EXCEPT ![next_id] = Birth(i, rights, p)],
         slots'[i].id = next_id, slots'[i].depth = d,
         \A j \in Slot : j # i =>
           (Held(j)' <=> Held(j)) /\ slots'[j].id = slots[j].id /\ slots'[j].depth = slots[j].depth,
         IF p = 0 THEN d = 0
         ELSE Born(p) /\ d = Cardinality(born[p].ancestors) + 1
  PROVE  NotOwnAncestor' /\ DepthIsAncestry'
<1>1. born \in [Id -> BirthRecord] /\ next_id \in Id /\ ~Born(next_id)
  <2>1. next_id >= next_id
    BY DEF Id
  <2> QED BY <2>1 DEF DepthInv, AuthorityInv, TypeOK, IdsFresh
<1>2. \A c \in Id : c # next_id => born'[c] = born[c]
  BY <1>1
<1>3. born'[next_id].ancestors = IF p = 0 THEN {} ELSE born[p].ancestors \cup {p}
  BY <1>1 DEF Birth
<1>4. p # 0 => /\ p \in Id /\ p # next_id /\ p \notin born[p].ancestors
               /\ born[p].ancestors \in SUBSET Id /\ next_id \notin born[p].ancestors
  <2> SUFFICES ASSUME p # 0
               PROVE  /\ p \in Id /\ p # next_id /\ p \notin born[p].ancestors
                      /\ born[p].ancestors \in SUBSET Id /\ next_id \notin born[p].ancestors
    OBVIOUS
  <2>1. p \in Id /\ Born(p)
    BY DEF Id
  <2>2. p # next_id /\ p \notin born[p].ancestors /\ born[p] \in BirthRecord
    BY <1>1, <2>1 DEF DepthInv, NotOwnAncestor
  <2>3. \A a \in born[p].ancestors : Born(a)
    BY <2>1 DEF DepthInv, AuthorityInv, BirthsAttenuate
  <2> QED BY <1>1, <2>1, <2>2, <2>3 DEF BirthRecord
<1>5. next_id \notin born'[next_id].ancestors
  BY <1>3, <1>4
<1>6. NotOwnAncestor'
  <2>1. ASSUME NEW c \in Id, Born(c)' PROVE c \notin born'[c].ancestors
    <3>1. CASE c = next_id
      BY <1>5, <3>1
    <3>2. CASE c # next_id
      <4>1. Born(c) /\ born'[c] = born[c]
        BY <1>2, <2>1, <3>2 DEF Born
      <4> QED BY <4>1 DEF DepthInv, NotOwnAncestor
    <3> QED BY <3>1, <3>2
  <2> QED BY <2>1 DEF NotOwnAncestor
<1>7. d = Cardinality(born'[next_id].ancestors)
  <2>1. CASE p = 0
    BY <1>3, <2>1, FS_EmptySet
  <2>2. CASE p # 0
    <3>1. IsFiniteSet(Id)
      <4>1. 1 \in Int /\ MaxId \in Int
        OBVIOUS
      <4> QED BY <4>1, FS_Interval DEF Id
    <3>2. IsFiniteSet(born[p].ancestors)
      BY <1>4, <2>2, <3>1, FS_Subset
    <3>3. Cardinality(born[p].ancestors \cup {p}) = Cardinality(born[p].ancestors) + 1
      BY <1>4, <2>2, <3>2, FS_AddElement
    <3> QED BY <1>3, <2>2, <3>3
  <2> QED BY <2>1, <2>2
<1>8. ASSUME NEW j \in Slot, Held(j)'
      PROVE  slots'[j].depth = Cardinality(born'[slots'[j].id].ancestors) /\ slots'[j].depth <= MaxDepth
  <2>1. CASE j = i
    <3>1. slots'[j].id = next_id /\ slots'[j].depth = d /\ d <= MaxDepth
      BY <2>1
    <3> QED BY <1>7, <3>1
  <2>2. CASE j # i
    <3>1. Held(j) /\ slots'[j].id = slots[j].id /\ slots'[j].depth = slots[j].depth
      BY <1>8, <2>2
    <3>2. slots[j].id \in Id /\ Born(slots[j].id)
      BY <3>1 DEF DepthInv, AuthorityInv, HeldSlotsBorn
    <3>3. born'[slots[j].id] = born[slots[j].id]
      BY <1>1, <1>2, <3>2
    <3>4. slots[j].depth = Cardinality(born[slots[j].id].ancestors) /\ slots[j].depth <= MaxDepth
      BY <3>1 DEF DepthInv, DepthIsAncestry
    <3> QED BY <3>1, <3>3, <3>4
  <2> QED BY <2>1, <2>2
<1> QED BY <1>6, <1>8 DEF DepthIsAncestry

\* A step that bears nothing and only frees slots keeps the depths.
LEMMA FreeingDepth ==
  ASSUME DepthInv, born' = born, \A i \in Slot : Held(i)' => Held(i) /\ slots'[i] = slots[i]
  PROVE  NotOwnAncestor' /\ DepthIsAncestry'
<1>1. NotOwnAncestor'
  BY DEF DepthInv, NotOwnAncestor, Born
<1>2. ASSUME NEW i \in Slot, Held(i)'
      PROVE  slots'[i].depth = Cardinality(born'[slots'[i].id].ancestors) /\ slots'[i].depth <= MaxDepth
  <2>1. Held(i) /\ slots'[i] = slots[i]
    BY <1>2
  <2> QED BY <2>1 DEF DepthInv, DepthIsAncestry
<1> QED BY <1>1, <1>2 DEF DepthIsAncestry

\* Every operation keeps the depths.
LEMMA NextDepth == DepthInv /\ [Next]_vars => DepthInv'
<1> SUFFICES ASSUME DepthInv, [Next]_vars PROVE DepthInv'
  OBVIOUS
<1>1. AuthorityInv' /\ TypeOK' /\ TypeOK /\ AuthorityInv
  BY NextAuthority DEF DepthInv, AuthorityInv
<1> DEFINE Kept == NotOwnAncestor' /\ DepthIsAncestry'
<1>2. ASSUME NEW rights \in RightsChoices, CreateRoot(rights) PROVE Kept
  <2>1. PICK i \in Slot :
          /\ slots' = [slots EXCEPT ![i] = NewSlot(i, rights, 0, U32MAX)]
          /\ born' = [born EXCEPT ![next_id] = Birth(i, rights, 0)]
    BY <1>2 DEF CreateRoot
  <2>2. next_id \in Id
    BY <1>1, <1>2 DEF CreateRoot, TypeOK, Id
  <2>3. /\ slots'[i].id = next_id /\ slots'[i].depth = 0
        /\ \A j \in Slot : j # i => slots'[j] = slots[j] /\ (Held(j)' <=> Held(j))
    BY <1>1, <2>1 DEF NewSlot, Held, TypeOK
  <2>4. 0 \in 0 .. MaxId /\ 0 \in 0 .. MaxDepth
    OBVIOUS
  <2> QED BY <1>1, <2>1, <2>2, <2>3, <2>4, BirthDepth
<1>3. ASSUME NEW s \in Slot, NEW rights \in RightsChoices, Grant(s, rights) PROVE Kept
  <2>1. PICK i \in Slot :
          /\ Free(i)
          /\ slots' = [slots EXCEPT ![i] = NewSlot(i, rights, slots[s].depth + 1, s),
                                    ![s].rights = SourceRightsAfter(s)]
          /\ born' = [born EXCEPT ![next_id] = Birth(i, rights, slots[s].id)]
    BY <1>3 DEF Grant, FindFreeSlot
  <2>2. next_id \in Id /\ Held(s) /\ i # s /\ slots[s].depth + 1 <= MaxDepth
    <3>1. next_id \in Id
      BY <1>1, <1>3 DEF Grant, TypeOK, Id
    <3>2. Held(s) /\ slots[s].depth + 1 <= MaxDepth
      BY <1>3 DEF Grant, GrantValid
    <3>3. i # s
      BY <2>1, <3>2 DEF Held, Free
    <3> QED BY <3>1, <3>2, <3>3
  <2>3. /\ slots'[i].id = next_id /\ slots'[i].depth = slots[s].depth + 1
        /\ \A j \in Slot : j # i => /\ slots'[j].id = slots[j].id /\ slots'[j].depth = slots[j].depth
                                    /\ (Held(j)' <=> Held(j))
    BY <1>1, <2>1, <2>2 DEF NewSlot, Held, TypeOK, SlotRecord
  <2>4. slots[s].id \in Id /\ Born(slots[s].id)
    BY <1>1, <2>2 DEF AuthorityInv, HeldSlotsBorn
  <2>5. slots[s].depth = Cardinality(born[slots[s].id].ancestors) /\ slots[s].depth \in 0 .. MaxDepth
    BY <1>1, <2>2 DEF DepthInv, DepthIsAncestry, TypeOK, SlotRecord
  <2>6. slots[s].id \in 0 .. MaxId /\ slots[s].id # 0 /\ slots[s].depth + 1 \in 0 .. MaxDepth
    BY <2>2, <2>4, <2>5 DEF Id
  <2> QED BY <1>1, <2>1, <2>2, <2>3, <2>4, <2>5, <2>6, BirthDepth
<1>4. ASSUME NEW s \in Slot, NEW rights \in RightsChoices, GrantRolledBack(s, rights) PROVE Kept
  <2>1. \A i \in Slot : Held(i)' => Held(i) /\ slots'[i] = slots[i]
    BY <1>1, <1>4 DEF GrantRolledBack, Held, EmptySlot, TypeOK
  <2> QED BY <1>4, <2>1, FreeingDepth DEF GrantRolledBack
<1>5. ASSUME NEW i \in Slot, Revoke(i) PROVE Kept
  <2>1. slots' = Invalidate(CollectSubtree(i) \cap HeldSlots) /\ born' = born
    BY <1>5 DEF Revoke
  <2> QED BY <2>1, FreedNotHeld, FreeingDepth
<1>6. ASSUME UNCHANGED <<slots, born>> PROVE Kept
  <2>1. \A i \in Slot : Held(i)' => Held(i) /\ slots'[i] = slots[i]
    BY <1>6 DEF Held
  <2> QED BY <1>6, <2>1, FreeingDepth
<1>7. IdSpent => Kept
  BY <1>6 DEF IdSpent
<1>8. ASSUME NEW i \in Slot, RevokeHangs(i) PROVE Kept
  BY <1>6, <1>8 DEF RevokeHangs
<1>9. IncrementEpoch => Kept
  BY <1>6 DEF IncrementEpoch
<1>10. UNCHANGED vars => Kept
  BY <1>6 DEF vars
<1> HIDE DEF Kept
<1>11. Kept
  BY <1>2, <1>3, <1>4, <1>5, <1>7, <1>8, <1>9, <1>10 DEF Next
<1> QED BY <1>1, <1>11 DEF Kept, DepthInv

\* A chain of delegation is never longer than max_depth: the depth validate_grant compares
\* is the number of ancestors the capability has, however slots are used again.
THEOREM DepthHolds == Spec => []DepthIsAncestry
<1>1. Init => DepthInv
  <2>1. ASSUME Init PROVE NotOwnAncestor /\ DepthIsAncestry
    BY <2>1 DEF Init, NotOwnAncestor, DepthIsAncestry, Born, NotBorn, Held, EmptySlot
  <2> QED BY <2>1, InitAuthority DEF DepthInv
<1>2. DepthInv => DepthIsAncestry
  BY DEF DepthInv
<1> QED BY <1>1, <1>2, NextDepth, PTL DEF Spec

-----------------------------------------------------------------------------
(* Handles and the table's count. *)

\* The n-th user of a slot has generation g: the generations run through
\* 1 .. u32::MAX - 1 and start again.
OnLap(n, g) == \E lap \in Nat : n = lap * (U32MAX - 1) + g

\* The generation after the n-th use of a slot is that of use n + 1.
LEMMA LapNext ==
  ASSUME NEW n \in Nat, NEW g \in 1 .. U32MAX - 1, OnLap(n, g)
  PROVE  OnLap(n + 1, IF g = U32MAX - 1 THEN 1 ELSE g + 1)
<1>1. PICK lap \in Nat : n = lap * (U32MAX - 1) + g
  BY DEF OnLap
<1>2. CASE g = U32MAX - 1
  <2>1. (lap + 1) * (U32MAX - 1) = lap * (U32MAX - 1) + (U32MAX - 1)
    OBVIOUS
  <2>2. n + 1 = (lap + 1) * (U32MAX - 1) + 1 /\ lap + 1 \in Nat
    BY <1>1, <1>2, <2>1
  <2>3. QED
    BY <1>2, <2>2 DEF OnLap
<1>3. CASE g # U32MAX - 1
  <2>1. n + 1 = lap * (U32MAX - 1) + (g + 1)
    BY <1>1
  <2>2. QED
    BY <1>3, <2>1 DEF OnLap
<1>4. QED
  BY <1>2, <1>3

\* Equal generations lie at least U32MAX - 1 uses apart.
LEMMA LapWindow ==
  ASSUME NEW n \in Nat, NEW m \in Nat, n < m, NEW g \in 1 .. U32MAX - 1,
         OnLap(n, g), OnLap(m, g)
  PROVE  m - n >= U32MAX - 1
<1>1. PICK j \in Nat : n = j * (U32MAX - 1) + g
  BY DEF OnLap
<1>2. PICK k \in Nat : m = k * (U32MAX - 1) + g
  BY DEF OnLap
<1>3. j < k
  <2>1. CASE k <= j
    <3>1. k * (U32MAX - 1) <= j * (U32MAX - 1)
      BY <2>1
    <3>2. QED
      BY <1>1, <1>2, <3>1
  <2>2. QED
    BY <2>1
<1>4. PICK e \in Nat : k = j + 1 + e
  <2>1. k - (j + 1) \in Nat
    BY <1>3
  <2>2. QED
    BY <2>1
<1>5. k * (U32MAX - 1) = j * (U32MAX - 1) + (U32MAX - 1) + e * (U32MAX - 1)
  BY <1>4
<1>6. e * (U32MAX - 1) >= 0
  OBVIOUS
<1>7. QED
  BY <1>1, <1>2, <1>5, <1>6

\* A held slot is on its lap, and a free slot will be when it is taken.
SlotsOnLap ==
  /\ \A i \in Slot : Held(i) => OnLap(uses[i], slots[i].generation)
  /\ \A i \in Slot : Free(i) =>
       /\ slots[i].parent_index \in 1 .. U32MAX
       /\ OnLap(uses[i] + 1, NextGeneration(i))

\* So was every capability when it was born, and a slot's users come in order.
BirthsOnLap ==
  /\ \A c \in Id : c >= next_id => ~Born(c)
  /\ \A c \in Id : Born(c) =>
       /\ born[c].generation \in 1 .. U32MAX - 1
       /\ OnLap(born[c].nth, born[c].generation)
       /\ born[c].nth <= uses[born[c].slot]
  /\ \A c, d \in Id : (Born(c) /\ Born(d) /\ c < d /\ born[c].slot = born[d].slot)
       => born[c].nth < born[d].nth

\* count is the number of slots held.
TableCount == count = Cardinality(HeldSlots)

HandleInv == TypeOK /\ SlotsOnLap /\ BirthsOnLap /\ TableCount

\* No slot of the empty manager was used.
LEMMA InitHandle == Init => HandleInv
<1> SUFFICES ASSUME Init PROVE HandleInv
  OBVIOUS
<1>1. TypeOK
  BY InitType
<1>2. \A i \in Slot : Free(i) /\ ~Held(i) /\ slots[i].parent_index = U32MAX /\ uses[i] = 0
  BY DEF Init, Free, Held, EmptySlot
<1>3. OnLap(1, 1)
  <2>1. 0 * (U32MAX - 1) + 1 = 1
    OBVIOUS
  <2>2. QED
    BY <2>1 DEF OnLap
<1>4. SlotsOnLap
  BY <1>2, <1>3 DEF SlotsOnLap, NextGeneration
<1>5. BirthsOnLap
  BY DEF Init, BirthsOnLap, Born, NotBorn
<1>6. TableCount
  <2>1. HeldSlots = {}
    BY <1>2 DEF HeldSlots
  <2>2. QED
    BY <2>1, FS_EmptySet DEF TableCount, Init
<1>7. QED
  BY <1>1, <1>4, <1>5, <1>6 DEF HandleInv

\* Taking a free slot for a new capability keeps the invariant.
LEMMA TakeSlot ==
  ASSUME HandleInv, TypeOK', NEW i \in Slot, Free(i), NEW rights, NEW p,
         next_id \in Id, next_id' = next_id + 1, count' = count + 1,
         slots'[i].generation = NextGeneration(i),
         \A j \in Slot : j # i => /\ slots'[j].generation = slots[j].generation
                                  /\ slots'[j].parent_index = slots[j].parent_index,
         born' = [born EXCEPT ![next_id] = Birth(i, rights, p)],
         uses' = [uses EXCEPT ![i] = @ + 1]
  PROVE  HandleInv'
<1>1. NextGeneration(i) \in 1 .. U32MAX - 1 /\ OnLap(uses[i] + 1, NextGeneration(i))
  BY DEF HandleInv, SlotsOnLap, NextGeneration
<1>2. uses[i] \in Nat /\ uses'[i] = uses[i] + 1
      /\ \A j \in Slot : j # i => uses'[j] = uses[j]
  BY DEF HandleInv, TypeOK
<1>3. SlotsOnLap'
  <2> SUFFICES ASSUME NEW j \in Slot
               PROVE  /\ Held(j)' => OnLap(uses'[j], slots'[j].generation)
                      /\ Free(j)' => /\ slots'[j].parent_index \in 1 .. U32MAX
                                     /\ OnLap(uses'[j] + 1, NextGeneration(j)')
    BY DEF SlotsOnLap, OnLap
  <2>1. CASE j = i
    BY <1>1, <1>2, <2>1 DEF Held, Free
  <2>2. CASE j # i
    BY <1>2, <2>2 DEF Held, Free, NextGeneration, HandleInv, SlotsOnLap
  <2>3. QED
    BY <2>1, <2>2
<1>4. ~Born(next_id)
  <2>1. next_id >= next_id
    BY DEF Id
  <2>2. QED
    BY <2>1 DEF HandleInv, BirthsOnLap
<1>5. \A c \in Id : c # next_id => born'[c] = born[c]
  BY DEF HandleInv, TypeOK
<1>6. /\ born'[next_id].generation = NextGeneration(i) /\ born'[next_id].slot = i
      /\ born'[next_id].nth = uses[i] + 1
  BY DEF HandleInv, TypeOK, Birth
<1>7. \A c \in Id : Born(c)' <=> (Born(c) \/ c = next_id)
  BY <1>2, <1>5, <1>6 DEF Born
<1>8. ASSUME NEW c \in Id, Born(c), c # next_id
      PROVE  /\ born'[c] = born[c] /\ born[c].slot \in Slot /\ born[c].nth \in Nat
             /\ born[c].nth <= uses[born[c].slot]
             /\ c < next_id
  <2>1. born[c].slot \in Slot /\ born[c].nth \in Nat
    BY DEF HandleInv, TypeOK, BirthRecord
  <2>2. c < next_id
    BY <1>8 DEF HandleInv, BirthsOnLap, Id
  <2>3. QED
    BY <1>5, <1>8, <2>1, <2>2 DEF HandleInv, BirthsOnLap
<1>9. BirthsOnLap'
  <2>1. ASSUME NEW c \in Id, c >= next_id' PROVE ~Born(c)'
    BY <1>7, <2>1 DEF HandleInv, BirthsOnLap, Id
  <2>2. ASSUME NEW c \in Id, Born(c)'
        PROVE  /\ born'[c].generation \in 1 .. U32MAX - 1
               /\ OnLap(born'[c].nth, born'[c].generation)
               /\ born'[c].nth <= uses'[born'[c].slot]
    <3>1. CASE c = next_id
      BY <1>1, <1>2, <1>6, <3>1
    <3>2. CASE c # next_id
      <4>1. Born(c)
        BY <1>7, <2>2, <3>2
      <4>2. /\ born[c].generation \in 1 .. U32MAX - 1
            /\ OnLap(born[c].nth, born[c].generation)
        BY <4>1 DEF HandleInv, BirthsOnLap
      <4>3. uses[born[c].slot] \in Nat /\ uses[born[c].slot] <= uses'[born[c].slot]
        BY <1>2, <1>8, <3>2, <4>1 DEF HandleInv, TypeOK
      <4>4. QED
        BY <1>8, <1>2, <3>2, <4>1, <4>2, <4>3
    <3>3. QED
      BY <3>1, <3>2
  <2>3. ASSUME NEW c \in Id, NEW d \in Id, Born(c)', Born(d)', c < d,
               born'[c].slot = born'[d].slot
        PROVE  born'[c].nth < born'[d].nth
    <3>1. c # next_id
      BY <1>7, <1>8, <2>3 DEF Id
    <3>2. CASE d = next_id
      BY <1>2, <1>6, <1>7, <1>8, <2>3, <3>1, <3>2
    <3>3. CASE d # next_id
      BY <1>5, <1>7, <2>3, <3>1, <3>3 DEF HandleInv, BirthsOnLap
    <3>4. QED
      BY <3>2, <3>3
  <2>4. QED
    BY <2>1, <2>2, <2>3 DEF BirthsOnLap, OnLap
<1>10. TableCount'
  <2>1. HeldSlots' = HeldSlots \cup {i} /\ i \notin HeldSlots
    BY <1>1 DEF HeldSlots, Held, Free
  <2>2. IsFiniteSet(HeldSlots)
    BY SlotSetFinite DEF HeldSlots
  <2>3. QED
    BY <2>1, <2>2, FS_AddElement DEF HandleInv, TableCount
<1>11. QED
  BY <1>3, <1>9, <1>10 DEF HandleInv

\* Freeing held slots keeps the invariant: their generation moves on.
LEMMA FreeSlots ==
  ASSUME HandleInv, TypeOK', NEW S \in SUBSET HeldSlots, slots' = Invalidate(S),
         count' = count - Cardinality(S), UNCHANGED <<next_id, born, uses>>
  PROVE  HandleInv'
<1>1. SlotsOnLap'
  <2> SUFFICES ASSUME NEW j \in Slot
               PROVE  /\ Held(j)' => OnLap(uses[j], slots'[j].generation)
                      /\ Free(j)' => /\ slots'[j].parent_index \in 1 .. U32MAX
                                     /\ OnLap(uses[j] + 1, NextGeneration(j)')
    BY DEF SlotsOnLap, OnLap
  <2>1. CASE j \in S
    <3>1. Held(j) /\ slots[j].generation \in 1 .. U32MAX - 1
          /\ OnLap(uses[j], slots[j].generation) /\ uses[j] \in Nat
      BY <2>1 DEF HeldSlots, Held, HandleInv, TypeOK, SlotRecord, SlotsOnLap
    <3>2. slots'[j].generation = 0 /\ slots'[j].parent_index = slots[j].generation + 1
      BY <2>1, <3>1, BumpedGenerationType DEF Invalidate, EmptySlot
    <3>3. NextGeneration(j)' = IF slots[j].generation = U32MAX - 1 THEN 1
                               ELSE slots[j].generation + 1
      BY <3>1, <3>2 DEF NextGeneration
    <3>4. OnLap(uses[j] + 1, NextGeneration(j)')
      BY <3>1, <3>3, LapNext
    <3>5. QED
      BY <3>1, <3>2, <3>4 DEF Held
  <2>2. CASE j \notin S
    <3>1. slots'[j] = slots[j]
      BY <2>2 DEF Invalidate
    <3>2. QED
      BY <3>1 DEF Held, Free, NextGeneration, HandleInv, SlotsOnLap
  <2>3. QED
    BY <2>1, <2>2
<1>2. BirthsOnLap'
  BY DEF HandleInv, BirthsOnLap, Born, OnLap
<1>3. TableCount'
  <2>1. HeldSlots' = HeldSlots \ S
    BY DEF HeldSlots, Held, Invalidate, EmptySlot
  <2>2. IsFiniteSet(HeldSlots) /\ HeldSlots \cap S = S
    <3>1. HeldSlots \in SUBSET Slot
      BY DEF HeldSlots
    <3>2. QED
      BY <3>1, SlotSetFinite
  <2>3. Cardinality(HeldSlots \ S) = Cardinality(HeldSlots) - Cardinality(S)
    BY <2>2, FS_Difference
  <2>4. QED
    BY <2>1, <2>3 DEF HandleInv, TableCount
<1>4. QED
  BY <1>1, <1>2, <1>3 DEF HandleInv

\* A rolled back grant spends one generation of its slot.
LEMMA GrantRolledBackHandle ==
  ASSUME HandleInv, TypeOK', NEW s \in Slot, NEW rights \in RightsChoices,
         GrantRolledBack(s, rights)
  PROVE  HandleInv'
<1>1. PICK c \in Slot :
        /\ Free(c)
        /\ slots' = [slots EXCEPT ![c] = EmptySlot(BumpedGeneration(NextGeneration(c)))]
        /\ uses' = [uses EXCEPT ![c] = @ + 1]
  BY DEF GrantRolledBack, FindFreeSlot
<1>2. born' = born /\ next_id' = next_id + 1 /\ count' = count
  BY DEF GrantRolledBack
<1>3. /\ uses[c] \in Nat /\ uses'[c] = uses[c] + 1
      /\ \A j \in Slot : j # c => uses'[j] = uses[j] /\ slots'[j] = slots[j]
  BY <1>1 DEF HandleInv, TypeOK
<1>4. NextGeneration(c) \in 1 .. U32MAX - 1 /\ OnLap(uses[c] + 1, NextGeneration(c))
  BY <1>1 DEF HandleInv, SlotsOnLap, NextGeneration
<1>5. slots'[c].generation = 0 /\ slots'[c].parent_index = NextGeneration(c) + 1
  BY <1>1, <1>4, BumpedGenerationType DEF EmptySlot, HandleInv, TypeOK
<1>6. NextGeneration(c)' = IF NextGeneration(c) = U32MAX - 1 THEN 1 ELSE NextGeneration(c) + 1
  <2>1. NextGeneration(c)' = IF slots'[c].parent_index = U32MAX THEN 1 ELSE slots'[c].parent_index
    BY DEF NextGeneration
  <2>2. QED
    BY <1>4, <1>5, <2>1
<1>7. OnLap(uses'[c] + 1, NextGeneration(c)')
  BY <1>3, <1>4, <1>6, LapNext
<1>8. SlotsOnLap'
  <2> SUFFICES ASSUME NEW j \in Slot
               PROVE  /\ Held(j)' => OnLap(uses'[j], slots'[j].generation)
                      /\ Free(j)' => /\ slots'[j].parent_index \in 1 .. U32MAX
                                     /\ OnLap(uses'[j] + 1, NextGeneration(j)')
    BY DEF SlotsOnLap, OnLap
  <2>1. CASE j = c
    BY <1>4, <1>5, <1>7, <2>1 DEF Held
  <2>2. CASE j # c
    BY <1>3, <2>2 DEF Held, Free, NextGeneration, HandleInv, SlotsOnLap
  <2>3. QED
    BY <2>1, <2>2
<1>9. BirthsOnLap'
  <2>1. ASSUME NEW b \in Id, b >= next_id' PROVE ~Born(b)'
    BY <1>2, <2>1 DEF HandleInv, BirthsOnLap, Born, TypeOK, Id
  <2>2. ASSUME NEW b \in Id, Born(b)'
        PROVE  /\ born[b].generation \in 1 .. U32MAX - 1
               /\ OnLap(born[b].nth, born[b].generation)
               /\ born[b].nth <= uses'[born[b].slot]
    <3>1. Born(b)
      BY <1>2, <2>2 DEF Born
    <3>2. born[b].slot \in Slot /\ born[b].nth \in Nat
      BY DEF HandleInv, TypeOK, BirthRecord
    <3>3. uses[born[b].slot] \in Nat /\ uses[born[b].slot] <= uses'[born[b].slot]
      BY <1>3, <3>2 DEF HandleInv, TypeOK
    <3>4. QED
      BY <1>3, <3>1, <3>2, <3>3 DEF HandleInv, BirthsOnLap
  <2>3. QED
    BY <1>2, <2>1, <2>2 DEF HandleInv, BirthsOnLap, Born, OnLap
<1>10. TableCount'
  <2>1. HeldSlots' = HeldSlots
    BY <1>1, <1>3, <1>5 DEF HeldSlots, Held, Free
  <2>2. QED
    BY <1>2, <2>1 DEF HandleInv, TableCount
<1>11. QED
  BY <1>8, <1>9, <1>10 DEF HandleInv

\* Every operation preserves the generation discipline.
LEMMA NextHandle == HandleInv /\ [Next]_vars => HandleInv'
<1> SUFFICES ASSUME HandleInv, [Next]_vars PROVE HandleInv'
  OBVIOUS
<1>1. TypeOK'
  BY NextType DEF HandleInv
<1>2. ASSUME NEW rights \in RightsChoices, CreateRoot(rights) PROVE HandleInv'
  <2>1. PICK i \in Slot :
          /\ Free(i)
          /\ slots' = [slots EXCEPT ![i] = NewSlot(i, rights, 0, U32MAX)]
          /\ born' = [born EXCEPT ![next_id] = Birth(i, rights, 0)]
          /\ uses' = [uses EXCEPT ![i] = @ + 1]
    BY <1>2 DEF CreateRoot, FindFreeSlot
  <2>2. next_id \in Id /\ next_id' = next_id + 1 /\ count' = count + 1
    BY <1>2 DEF CreateRoot, HandleInv, TypeOK, Id
  <2>3. /\ slots'[i].generation = NextGeneration(i)
        /\ \A j \in Slot : j # i => slots'[j] = slots[j]
    BY <2>1 DEF NewSlot, HandleInv, TypeOK
  <2>4. QED
    BY <1>1, <2>1, <2>2, <2>3, TakeSlot
<1>3. ASSUME NEW s \in Slot, NEW rights \in RightsChoices, Grant(s, rights)
      PROVE  HandleInv'
  <2>1. PICK i \in Slot :
          /\ Free(i)
          /\ slots' = [slots EXCEPT ![i] = NewSlot(i, rights, slots[s].depth + 1, s),
                                    ![s].rights = SourceRightsAfter(s)]
          /\ born' = [born EXCEPT ![next_id] = Birth(i, rights, slots[s].id)]
          /\ uses' = [uses EXCEPT ![i] = @ + 1]
    BY <1>3 DEF Grant, FindFreeSlot
  <2>2. next_id \in Id /\ next_id' = next_id + 1 /\ count' = count + 1
    BY <1>3 DEF Grant, HandleInv, TypeOK, Id
  <2>3. Held(s)
    BY <1>3 DEF Grant
  <2>4. i # s
    BY <2>1, <2>3 DEF Held, Free
  <2>5. /\ slots'[i].generation = NextGeneration(i)
        /\ \A j \in Slot : j # i => /\ slots'[j].generation = slots[j].generation
                                    /\ slots'[j].parent_index = slots[j].parent_index
    BY <2>1, <2>4 DEF NewSlot, HandleInv, TypeOK, SlotRecord
  <2>6. QED
    BY <1>1, <2>1, <2>2, <2>5, TakeSlot
<1>4. ASSUME NEW s \in Slot, NEW rights \in RightsChoices, GrantRolledBack(s, rights)
      PROVE  HandleInv'
  BY <1>1, <1>4, GrantRolledBackHandle
<1>5. ASSUME UNCHANGED <<slots, count, born, uses>>, next_id' \in {next_id, next_id + 1}
      PROVE  HandleInv'
  <2>1. SlotsOnLap'
    BY <1>5 DEF HandleInv, SlotsOnLap, Held, Free, NextGeneration, OnLap
  <2>2. ASSUME NEW b \in Id, b >= next_id' PROVE ~Born(b)'
    BY <1>5, <2>2 DEF HandleInv, BirthsOnLap, Born, TypeOK, Id
  <2>3. BirthsOnLap'
    BY <1>5, <2>2 DEF HandleInv, BirthsOnLap, Born, OnLap
  <2>4. TableCount'
    BY <1>5 DEF HandleInv, TableCount, HeldSlots, Held
  <2>5. QED
    BY <1>1, <2>1, <2>3, <2>4 DEF HandleInv
<1>6. CASE IdSpent
  BY <1>5, <1>6 DEF IdSpent
<1>7. ASSUME NEW i \in Slot, Revoke(i) PROVE HandleInv'
  <2> DEFINE freed == CollectSubtree(i) \cap HeldSlots
  <2>1. /\ slots' = Invalidate(freed) /\ count' = count - Cardinality(freed)
        /\ UNCHANGED <<next_id, born, uses>>
    BY <1>7 DEF Revoke
  <2>2. freed \in SUBSET HeldSlots
    OBVIOUS
  <2> HIDE DEF freed
  <2>3. QED
    BY <1>1, <2>1, <2>2, FreeSlots
<1>8. ASSUME NEW i \in Slot, RevokeHangs(i) PROVE HandleInv'
  BY <1>5, <1>8 DEF RevokeHangs
<1>9. CASE IncrementEpoch
  BY <1>5, <1>9 DEF IncrementEpoch
<1>10. CASE UNCHANGED vars
  BY <1>5, <1>10 DEF vars
<1>11. QED
  BY <1>2, <1>3, <1>4, <1>6, <1>7, <1>8, <1>9, <1>10 DEF Next

\* The invariant behind the two theorems on handles and counts.
THEOREM HandleInvariant == Spec => []HandleInv
<1>1. QED
  BY InitHandle, NextHandle, PTL DEF Spec

\* A stale handle cannot name a newer capability before its slot has been taken
\* u32::MAX - 1 more times, for every width of the generation (table.rs).
THEOREM HandleReuseWindowHolds == Spec => []HandleReuseWindow
<1>1. HandleInv => HandleReuseWindow
  <2> SUFFICES ASSUME HandleInv, NEW c \in Id, NEW d \in Id, Born(c), Born(d), c < d,
                      born[c].slot = born[d].slot,
                      born[c].generation = born[d].generation
               PROVE  born[d].nth - born[c].nth >= U32MAX - 1
    BY DEF HandleReuseWindow
  <2>1. /\ born[c].generation \in 1 .. U32MAX - 1
        /\ OnLap(born[c].nth, born[c].generation)
        /\ OnLap(born[d].nth, born[c].generation)
        /\ born[c].nth < born[d].nth
    BY DEF HandleInv, BirthsOnLap
  <2>2. born[c].nth \in Nat /\ born[d].nth \in Nat
    BY DEF HandleInv, TypeOK, BirthRecord
  <2>3. QED
    BY <2>1, <2>2, LapWindow
<1>2. QED
  BY <1>1, HandleInvariant, PTL

(* The three together, which is what the capability table promises about   *)
(* authority, for every table size, counter width and depth limit.         *)
THEOREM AuthorityHolds == Spec => []AuthoritySound
BY AttenuationHolds, GrantOnceSpentHolds, HandleReuseWindowHolds, PTL DEF AuthoritySound
=============================================================================
