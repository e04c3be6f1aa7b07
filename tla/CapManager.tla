----------------------------- MODULE CapManager -----------------------------
(***************************************************************************)
(* The capability manager of rvm-cap: the slot table with its generation   *)
(* counters (table.rs), the nodes of the derivation tree over the same     *)
(* slot indices (derivation.rs, walked by DerivationTree), granting        *)
(* with attenuation (grant.rs), revocation (revoke.rs), the P1 and P3      *)
(* checks (verify.rs) and the manager that drives them (manager.rs).       *)
(*                                                                         *)
(* A handle is a slot index and a generation; an operation on a handle     *)
(* that the table does not hold changes nothing and is not a step, so the  *)
(* operations below take a held slot.  grant_checked and                   *)
(* create_root_capability_checked refuse some of the calls that grant and  *)
(* create_root_capability accept and do nothing else, so owners and badges *)
(* are left out.  A failed grant or creation is a step: it spends an id.   *)
(* track_derivation is TRUE, the only value the repository uses.           *)
(*                                                                         *)
(* A definition whose name starts with Bug is a plausible slip in the      *)
(* definition after it, kept to show that the properties notice it.        *)
(*                                                                         *)
(* Fields no code reads again are reset: the token of a free slot, and     *)
(* every field of an invalid node except next_sibling, which the sibling   *)
(* walks still follow.                                                     *)
(***************************************************************************)
EXTENDS DerivationTree

CONSTANTS
  Rights,          \* the capability rights
  GRANT,           \* the right to delegate
  GRANT_ONCE,      \* the right to delegate a single time
  RightsChoices,   \* the sets of rights a caller asks for
  MaxDepth,        \* GrantPolicy.max_depth
  MaxId,           \* bound: capability ids handed out
  MaxEpoch         \* bound: epoch increments

Id == 1 .. MaxId

ASSUME SizeAssumption ==
  N \in Nat \ {0} /\ U32MAX \in Nat /\ U32MAX >= N /\ U32MAX > 2
ASSUME RightsAssumption ==
  /\ GRANT \in Rights /\ GRANT_ONCE \in Rights /\ GRANT # GRANT_ONCE
  /\ RightsChoices \subseteq SUBSET Rights
ASSUME BoundAssumption == MaxDepth \in Nat /\ MaxId \in Nat /\ MaxEpoch \in Nat

VARIABLES
  slots,       \* CapabilityTable.slots
  count,       \* CapabilityTable.count
  free_hint,   \* CapabilityTable.free_hint
  tree_count,  \* DerivationTree.count
  epoch,       \* CapabilityManager.epoch
  next_id,     \* CapabilityManager.next_id
  stats,       \* CapabilityManager.stats
  hung,        \* a revocation is in a loop it never leaves
  born,        \* history: how each capability id came to be
  uses         \* history: how often each slot was taken

vars == <<slots, count, free_hint, nodes, tree_count, epoch, next_id, stats, hung, born, uses>>

-----------------------------------------------------------------------------
(* The records. *)

\* A free slot keeps the generation of its next user in parent_index.
EmptySlot(stash) ==
  [generation |-> 0, id |-> 0, rights |-> {}, epoch |-> 0, depth |-> 0,
   parent_index |-> stash]

EmptyNode(next) ==
  [is_valid |-> FALSE, depth |-> 0, epoch |-> 0, first_child |-> NIL,
   next_sibling |-> next, parent_index |-> NIL]

NotBorn ==
  [parent |-> 0, ancestors |-> {}, rights |-> {}, slot |-> 0,
   generation |-> 0, nth |-> 0]

Free(i) == slots[i].generation = 0
Held(i) == slots[i].generation # 0
HeldSlots == {i \in Slot : Held(i)}

Init ==
  /\ slots = [i \in Slot |-> EmptySlot(U32MAX)]
  /\ count = 0
  /\ free_hint = 0
  /\ nodes = [i \in Slot |-> EmptyNode(NIL)]
  /\ tree_count = 0
  /\ epoch = 0
  /\ next_id = 1
  /\ stats = [created |-> 0, granted |-> 0, revoked |-> 0]
  /\ hung = FALSE
  /\ born = [c \in Id |-> NotBorn]
  /\ uses = [i \in Slot |-> 0]

-----------------------------------------------------------------------------
(* The table. *)

\* find_free_slot scans from the hint to the end and then from the start.
ScanRank(i) == IF i >= free_hint THEN i - free_hint ELSE i - free_hint + N

FindFreeSlot(i) ==
  Free(i) /\ \A j \in Slot : Free(j) => ScanRank(i) <= ScanRank(j)

TableFull == \A i \in Slot : Held(i)

\* next_generation: a slot that was never used carries the none index.
NextGeneration(i) ==
  IF slots[i].parent_index = U32MAX THEN 1 ELSE slots[i].parent_index

\* invalidate: the stored generation wraps and skips the free sentinel 0.
BumpedGeneration(g) ==
  LET next_gen == (g + 1) % (U32MAX + 1) IN IF next_gen = 0 THEN 1 ELSE next_gen

\* What force_invalidate leaves of the held slots in S, and of the others.
Invalidate(S) ==
  [i \in Slot |-> IF i \in S THEN EmptySlot(BumpedGeneration(slots[i].generation))
                  ELSE slots[i]]

\* The hint moves down to the lowest index freed.
LoweredHint(h, S) == h \in S \cup {free_hint} /\ \A x \in S \cup {free_hint} : h <= x

\* The slot insert_root and insert_derived write.
BugNewSlot(i, rights, depth, parent_index) ==
  [generation |-> NextGeneration(i), id |-> next_id, rights |-> rights,
   epoch |-> epoch, depth |-> 0, parent_index |-> parent_index]

NewSlot(i, rights, depth, parent_index) ==
  [generation |-> NextGeneration(i), id |-> next_id, rights |-> rights,
   epoch |-> epoch, depth |-> depth, parent_index |-> parent_index]

Birth(i, rights, parent) ==
  [parent |-> parent,
   ancestors |-> IF parent = 0 THEN {} ELSE born[parent].ancestors \cup {parent},
   rights |-> rights, slot |-> i, generation |-> NextGeneration(i),
   nth |-> uses[i] + 1]

-----------------------------------------------------------------------------
(* The manager's operations. *)

\* add_root and add_child, which prepends the child to its parent's list.
RootNode ==
  [is_valid |-> TRUE, depth |-> 0, epoch |-> epoch, first_child |-> NIL,
   next_sibling |-> NIL, parent_index |-> NIL]

AddRoot(i) ==
  /\ nodes' = [nodes EXCEPT ![i] = RootNode]
  /\ tree_count' = tree_count + 1

ChildNode(p, next) ==
  [is_valid |-> TRUE, depth |-> slots[p].depth + 1, epoch |-> epoch,
   first_child |-> NIL, next_sibling |-> next, parent_index |-> p]

AddChild(p, c) ==
  /\ nodes' = [nodes EXCEPT ![p].first_child = c,
                            ![c] = ChildNode(p, nodes[p].first_child)]
  /\ tree_count' = tree_count + 1

\* create_root_capability_inner on a table with room.
CreateRoot(rights) ==
  /\ ~hung /\ next_id <= MaxId
  /\ \E i \in Slot :
       /\ FindFreeSlot(i)
       /\ slots' = [slots EXCEPT ![i] = NewSlot(i, rights, 0, U32MAX)]
       /\ free_hint' = i + 1
       /\ AddRoot(i)
       /\ born' = [born EXCEPT ![next_id] = Birth(i, rights, 0)]
       /\ uses' = [uses EXCEPT ![i] = @ + 1]
  /\ count' = count + 1
  /\ next_id' = next_id + 1
  /\ stats' = [stats EXCEPT !.created = @ + 1]
  /\ UNCHANGED <<epoch, hung>>

\* validate_grant.
BugGrantEscalates(s, rights) ==
  {GRANT, GRANT_ONCE} \cap slots[s].rights # {} /\ slots[s].depth + 1 <= MaxDepth

GrantValid(s, rights) ==
  /\ {GRANT, GRANT_ONCE} \cap slots[s].rights # {}
  /\ rights \subseteq slots[s].rights
  /\ slots[s].depth + 1 <= MaxDepth

\* The rights the source keeps: GRANT_ONCE goes if it was the only authority.
SourceRightsAfter(s) ==
  IF GRANT \in slots[s].rights THEN slots[s].rights ELSE slots[s].rights \ {GRANT_ONCE}

\* grant_with_caller, successful.
Grant(s, rights) ==
  /\ ~hung /\ next_id <= MaxId
  /\ Held(s) /\ GrantValid(s, rights) /\ nodes[s].is_valid
  /\ \E c \in Slot :
       /\ FindFreeSlot(c)
       /\ slots' = [slots EXCEPT ![c] = NewSlot(c, rights, slots[s].depth + 1, s),
                                 ![s].rights = SourceRightsAfter(s)]
       /\ free_hint' = c + 1
       /\ AddChild(s, c)
       /\ born' = [born EXCEPT ![next_id] = Birth(c, rights, slots[s].id)]
       /\ uses' = [uses EXCEPT ![c] = @ + 1]
  /\ count' = count + 1
  /\ next_id' = next_id + 1
  /\ stats' = [stats EXCEPT !.granted = @ + 1]
  /\ UNCHANGED <<epoch, hung>>

\* A grant whose parent the tree has lost: the child's slot is taken, add_child
\* fails, and force_invalidate gives the slot back with its generation spent.
GrantRolledBack(s, rights) ==
  /\ ~hung /\ next_id <= MaxId
  /\ Held(s) /\ GrantValid(s, rights) /\ ~nodes[s].is_valid
  /\ \E c \in Slot :
       /\ FindFreeSlot(c)
       /\ slots' = [slots EXCEPT ![c] = EmptySlot(BumpedGeneration(NextGeneration(c)))]
       /\ free_hint' = c
       /\ uses' = [uses EXCEPT ![c] = @ + 1]
  /\ next_id' = next_id + 1
  /\ UNCHANGED <<count, nodes, tree_count, epoch, stats, hung, born>>

\* A creation on a full table, or a grant that validate_grant or the full table
\* refuses: only the id is spent.
IdSpent ==
  /\ ~hung /\ next_id <= MaxId
  /\ TableFull \/ \E s \in Slot, rights \in RightsChoices : Held(s) /\ ~GrantValid(s, rights)
  /\ next_id' = next_id + 1
  /\ UNCHANGED <<slots, count, free_hint, nodes, tree_count, epoch, stats, hung, born, uses>>

\* revoke_capability: collect, revoke in the tree, then invalidate what was
\* collected in the table.  tree.revoke fails first if the node is gone.
Revoke(i) ==
  /\ ~hung /\ Held(i) /\ nodes[i].is_valid /\ Terminates(i)
  /\ LET freed == CollectSubtree(i) \cap HeldSlots
         dead  == RevokeSubtree(i)
     IN  /\ slots' = Invalidate(freed)
         /\ count' = count - Cardinality(freed)
         /\ \E h \in 0 .. N : LoweredHint(h, freed) /\ free_hint' = h
         /\ nodes' = [j \in Slot |-> IF j \in dead THEN EmptyNode(nodes[j].next_sibling)
                                     ELSE nodes[j]]
         /\ tree_count' = tree_count - Cardinality(dead)
         /\ stats' = [stats EXCEPT !.revoked = @ + Cardinality(dead)]
  /\ UNCHANGED <<epoch, next_id, hung, born, uses>>

\* A revocation whose collecting walk never ends.
RevokeHangs(i) ==
  /\ ~hung /\ Held(i) /\ nodes[i].is_valid /\ ~Terminates(i)
  /\ hung' = TRUE
  /\ UNCHANGED <<slots, count, free_hint, nodes, tree_count, epoch, next_id, stats, born, uses>>

IncrementEpoch ==
  /\ ~hung /\ epoch < MaxEpoch
  /\ epoch' = epoch + 1
  /\ UNCHANGED <<slots, count, free_hint, nodes, tree_count, next_id, stats, hung, born, uses>>

Next ==
  \/ \E rights \in RightsChoices : CreateRoot(rights)
  \/ \E s \in Slot, rights \in RightsChoices : Grant(s, rights)
  \/ \E s \in Slot, rights \in RightsChoices : GrantRolledBack(s, rights)
  \/ IdSpent
  \/ \E i \in Slot : Revoke(i)
  \/ \E i \in Slot : RevokeHangs(i)
  \/ IncrementEpoch

Spec == Init /\ [][Next]_vars

-----------------------------------------------------------------------------
(* Verification of a held capability. *)

\* P1: handle, epoch and rights.
VerifyP1(i, rights) == Held(i) /\ slots[i].epoch = epoch /\ rights \subseteq slots[i].rights

\* find_parent: the cached index while its node is live, else a scan for a live
\* node whose child list holds the child, else none.
FindParent(c) ==
  LET p == nodes[c].parent_index
      listing == {i \in LiveNodes : \E k \in 0 .. N : SiblingHop(i)[k] = c}
  IN  IF ~nodes[c].is_valid \/ nodes[c].depth = 0 THEN NIL
      ELSE IF p # NIL /\ nodes[p].is_valid THEN p
      ELSE IF listing = {} THEN NIL
      ELSE CHOOSE i \in listing : \A j \in listing : i <= j

\* P3: every hop towards the root finds a parent of smaller depth and no later
\* epoch, and a root is reached within max_depth hops.
Ancestor(i, k) ==
  LET up[n \in 0 .. MaxDepth] ==
        IF n = 0 THEN i ELSE IF up[n - 1] = NIL THEN NIL ELSE FindParent(up[n - 1])
  IN  up[k]

VerifyP3(i) ==
  /\ Held(i) /\ nodes[i].is_valid
  /\ \E n \in 0 .. MaxDepth :
       /\ \A k \in 1 .. n :
            /\ Ancestor(i, k) # NIL
            /\ nodes[Ancestor(i, k)].depth < nodes[Ancestor(i, k - 1)].depth
            /\ nodes[Ancestor(i, k)].epoch <= nodes[Ancestor(i, k - 1)].epoch
       /\ nodes[Ancestor(i, n)].depth = 0

-----------------------------------------------------------------------------
(* Properties. *)

Born(c) == born[c].nth # 0
Live(c) == \E i \in Slot : Held(i) /\ slots[i].id = c
Descends(c, a) == c = a \/ a \in born[c].ancestors

SlotRecord ==
  [generation : 0 .. U32MAX - 1, id : 0 .. MaxId, rights : SUBSET Rights,
   epoch : 0 .. MaxEpoch, depth : 0 .. MaxDepth, parent_index : 0 .. U32MAX]

NodeRecord ==
  [is_valid : BOOLEAN, depth : 0 .. MaxDepth, epoch : 0 .. MaxEpoch,
   first_child : Slot \cup {NIL}, next_sibling : Slot \cup {NIL},
   parent_index : Slot \cup {NIL}]

BirthRecord ==
  [parent : 0 .. MaxId, ancestors : SUBSET Id, rights : SUBSET Rights,
   slot : Slot, generation : 0 .. U32MAX - 1, nth : Nat]

\* Every field stays in its type; a generation never reaches u32::MAX, the value
\* next_generation takes for a slot that was never used.
TypeOK ==
  /\ slots \in [Slot -> SlotRecord]
  /\ count \in Int
  /\ free_hint \in 0 .. N
  /\ nodes \in [Slot -> NodeRecord]
  /\ tree_count \in Int
  /\ epoch \in 0 .. MaxEpoch
  /\ next_id \in 1 .. MaxId + 1
  /\ stats \in [created : Int, granted : Int, revoked : Int]
  /\ hung \in BOOLEAN
  /\ born \in [Id -> BirthRecord]
  /\ uses \in [Slot -> Nat]

\* A live capability holds no right that any of its ancestors lacked when it was
\* created, however many grants lie between (validate_grant, grant.rs).
Attenuation ==
  \A i \in Slot : Held(i) =>
    \A a \in born[slots[i].id].ancestors : slots[i].rights \subseteq born[a].rights

\* A capability created without GRANT is delegated at most once in its life,
\* whatever is revoked, rolled back or refused in between (GRANT_ONCE, Fix 5).
GrantOnceSpent ==
  \A c, d \in Id :
    (Born(c) /\ Born(d) /\ born[c].parent = born[d].parent /\ c # d /\ born[c].parent # 0)
      => GRANT \in born[born[c].parent].rights

\* A delegation chain is never longer than max_depth: the depth stored in a slot
\* is the number of ancestors its capability really has.
DepthIsAncestry ==
  \A i \in Slot : Held(i) =>
    /\ slots[i].depth = Cardinality(born[slots[i].id].ancestors)
    /\ slots[i].depth <= MaxDepth

\* Two capabilities get the same handle only if the slot was taken at least
\* u32::MAX - 1 times in between: a stale handle cannot name a newer capability
\* sooner (invalidate and next_generation, table.rs).
HandleReuseWindow ==
  \A c, d \in Id :
    (Born(c) /\ Born(d) /\ c < d /\ born[c].slot = born[d].slot
       /\ born[c].generation = born[d].generation)
      => born[d].nth - born[c].nth >= U32MAX - 1

\* The table and the tree account for the same capabilities: capabilities in minus
\* capabilities out is the size of the tree, count is the number of slots held, and
\* no slot is given back that the tree still counts (revoke_capability, grant roll back).
Conservation ==
  /\ count = Cardinality(HeldSlots)
  /\ tree_count = Cardinality(LiveNodes)
  /\ stats.created + stats.granted - stats.revoked = tree_count
  /\ \A i \in LiveNodes : Held(i)

\* A grant that fails half way leaves nothing behind: a held slot is that of a
\* capability whose creation or grant succeeded, and a capability that was born with
\* GRANT_ONCE and has it no more did delegate (grant_with_caller's roll back).
FailedGrantsLeaveNothing ==
  \A i \in Slot : Held(i) =>
    /\ Born(slots[i].id)
    /\ GRANT_ONCE \in born[slots[i].id].rights \ slots[i].rights =>
         \E c \in Id : Born(c) /\ born[c].parent = slots[i].id

\* Revoking a held capability ends, and takes away the capability and its live
\* descendants and nothing else, the same in the tree and in the table.
RevocationExact ==
  \A i \in Slot : Held(i) =>
    /\ Terminates(i)
    /\ CollectSubtree(i) = RevokeSubtree(i)
    /\ CollectSubtree(i) = {j \in Slot : Held(j) /\ Descends(slots[j].id, slots[i].id)}

\* Until a slot is used a second time, every revocation is exact (add_child,
\* collect_subtree, revoke_subtree).
RevokeExactUntilReuse == (\A i \in Slot : uses[i] <= 1) => RevocationExact

\* Authority only shrinks: along every chain of grants, through the one delegation
\* GRANT_ONCE allows, and because a handle does not come to name a newer capability.
AuthoritySound == Attenuation /\ GrantOnceSpent /\ HandleReuseWindow

\* The tree accounts for the capabilities there are, grants that failed included, and
\* revocation follows it exactly until a slot is used again.
TreeSound ==
  DepthIsAncestry /\ Conservation /\ FailedGrantsLeaveNothing /\ RevokeExactUntilReuse

\* "Revoking a parent invalidates all derived capabilities (children, grandchildren,
\* etc.) via subtree walk" (derivation.rs): with slots reused, too.
RevokeExact == RevocationExact

\* P3 accepts a capability only while "every ancestor is valid (not revoked)".
P3Sound ==
  \A i \in Slot : VerifyP3(i) => \A a \in born[slots[i].id].ancestors : Live(a)
=============================================================================
