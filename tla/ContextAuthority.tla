-------------------------- MODULE ContextAuthority --------------------------
(***************************************************************************)
(* The trusted half of the context runtime (rvm-context): capabilities     *)
(* bound to a name space (capability.rs) and the reading requests of       *)
(* runtime.rs, answered by a resolver that is free to answer anything.     *)
(*                                                                         *)
(* The authority, tenant, subject and collection of a name are one model   *)
(* value, its space; a path is a sequence of segments.  Of the capability  *)
(* manager (CapManager) there is what the authority sees: the live tokens  *)
(* with their slots, and the links of the derivation tree, along which a   *)
(* revocation walks whatever they say by then (DerivationTree).  Handles   *)
(* are those of live tokens; their generations are CapManager's.  A failed *)
(* call that spends no token id, and a refused request, are no steps.      *)
(***************************************************************************)
EXTENDS Integers, FiniteSets, Sequences

CONSTANTS Space,               \* authority, tenant, subject and collection
          SkillSpace,          \* those whose collection is skills
          Path,                \* the paths of names and scope prefixes
          ContextRevision,     \* object revisions
          NoRevision, NoView,  \* what a versionless name and a plain target have
          Owner,               \* the partitions
          GrantRights,         \* the right sets a caller asks for
          GrantViews,          \* the view masks a caller asks for
          C, G,                \* capacities of capability and binding tables
          MaxGrantDepth,       \* CapManagerConfig.max_delegation_depth
          MAX_ENUM_RESULTS,    \* and MAX_SEARCH_RESULTS
          MaxTokens,           \* bound: token ids handed out
          MaxEpochs            \* bound: epoch increments

\* A path is a sequence of segments, and there is an id to hand out.
ASSUME AuthorityNumbers == MaxTokens \in Nat \ {0}
ASSUME PathsAreSequences == \A p \in Path : p \in Seq({p[i] : i \in DOMAIN p})

VARIABLES tokens,              \* the live capabilities, by token id
          links,               \* the manager's derivation tree, by slot
          grants,              \* ContextGrantTable: token id to scope
          token_epoch,         \* the manager's epoch
          next_token,          \* the manager's next id
          wrapped,             \* the tokens the manager held before it was wrapped
          answer,              \* the last reading request and what it disclosed
          misled               \* history: a slot still listed under a live token was taken

authorityVars == <<tokens, links, grants, token_epoch, next_token, wrapped, answer, misled>>

Name == [space : Space, path : Path]
Scope == [space : Space, path : Path, views : GrantViews]
NoAnswer == [token |-> 0, operation |-> "none", disclosed |-> {}]

With(f, k, v) == [x \in DOMAIN f \cup {k} |-> IF x = k THEN v ELSE f[x]]
Keep(f, S) == [x \in DOMAIN f \cap S |-> f[x]]

Slots == 0 .. C - 1
Tree == INSTANCE DerivationTree WITH N <- C, U32MAX <- C, nodes <- links
Link(valid, next) == [is_valid |-> valid, first_child |-> Tree!NIL, next_sibling |-> next]

\* ContextAuthority::new wraps a manager that may hold capabilities already.
AuthorityInit ==
    /\ wrapped \in {{}, {1}}
    /\ tokens \in [wrapped -> [slot : {0}, rights : GrantRights, owner : Owner,
                               epoch : {0}, depth : {0}, lineage : {{}}]]
    /\ links = [i \in Slots |-> Link(i = 0 /\ wrapped # {}, Tree!NIL)]
    /\ grants = <<>>
    /\ token_epoch = 0
    /\ next_token = Cardinality(wrapped) + 1
    /\ answer = NoAnswer
    /\ misled = FALSE

-----------------------------------------------------------------------------
(* Scopes. *)

path_has_prefix(path, prefix) ==
    Len(path) >= Len(prefix) /\ SubSeq(path, 1, Len(prefix)) = prefix

\* ContextViewMask::contains: a mask is the set of its views.
mask_contains(mask, other) == other \subseteq mask

contains_scope(s, child) ==
    /\ s.space = child.space
    /\ path_has_prefix(child.path, s.path)
    /\ mask_contains(s.views, child.views)

ContextOperation ==
    {"resolve", "list", "tree", "read", "search", "history", "verify", "put", "cas",
     "forget", "execute", "grant", "revoke", "seal"}

required_rights(op) ==
    CASE op \in {"resolve", "list", "tree", "read", "search", "history"} -> {"READ"}
      [] op = "verify"               -> {"READ", "PROVE"}
      [] op \in {"put", "cas", "forget"} -> {"WRITE"}
      [] op = "execute"              -> {"EXECUTE"}
      [] op = "grant"                -> {"GRANT"}
      [] op = "revoke"               -> {"REVOKE"}
      [] op = "seal"                 -> {"PROVE"}

required_view_bit(op, view) ==
    IF view # NoView THEN {view}
    ELSE CASE op \in {"resolve", "list", "tree", "history", "verify"} -> {"manifest"}
           [] op = "read"   -> {"content"}
           [] op = "search" -> {"overview"}
           [] OTHER         -> {}

target_shape_is_valid(op, t) ==
    CASE op \in {"put", "verify", "seal"} -> t.revision # NoRevision /\ t.view = NoView
      [] op = "execute" ->
           t.revision # NoRevision /\ t.view = NoView /\ t.space \in SkillSpace
      [] op \in {"list", "tree", "history", "cas", "forget"} ->
           t.revision = NoRevision /\ t.view = NoView
      [] op \in {"grant", "revoke"} -> t.view = NoView
      [] OTHER -> TRUE

allows(s, t, op) ==
    /\ s.space = t.space
    /\ path_has_prefix(t.path, s.path)
    /\ mask_contains(s.views, required_view_bit(op, t.view))

-----------------------------------------------------------------------------
(* Capabilities and their bindings. *)

verify_p1(k, rights) ==
    k \in DOMAIN tokens /\ tokens[k].epoch = token_epoch /\ rights \subseteq tokens[k].rights

\* ContextGrantTable::bind of a token that has no binding.
Binds == Cardinality(DOMAIN grants) < G

\* find_free_slot: the hint never lies above the lowest free slot.
FreeSlots == Slots \ {tokens[k].slot : k \in DOMAIN tokens}
NextSlot(i) == i \in FreeSlots /\ \A j \in FreeSlots : i <= j

\* The lineage is history: what a token's ancestors were bound to when it was made.
Lineage(k) ==
    IF k = 0 THEN {}
    ELSE tokens[k].lineage \cup {[id |-> k, scope |-> grants[k], rights |-> tokens[k].rights]}

Token(i, parent, rights, owner) ==
    [slot |-> i, rights |-> rights, owner |-> owner, epoch |-> token_epoch,
     depth |-> IF parent = 0 THEN 0 ELSE tokens[parent].depth + 1,
     lineage |-> Lineage(parent)]

BugLinked(i, parent) ==
    IF parent = 0 THEN [links EXCEPT ![i] = Link(TRUE, Tree!NIL)]
    ELSE [links EXCEPT ![tokens[parent].slot].first_child = i, ![i] = Link(TRUE, Tree!NIL)]

\* add_root, and add_child, which puts the child before its parent's others.
Linked(i, parent) ==
    IF parent = 0 THEN [links EXCEPT ![i] = Link(TRUE, Tree!NIL)]
    ELSE LET p == tokens[parent].slot
         IN  [links EXCEPT ![p].first_child = i, ![i] = Link(TRUE, links[p].first_child)]

\* The list of a live node still names a free slot.
StillListed(i) == \E j \in Tree!LiveNodes : \E n \in 0 .. C : Tree!SiblingHop(j)[n] = i

\* A call that comes to nothing but the token id it spends.
IdOnly ==
    /\ next_token <= MaxTokens
    /\ next_token' = next_token + 1
    /\ answer' = NoAnswer
    /\ UNCHANGED <<tokens, links, grants, token_epoch, wrapped, misled>>

\* The tail of issue_root and delegate: the manager inserts the token, and when
\* it finds no room for its binding revokes it again.
Minted(parent, rights, owner, scope) ==
    \/ /\ next_token <= MaxTokens
       /\ next_token' = next_token + 1
       /\ \E i \in Slots :
            /\ NextSlot(i)
            /\ misled' = (misled \/ StillListed(i))
            /\ \/ /\ Binds
                  /\ tokens' = With(tokens, next_token, Token(i, parent, rights, owner))
                  /\ links' = Linked(i, parent)
                  /\ grants' = With(grants, next_token, scope)
               \/ /\ ~Binds
                  /\ links' = [Linked(i, parent) EXCEPT ![i].is_valid = FALSE]
                  /\ UNCHANGED <<tokens, grants>>
       /\ answer' = NoAnswer
       /\ UNCHANGED <<token_epoch, wrapped>>
    \/ FreeSlots = {} /\ IdOnly

\* Only the hypervisor calls this one.
issue_root(scope, rights, owner) == Minted(0, rights, owner, scope)

\* A token of an earlier epoch does not pass P1, and one that is bound keeps
\* its scope: only a token the wrapped manager brought along binds.
bind_existing(k, scope) ==
    /\ verify_p1(k, {})
    /\ k \notin DOMAIN grants
    /\ Binds
    /\ grants' = With(grants, k, scope)
    /\ answer' = NoAnswer
    /\ UNCHANGED <<tokens, links, token_epoch, next_token, wrapped, misled>>

\* A grant the manager refuses for its rights or its depth still spends an id,
\* and so does one whose parent the tree has lost.
delegate(k, scope, rights, owner, caller) ==
    /\ verify_p1(k, {"GRANT"})
    /\ tokens[k].owner = caller
    /\ k \in DOMAIN grants
    /\ contains_scope(grants[k], scope)
    /\ IF /\ rights \subseteq tokens[k].rights /\ tokens[k].depth < MaxGrantDepth
          /\ links[tokens[k].slot].is_valid
       THEN Minted(k, rights, owner, scope)
       ELSE IdOnly

\* What CapabilityManager::revoke takes out of the table when it is asked for k,
\* and the nodes it marks dead.
Collected(k) == {x \in DOMAIN tokens : tokens[x].slot \in Tree!CollectSubtree(tokens[k].slot)}
Dead(k) == Tree!RevokeSubtree(tokens[k].slot)

\* The tree still holds k.  A walk along a circular list never ends, and the
\* authority, borrowed by the call, takes no step after it.
Revocable(k) == links[tokens[k].slot].is_valid /\ Tree!Terminates(tokens[k].slot)

\* retain_live keeps the bindings of tokens the table still holds.
revoke_token(k) ==
    /\ k \in DOMAIN tokens /\ Revocable(k)
    /\ LET live == DOMAIN tokens \ Collected(k)
       IN  /\ tokens' = Keep(tokens, live)
           /\ grants' = Keep(grants, live)
    /\ links' = [i \in Slots |-> IF i \in Dead(k) THEN Link(FALSE, links[i].next_sibling)
                                 ELSE links[i]]
    /\ answer' = NoAnswer
    /\ UNCHANGED <<token_epoch, next_token, wrapped, misled>>

\* ContextRuntime::revoke spends the capability of the request.
RevokeRequest(k, actor, t) ==
    /\ verify_p1(k, {"REVOKE"}) /\ tokens[k].owner = actor /\ k \in DOMAIN grants
    /\ target_shape_is_valid("revoke", t) /\ allows(grants[k], t, "revoke")
    /\ revoke_token(k)

\* ContextRuntime::grant authorizes against the request's target as well.
GrantRequest(k, actor, t, scope, rights, owner) ==
    /\ verify_p1(k, {"GRANT"}) /\ tokens[k].owner = actor /\ k \in DOMAIN grants
    /\ target_shape_is_valid("grant", t) /\ allows(grants[k], t, "grant")
    /\ delegate(k, scope, rights, owner, actor)

increment_epoch ==
    /\ token_epoch < MaxEpochs
    /\ token_epoch' = token_epoch + 1
    /\ grants' = <<>>
    /\ answer' = NoAnswer
    /\ UNCHANGED <<tokens, links, next_token, wrapped, misled>>

-----------------------------------------------------------------------------
(* Reading requests: what the runtime passes on of an arbitrary answer. *)

authorize(k, actor, op, t) ==
    /\ target_shape_is_valid(op, t)
    /\ verify_p1(k, required_rights(op))
    /\ tokens[k].owner = actor
    /\ k \in DOMAIN grants
    /\ allows(grants[k], t, op)

is_within(root, n) == root.space = n.space /\ path_has_prefix(n.path, root.path)
same_logical_name(a, b) == a.space = b.space /\ a.path = b.path

\* valid_result_integrity: alias metadata agrees with the object it came with.
valid_result_integrity(r) == r.alias = NoRevision \/ r.alias = r.revision

valid_exact_result(t, r) ==
    /\ valid_result_integrity(r)
    /\ same_logical_name(t, r)
    /\ IF t.revision = NoRevision THEN r.alias # NoRevision ELSE t.revision = r.revision

BugValidEnumeration(t, rs, limit, recursive) ==
    /\ Cardinality(rs) <= limit
    /\ \A r \in rs : /\ valid_result_integrity(r) /\ r.alias # NoRevision
                     /\ Len(r.path) > Len(t.path)
                     /\ recursive \/ Len(r.path) = Len(t.path) + 1

\* has_duplicate_results is the set: two entries of one pinned name are refused.
valid_enumeration(t, rs, limit, recursive) ==
    /\ Cardinality(rs) <= limit
    /\ \A r \in rs : /\ valid_result_integrity(r) /\ r.alias # NoRevision
                     /\ is_within(t, r) /\ Len(r.path) > Len(t.path)
                     /\ recursive \/ Len(r.path) = Len(t.path) + 1

valid_hits(t, rs, limit) ==
    /\ Cardinality(rs) <= limit
    /\ \A r \in rs : IF t.revision = NoRevision THEN is_within(t, r)
                     ELSE same_logical_name(t, r) /\ r.revision = t.revision

valid_history(t, rs, limit) ==
    /\ Cardinality(rs) <= limit
    /\ \A r \in rs : valid_result_integrity(r) /\ same_logical_name(t, r)

\* What each reading operation lets through.
Accepted(op, t, rs, limit) ==
    CASE op = "list"    -> valid_enumeration(t, rs, limit, FALSE)
      [] op = "tree"    -> valid_enumeration(t, rs, limit, TRUE)
      [] op = "search"  -> valid_hits(t, rs, limit)
      [] op = "history" -> valid_history(t, rs, limit)
      [] OTHER          -> Cardinality(rs) = 1 /\ \A r \in rs : valid_exact_result(t, r)

\* An authorized request: each entry passed on shows the view the operation
\* stands for.
Ask(k, op, t, rs, limit) ==
    /\ Accepted(op, t, rs, limit)
    /\ answer' = [token |-> k, operation |-> op,
                  disclosed |-> {[space |-> r.space, path |-> r.path, view |-> v] :
                                  r \in rs, v \in required_view_bit(op, t.view)}]
    /\ UNCHANGED <<tokens, links, grants, token_epoch, next_token, wrapped, misled>>

Target == [space : Space, path : Path, revision : ContextRevision \cup {NoRevision},
           view : {NoView} \cup UNION GrantViews]
Plain == {t \in Target : t.revision = NoRevision /\ t.view = NoView}
Answered == [space : Space, path : Path, revision : ContextRevision,
             alias : ContextRevision \cup {NoRevision}]
Answers == {{}} \cup {{f[i] : i \in DOMAIN f} : f \in [1 .. MAX_ENUM_RESULTS -> Answered]}

GrantNext ==
    \/ \E s \in Scope, r \in GrantRights, o \in Owner : issue_root(s, r, o)
    \/ \E k \in DOMAIN tokens, s \in Scope : bind_existing(k, s)
    \/ \E k \in DOMAIN tokens, t \in Plain, s \in Scope, r \in GrantRights, o \in Owner :
         GrantRequest(k, tokens[k].owner, t, s, r, o)
    \/ \E k \in DOMAIN tokens : revoke_token(k)
    \/ \E k \in DOMAIN tokens, t \in Plain : RevokeRequest(k, tokens[k].owner, t)
    \/ increment_epoch

\* Requests for some of the targets, which get some of the answers.
ReadNext(targets, answers) ==
    \E k \in DOMAIN tokens, t \in targets,
       op \in {"resolve", "list", "tree", "read", "search", "history", "verify"} :
      /\ authorize(k, tokens[k].owner, op, t)
      /\ \E rs \in answers, limit \in 1 .. MAX_ENUM_RESULTS : Ask(k, op, t, rs, limit)

AuthorityNext == GrantNext \/ ReadNext(Target, Answers)

-----------------------------------------------------------------------------
(* Properties. *)

\* A token the authority minted is bound exactly while it is live and of the
\* current epoch, whatever mix of failed bindings, revocations and rotations
\* went before: no unbound live grant, no binding that outlives its capability.
BoundWhileLive ==
    LET current == {k \in DOMAIN tokens : tokens[k].epoch = token_epoch}
    IN  DOMAIN grants \subseteq current /\ current \ wrapped \subseteq DOMAIN grants

\* A capability never reaches beyond any of its ancestors, dead or alive: its
\* scope lies in what they were bound to, and its views and rights are among
\* theirs, whichever of them a revocation took and whichever it missed.
DelegationAttenuates ==
    \A k \in DOMAIN grants : \A a \in tokens[k].lineage :
      contains_scope(a.scope, grants[k]) /\ tokens[k].rights \subseteq a.rights

\* Revoked branches answer nothing: what is bound descends from bound tokens
\* only, as long as no slot was taken that the list of a live token still names.
\* After that the walk may miss what it should take (capability.rs 666).
LineageLive == ~misled => \A k \in DOMAIN grants : \A a \in tokens[k].lineage : a.id \in DOMAIN grants

\* Whatever the resolver answers, what reaches the caller lies in the name
\* space and the views its capability's scope discloses.
DisclosedInScope ==
    answer.token \in DOMAIN grants =>
      \A d \in answer.disclosed : /\ grants[answer.token].space = d.space
                                  /\ path_has_prefix(d.path, grants[answer.token].path)
                                  /\ d.view \in grants[answer.token].views
=============================================================================
