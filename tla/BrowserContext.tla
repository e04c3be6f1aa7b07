--------------------------- MODULE BrowserContext ---------------------------
(***************************************************************************)
(* rvm-context-wasm: one context runtime handed to a page.  The page can    *)
(* call the governed operations, each of which is witnessed, and it also    *)
(* reaches the authority itself (issueRoot, delegate, revoke,               *)
(* incrementEpoch), which nothing witnesses.  An argument that does not     *)
(* convert is thrown back before the runtime is asked and is no step.       *)
(*                                                                         *)
(* The ring is modelled by what its records count: a decision for every     *)
(* request that reached the authority, and a record of every completion.    *)
(* Sealing is ReceiptChain's.                                               *)
(***************************************************************************)
EXTENDS ContextStore

CONSTANTS PageActor,       \* the partition the runtime acts for
          ExecutableRevision, \* revisions whose content is executable
          OperationSets,   \* the operations a page asks rights for at once
          MaxPageCalls     \* bound: records of the page's requests

\* ContextViewMask: any set of the four representations but the empty one.
ViewMask == SUBSET {"manifest", "abstract", "overview", "content"} \ {{}}

ASSUME PageNumbers == MaxPageCalls \in Nat
ASSUME PageArguments == GrantViews \subseteq ViewMask /\ OperationSets \subseteq SUBSET ContextOperation

VARIABLES trail,           \* records so far, and completions that changed something, by kind
          direct,          \* history: tokens the page made without a request
          reported         \* the sequence the last result reports, 0 of a refusal

pageVars == <<trail, direct, reported>>
browserVars == <<storeVars, authorityVars, pageVars>>

-----------------------------------------------------------------------------
(* What a page makes of names: scopes and right sets, and a question about both. *)

\* Rights::for_operations.
for_operations(ops) == UNION {required_rights(op) : op \in ops}

\* ContextScope::from_uri: revision and view of the name are no part of the region.
from_uri(t, views) == [space |-> t.space, path |-> t.path, views |-> views]

\* ContextScope::contains_uri: names only, with the scope's own views.
contains_uri(s, t) == contains_scope(s, from_uri(t, s.views))

-----------------------------------------------------------------------------
\* ContextOperation::action_kind: the record a completed operation leaves.
action_kind(op) ==
    CASE op \in {"resolve", "list", "tree", "history", "verify"} -> "ContextResolve"
      [] op = "read"    -> "ContextRead"
      [] op = "search"  -> "ContextSearch"
      [] op = "put"     -> "ContextPut"
      [] op = "cas"     -> "ContextAliasUpdate"
      [] op = "forget"  -> "ContextForget"
      [] op = "execute" -> "ContextExecute"
      [] op = "grant"   -> "CapabilityGrant"
      [] op = "revoke"  -> "CapabilityRevoke"
ChangeKind == {"ContextPut", "ContextAliasUpdate", "ContextForget", "CapabilityGrant"}

-----------------------------------------------------------------------------
(* What a request leaves in the ring. *)

next_sequence == trail.next

\* One record: a denial, or a decision whose operation the resolver then refused.
Refused == trail' = [trail EXCEPT !.next = @ + 1] /\ reported' = 0

\* The decision, the completion, and then wrap reads the sequence.
Completed(op) ==
    /\ trail' = [next |-> trail.next + 2,
                 done |-> [a \in ChangeKind |->
                             trail.done[a] + IF a = action_kind(op) THEN 1 ELSE 0]]
    /\ reported' = trail'.next

Untouched == UNCHANGED <<storeVars, authorityVars>>

\* A governed call: Effect and a completion, or a refusal that changes nothing.
Governed(k, op, t, possible, Effect) ==
    /\ next_sequence < MaxPageCalls
    /\ UNCHANGED direct
    /\ IF authorize(k, PageActor, op, t) /\ possible
       THEN Effect /\ Completed(op) ELSE Refused /\ Untouched

validate_enum_limit(limit) == limit \in 1 .. MAX_ENUM_RESULTS

Found(op, t, limit) ==
    {S \in Answer(op, t, limit) : Accepted(op, t, S, limit)}

page_read(k, op, t) == Governed(k, op, t, Found(op, t, 1) # {}, Untouched)
page_list(k, op, t, limit) ==
    Governed(k, op, t, validate_enum_limit(limit) /\ Found(op, t, limit) # {}, Untouched)

\* The snapshot of the alias a resolved context carries is what the page keeps.
page_resolve(k, t) ==
    Governed(k, "resolve", t, resolved_for(t) # {},
        /\ held' = IF t.revision = NoRevision THEN [held EXCEPT ![PageActor] = aliases[Of(t)]]
                   ELSE held
        /\ UNCHANGED <<objects, aliases, rejected, gone, authorityVars>>)

page_execute(k, t) ==
    Governed(k, "execute", t,
             resolved_for(t) # {} /\ \A r \in resolved_for(t) : r.revision \in ExecutableRevision,
             Untouched)

page_put(k, n, r) ==
    LET stored == <<n, r>> \in DOMAIN objects /\ objects[<<n, r>>] = "stored" IN
    Governed(k, "put", Pinned(n, r),
             stored \/ (/\ <<n, r>> \notin DOMAIN objects
                        /\ Cardinality(DOMAIN objects) < OBJECTS),
             /\ IF stored THEN UNCHANGED storeVars ELSE put(n, r) /\ UNCHANGED <<held, rejected>>
             /\ UNCHANGED authorityVars)

\* The expected snapshot is passed by value: the page's object is spent, whatever
\* the runtime answers.
page_cas(k, n, r, expected) ==
    LET t == Versionless(n)
        fits == \/ expected = NoSnapshot /\ n \notin DOMAIN aliases
                \/ expected.of = {n} /\ ~expected.tombstone
        swaps == /\ fits /\ Reachable(n, r)
                 /\ IF n \in DOMAIN aliases
                    THEN ~aliases[n].tombstone /\ Expected(expected, n)
                         /\ aliases[n].generation < MaxGeneration
                    ELSE expected = NoSnapshot /\ Cardinality(DOMAIN aliases) < ALIASES
        spent == [held EXCEPT ![PageActor] = IF expected = NoSnapshot THEN @ ELSE NoSnapshot] IN
    /\ next_sequence < MaxPageCalls
    /\ IF swaps /\ authorize(k, PageActor, "cas", t)
       THEN /\ compare_and_swap_alias(n, expected, r)
            /\ held' = [held EXCEPT ![PageActor] = aliases'[n]]
            /\ Completed("cas")
       ELSE Refused /\ held' = spent /\ UNCHANGED <<objects, aliases, gone>>
    /\ UNCHANGED <<direct, rejected, authorityVars>>

\* The expected snapshot is borrowed.
page_forget(k, n) ==
    LET mine == held[PageActor] IN
    /\ mine # NoSnapshot
    /\ Governed(k, "forget", Versionless(n),
           /\ ~mine.tombstone /\ mine.of = {n}
           /\ n \in DOMAIN aliases /\ ~aliases[n].tombstone /\ Expected(mine, n)
           /\ aliases[n].generation < MaxGeneration /\ Cardinality(DOMAIN objects) < OBJECTS,
           /\ forget(n, mine)
           /\ held' = [held EXCEPT ![PageActor] = aliases'[n]]
           /\ UNCHANGED <<rejected, authorityVars>>)

\* A grant the manager refuses spends a token id all the same.
page_grant(k, t, scope, rights, owner) ==
    /\ next_sequence < MaxPageCalls
    /\ UNCHANGED <<storeVars, direct>>
    /\ \/ /\ ~(/\ authorize(k, PageActor, "grant", t) /\ contains_scope(grants[k], scope))
          /\ Refused /\ UNCHANGED authorityVars
       \/ /\ GrantRequest(k, PageActor, t, scope, rights, owner)
          /\ IF DOMAIN tokens' = DOMAIN tokens THEN Refused ELSE Completed("grant")

revoke_governed(k, t) ==
    /\ next_sequence < MaxPageCalls
    /\ UNCHANGED <<storeVars, direct>>
    /\ \/ /\ authorize(k, PageActor, "revoke", t)
          /\ revoke_token(k) /\ Completed("revoke")
       \/ /\ authorize(k, PageActor, "revoke", t) => ~links[tokens[k].slot].is_valid
          /\ Refused /\ UNCHANGED authorityVars

-----------------------------------------------------------------------------
(* Past the runtime: the authority itself, unwitnessed *)

page_issue_root(scope, rights, owner) ==
    /\ issue_root(scope, rights, owner)
    /\ direct' = direct + Cardinality(DOMAIN tokens' \ DOMAIN tokens)
    /\ UNCHANGED <<storeVars, trail, reported>>

page_delegate(k, scope, rights, owner) ==
    /\ delegate(k, scope, rights, owner, PageActor)
    /\ direct' = direct + Cardinality(DOMAIN tokens' \ DOMAIN tokens)
    /\ UNCHANGED <<storeVars, trail, reported>>

\* Any handle the page holds, its own or not.
page_revoke(k) == revoke_token(k) /\ UNCHANGED <<storeVars, pageVars>>
page_increment_epoch == increment_epoch /\ UNCHANGED <<storeVars, pageVars>>

BrowserInit ==
    /\ StoreInit /\ AuthorityInit /\ wrapped = {}
    /\ trail = [next |-> 0, done |-> [a \in ChangeKind |-> 0]]
    /\ direct = 0 /\ reported = 0

BrowserNext ==
    \/ \E root \in Plain, views \in GrantViews, ops \in OperationSets, o \in Owner :
         LET s == from_uri(root, views)
             r == for_operations(ops) IN
         \/ page_issue_root(s, r, o)
         \/ \E k \in DOMAIN tokens : \/ page_delegate(k, s, r, o)
                                     \/ \E t \in Plain : page_grant(k, t, s, r, o)
    \/ page_increment_epoch
    \/ \E k \in DOMAIN tokens :
         \/ page_revoke(k)
         \/ \E t \in Plain : revoke_governed(k, t)
         \/ \E n \in Name : page_forget(k, n)
         \/ \E n \in Name, r \in ContextRevision :
              \/ page_put(k, n, r)
              \/ \E x \in {NoSnapshot, held[PageActor]} : page_cas(k, n, r, x)
         \/ \E n \in Name, r \in ContextRevision \cup {NoRevision} :
              LET t == Pinned(n, r) IN
              \/ page_resolve(k, t) \/ page_execute(k, t)
              \/ \E op \in {"read", "verify"} : page_read(k, op, t)
              \/ \E op \in {"list", "tree", "search", "history"}, limit \in 0 .. MAX_ENUM_RESULTS :
                   page_list(k, op, t, limit)

BrowserSpec == BrowserInit /\ [][BrowserNext]_browserVars

-----------------------------------------------------------------------------
(* Properties *)

\* The page's own question and the runtime's check do not drift apart: a name without a
\* view is in a capability's region exactly when some operation on it is in scope, and a
\* name with one is whenever any operation is.
ShadowAgrees ==
    \A k \in DOMAIN grants, t \in Target :
      LET inScope == \E op \in ContextOperation : allows(grants[k], t, op) IN
      IF t.view = NoView THEN contains_uri(grants[k], t) = inScope
      ELSE inScope => contains_uri(grants[k], t)

\* The moves of aliases so far: a name has made one for each of its generations.
AliasMoves == UNION {{n} \X (1 .. aliases[n].generation) : n \in DOMAIN aliases}

\* The ring accounts for what the page changed: every move of an alias and every
\* forgotten name has exactly one completion record and no refused call has one,
\* every stored object was put by a witnessed call, and the capabilities that were
\* not made past the runtime were granted by a witnessed call; and no completion is
\* in the ring without its decision.
TrailAccountsForChanges ==
    /\ Cardinality(AliasMoves) = trail.done["ContextAliasUpdate"] + trail.done["ContextForget"]
    /\ Cardinality({n \in DOMAIN aliases : aliases[n].tombstone}) = trail.done["ContextForget"]
    /\ Cardinality({o \in DOMAIN objects : objects[o] # "tombstone"}) <= trail.done["ContextPut"]
    /\ Cardinality(DOMAIN tokens) <= direct + trail.done["CapabilityGrant"]
    /\ reported <= next_sequence
    /\ ShadowAgrees
    /\ 2 * (trail.done["ContextPut"] + trail.done["ContextAliasUpdate"]
              + trail.done["ContextForget"] + trail.done["CapabilityGrant"]) <= next_sequence
=============================================================================
