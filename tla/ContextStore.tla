---------------------------- MODULE ContextStore ----------------------------
(***************************************************************************)
(* The in-memory resolver of rvm-context (resolver.rs) behind the runtime  *)
(* of runtime.rs: immutable objects, versionless aliases moved by compare  *)
(* and swap, and forgetting.                                               *)
(*                                                                         *)
(* Clients present capabilities of ContextAuthority.  A revision is the    *)
(* hash of its bytes, so the bytes are the revision.  A truncated answer   *)
(* is any choice the limit leaves; which entries sort first is data.  A    *)
(* refused call changes nothing and is no step.                            *)
(***************************************************************************)
EXTENDS ContextAuthority

CONSTANTS OBJECTS, ALIASES,    \* capacities
          MatchScore,          \* how often each revision matches the query
          MaxGeneration        \* the generation checked_next refuses to pass

ASSUME StoreAssumption == NoRevision \notin ContextRevision /\ MAX_ENUM_RESULTS \in Nat

VARIABLES objects,             \* <<name, revision>> to "stored", "forgotten" or "tombstone"
          aliases,             \* name to AliasSnapshot
          held,                \* the snapshot each client obtained last
          rejected,            \* the runtime has refused a resolver's answer
          gone                 \* history: the objects forgotten so far

storeVars == <<objects, aliases, held, rejected, gone>>

NoSnapshot == [of |-> {}, revision |-> NoRevision, generation |-> 0, tombstone |-> FALSE]

StoreInit ==
    /\ objects = <<>>
    /\ aliases = <<>>
    /\ held = [c \in Owner |-> NoSnapshot]
    /\ rejected = FALSE
    /\ gone = {}

Of(n) == [space |-> n.space, path |-> n.path]
AliasSnapshot(n, revision, generation, tombstone) ==
    [of |-> {n}, revision |-> revision, generation |-> generation, tombstone |-> tombstone]

-----------------------------------------------------------------------------
(* What the resolver answers from its tables. *)

\* object_for, of an object that is neither a tombstone nor forgotten.
Reachable(n, r) == <<n, r>> \in DOMAIN objects /\ objects[<<n, r>>] = "stored"

Resolved(n, r, alias) == [space |-> n.space, path |-> n.path, revision |-> r, alias |-> alias]

\* resolved_for: the one object a target names, or nothing when it is refused.
\* Resolve, read, verify and prepare_execute all answer with it.
resolved_for(t) ==
    LET n == Of(t)
    IN  IF t.revision # NoRevision
        THEN IF Reachable(n, t.revision) THEN {Resolved(n, t.revision, NoRevision)} ELSE {}
        ELSE IF n \in DOMAIN aliases /\ ~aliases[n].tombstone /\ Reachable(n, aliases[n].revision)
             THEN {Resolved(n, aliases[n].revision, aliases[n].revision)} ELSE {}

\* The live aliases, each with its object.
LiveAliases == {n \in DOMAIN aliases : ~aliases[n].tombstone /\ Reachable(n, aliases[n].revision)}
AliasEntry(n) == Resolved(n, aliases[n].revision, aliases[n].revision)

Truncated(rs, limit) ==
    {S \in SUBSET rs : Cardinality(S) = IF Cardinality(rs) < limit THEN Cardinality(rs) ELSE limit}

\* enumerate_aliases: the possible answers of list and tree.
enumerate_aliases(t, limit, recursive) ==
    Truncated({AliasEntry(n) : n \in {m \in LiveAliases :
                 /\ is_within(t, m) /\ Len(m.path) > Len(t.path)
                 /\ recursive \/ Len(m.path) = Len(t.path) + 1}}, limit)

\* search, with push_top_hit keeping the best scores.
search(t, limit) ==
    LET hits == IF t.revision # NoRevision
                THEN {r \in resolved_for(t) : MatchScore[r.revision] > 0}
                ELSE {AliasEntry(n) : n \in {m \in LiveAliases :
                        is_within(t, m) /\ MatchScore[aliases[m].revision] > 0}}
    IN  {S \in Truncated(hits, limit) :
           \A r \in S, x \in hits \ S : MatchScore[r.revision] >= MatchScore[x.revision]}

alias_history(t, limit) ==
    LET n == Of(t)
    IN  IF n \notin DOMAIN aliases \/ aliases[n].tombstone THEN {}
        ELSE Truncated({Resolved(n, r, NoRevision) : r \in {x \in ContextRevision : Reachable(n, x)}},
                       limit)

\* The answers an authorized reading request can get.
Answer(op, t, limit) ==
    CASE op = "list"    -> enumerate_aliases(t, limit, FALSE)
      [] op = "tree"    -> enumerate_aliases(t, limit, TRUE)
      [] op = "search"  -> search(t, limit)
      [] op = "history" -> alias_history(t, limit)
      [] OTHER          -> {S \in {resolved_for(t)} : S # {}}

-----------------------------------------------------------------------------
(* Requests.  c is the client, k its capability. *)

Pinned(n, r) == [space |-> n.space, path |-> n.path, revision |-> r, view |-> NoView]
Versionless(n) == Pinned(n, NoRevision)

\* Resolve, or the alias metadata of a read, list or tree entry.
Learn(c, k, n) ==
    /\ authorize(k, c, "resolve", Versionless(n))
    /\ resolved_for(Versionless(n)) # {}
    /\ held' = [held EXCEPT ![c] = aliases[n]]
    /\ UNCHANGED <<objects, aliases, rejected, gone>>

\* MemoryResolver::put: a stored object is put again without effect, a
\* forgotten one conflicts.
put(n, r) ==
    /\ <<n, r>> \notin DOMAIN objects
    /\ Cardinality(DOMAIN objects) < OBJECTS
    /\ objects' = With(objects, <<n, r>>, "stored")
    /\ UNCHANGED <<aliases, gone>>

PutRequest(c, k, n, r) ==
    /\ authorize(k, c, "put", Pinned(n, r))
    /\ put(n, r)
    /\ UNCHANGED <<held, rejected>>

\* expected != Some(current), over the whole snapshot.
BugExpected(expected, n) == expected.revision = aliases[n].revision
Expected(expected, n) == expected = aliases[n]

\* AliasGeneration::checked_next: the next generation, none after the last.
checked_next(generation) == {generation + 1} \cap 1 .. MaxGeneration

\* The first alias of a name is expected to be absent.
compare_and_swap_alias(n, expected, r) ==
    /\ Reachable(n, r)
    /\ IF n \in DOMAIN aliases
       THEN /\ ~aliases[n].tombstone
            /\ Expected(expected, n)
            /\ \E next \in checked_next(aliases[n].generation) :
                  aliases' = [aliases EXCEPT ![n] = AliasSnapshot(n, r, next, FALSE)]
       ELSE /\ Cardinality(DOMAIN aliases) < ALIASES
            /\ aliases' = With(aliases, n, AliasSnapshot(n, r, 1, FALSE))
    /\ UNCHANGED <<objects, gone>>

\* What the runtime demands of the snapshot that follows the expected one: the
\* client keeps it, or the resolver's answer is rejected.
Follows(c, n, tombstone, generation) ==
    LET valid == aliases'[n].tombstone = tombstone /\ aliases'[n].generation = generation
    IN  /\ held' = IF valid THEN [held EXCEPT ![c] = aliases'[n]] ELSE held
        /\ rejected' = (rejected \/ ~valid)

CasRequest(c, k, n, r) ==
    /\ authorize(k, c, "cas", Versionless(n))
    /\ \/ /\ ~held[c].tombstone /\ held[c].of = {n} /\ n \in DOMAIN aliases
          /\ compare_and_swap_alias(n, held[c], r)
          /\ Follows(c, n, FALSE, held[c].generation + 1)
       \/ /\ n \notin DOMAIN aliases
          /\ compare_and_swap_alias(n, NoSnapshot, r)
          /\ Follows(c, n, FALSE, 1)

\* Every stored revision of the name.
Forgotten(n) == {o \in DOMAIN objects : o[1] = n /\ objects[o] = "stored"}

\* The revision of a tombstone hashes the name, the revision it replaces and
\* the generation.
TombstoneRevision(expected) == <<"tombstone", expected.revision, expected.generation>>

\* insert_tombstone, which never meets an object of that revision, and the
\* objects the forgotten name leaves behind.
insert_tombstone(n, expected) ==
    /\ Cardinality(DOMAIN objects) < OBJECTS
    /\ objects' = With([o \in DOMAIN objects |-> IF o \in Forgotten(n) THEN "forgotten"
                                                 ELSE objects[o]],
                       <<n, TombstoneRevision(expected)>>, "tombstone")

forget(n, expected) ==
    /\ n \in DOMAIN aliases /\ ~aliases[n].tombstone
    /\ Expected(expected, n)
    /\ insert_tombstone(n, expected)
    /\ \E next \in checked_next(aliases[n].generation) :
          aliases' = [aliases EXCEPT ![n] = AliasSnapshot(n, TombstoneRevision(expected), next, TRUE)]
    /\ gone' = gone \cup {o \in DOMAIN objects : o[1] = n /\ objects[o] # "tombstone"}

ForgetRequest(c, k, n) ==
    /\ authorize(k, c, "forget", Versionless(n))
    /\ ~held[c].tombstone /\ held[c].of = {n}
    /\ forget(n, held[c])
    /\ Follows(c, n, TRUE, held[c].generation + 1)

StoreNext ==
    /\ \E c \in Owner, k \in DOMAIN tokens, n \in Name :
         \/ Learn(c, k, n)
         \/ \E r \in ContextRevision : PutRequest(c, k, n, r) \/ CasRequest(c, k, n, r)
         \/ ForgetRequest(c, k, n)
    /\ UNCHANGED authorityVars

\* The resolver and the capabilities its clients obtain and lose.
StoreSpec ==
    /\ AuthorityInit /\ StoreInit
    /\ [][StoreNext \/ (AuthorityNext /\ UNCHANGED storeVars)]_<<authorityVars, storeVars>>

-----------------------------------------------------------------------------
(* Properties. *)

\* Once a name is forgotten none of the revisions it then had is served again:
\* not pinned, not through the alias, a listing, a search or the history, and
\* not by putting the same bytes back.
ForgottenUnreachable ==
    \A o \in gone, op \in {"read", "tree", "search", "history"} :
      \A t \in {Pinned(o[1], o[2]), Versionless(o[1])} :
        \A r \in UNION Answer(op, t, MAX_ENUM_RESULTS) : <<Of(r), r.revision>> # o

\* The runtime never refuses what this resolver answers, in any state the two
\* reach together: its checks cost a conforming resolver nothing.
RuntimeAcceptsResolver ==
    /\ ~rejected
    /\ \A n \in Name, r \in ContextRevision, op \in {"read", "list", "tree", "search", "history"} :
         \A t \in {Pinned(n, r), Versionless(n)} :
           target_shape_is_valid(op, t) =>
             \A S \in Answer(op, t, MAX_ENUM_RESULTS) : Accepted(op, t, S, MAX_ENUM_RESULTS)

Register == INSTANCE AliasRegister WITH
    RegisterName <- Name, RegisterClient <- Owner,
    current <- [n \in DOMAIN aliases |-> [version |-> aliases[n].generation,
                                          closed |-> aliases[n].tombstone]],
    seen <- [c \in Owner |-> [of |-> held[c].of, version |-> held[c].generation]]

\* Moving and forgetting aliases implements the register: no client overwrites
\* an update it has not seen, even when the revision has come back to the one
\* it saw, and a forgotten name is never written again.
AliasesAreARegister == Register!RegisterSpec
=============================================================================
