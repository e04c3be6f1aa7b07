-------------------------- MODULE DurableResolver --------------------------
(***************************************************************************)
(* The durable resolver of rvm-context-service (resolver.rs): encrypted    *)
(* objects and aliases in one database, and two outboxes, of vector-index  *)
(* jobs and of purge jobs, written in the transaction of the change they   *)
(* follow from and drained afterwards.                                     *)
(*                                                                         *)
(* The resolver runs one call at a time; between the steps of a drain the  *)
(* index, the purge sink or the database may fail, which ends the call,    *)
(* and the process may crash.  Tables survive, the call does not.  Jobs    *)
(* are drained in any order.  An object is found under the printed pinned  *)
(* URI, view included.  The vector index and the purge sink are external;  *)
(* vectors and scores are left out.                                        *)
(***************************************************************************)
EXTENDS Integers, FiniteSets, Sequences

CONSTANTS LogicalName,         \* versionless names
          StoredRevision,      \* revisions
          PlainView,           \* a target without a view
          DClient,             \* who calls
          KeyId,               \* wrapping keys an operator may configure
          NoHead,              \* a client that knows no snapshot
          max_objects, max_aliases,
          LastGeneration       \* bound: where checked_next refuses

\* The snapshots there are: a forgotten name keeps one that hashes what it replaced.
StoredAlias ==
    [of : {{n} : n \in LogicalName}, generation : 1 .. LastGeneration, tombstone : BOOLEAN,
     revision : StoredRevision \cup {<<"tombstone", r>> : r \in StoredRevision}]

\* Knowing no snapshot and naming no revision are told from every snapshot and revision.
ASSUME DurableAssumption ==
    NoHead \notin StoredAlias \cup StoredRevision /\ LastGeneration \in Nat \ {0}

VARIABLES table_objects,       \* OBJECTS: <<name, revision, view>> to its envelope
          table_aliases,       \* ALIASES
          index_jobs,          \* INDEX_JOBS: name to a job
          purge_jobs,          \* PURGE_JOBS: names
          index,               \* the active index: name to the revision of its point
          purged,              \* names the purge sink has erased
          known,               \* the snapshot each client holds
          call                 \* what the process is doing

durableVars == <<table_objects, table_aliases, index_jobs, purge_jobs, index, purged, known, call>>

Erase == [upsert |-> {}]
Upsert(r) == [upsert |-> {r}]
Put(f, k, v) == [x \in DOMAIN f \cup {k} |-> IF x = k THEN v ELSE f[x]]
RemoveStored(f, S) == [x \in DOMAIN f \ S |-> f[x]]
FirstJob(n, r, generation, tombstone) ==
    [of |-> {n}, revision |-> r, generation |-> generation, tombstone |-> tombstone]

(* The process: down, idle, or draining.  todo is what is left of the jobs  *)
(* the drain read, stage the step of the job at hand, and next says whether *)
(* the purge outbox follows.                                                *)
Down == [at |-> "down", todo |-> {}, stage |-> <<"start">>, next |-> FALSE, key_id |-> 0]
Idle(key) == [at |-> "idle", todo |-> {}, stage |-> <<"start">>, next |-> FALSE, key_id |-> key]
DrainIndex(jobs, next, key) ==
    [at |-> "index", todo |-> jobs, stage |-> <<"start">>, next |-> next, key_id |-> key]
DrainPurge(key) ==
    [at |-> "purge", todo |-> purge_jobs, stage |-> <<"start">>, next |-> FALSE, key_id |-> key]
Ready == call.at = "idle"

DurableInit ==
    /\ table_objects = <<>> /\ table_aliases = <<>>
    /\ index_jobs = <<>> /\ purge_jobs = {}
    /\ index = <<>> /\ purged = {}
    /\ known = [c \in DClient |-> NoHead]
    /\ call = Down

-----------------------------------------------------------------------------
(* Objects. *)

\* seal and wrap bind the envelope to the key that printed it and to its
\* wrapping key; decode and open refuse any other.
seal(key, wrapping) == [aad |-> key, key_id |-> wrapping]
Opens(key) == table_objects[key] = seal(key, call.key_id)

\* read_object of a key that is there and opens.
read_object(n, r, view) == <<n, r, view>> \in DOMAIN table_objects /\ Opens(<<n, r, view>>)

\* resolved_for: a target that names no revision goes through its alias.
DResolved(n, r, view) ==
    IF r # NoHead THEN read_object(n, r, view)
    ELSE /\ n \in DOMAIN table_aliases /\ ~table_aliases[n].tombstone
         /\ read_object(n, table_aliases[n].revision, view)

\* all_aliases and enumerate below a root: refused whole when the object of one
\* live alias is missing or does not open; {} stands for the refusal.
all_aliases == DOMAIN table_aliases
durable_enumerate(roots) ==
    LET live == {n \in all_aliases \cap roots : ~table_aliases[n].tombstone}
    IN  IF \A n \in live : read_object(n, table_aliases[n].revision, PlainView)
        THEN {[n \in live |-> table_aliases[n].revision]} ELSE {}

\* history: the stored objects of a live name, if each of them opens.
object_keys_for(n) == {k \in DOMAIN table_objects : k[1] = n}
durable_history(n) ==
    IF /\ n \in all_aliases /\ ~table_aliases[n].tombstone
       /\ \A k \in object_keys_for(n) : Opens(k)
    THEN {{k[2] : k \in object_keys_for(n)}} ELSE {}

\* verify hashes what read_object returned; execute wants a revision in the target.
durable_verify(n, r) == DResolved(n, r, PlainView)
prepare_execute(n, r) == r # NoHead /\ DResolved(n, r, PlainView)

durable_put(n, r) ==
    LET key == <<n, r, PlainView>>
    IN  /\ Ready
        /\ key \notin DOMAIN table_objects
        /\ Cardinality(DOMAIN table_objects) < max_objects
        /\ table_objects' = Put(table_objects, key, seal(key, call.key_id))
        /\ UNCHANGED <<table_aliases, index_jobs, purge_jobs, index, purged, known, call>>

\* The snapshot a client reads with a resolve, list or tree entry.
Observe(c, n) ==
    /\ Ready
    /\ DResolved(n, NoHead, PlainView)
    /\ known' = [known EXCEPT ![c] = table_aliases[n]]
    /\ UNCHANGED <<table_objects, table_aliases, index_jobs, purge_jobs, index, purged, call>>

-----------------------------------------------------------------------------
(* Moving and forgetting an alias: one transaction, then the drains, whose  *)
(* failures the call ignores.                                               *)

BugCurrent(c, n) == known[c] = table_aliases[n]

\* A tombstone is final, and expected == Some(current), generation included.
Current(c, n) == ~table_aliases[n].tombstone /\ known[c] = table_aliases[n]

\* compare_and_swap_alias reads the object it is about to name.
TargetStored(n, r) == read_object(n, r, PlainView)

MoveAlias(c, n, r) ==
    /\ Ready
    /\ TargetStored(n, r)
    /\ LET s == IF n \in DOMAIN table_aliases
                THEN FirstJob(n, r, table_aliases[n].generation + 1, FALSE)
                ELSE FirstJob(n, r, 1, FALSE)
       IN  /\ IF n \in DOMAIN table_aliases
              THEN /\ Current(c, n)
                   /\ table_aliases[n].generation < LastGeneration
              ELSE Cardinality(DOMAIN table_aliases) < max_aliases
           /\ table_aliases' = Put(table_aliases, n, s)
           /\ known' = [known EXCEPT ![c] = s]
    /\ index_jobs' = Put(index_jobs, n, Upsert(r))
    /\ call' = DrainIndex(DOMAIN index_jobs', FALSE, call.key_id)
    /\ UNCHANGED <<table_objects, purge_jobs, index, purged>>

BugErasure(n) == purge_jobs

\* The purge job forget writes along with the tombstone.
Erasure(n) == purge_jobs \cup {n}

durable_forget(c, n) ==
    /\ Ready
    /\ n \in DOMAIN table_aliases
    /\ Current(c, n)
    /\ table_aliases[n].generation < LastGeneration
    /\ LET s == FirstJob(n, <<"tombstone", table_aliases[n].revision>>,
                     table_aliases[n].generation + 1, TRUE)
       IN  /\ table_aliases' = Put(table_aliases, n, s)
           /\ known' = [known EXCEPT ![c] = s]
    /\ table_objects' = RemoveStored(table_objects, object_keys_for(n))
    /\ index_jobs' = Put(index_jobs, n, Erase)
    /\ purge_jobs' = Erasure(n)
    /\ call' = DrainIndex(DOMAIN index_jobs', TRUE, call.key_id)
    /\ UNCHANGED <<index, purged>>

\* maintenance, and a search, which drains the index jobs first.
maintenance ==
    /\ Ready
    /\ call' = DrainIndex(DOMAIN index_jobs, TRUE, call.key_id)
    /\ UNCHANGED <<table_objects, table_aliases, index_jobs, purge_jobs, index, purged, known>>

durable_search ==
    /\ Ready
    /\ call' = DrainIndex(DOMAIN index_jobs, FALSE, call.key_id)
    /\ UNCHANGED <<table_objects, table_aliases, index_jobs, purge_jobs, index, purged, known>>

\* open replays the index jobs before anything is served.
open(key) ==
    /\ call.at = "down"
    /\ call' = DrainIndex(DOMAIN index_jobs, TRUE, key)
    /\ UNCHANGED <<table_objects, table_aliases, index_jobs, purge_jobs, index, purged, known>>

-----------------------------------------------------------------------------
(* The drains. *)

\* ActiveIndex::apply erases the scope, then inserts the point of an upsert.
EraseScope(n) ==
    /\ call.at = "index" /\ n \in call.todo /\ call.stage = <<"start">>
    /\ index' = RemoveStored(index, {n})
    /\ call' = [call EXCEPT !.stage = IF index_jobs[n] = Erase THEN <<"remove", n>>
                                      ELSE <<"insert", n>>]
    /\ UNCHANGED <<table_objects, table_aliases, index_jobs, purge_jobs, purged, known>>

InsertPoint(n) ==
    /\ call.stage = <<"insert", n>>
    /\ \E r \in index_jobs[n].upsert : index' = Put(index, n, r)
    /\ call' = [call EXCEPT !.stage = <<"remove", n>>]
    /\ UNCHANGED <<table_objects, table_aliases, index_jobs, purge_jobs, purged, known>>

\* remove_job_if_unchanged: nothing else writes the table meanwhile.
RemoveIndexJob(n) ==
    /\ call.at = "index" /\ call.stage = <<"remove", n>>
    /\ index_jobs' = RemoveStored(index_jobs, {n})
    /\ call' = [call EXCEPT !.todo = @ \ {n}, !.stage = <<"start">>]
    /\ UNCHANGED <<table_objects, table_aliases, purge_jobs, index, purged, known>>

IndexDrained ==
    /\ call.at = "index" /\ call.todo = {}
    /\ call' = IF call.next THEN DrainPurge(call.key_id) ELSE Idle(call.key_id)
    /\ UNCHANGED <<table_objects, table_aliases, index_jobs, purge_jobs, index, purged, known>>

PurgeSink(n) ==
    /\ call.at = "purge" /\ n \in call.todo /\ call.stage = <<"start">>
    /\ purged' = purged \cup {n}
    /\ call' = [call EXCEPT !.stage = <<"remove", n>>]
    /\ UNCHANGED <<table_objects, table_aliases, index_jobs, purge_jobs, index, known>>

RemovePurgeJob(n) ==
    /\ call.at = "purge" /\ call.stage = <<"remove", n>>
    /\ purge_jobs' = purge_jobs \ {n}
    /\ call' = [call EXCEPT !.todo = @ \ {n}, !.stage = <<"start">>]
    /\ UNCHANGED <<table_objects, table_aliases, index_jobs, index, purged, known>>

PurgeDrained ==
    /\ call.at = "purge" /\ call.todo = {}
    /\ call' = Idle(call.key_id)
    /\ UNCHANGED <<table_objects, table_aliases, index_jobs, purge_jobs, index, purged, known>>

BugDrainFails ==
    /\ call.at \in {"index", "purge"} /\ call.todo # {}
    /\ index_jobs' = RemoveStored(index_jobs, {n \in LogicalName : call.stage = <<"insert", n>>})
    /\ call' = Idle(call.key_id)
    /\ UNCHANGED <<table_objects, table_aliases, purge_jobs, index, purged, known>>

\* The first failure ends the drain and leaves its job.
DrainFails ==
    /\ call.at \in {"index", "purge"} /\ call.todo # {}
    /\ call' = Idle(call.key_id)
    /\ UNCHANGED <<table_objects, table_aliases, index_jobs, purge_jobs, index, purged, known>>

Crash ==
    /\ call.at # "down"
    /\ call' = Down
    /\ UNCHANGED <<table_objects, table_aliases, index_jobs, purge_jobs, index, purged, known>>

\* One step of a drain that does not fail.
DrainStep ==
    \/ IndexDrained \/ PurgeDrained
    \/ \E n \in LogicalName : \/ EraseScope(n) \/ InsertPoint(n) \/ RemoveIndexJob(n)
                             \/ PurgeSink(n) \/ RemovePurgeJob(n)

DurableNext ==
    \/ \E n \in LogicalName :
         \/ \E r \in StoredRevision : durable_put(n, r)
         \/ \E c \in DClient : Observe(c, n) \/ durable_forget(c, n)
         \/ \E c \in DClient, r \in StoredRevision : MoveAlias(c, n, r)
    \/ \E key \in KeyId : open(key)
    \/ maintenance \/ durable_search
    \/ DrainStep \/ DrainFails \/ Crash

DurableSpec == DurableInit /\ [][DurableNext]_durableVars

-----------------------------------------------------------------------------
(* Properties. *)

Active(n) ==
    IF n \in DOMAIN table_aliases /\ ~table_aliases[n].tombstone
    THEN {table_aliases[n].revision} ELSE {}
Indexed(n) == IF n \in DOMAIN index THEN {index[n]} ELSE {}

\* A name without a pending job is indexed exactly as its alias says, through
\* every failure and crash between the steps of a drain: a search that has
\* drained the outbox meets no stale and no missing point.
IndexFollowsAliases == \A n \in LogicalName : n \notin DOMAIN index_jobs => Indexed(n) = Active(n)

\* While one wrapping key is kept, no listing is refused and no live name is without
\* its current revision: the history names it, and it can be verified and executed.
\* enumerate fails as a whole on the first alias whose object is gone.
ListingsAnswer ==
    (call.at # "down" /\ \A k \in DOMAIN table_objects : table_objects[k].key_id = call.key_id) =>
      \A listing \in SUBSET LogicalName :
        \E found \in durable_enumerate(listing) : \A n \in DOMAIN found :
          /\ \E past \in durable_history(n) : found[n] \in past
          /\ durable_verify(n, NoHead) /\ prepare_execute(n, found[n])

\* No erasure is lost: a forgotten name has left the index and reached the purge
\* sink, or its purge job is still there for the next drain, wherever drains
\* failed and the process crashed on the way.
ErasureOwed ==
    \A n \in DOMAIN table_aliases :
      table_aliases[n].tombstone => n \in purge_jobs \/ (n \in purged /\ n \notin DOMAIN index)

DurableRegister == INSTANCE AliasRegister WITH
    RegisterName <- LogicalName, RegisterClient <- DClient,
    current <- [n \in DOMAIN table_aliases |-> [version |-> table_aliases[n].generation,
                                                closed |-> table_aliases[n].tombstone]],
    seen <- [c \in DClient |-> IF known[c] = NoHead THEN [of |-> {}, version |-> 0]
                               ELSE [of |-> known[c].of, version |-> known[c].generation]]

\* The durable aliases implement the register of AliasRegister too, across
\* crashes and clients that keep a snapshot over a restart.
DurableAliasesAreARegister == DurableRegister!RegisterSpec
=============================================================================
