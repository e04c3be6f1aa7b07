------------------------------ MODULE Gateway ------------------------------
(***************************************************************************)
(* The context gateway and its TLS server (rvm-context-service:            *)
(* gateway.rs, bin/server.rs): a bounded number of connections, one        *)
(* request each, a timeout around the handshake and around the request,    *)
(* and one mutex around the context runtime.  Clients give up and send     *)
(* the same operation again, because the answer may be lost after the      *)
(* operation took effect.                                                  *)
(*                                                                         *)
(* The resolver behind the runtime is one alias: its generation and        *)
(* whether it is a tombstone (DurableResolver models it in full).  JSON,   *)
(* TLS and HTTP are what they hand to this code: a method, whether the     *)
(* token compares equal, a path, frames of a body.                         *)
(***************************************************************************)
EXTENDS Naturals, Sequences

CONSTANTS
    Conn,             \* connections of clients
    AnyPost,          \* requests clients send: see Posted
    MAX_CONNECTIONS, MAX_BODY_BYTES, FrameLen,
    AllowWrites,      \* RVM_CONTEXT_ALLOW_WRITES
    MaxEffects     \* bound on the alias

ASSUME GatewayNumbers == MAX_CONNECTIONS \in Nat \ {0} /\ MAX_BODY_BYTES \in Nat /\ FrameLen \subseteq Nat

VARIABLES
    conn,       \* [Conn -> [stage, request, length, status]]
    accepting,  \* the stream main() has accepted and holds no permit for: at most one
    permits,    \* of the semaphore
    poisoned,   \* the runtime's mutex
    alias,      \* [generation, tombstone]
    effects,    \* requests that changed the alias, in order
    told        \* operations their clients were told succeeded (200, not over MCP)

gatewayVars == <<conn, accepting, permits, poisoned, alias, effects, told>>

Away == [stage |-> "away", request |-> {}, length |-> 0, status |-> 0]
\* op: [name, expected], an operation a client wants done; path "api" or "mcp".
Posted(op, method, token, path) == [op |-> op, method |-> method, token |-> token, path |-> path]

-----------------------------------------------------------------------------
(* The gateway *)

\* tool_route and the match of dispatch_api: the ten operations, by route or by tool.
Reads == {"resolve", "list", "tree", "history", "read", "search", "verify"}
Mutations == {"put", "cas", "forget"}
tool_route(name) == IF name \in Reads \cup Mutations THEN {name} ELSE {}

\* Rights of the one capability the server issues itself: READ and PROVE, WRITE if allowed.
Allowed(name) == name \in Reads \/ AllowWrites

\* parse_snapshot and the comparison behind compare_and_swap_alias and forget; 0: no alias yet.
SnapshotMatches(expected) == expected = alias.generation /\ ~alias.tombstone

context_error_response(error) ==
    CASE error \in {"AccessDenied", "AliasNotFound", "RevisionNotFound", "Tombstoned"} -> 404
      [] error \in {"AliasConflict", "RevisionConflict"} -> 409
      [] error = "BackendUnavailable" -> 503
      [] OTHER -> 400

\* What the runtime answers, and whether the alias is replaced.
RuntimeFails(op) ==
    IF ~Allowed(op.name) THEN {"AccessDenied"}
    ELSE IF op.name \in {"cas", "forget"} /\ ~SnapshotMatches(op.expected)
      THEN {"AliasConflict"}
    ELSE IF op.name = "forget" /\ alias.generation = 0 THEN {"InvalidTarget"}
    ELSE {}
Replaces(op) == RuntimeFails(op) = {} /\ op.name \in {"cas", "forget"}

\* dispatch_api under the lock.
dispatch_api(r) ==
    /\ alias' = IF Replaces(r.op)
                THEN [generation |-> alias.generation + 1, tombstone |-> r.op.name = "forget"] ELSE alias
    /\ effects' = IF Replaces(r.op) THEN Append(effects, r) ELSE effects

\* dispatch: the status of the answer.
dispatch(op) ==
    IF poisoned THEN 503
    ELSE IF tool_route(op.name) = {} THEN context_error_response("InvalidTarget")
    ELSE IF RuntimeFails(op) = {} THEN 200
    ELSE context_error_response(CHOOSE e \in RuntimeFails(op) : TRUE)

\* dispatch_mcp answers 200 whatever happened: the tool's error is in the body.
dispatch_mcp(op) == 200

-----------------------------------------------------------------------------
(* The server *)

BugEnded(c) ==
    /\ conn' = [conn EXCEPT ![c] = Away]
    /\ permits' = IF conn[c].stage = "tls" THEN permits ELSE permits + 1

\* The task of a connection ends: its permit is dropped with it.
Ended(c) ==
    /\ conn' = [conn EXCEPT ![c] = Away]
    /\ permits' = permits + 1

Stage(c, s) == conn[c].stage = s

\* main: accept, then wait for a permit before the next accept.
Accept(c, r) ==
    /\ accepting = {} /\ Stage(c, "away")
    /\ accepting' = {c} /\ conn' = [conn EXCEPT ![c].stage = "accepted", ![c].request = {r}]
    /\ UNCHANGED <<permits, poisoned, alias, effects, told>>

Acquire(c) ==
    /\ c \in accepting /\ permits > 0
    /\ permits' = permits - 1 /\ accepting' = {} /\ conn' = [conn EXCEPT ![c].stage = "tls"]
    /\ UNCHANGED <<poisoned, alias, effects, told>>

\* serve: method, then token, then the body is read.
serve(c) ==
    /\ Stage(c, "tls")
    /\ \E r \in conn[c].request :
         conn' = [conn EXCEPT
           ![c].stage = IF r.method = "POST" /\ r.token THEN "body" ELSE "reply",
           ![c].status = IF r.method # "POST" THEN 405 ELSE IF ~r.token THEN 401 ELSE 0]
    /\ UNCHANGED <<accepting, permits, poisoned, alias, effects, told>>

\* bounded_body: one frame, or an error of the body.
bounded_body(c, n) ==
    /\ Stage(c, "body")
    /\ conn' = IF conn[c].length + n > MAX_BODY_BYTES
               THEN [conn EXCEPT ![c].stage = "reply", ![c].status = 413]
               ELSE [conn EXCEPT ![c].length = @ + n]
    /\ UNCHANGED <<accepting, permits, poisoned, alias, effects, told>>
BodyFails(c) ==
    /\ Stage(c, "body") /\ conn' = [conn EXCEPT ![c].stage = "reply", ![c].status = 400]
    /\ UNCHANGED <<accepting, permits, poisoned, alias, effects, told>>

\* The body is complete: dispatched without an await, so no timeout falls inside.
Dispatch(c) ==
    /\ Stage(c, "body") /\ conn[c].length > 0 /\ alias.generation < MaxEffects
    /\ \E r \in conn[c].request :
         /\ conn' = [conn EXCEPT ![c].stage = "reply",
              ![c].status = IF r.path = "mcp" THEN dispatch_mcp(r.op) ELSE dispatch(r.op)]
         /\ IF poisoned \/ tool_route(r.op.name) = {} THEN UNCHANGED <<alias, effects>> ELSE dispatch_api(r)
    /\ UNCHANGED <<accepting, permits, poisoned, told>>

\* A panic under the lock poisons it and ends the task.
Panic(c) ==
    /\ Stage(c, "body") /\ conn[c].length > 0 /\ ~poisoned
    /\ poisoned' = TRUE /\ Ended(c)
    /\ UNCHANGED <<accepting, alias, effects, told>>

AnswerSent(c) ==
    /\ Stage(c, "reply") /\ Ended(c)
    /\ told' = told \cup {r.op : r \in {q \in conn[c].request : conn[c].status = 200 /\ q.path = "api"}}
    /\ UNCHANGED <<accepting, poisoned, alias, effects>>

\* REQUEST_TIMEOUT, a failed handshake, or a peer that is gone.
Expire(c) ==
    /\ conn[c].stage \in {"tls", "body", "reply"} /\ Ended(c)
    /\ UNCHANGED <<accepting, poisoned, alias, effects, told>>

-----------------------------------------------------------------------------
GatewayInit ==
    /\ conn = [c \in Conn |-> Away] /\ accepting = {} /\ permits = MAX_CONNECTIONS
    /\ poisoned = FALSE /\ alias = [generation |-> 0, tombstone |-> FALSE]
    /\ effects = <<>> /\ told = {}

GatewayNext ==
    \E c \in Conn :
      \/ \E r \in AnyPost : Accept(c, r)
      \/ Acquire(c) \/ serve(c) \/ (\E n \in FrameLen : bounded_body(c, n)) \/ BodyFails(c)
      \/ Dispatch(c) \/ Panic(c) \/ AnswerSent(c) \/ Expire(c)

\* The runtime runs every ready task, and its timers fire.
GatewayFairness == \A c \in Conn : WF_gatewayVars(Acquire(c)) /\ WF_gatewayVars(Expire(c))

-----------------------------------------------------------------------------
(* Properties *)

\* Only what was asked for happens, and once: whatever is sent again after a lost
\* answer, a client's compare-and-swap or forget changes the alias at most once, for
\* an authenticated POST and only on a server that allows writes; and a client told
\* 200 by the API for one of them was not told so for nothing.
EffectsOnce ==
    /\ \A i, j \in 1 .. Len(effects) : i # j => effects[i].op # effects[j].op
    /\ \A i \in 1 .. Len(effects) : effects[i].method = "POST" /\ effects[i].token /\ AllowWrites
    /\ \A op \in told : op.name \in {"cas", "forget"} => \E i \in 1 .. Len(effects) : effects[i].op = op

\* Every connection that was accepted ends, silent peers and a full server included.
ConnectionsEnd == \A c \in Conn : (conn[c].stage # "away") ~> (conn[c].stage = "away")
=============================================================================
