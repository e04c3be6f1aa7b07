---------------------------- MODULE MC_Services ----------------------------
(***************************************************************************)
(* Small instances of the capability manager, and of what serves the       *)
(* system's clients: the outboxes of the durable resolver, a connection of *)
(* the gateway, the snapshot of the identity thread and a deadline of the  *)
(* timer.  A behaviour exercises one of them, `part`, and the others stay  *)
(* where they began, so each fairness assumption is about steps of its own *)
(* part.  Of the durable resolver and the manager none is assumed: nothing *)
(* in server.rs calls maintenance.                                         *)
(***************************************************************************)
EXTENDS CapManager, DurableResolver, IdentityWorker, Gateway, Aarch64Devices

VARIABLE part

MCOp(n, e) == [name |-> n, expected |-> e]
MCPosts ==
  {Posted(MCOp("cas", 0), "POST", t, "api") : t \in BOOLEAN}
  \cup {Posted(MCOp("forget", 1), "POST", TRUE, p) : p \in {"api", "mcp"}}
  \cup {Posted(MCOp("read", 0), "GET", TRUE, "api"), Posted(MCOp("nope", 0), "POST", TRUE, "mcp")}

-----------------------------------------------------------------------------
\* A component that is not exercised begins in one of its initial states only.
ServicesInit ==
  /\ part \in {"capabilities", "durable", "identity", "gateway", "devices"}
  /\ Init
  /\ DurableInit
  /\ IdentityInit /\ (part # "identity" => worker = "none")
  /\ GatewayInit
  /\ DeviceInit

ServicesNext ==
  /\ UNCHANGED part
  /\ \/ /\ part = "capabilities" /\ Next
        /\ UNCHANGED <<durableVars, identityVars, gatewayVars, deviceVars>>
     \/ /\ part = "durable" /\ DurableNext
        /\ UNCHANGED <<vars, identityVars, gatewayVars, deviceVars>>
     \/ /\ part = "identity" /\ IdentityNext
        /\ UNCHANGED <<vars, durableVars, gatewayVars, deviceVars>>
     \/ /\ part = "gateway" /\ GatewayNext
        /\ UNCHANGED <<vars, durableVars, identityVars, deviceVars>>
     \/ /\ part = "devices" /\ DeviceNext
        /\ UNCHANGED <<vars, durableVars, identityVars, gatewayVars>>

varsServices == <<part, vars, durableVars, identityVars, gatewayVars, deviceVars>>

\* The fairness of a part, as its module states it, of the steps taken while it is
\* the part exercised.
IdentityFair ==
  /\ WF_identityVars(part = "identity" /\ HashOrReply)
  /\ WF_identityVars(part = "identity" /\ \E why \in {"digest", "release", "clone"} :
                       asked = why /\ Gone(why))

GatewayFair ==
  \A c \in Conn : /\ WF_gatewayVars(part = "gateway" /\ Acquire(c))
                  /\ WF_gatewayVars(part = "gateway" /\ Expire(c))

DeviceFair ==
  /\ WF_deviceVars(part = "devices" /\ Counts)
  /\ SF_deviceVars(part = "devices" /\ Raise(TIMER_IRQ))
  /\ \A i \in Irq : /\ WF_deviceVars(part = "devices" /\ acknowledge(i))
                    /\ WF_deviceVars(part = "devices" /\ end_of_interrupt(i))

ServicesSpec ==
  /\ ServicesInit /\ [][ServicesNext]_varsServices
  /\ IdentityFair /\ GatewayFair /\ DeviceFair

-----------------------------------------------------------------------------
(* The properties of the parts. *)

\* The durable tables and the index agree and no erasure is lost, an identity is right
\* or unknown, and an operation of the gateway takes effect once (rvm-context-service:
\* resolver.rs, gateway.rs, bin/server.rs; rvm-rvf: stream/ident.rs).
ServicesSound ==
  /\ part = "durable" => IndexFollowsAliases /\ ListingsAnswer /\ ErasureOwed
  /\ part = "identity" => IdentityNeverWrong
  /\ part = "gateway" => EffectsOnce

\* Nobody waits for ever: for the identity thread's snapshot, for a slow connection to
\* give its permit back, for an armed timer (stream/ident.rs, bin/server.rs, timer.rs).
NobodyWaitsForEver == SnapshotAnswered /\ ConnectionsEnd /\ UnmaskedDeadlineServed
=============================================================================
