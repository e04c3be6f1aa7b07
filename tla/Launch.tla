-------------------------------- MODULE Launch --------------------------------
(***************************************************************************)
(* Running packages: instances (rvm-launch: instance.rs, instance_guard.rs,*)
(* instance_stream.rs, context.rs, checkpoint.rs, state.rs), the host      *)
(* adapter that prepares and spawns them, what it can enforce and may      *)
(* claim (rvm-host: adapter.rs, mechanism.rs, isolation.rs, hosted.rs,     *)
(* wasm.rs, bare_metal.rs), the agent manager that holds what runs         *)
(* (rvm-wasm, agent.rs), the obligation of a poisoned stream (rvm-launch,  *)
(* stream_obligation.rs), and last the broker of an agent's effects on its *)
(* host, which shares no state with the others.                            *)
(*                                                                         *)
(* Instances share one witness log, and operations that do not take the    *)
(* agent manager - create and checkpoint - can run while others do: they   *)
(* read the log's position in one step and write the record that closes    *)
(* their span in another.                                                  *)
(***************************************************************************)
EXTENDS Integers, Sequences, FiniteSets, SequencesExt

-----------------------------------------------------------------------------
\* Host adapters.  An adapter is its environment and, of its system's stack, the
\* mechanisms the host integration reported as applied.

HostOs == {"windows", "macos", "linux"}
HostEnvironment == {"portable", "bare-metal"} \cup HostOs

PORTABLE_CORE == {"wasm-memory-isolation", "capability-default-deny", "quota-enforcement"}
BARE_METAL_ONLY == {"partition-memory-isolation", "capability-table", "device-lease",
                    "measured-boot", "witnessed-security-gate"}

stack_for(os) ==
  CASE os = "windows" -> {"job-object", "restricted-token", "filesystem-restriction",
                          "outbound-network-control"}
    [] os = "macos" -> {"app-sandbox", "hardened-runtime", "scoped-entitlements",
                        "notarization"}
    [] os = "linux" -> {"namespaces", "cgroups", "seccomp", "restricted-mounts",
                        "network-namespace"}

IsolationMechanism == PORTABLE_CORE \cup BARE_METAL_ONLY \cup UNION {stack_for(os) : os \in HostOs}

\* The system a mechanism belongs to.
host_os(m) == {os \in HostOs : m \in stack_for(os)}

confines_filesystem(m) ==
  m \in {"filesystem-restriction", "app-sandbox", "scoped-entitlements",
         "restricted-mounts", "namespaces"}
confines_network(m) ==
  m \in {"outbound-network-control", "app-sandbox", "network-namespace"}
confines_process(m) ==
  m \in {"job-object", "restricted-token", "app-sandbox", "namespaces", "seccomp"}

RUNTIME_ENFORCED_CLASSES ==
  {"memory", "model", "persistent-state", "mcp", "inter-agent-messaging", "clock"}

\* The classes no object of the kernel stands for; every other is_representable.
UNREPRESENTABLE == {"clipboard", "randomness"}

\* HostedAdapter::engaging refuses a mechanism of another system's stack.
Adapter ==
  {a \in [env : HostEnvironment, engaged : SUBSET IsolationMechanism] :
     a.engaged \subseteq IF a.env \in HostOs THEN stack_for(a.env) ELSE {}}

\* The MechanismSet an adapter reports: the status of what it declares.
mechanisms(a) ==
  LET stack == IF a.env \in HostOs THEN stack_for(a.env)
               ELSE IF a.env = "bare-metal" THEN BARE_METAL_ONLY ELSE {}
  IN  [m \in PORTABLE_CORE \cup stack |->
         IF a.env \in HostOs /\ m \in stack \ a.engaged THEN "unimplemented" ELSE "engaged"]

is_engaged(a, m) == m \in DOMAIN mechanisms(a) /\ mechanisms(a)[m] = "engaged"

\* enforces, of the three adapters.
enforces(a, class) ==
  \/ a.env = "bare-metal" /\ class \notin UNREPRESENTABLE
  \/ a.env # "bare-metal" /\ class \in RUNTIME_ENFORCED_CLASSES
  \/ /\ a.env \in HostOs
     /\ \/ class = "filesystem" /\ \E m \in a.engaged : confines_filesystem(m)
        \/ class = "network" /\ \E m \in a.engaged : confines_network(m)
        \/ class = "process" /\ \E m \in a.engaged : confines_process(m)

any_os_confinement_engaged(a) == \E m \in IsolationMechanism : is_engaged(a, m) /\ a.env \in host_os(m)

\* IsolationClaim::derive
IsolationClaim == {"partition", "os-sandbox+wasm", "wasm-only"}
claim(a) ==
  CASE a.env \in HostOs /\ any_os_confinement_engaged(a) -> "os-sandbox+wasm"
    [] a.env = "bare-metal" -> "partition"
    [] OTHER -> "wasm-only"

-----------------------------------------------------------------------------
(* Records of the shared log.  The host layer and the launch layer both number  *)
(* their events from 1, so each reads a record as its own by the tag, the       *)
(* action kind that tag implies, and the claim, which is the host's mark.  The  *)
(* verifier of packages writes to the same log, and its records have the index  *)
(* of a segment where the others have tag and claim.                            *)

HostEvent == <<"granted", "denied", "refused", "prepared", "admitted", "module_refused">>

host_action_kind(e) ==
  CASE e = "granted" -> "CapabilityGrant"
    [] e \in {"denied", "refused", "module_refused"} -> "ProofRejected"
    [] e \in {"prepared", "admitted"} -> "ProofVerifiedP2"

LaunchEvent ==
  <<"created", "started", "suspended", "resumed", "checkpoint", "restored",
    "checkpoint_rejected", "terminated", "illegal", "context_permit_rejected",
    "executable_rejected">>

action_kind(e) ==
  CASE e = "created" -> "ProofVerifiedP2"
    [] e = "started" -> "TaskSpawn"
    [] e = "suspended" -> "PartitionSuspend"
    [] e = "resumed" -> "PartitionResume"
    [] e = "checkpoint" -> "PartitionHibernate"
    [] e = "restored" -> "PartitionReconstruct"
    [] e = "terminated" -> "TaskTerminate"
    [] OTHER -> "ProofRejected"

Tag(events, e) == CHOOSE k \in DOMAIN events : events[k] = e

\* inst says on whose behalf a record was written: the launch layer's carry it.
HostRecord(i, e, claimed) ==
  [inst |-> i, kind |-> host_action_kind(e), tag |-> Tag(HostEvent, e), claim |-> claimed]
build_record(i, e) ==
  [inst |-> i, kind |-> action_kind(e), tag |-> Tag(LaunchEvent, e), claim |-> "none"]
AgentRecord(i, kind) == [inst |-> i, kind |-> kind, tag |-> 0, claim |-> "none"]

\* A verification record is nobody's: its aux[0] and aux[2], where the other layers
\* keep tag and claim, are the first and third byte of the index.
VerificationOutcome == {"pass", "fail", "skip"}
action_kind_for(result) ==
  CASE result = "pass" -> "ProofVerifiedP2"
    [] result = "fail" -> "ProofRejected"
    [] result = "skip" -> "ProofEscalated"

claim_code(byte) ==
  CASE byte = 0 -> "none" [] byte = 1 -> "partition" [] byte = 2 -> "os-sandbox+wasm"
    [] byte = 3 -> "wasm-only" [] OTHER -> "unknown"

VerificationRecord(index, result) ==
  [inst |-> "none", kind |-> action_kind_for(result), tag |-> index % 256,
   claim |-> claim_code((index \div 65536) % 256)]

\* What a layer reads in a record: one event of its own, or none.
host_event_of(r) ==
  {HostEvent[k] : k \in {k \in DOMAIN HostEvent :
     k = r.tag /\ r.kind = host_action_kind(HostEvent[k]) /\ r.claim \in IsolationClaim}}
event_of(r) ==
  {LaunchEvent[k] : k \in {k \in DOMAIN LaunchEvent :
     k = r.tag /\ r.kind = action_kind(LaunchEvent[k]) /\ r.claim = "none"}}

-----------------------------------------------------------------------------
CONSTANTS
  Instance, LaunchSession,
  HostClass,        \* the capability classes, each granted or denied at prepare
  Report,           \* verification reports: [ok, identity_confirmed, identity, granted, modules]
  SegmentIndex,     \* segments their records are about; 0 when about the container
  BadModule,        \* modules adapter.spawn refuses: too large or malformed
  UsedAdapter,      \* adapters in use
  Partition,
  MaxAgents,        \* MAX of the agent manager
  CapIndex,         \* slots of the capability table
  MaxLog, MaxGeneration     \* bounds

\* VerifiedPackage::from_report: the only packages there are.
from_report(r) ==
  IF r.ok /\ r.identity_confirmed
    THEN {[identity |-> r.identity, granted |-> r.granted, modules |-> r.modules]} ELSE {}
Package == UNION {from_report(r) : r \in Report}

ASSUME LaunchAssumption ==
  /\ UsedAdapter \subseteq Adapter /\ {MaxAgents, MaxLog, MaxGeneration} \subseteq Nat
  /\ \A r \in Report : r.identity # "none" /\ r.granted \subseteq HostClass
  /\ "none" \notin LaunchSession \cup Instance
  /\ SegmentIndex \subseteq Nat
  /\ IsFiniteSet(HostClass) /\ IsFiniteSet(Instance) /\ IsFiniteSet(CapIndex)

VARIABLES
  inst,             \* instance -> record, Absent before create
  agents,           \* agent id -> [state, partition]; the occupied slots
  launchLog,              \* the witness log
  ranges,           \* instance -> its spans <<start, end>> of the log
  open,             \* instance -> the operation under way, with its start
  checkpoints,            \* the checkpoints taken: [base, origin, sequence]
  caps,             \* index -> slot of the capability table
  handles           \* session -> the (index, generation) it installed

launchVars == <<inst, agents, launchLog, ranges, open, checkpoints, caps, handles>>

None == "none"
Absent == [state |-> "absent"]
Idle == [op |-> "idle"]

Existing == {i \in Instance : inst[i] # Absent}
Ids == {p.identity : p \in Package}

LaunchInit ==
  /\ inst = [i \in Instance |-> Absent]
  /\ agents = [b \in {} |-> None]
  /\ launchLog = <<>>
  /\ ranges = [i \in Instance |-> {}]
  /\ open = [i \in Instance |-> Idle]
  /\ checkpoints = {}
  /\ caps = [c \in CapIndex |-> [live |-> FALSE, generation |-> 0, depth |-> 0, parent |-> c]]
  /\ handles = [s \in LaunchSession |-> {}]

Room(n) == Len(launchLog) + n <= MaxLog

\* emit, then record_range from start.
BugSpan(i, start, records) ==
  /\ launchLog' = launchLog \o records
  /\ ranges' = [ranges EXCEPT ![i] = @ \cup {<<start, start + Len(records)>>}]

Span(i, start, records) ==
  /\ launchLog' = launchLog \o records
  /\ ranges' = [ranges EXCEPT ![i] = @ \cup {<<start, Len(launchLog) + Len(records)>>}]

Emit(records) == launchLog' = launchLog \o records /\ UNCHANGED ranges

\* Instance::witness: the places of the log its spans cover.
witness(i) == {k \in DOMAIN launchLog : \E r \in ranges[i] : r[1] < k /\ k <= r[2]}

\* inspect::verify puts what it found on the log, one record for each result.
EmitResult(index, result) ==
  /\ Room(1)
  /\ Emit(<<VerificationRecord(index, result)>>)
  /\ UNCHANGED <<inst, agents, open, checkpoints, caps, handles>>

-----------------------------------------------------------------------------
\* Creation.  adapter.prepare refuses a class it cannot enforce before it grants
\* any; otherwise it writes a record for every class, granted or denied, and the
\* isolation record.  Each carries the claim the adapter obtained.

Prepared(i, a, p) ==
  LET Times(S, e) == [k \in 1..Cardinality(S) |-> HostRecord(i, e, claim(a))]
  IN  Times(p.granted, "granted") \o Times(HostClass \ p.granted, "denied")
        \o <<HostRecord(i, "prepared", claim(a))>>

\* Instance::create up to the closing record.
BeginCreate(i, a, p, part) ==
  /\ inst[i] = Absent /\ open[i] = Idle
  /\ Room(Cardinality(HostClass) + 2)
  /\ IF \A c \in p.granted : enforces(a, c)
       THEN /\ open' = [open EXCEPT ![i] =
                          [op |-> "create", start |-> Len(launchLog), adapter |-> a,
                           package |-> p, partition |-> part]]
            /\ Emit(Prepared(i, a, p))
       ELSE Emit(<<HostRecord(i, "refused", claim(a))>>) /\ UNCHANGED open
  /\ UNCHANGED <<inst, agents, checkpoints, caps, handles>>

\* create_from_context: the permit must name the package and the partition; with
\* one that does it is create, and what is kept of the permit is not read again.
RefuseContext(i, p, part, permit) ==
  /\ inst[i] = Absent /\ open[i] = Idle
  /\ Room(1)
  /\ permit # [identity |-> p.identity, actor |-> part]
  /\ Emit(<<build_record(i, "context_permit_rejected")>>)
  /\ UNCHANGED <<inst, agents, open, checkpoints, caps, handles>>

EndCreate(i) ==
  /\ open[i].op = "create"
  /\ Room(1)
  /\ inst' = [inst EXCEPT ![i] =
                [state |-> "created", adapter |-> open[i].adapter, package |-> open[i].package,
                 partition |-> open[i].partition, agent |-> None, module |-> None,
                 origin |-> None, checkpoints |-> 0]]
  /\ Span(i, open[i].start, <<build_record(i, "created")>>)
  /\ open' = [open EXCEPT ![i] = Idle]
  /\ UNCHANGED <<agents, checkpoints, caps, handles>>

-----------------------------------------------------------------------------
\* The agent manager.  An agent's id is the hash of its package's identity.

Badge(p) == p.identity

AgentsFull == Cardinality(DOMAIN agents) >= MaxAgents

\* spawn then activate: one agent per badge.
CanSpawn(p) == ~ AgentsFull /\ Badge(p) \notin DOMAIN agents

Spawned(p, part) ==
  [b \in DOMAIN agents \cup {Badge(p)} |->
     IF b = Badge(p) THEN [state |-> "running", partition |-> part] ELSE agents[b]]

\* suspend and resume fail unless the agent is in the expected state.
AgentIn(b, state) == b \in DOMAIN agents /\ agents[b].state = state

Terminated(b) == [x \in DOMAIN agents \ {b} |-> agents[x]]

-----------------------------------------------------------------------------
\* Lifecycle.

is_legal(state, op) ==
  CASE op = "start" -> state = "created"
    [] op = "suspend" -> state = "running"
    [] op = "resume" -> state = "suspended"
    [] op = "checkpoint" -> state \in {"running", "suspended"}
    [] op = "restore" -> state \in {"created", "suspended"}
    [] op = "terminate" -> state # "terminated"

\* The state an operation leaves the instance in.
LifecycleOp == {"start", "suspend", "resume", "checkpoint", "restore", "terminate"}
resulting_state(op, state) ==
  CASE op \in {"start", "resume", "restore"} -> "running"
    [] op = "suspend" -> "suspended"
    [] op = "terminate" -> "terminated"
    [] op = "checkpoint" -> state

\* An instance an operation may be called on.
Ready(i) == i \in Existing /\ open[i] = Idle /\ Room(3)

\* belongs_to
OfLineage(c, i) == c.base = inst[i].package.identity

\* guard: an illegal operation is recorded and changes nothing else.  restore
\* comes to it with a checkpoint of the instance's lineage only.
Illegal(i, op) ==
  /\ Ready(i)
  /\ ~ is_legal(inst[i].state, op)
  /\ op = "restore" => \E c \in checkpoints : OfLineage(c, i)
  /\ Span(i, Len(launchLog), <<build_record(i, "illegal")>>)
  /\ UNCHANGED <<inst, agents, open, checkpoints, caps, handles>>

\* Admit module m into instance i and run it: guard_executable, adapter.spawn,
\* activate.  A refused module leaves the instance as it was; only the refusal
\* of guard_executable is in the instance's span, and a registry without room
\* for the agent leaves no record.
accepts_wasm(p, m) == m \in p.modules

RejectExecutable(i) ==
  /\ Span(i, Len(launchLog), <<build_record(i, "executable_rejected")>>)
  /\ UNCHANGED <<inst, agents>>

Admit(i, m, origin, op, event) ==
  LET p == inst[i].package
      Host(e) == HostRecord(i, e, claim(inst[i].adapter))
  IN  \/ ~ accepts_wasm(p, m) /\ RejectExecutable(i)
      \/ /\ accepts_wasm(p, m) /\ m \in BadModule
         /\ Emit(<<Host("module_refused")>>)
         /\ UNCHANGED <<inst, agents>>
      \/ /\ accepts_wasm(p, m) /\ m \notin BadModule /\ ~ CanSpawn(p)
         /\ UNCHANGED <<inst, agents, launchLog, ranges>>
      \/ /\ accepts_wasm(p, m) /\ m \notin BadModule /\ CanSpawn(p)
         /\ agents' = Spawned(p, inst[i].partition)
         /\ inst' = [inst EXCEPT ![i].state = resulting_state(op, @), ![i].agent = Badge(p),
                                 ![i].module = m, ![i].origin = origin]
         /\ Span(i, Len(launchLog),
                 <<AgentRecord(i, "TaskSpawn"), Host("admitted"), build_record(i, event)>>)

Start(i, m) ==
  /\ Ready(i) /\ is_legal(inst[i].state, "start")
  /\ Admit(i, m, None, "start", "started")
  /\ UNCHANGED <<open, checkpoints, caps, handles>>

\* What a stream session hands out: a module's bytes, the package they were verified
\* for and the session.
VerifiedModule ==
  [module : UNION {p.modules : p \in Package}, identity : Ids, session : LaunchSession]

\* start_verified: the module must be of the instance's package.
StartVerified(i, v) ==
  /\ Ready(i) /\ is_legal(inst[i].state, "start")
  /\ IF v.identity # inst[i].package.identity THEN RejectExecutable(i)
     ELSE Admit(i, v.module, v.session, "start", "started")
  /\ UNCHANGED <<open, checkpoints, caps, handles>>

Suspend(i) ==
  /\ Ready(i) /\ is_legal(inst[i].state, "suspend")
  /\ AgentIn(inst[i].agent, "running")
  /\ agents' = [agents EXCEPT ![inst[i].agent].state = "suspended"]
  /\ inst' = [inst EXCEPT ![i].state = resulting_state("suspend", @)]
  /\ Span(i, Len(launchLog), <<AgentRecord(i, "PartitionSuspend"), build_record(i, "suspended")>>)
  /\ UNCHANGED <<open, checkpoints, caps, handles>>

Continue(i, op, event) ==
  /\ AgentIn(inst[i].agent, "suspended")
  /\ agents' = [agents EXCEPT ![inst[i].agent].state = "running"]
  /\ inst' = [inst EXCEPT ![i].state = resulting_state(op, @)]
  /\ Span(i, Len(launchLog), <<AgentRecord(i, "PartitionResume"), build_record(i, event)>>)

Resume(i) ==
  /\ Ready(i) /\ is_legal(inst[i].state, "resume")
  /\ Continue(i, "resume", "resumed")
  /\ UNCHANGED <<open, checkpoints, caps, handles>>

NewCheckpoint(i) ==
  [base |-> inst[i].package.identity, origin |-> i, sequence |-> inst[i].checkpoints]

\* checkpoint takes no agent manager: its two steps.
BeginCheckpoint(i) ==
  /\ Ready(i) /\ is_legal(inst[i].state, "checkpoint")
  /\ open' = [open EXCEPT ![i] = [op |-> "checkpoint", start |-> Len(launchLog)]]
  /\ UNCHANGED <<inst, agents, launchLog, ranges, checkpoints, caps, handles>>

EndCheckpoint(i) ==
  /\ open[i].op = "checkpoint"
  /\ Room(1)
  /\ checkpoints' = checkpoints \cup {NewCheckpoint(i)}
  /\ inst' = [inst EXCEPT ![i].checkpoints = @ + 1]
  /\ Span(i, open[i].start, <<build_record(i, "checkpoint")>>)
  /\ open' = [open EXCEPT ![i] = Idle]
  /\ UNCHANGED <<agents, caps, handles>>

\* restore: the lineage first, then the state, then as start or resume.
Restore(i, c, m) ==
  /\ Ready(i) /\ c \in checkpoints
  /\ IF ~ OfLineage(c, i)
       THEN /\ Span(i, Len(launchLog), <<build_record(i, "checkpoint_rejected")>>)
            /\ UNCHANGED <<inst, agents>>
       ELSE /\ is_legal(inst[i].state, "restore")
            /\ \/ /\ inst[i].state = "created"
                  /\ Admit(i, m, None, "restore", "restored")
               \/ /\ inst[i].state = "suspended"
                  /\ Continue(i, "restore", "restored")
  /\ UNCHANGED <<open, checkpoints, caps, handles>>

\* The records of one termination.
Ended(i) ==
  (IF inst[i].agent = None THEN <<>> ELSE <<AgentRecord(i, "TaskTerminate")>>)
    \o <<build_record(i, "terminated")>>

Terminate(i) ==
  /\ Ready(i) /\ is_legal(inst[i].state, "terminate")
  /\ agents' = Terminated(inst[i].agent)
  /\ inst' = [inst EXCEPT ![i].state = resulting_state("terminate", @), ![i].agent = None]
  /\ Span(i, Len(launchLog), Ended(i))
  /\ UNCHANGED <<open, checkpoints, caps, handles>>

-----------------------------------------------------------------------------
\* Capabilities of streams, and the obligation of a poisoned one.

Handle(c) == <<c, caps[c].generation>>
Free(c) == ~ caps[c].live /\ caps[c].generation < MaxGeneration
Filled(c, depth, parent) ==
  [caps EXCEPT ![c] = [live |-> TRUE, generation |-> @.generation + 1,
                       depth |-> depth, parent |-> parent]]

\* A session installs a root capability; anyone derives from a live one.
Install(s, c) ==
  /\ Free(c)
  /\ caps' = Filled(c, 0, c)
  /\ handles' = [handles EXCEPT ![s] = @ \cup {<<c, caps[c].generation + 1>>}]
  /\ UNCHANGED <<inst, agents, launchLog, ranges, open, checkpoints>>

Derive(c, parent) ==
  /\ Free(c) /\ caps[parent].live
  /\ caps' = Filled(c, caps[parent].depth + 1, parent)
  /\ UNCHANGED <<inst, agents, launchLog, ranges, open, checkpoints, handles>>

\* One capability goes on its own, and its slot may be used again.
RemoveCapability(c) ==
  /\ caps[c].live
  /\ caps' = [caps EXCEPT ![c].live = FALSE]
  /\ UNCHANGED <<inst, agents, launchLog, ranges, open, checkpoints, handles>>

BugSwept(hs) == {c \in CapIndex : caps[c].live /\ Handle(c) \in hs}

\* The sweep of discharge: the handles that are still current, then slots whose
\* recorded parent index went, until there is none.
Swept(hs) ==
  LET root == {c \in CapIndex : caps[c].live /\ Handle(c) \in hs}
      gone[n \in 0..Cardinality(CapIndex)] ==
        IF n = 0 THEN root
        ELSE LET g == gone[n - 1]
             IN  g \cup {c \in CapIndex :
                           caps[c].live /\ caps[c].depth > 0 /\ caps[c].parent \in g}
  IN  gone[Cardinality(CapIndex)]

AgentStarted(s) == {i \in Existing : inst[i].origin = s /\ inst[i].state # "terminated"}

\* discharge: revoke, then terminate what the session started.
Discharge(s) ==
  /\ handles[s] # {} \/ AgentStarted(s) # {}
  /\ \A i \in AgentStarted(s) : open[i] = Idle
  /\ Room(2 * Cardinality(AgentStarted(s)))
  /\ caps' = [c \in CapIndex |-> [caps[c] EXCEPT !.live = @ /\ c \notin Swept(handles[s])]]
  /\ agents' = [b \in DOMAIN agents \ {inst[i].agent : i \in AgentStarted(s)} |-> agents[b]]
  /\ inst' = [i \in Instance |->
                IF i \in AgentStarted(s)
                  THEN [inst[i] EXCEPT !.state = "terminated", !.agent = None] ELSE inst[i]]
  /\ \E order \in {q \in [1..Cardinality(AgentStarted(s)) -> AgentStarted(s)] :
                     \A i \in AgentStarted(s) : \E k \in DOMAIN q : q[k] = i} :
       /\ launchLog' = launchLog \o [k \in 1..(2 * Len(order)) |->
                           Ended(order[(k + 1) \div 2])[IF k % 2 = 1 THEN 1 ELSE 2]]
       /\ ranges' = [i \in Instance |->
                       ranges[i] \cup {<<Len(launchLog) + 2 * k - 2, Len(launchLog) + 2 * k>> :
                                         k \in {j \in DOMAIN order : order[j] = i}}]
  /\ handles' = [handles EXCEPT ![s] = {}]
  /\ UNCHANGED <<open, checkpoints>>

Modules == UNION {p.modules : p \in Package}

LaunchNext ==
  \/ \E index \in SegmentIndex, result \in VerificationOutcome : EmitResult(index, result)
  \/ \E i \in Instance, a \in UsedAdapter, p \in Package, part \in Partition :
       BeginCreate(i, a, p, part)
  \/ \E i \in Instance, p \in Package, part \in Partition,
        permit \in [identity : Ids, actor : Partition] :
       RefuseContext(i, p, part, permit)
  \/ \E i \in Instance :
       \/ EndCreate(i)
       \/ Suspend(i) \/ Resume(i)
       \/ BeginCheckpoint(i) \/ EndCheckpoint(i)
       \/ Terminate(i)
  \/ \E i \in Instance, m \in Modules : Start(i, m)
  \/ \E i \in Instance, v \in VerifiedModule : StartVerified(i, v)
  \/ \E i \in Instance, m \in Modules, c \in checkpoints : Restore(i, c, m)
  \/ \E i \in Instance, op \in LifecycleOp : Illegal(i, op)
  \/ \E s \in LaunchSession, c \in CapIndex : Install(s, c)
  \/ \E c, d \in CapIndex : Derive(c, d)
  \/ \E c \in CapIndex : RemoveCapability(c)
  \/ \E s \in LaunchSession : Discharge(s)

LaunchSpec == LaunchInit /\ [][LaunchNext]_launchVars

-----------------------------------------------------------------------------

\* Instances and agents agree after any sequence of operations and refusals: an
\* instance runs or is suspended exactly when its agent is, in the instance's
\* partition and with a module of its package; nobody else has that agent, and
\* every occupied slot of the agent manager belongs to an instance.
AgentsMatchInstances ==
  /\ \A i \in Existing :
       IF inst[i].state \in {"running", "suspended"}
         THEN /\ AgentIn(inst[i].agent, inst[i].state)
              /\ agents[inst[i].agent].partition = inst[i].partition
              /\ inst[i].module \in inst[i].package.modules \ BadModule
         ELSE inst[i].agent = None
  /\ \A i, j \in Existing : inst[i].agent = inst[j].agent /\ i # j => inst[i].agent = None
  /\ DOMAIN agents = {inst[i].agent : i \in Existing} \ {None}

\* What a chain says of the boundary is what there is: only bare metal claims a
\* partition, an operating-system sandbox is claimed only when a mechanism of the
\* system the adapter runs on took hold, and an instance that was granted a class
\* which needs such a mechanism never runs under the weakest claim.
ClaimsBacked ==
  \A k \in 1..Len(launchLog) : \A i \in Existing :
    launchLog[k].inst = i /\ host_event_of(launchLog[k]) = {"prepared"} =>
      LET a == inst[i].adapter
          claimed == launchLog[k].claim
      IN  /\ (claimed = "partition") <=> (a.env = "bare-metal")
          /\ claimed = "os-sandbox+wasm" => a.env \in HostOs /\ a.engaged # {}
          /\ claimed = "wasm-only" => inst[i].package.granted \subseteq RUNTIME_ENFORCED_CLASSES

\* An instance's chain is complete: the record of every lifecycle step it took,
\* and of every refusal by its own guards, lies in its spans, whatever other
\* instances and the verifier wrote in between; and no record is read both as an
\* event of the host layer and as one of the launch layer.
OwnRecordsInSpans ==
  \A k \in 1..Len(launchLog) :
    LET i == launchLog[k].inst
        e == event_of(launchLog[k])
    IN  /\ e = {} \/ host_event_of(launchLog[k]) = {}
        /\ i \in Existing /\ e # {} /\ e # {"context_permit_rejected"} => k \in witness(i)
        /\ i \in Existing /\ launchLog[k].tag = 0 => k \in witness(i)

\* What event_of promises (rvm-launch: witness.rs): it returns None for records from
\* another subsystem.  Those of the host and of the agents it does tell apart; a
\* verification record has no mark of its own.
OthersReadAsNone ==
  \A k \in 1..Len(launchLog) : event_of(launchLog[k]) # {} => launchLog[k].inst \in Instance

\* Instances, the agents that run for them, the spans of the log that tell of them and
\* the confinement claimed for them agree (instance.rs, agent.rs, isolation.rs).
LaunchSound == AgentsMatchInstances /\ OwnRecordsInSpans /\ ClaimsBacked

\* Discharging the obligation of a poisoned stream leaves nothing of it: no
\* capability derived from what the session had installed and still held is
\* live, no instance it started is; and a slot used again after its capability
\* was removed is not taken for the session's.
DischargeLeavesNothing ==
  [][\A s \in LaunchSession :
       handles[s] # {} /\ handles'[s] = {} =>
         LET mine == {c \in CapIndex : caps[c].live /\ Handle(c) \in handles[s]}
         IN  /\ \A c \in CapIndex :
                  caps'[c].live /\ caps[c].depth > 0 /\ caps[caps[c].parent].live
                    => caps'[caps[c].parent].live
             /\ \A c \in mine : ~ caps'[c].live
             /\ \A c \in CapIndex :
                  caps[c].live /\ caps[c].depth = 0 /\ c \notin mine => caps'[c].live
             /\ \A i \in Existing : inst[i].origin = s => inst'[i].state = "terminated"]_launchVars

-----------------------------------------------------------------------------
(***************************************************************************)
(* Effects of an agent on its host (rvm-host, semantic.rs): the broker     *)
(* checks live authority, asks the policy, persists a receipt and only     *)
(* then executes.  The policy is the reference one, Rules, inside a        *)
(* WindowQuota.  Authority, audit and executor are external: authority may *)
(* change between calls, the audit may fail to persist, the caller's clock *)
(* may step back.                                                          *)
(***************************************************************************)
CONSTANTS
  Action,           \* [class, permit]: permit is what the rules say of it
  Time,             \* clock readings
  Attempts,         \* lifetime quota of Rules
  Limit, Window,    \* WindowQuota: at most Limit in Window
  MaxSequence       \* where the sequence number is exhausted: u64::MAX

ASSUME BrokerAssumption ==
  /\ Time \subseteq Nat /\ {Attempts, MaxSequence} \subseteq Nat
  /\ {Limit, Window} \subseteq Nat \ {0}

Class == {a.class : a \in Action}

VARIABLES
  sequence, last_ns,    \* Broker
  authority,            \* classes the authority permits now
  remaining,            \* Rules
  admitted,             \* WindowQuota: admitted attempts, each the time of one call
  receipts,             \* what the audit persisted
  executed              \* history: the sequence and time of what the executor did

brokerVars == <<sequence, last_ns, authority, remaining, admitted, receipts, executed>>

BrokerInit ==
  /\ sequence = 0 /\ last_ns = 0
  /\ authority = Class
  /\ remaining = Attempts
  /\ admitted = {}
  /\ receipts = <<>>
  /\ executed = <<>>

\* Rules::decide: a matching rule that permits, none that forbids, and quota.
RulesPermit(a) == remaining > 0 /\ a.permit

\* WindowQuota::decide: entries of the future mean a clock that stepped back.
Future(now) == \E e \in admitted : e.at > now
Recent(now) == {e \in admitted : now - e.at < Window}
Full(now) == Cardinality(Recent(now)) >= Limit

\* dispatch up to the decision.
Decision(a, now) ==
  CASE now < last_ns -> "clock_regressed"
    [] a.class \notin authority -> "capability_denied"
    [] Future(now) -> "policy_unavailable"
    [] Full(now) -> "policy_denied"
    [] ~ RulesPermit(a) -> "policy_denied"
    [] OTHER -> "allow"

\* The policy is asked only when clock and authority agree; it forgets what has
\* left the window, and charges what it allows.
Asked(a, now) == now >= last_ns /\ a.class \in authority

\* Only what is allowed and on record is executed.
BugExecutes(d, persisted) == d = "allow"
Executes(d, persisted) == persisted /\ d = "allow"

dispatch(a, now, persisted) ==
  LET d == Decision(a, now)
      call == [sequence |-> sequence, at |-> now]
  IN  /\ sequence < MaxSequence
      /\ last_ns' = IF now > last_ns THEN now ELSE last_ns
      /\ admitted' = IF ~ Asked(a, now) \/ Future(now) THEN admitted
                     ELSE IF d = "allow" THEN Recent(now) \cup {call} ELSE Recent(now)
      /\ remaining' = IF d = "allow" THEN remaining - 1 ELSE remaining
      /\ receipts' = IF persisted THEN Append(receipts, [sequence |-> sequence, decision |-> d])
                     ELSE receipts
      /\ sequence' = sequence + 1
      /\ executed' = IF Executes(d, persisted) THEN Append(executed, call) ELSE executed
      /\ UNCHANGED authority

\* The authority grants or withdraws a class.
ChangeAuthority(c) ==
  /\ authority' = IF c \in authority THEN authority \ {c} ELSE authority \cup {c}
  /\ UNCHANGED <<sequence, last_ns, remaining, admitted, receipts, executed>>

BrokerNext ==
  \/ \E a \in Action, now \in Time, persisted \in BOOLEAN : dispatch(a, now, persisted)
  \/ \E c \in Class : ChangeAuthority(c)

BrokerSpec == BrokerInit /\ [][BrokerNext]_brokerVars

-----------------------------------------------------------------------------
Allowed == {k \in 1..Len(receipts) : receipts[k].decision = "allow"}

\* Nothing happens without evidence: the effects are those of the persisted receipts
\* that allow, and in their order; receipt numbers are never used twice, even when a
\* receipt could not be persisted.
EffectsAudited ==
  /\ {executed[k].sequence : k \in 1..Len(executed)} = {receipts[k].sequence : k \in Allowed}
  /\ \A j, k \in 1..Len(executed) : j < k => executed[j].sequence < executed[k].sequence
  /\ \A j, k \in 1..Len(receipts) : j < k => receipts[j].sequence < receipts[k].sequence

\* Effects are told apart by their numbers.
Within(t) == {executed[k] : k \in {i \in 1..Len(executed) : executed[i].at \in (t - Window + 1)..t}}

\* The quotas bound effects, also with failing audits, denied calls in between
\* and a clock that steps back: no window of the given length sees more than
\* Limit effects, and there are never more than Attempts.
EffectsBounded ==
  /\ Len(executed) <= Attempts
  /\ \A t \in Time : Cardinality(Within(t)) <= Limit

\* The broker executes what it audited, within its limits (rvm-host: semantic.rs).
BrokerSound == EffectsAudited /\ EffectsBounded
=============================================================================
