# A TLA+ development of RVM

RVM is a coherence-native microhypervisor written in Rust (`src/crates/rvm-*`). A kernel
object owns partitions, schedules them, carries their messages, leases devices to them and
records privileged steps in a hash-chained witness log. Authority is a capability checked in
up to three tiers (P1 rights, P2 policy, P3 derivation chain). Around the kernel stand memory
management, a hardware layer, a container format with streaming admission (RVF), a launcher,
WASM agents, external anchoring, and a context service that seals the witness log into
signed receipts.

This directory models the parts of that system that keep state or decide something, checks
the models with TLC on small instances, and proves some of their invariants with TLAPS for
every value of the constants. `PROJECT.json` is the index: components, runs, mutants, the map
from definitions to source lines, findings, hazards and theorems.

## 1. Inventory

| crate | state it keeps | operations | what is hard in it | what makes it correct |
|---|---|---|---|---|
| rvm-cap | slot table with generations, derivation tree as sibling lists, epoch | create root, grant, revoke, verify P1/P3, increment epoch | slots are reused while stale links still name them; generations wrap; a failed grant must undo itself | no right appears from nowhere; GRANT_ONCE is spent once; revocation reaches the descendants and nobody else |
| rvm-proof | nonce ring with index and watermark; signers; enclave provider with collateral | verify and witness; sign, verify, quote, refresh | the index forgets on collisions; a refused request must not burn its nonce; expiry between signing and verifying | a nonce is used once; a signature verifies exactly as it was made |
| rvm-witness | ring of N chained records | append, signed append, snapshots, checkpoints, verify | wrap-around; a reader's checkpoint against the overwriting ring | all-or-nothing snapshots; the newest N records, each where its number says |
| rvm-security | gate, attestation chain, budgets | check and execute, extend, report, charge, reset | what a gate records against what it was shown; budgets at their limit | nothing unattested verifies; books balance |
| rvm-anchor | a signed receipt and its statistics, the anchor record | issue, recompute, verify, anchor | callers race between reading the log position and appending; one canonical text | an anchored receipt is what its service recomputes |
| rvm-kernel | one of each manager | one method per operation | objects outlive the partition they name; what is witnessed and what not | an audit of the records yields the kernel's objects |
| rvm-partition | partitions, IPC slots with an edge index, device leases | create, remove, send, receive, lease, revoke | colliding residues; rings | channels are exactly-once FIFO; a device has one lease |
| rvm-sched | heaps per CPU, modes, SMP assignments | enqueue, switch, assign, rebalance, tick | sifting by hand, priorities that depend on the mode | the most urgent entry runs; an idle CPU is found |
| rvm-coherence | graph with cached sums and lists, scores, min-cut state | add, remove, weaken, score, cut, decide | everything is stored twice; a budgeted search | the copies agree; a finished cut is minimal |
| rvm-boot | stage sequence, measurement, hardware stages | run, record, measure | a stage failing half way, repeated calls | what is attested is what ran |
| rvm-memory | buddy bitmaps, regions, tiers, checkpoints and deltas | allocate, free, map, transfer, promote, demote, reconstruct | sizes that are no power of two; damaged inputs | blocks tile the memory; a rebuilt region is the region of that time |
| rvm-gpu | budgets, contexts, queues | submit, complete, charge, reset | several counters charged one by one | books balance |
| rvm-hal | stage-2 tables, TLB, guest registers, timer, GIC | map, unmap, flush, switch, set a deadline, mask, acknowledge | stale translations; order of register writes | a guest sees its tables; a switch keeps what it promises; a deadline is served |
| rvm-wasm | section framing, streaming validator, agents, quotas, migration | push, validate, spawn ... terminate, charge, migrate | bytes in any split; check and use are two calls | one verdict per module; a quota is passed only through a stale check |
| rvm-rvf | container walk, report, streaming verifier, descriptor, builder, identity thread, pins | walk, verify, feed, admit, build, hash, pin | frames reordered, repeated, lost or lying; a thread that may be gone | the walk reads the segments that are there; only signed code; nothing released unverified |
| rvm-launch | sessions, instances, spans of the log, obligations | create, start, suspend, checkpoint, terminate, discharge | work half done when a step fails | instances and agents agree; a discharge leaves nothing behind |
| rvm-host | adapters, broker quotas and audit | run, claim isolation, execute | audit failing, clock stepping back | effects are audited and bounded |
| rvm-context | names, capabilities, resolver, profiles, receipts, runtime | resolve, read, publish, compare-and-set, forget, delegate, seal | snapshots used late; an untrusted resolver; failed seals; revocations along a tree that keeps old links | what is disclosed is in scope; an alias is a versioned register |
| rvm-context-service | durable tables, outboxes, index, envelopes, receipts, gateway and server | put, forget, drain, maintain, compile, seal, serve | crashes between the steps of a drain; lost answers and retries; permits | a forgotten name is erased; effects happen once |
| rvm-context-wasm | a page's capabilities, resolver and ring | the calls of a page | witnessed and unwitnessed changes side by side | the ring accounts for what it claims to |
| rvm-types | data types | constructors | none | that of its users |

### How the parts interact

* The kernel owns one of each manager and calls them in turn under `&mut self`: interleaving
  is between operations, not inside them. Witness records go to a log behind a mutex that
  other threads share.
* The security gate checks a token and appends its own record before the kernel's `checked_`
  operations run. The proof engine checks P1 and P2 and appends its verdict. Guests reach IPC
  by host calls, past the kernel's method.
* A streaming launch feeds bytes to the RVF verifier, hands released chunks to segment
  checkers and the WASM validator, and at the end moves the pin of the image forward by
  compare-and-set. Instances run what the session releases; if the stream is poisoned, an
  obligation takes back what was installed. Whole-image identity is hashed by a thread of its
  own, which the session asks for snapshots.
* The context runtime checks a capability, asks a resolver, checks the answer again, and
  emits records. The drainer seals everything since its cursor; a callback persists receipt
  and cursor in one transaction; only then does the runtime advance. A restart resumes from
  the cursor.
* The durable resolver commits an alias change with an index job and a purge job in one
  transaction and applies the jobs later. The gateway serves requests under one lock, from
  connections that each hold a permit.

## 2. Modules

| module | models |
|---|---|
| `CapManager` | rvm-cap: table, grant, revoke, P1/P3 |
| `DerivationTree` (INSTANCE in `CapManager` and `ContextAuthority`) | rvm-cap derivation.rs: the walks along sibling lists |
| `ProofEngine` | rvm-proof: engine.rs and policy.rs |
| `WitnessLog` | rvm-witness: log, replay, signing |
| `SecurityGate` | rvm-security: gate, attestation; rvm-proof: signers, enclave, hash and witness proofs |
| `ExternalAnchor` | rvm-anchor: receipts, statistics, canonical JSON, the anchor record |
| `Kernel` | rvm-kernel lib.rs with partition manager, run queues, channels, leases, tiers, coherence membership, host calls |
| `Channels`, `IpcManager` | what IPC promises, and rvm-partition ipc.rs, which implements it |
| `CoherenceGraph` | rvm-coherence: graph.rs, engine.rs, mincut.rs, adaptive.rs |
| `RunQueues` | rvm-sched: scheduler.rs, per_cpu.rs, epoch.rs, priority.rs, smp.rs |
| `Boot` | rvm-boot: entry.rs, sequence.rs, measured.rs, and the tracker of lib.rs |
| `Memory` | rvm-memory: allocator, regions, tiers, recovery from checkpoints and deltas |
| `Quotas` | rvm-gpu budgets, contexts, queues; rvm-security budgets; rvm-wasm quotas and migration |
| `Stage2Mmu`, `Aarch64Devices` | rvm-hal aarch64: stage-2 tables, TLB, world switch; timer and GIC |
| `RvfContainer` | rvm-rvf: container, verification report, capability mapping |
| `StreamDescriptor` | rvm-rvf: stream descriptor's table, builder, buffered receiver |
| `StreamSession`, `PinStore` | rvm-rvf stream verifier and admission with rvm-launch's session; the pin that sessions race for |
| `IdentityWorker` | rvm-rvf: stream/ident.rs, the hashing thread |
| `WasmValidator` | rvm-wasm lib.rs (section framing) and streaming.rs; rvm-rvf's payload scanner |
| `Launch` | rvm-launch instances, checkpoints, obligations; rvm-wasm agents; rvm-host adapters and broker; the records of all of them, and of rvm-rvf, in one log |
| `ReceiptChain` (EXTENDS `WitnessLog`) | rvm-context receipts and runtime; rvm-context-service store and drainer |
| `ContextUri` | rvm-context uri.rs and the text search of the resolver |
| `ContextAuthority` | rvm-context capability.rs and the runtime's checks of a resolver's answers |
| `ContextStore` (EXTENDS `ContextAuthority`) | rvm-context resolver.rs |
| `BrowserContext` (EXTENDS `ContextStore`) | rvm-context-wasm |
| `ContextProfile` | rvm-context profile.rs; rvm-context-service compiler.rs and crypto.rs |
| `AliasRegister` | what an alias promises: a versioned register |
| `DurableResolver` | rvm-context-service resolver.rs, store.rs, active_index.rs |
| `Gateway` | rvm-context-service gateway.rs and bin/server.rs |
| `MC_*` | constants that are operators or sets, and the compositions the runs check |
| `*Proofs` | theorems with TLAPS proofs; each extends its module |

Conventions. State variables keep the names of the Rust fields where a name is free. One
action is one method call; a call that fails and changes nothing is not a step, a failed call
that does change something is. Bounds are constants whose names start with `Max`, unless the
code has that limit itself: then the constant has the code's name. Variables called
`history`, `born`, `uses`, `accepted`, `sent`, `released`, `taken` and the like record what
happened and influence nothing. A definition named `Bug...` is a plausible slip in the
definition that follows it; `PROJECT.json` lists under "mutants" which property notices it.

The compositions. `MC_Evidence`, `MC_Memory`, `MC_Platform`, `MC_Packages`, `MC_Context` and
`MC_Services` each hold several components that keep separate state in the code as well (the
kernel object is a part of `MC_Memory`, the capability manager one of `MC_Services`).
A variable `part` says which of them a behaviour exercises, so a run explores the sum of the
parts' states and not their product; nothing is lost by that, since no part reads another's
variables. Components that do interact are composed for real: `Kernel` (partitions, channels,
run queues, leases, tiers, graph), `ReceiptChain` over `WitnessLog`, `StreamSession` (frame
reader, verifier, admission, session), `Launch` (instances, agents, capabilities, log), and
`BrowserContext` over `ContextStore` over `ContextAuthority`. The properties of the parts are
named conjuncts in the component's module; the run's property says which part they are about.

### What the components abstract

* `CapManager`: the sibling lists are walked as the code walks them, through nodes that are no
  longer valid, with a stack and a result of N entries. An invalidated node keeps its
  `next_sibling`, so a list can lead into another parent's children and even into itself;
  `RevokeHangs` is the call that then never returns. `GrantRolledBack` is the grant whose
  parent has no node any more.
* `ProofEngine`: a request is a nonce, a context with the numbers the policy rules compare, and
  facts that other components decide (P1 passes, the chain is intact). The verifier of rvm-cap
  keeps the same nonce state beside other rules; `evaluator` says whose a behaviour is.
* `WitnessLog`, `ReceiptChain`: the chain hash is a parameter with collisions in the runs; in
  `ReceiptChain` SHA-256 and signatures are perfect. A request or a seal is one action (the
  runtime is behind the gateway's mutex); a crash inside a seal leaves one of the states of
  `SealNotPersisted` or `Seal` followed by `Restart`. `Request` asks nobody: the runtime and the
  gateway dispatch without calling `ReceiptDrainer::admit`, so the backlog may overrun the ring.
  `Admit` is what the drainer would answer.
* `SecurityGate`, `ExternalAnchor`: MACs and signatures are terms, equal when key and message
  are; floats of the statistics are integers of a small width, and the bootstrap's generator
  is a linear congruence over it. The witness log the anchors go to keeps its newest
  `AnchorCapacity` records.
* `Kernel`: `audit` is what an auditor who replays the witness records knows. An operation
  that emits no such record leaves it alone.
* `CoherenceGraph`: weights and basis points are integers; decay rounds as in the code. Cuts
  are compared with the minimum over all partitions of the nodes.
* `Memory`: callers return whole blocks or any aligned part of what they hold, which the code
  accepts. Scores, their decay and the epoch are small integers; demotion candidates are the
  set of the first ones the caller's buffer has room for.
* `RunQueues`: an entry for the hypervisor (partition 0) may be enqueued and then hides the
  queue behind it, as in the code; sifting is a function of the turns of its loop. `Boot`: a
  stage's HAL call may fail; times are what a counting clock says.
* `ContextProfile`: hashes are perfect and sizes are counted in segments. The package comes from
  anywhere and may have changed between the binding and a read; of the checks of `verify` those
  are kept that can refuse a package bound here, under every choice of what is trusted. What
  the compiler writes is read back by the same operators. A ciphertext is a row of cells that
  decrypts only whole.
* `Stage2Mmu`: a TLB that may hold any translation it walked; two guests. In the world switch every
  other register is named as clobbered, so the three operands of the assembly (from, to, tmp) are
  in x18, x19 and x29; `toReg` is where the compiler put the incoming address, one choice per
  build. Registers are grouped by when they are loaded; what is loaded through a register that
  was overwritten before is what lies behind the stored operand, or anything.
* `RvfContainer`: a container is a sequence of cells; what a cell says depends on who reads
  it, so a payload may look like a header or like a root page. Hashes and signatures are terms.
* `StreamSession`: one action is one frame through all four layers, because `push_witnessed`
  runs them in one call; actions are split by how far the frame gets. Lengths are counted in
  chunks; what is inside authentic bytes is an input, and so is the pin store's answer. The
  verifier can be suspended and resumed, which a session never does.
* `PinStore`: each access of the store is an action, so other sessions run between any two.
* `WasmValidator`: in the framing, bytes of five values and a LEB128 of base two; in the
  streaming validator a module is a sequence of units with what each declares (entries,
  locals, memories, imports); what wasmparser says of a unit is an input, the buffering, the
  limits of bytes and of counts and the import policy are the code's.
* `Launch`: operations that do not hold the agent manager are two actions, so two instances
  interleave their spans; failing adapters are inputs, and so is a checkpoint of another instance.
  Verification records of rvm-rvf are in the same log: their first `aux` byte, where the launch
  layer keeps its tag, is the low byte of the segment index. What an adapter may claim is computed
  from the mechanisms its host reported; the operating system's mechanisms are external. The
  broker's recent attempts are a set of numbered times: the code keeps them in order and uses only
  how many there are.
* `BrowserContext`: scopes, operations and rights are converted as the binding does; the ring
  is what its records count.
* `ContextUri`: a text is a sequence of components with their lengths; one component fails
  each check.
* `ContextAuthority` lets the resolver answer anything. A revocation takes what
  `CapabilityManager::revoke` takes: what the walk of the derivation tree collects, along sibling
  lists that are never unlinked. A walk that does not end is no step.
* `DurableResolver`: a transaction is atomic, a drain is one action per job, and a crash or a
  failure may come between any two. Nothing obliges anyone to call `maintenance`. Encryption is
  `ContextProfile`'s.
* `Gateway`: a request, the lock, the answer and the time limit are separate actions; answers
  may be lost and clients retry.

### Abstract specifications

* `Channels`: a partial function from edge ids to FIFO queues with a source, a destination and
  a weight. `IpcManager`, with its slots, rings, overwritten index entries and linear
  fallback, implements it (`Refinement`, run `platform`).
* `AliasRegister`: each name has a generation and a revision, a change says which generation
  it replaces, and generations only grow. The in-memory resolver (`AliasesAreARegister`, run
  `context`) and the durable one, across crashes (`DurableAliasesAreARegister`, run
  `capabilities`), implement the same register.
* Reference definitions for pure algorithms: `CutIsMinimum` (all bipartitions), `SearchExact`
  (all positions of a text), `PointInTime` (bytes as they were), `FramedIsSections` (a module
  is a sequence of sections), `SplitIndependentBelowLimit` and `ScanSplitIndependent` (the
  verdict on the undivided bytes), `CanonicalIsFaithful` (reading what was written).

## 3. Runs

| run | parts | properties | distinct states |
|---|---|---|---|
| `capabilities` | capability manager; durable resolver, identity thread, gateway, devices | `AuthoritySound`: types, rights shrink along every lineage, GRANT_ONCE is spent once, a handle is reused only after a full turn of the generations. `TreeSound`: depth is ancestry, table and tree conserve slots, a failed grant leaves nothing but a spent id and generation, revocation is exact until a slot is reused. `ServicesSound`: names without a job are indexed as their alias says, listings answer, a forgotten name is erased or its purge is owed; identities are right; effects happen once. `DurableAliasesAreARegister`. `NobodyWaitsForEver` (liveness) | 317,000 |
| `evidence` | proof engine, witness ring, gate, enclave, signers, anchor, canonical JSON | `ReplayNeedsCollision`; `NoncesFair`: a refused request burns nothing and growing nonces are always accepted; `RingHoldsNewest`; `LogReads`: snapshots are the newest records, all or nothing, signatures verify; `SignedEvidence`; `AnchoredEvidence` | 484,000 |
| `memory` | kernel object; buddy, regions, tiers, recovery, budgets, quotas, migration, stage 2, world switch | `KernelSound`: the records account for the objects, the graph names live partitions only, leases exclude each other; `MemorySound`; `QuotasHold`; `StageTwoSound`; `NewPartitionIsFresh`, `NoThrash` and `ResumesInPlace` (steps) | 694,000 |
| `platform` | channels, graph, cuts, run queues, CPUs, boot | `CoherenceSound`; `IdleCpusAreFound`; `AttestedIsWhatRan`; `Refinement`; `ServesMostUrgent` (step) | 540,000 |
| `packages` | session, pins, table, stream, container, report, framing, scanner, validator, launch, lineage, discharge, broker | `SessionSound`; `PinsSound`; `StreamsAgree`; `ContainerSound`; `WasmVerdictsHold`; `LaunchSound`; `BrokerSound`; `CompleteIsFinal`, `PinMovesForward`, `DischargeLeavesNothing` (steps) | 1,020,000 |
| `context` | receipts, names, search, authority, store, browser, profile, envelope | `StoreSound`; `CursorSound`; `UriSound`; `ContextSound`; `PackagesReadBack`; `RevokedBranchesEnd`: no live token has a revoked ancestor, as long as no slot was taken that a live list still names; `AliasesAreARegister` | 406,000 |

Runs that show a disagreement between the code and what the repository says of it:

| run | stated | what happens |
|---|---|---|
| `cap_revoke` | "Revoking a parent invalidates all derived capabilities" | after a slot is reused, stale sibling links make a revocation miss descendants, take strangers, or never end |
| `cap_p3` | "Every ancestor is valid (not revoked)" | the cached parent index names the slot's new user |
| `wasm_split` | "Any split of the module, including one byte at a time, gives the same verdict" | a module of exactly `max_module_bytes` is refused if its last unit went through the buffer |
| `timer_rearm` | a deadline arms the timer | after `cancel_deadline` the interrupt stays masked and the next deadline is never served |
| `boot_measured` | "Before each phase executes, it hashes the next phase's code/config and extends the measurement" | a phase acts on the hardware first and is measured afterwards; if it fails, what ran was not measured |
| `launch_events` | `event_of` "Returns `None` for records from another subsystem" | the verification record of a segment whose index equals the tag of a launch event of its kind reads as that event |

### Bounds, and why they are enough

* `capabilities`, `cap_*`: three slots (root, child, grandchild, or siblings), five ids (six
  for `cap_p3`) so slots are reused twice, `U32MAX = 4` so generations wrap, one epoch step. Two
  names, two objects, three generations, crashes and failures anywhere; a queue of three
  commands; two connections for one permit; a counter of four ticks with deadlines past its end.
* `evidence`: a nonce ring of two with seven nonces, zero and the greatest included: residues
  collide pairwise and the ring wraps three times. A witness ring of four and seven records: it
  wraps. Two callers anchor three times in a log that keeps two records. Every answer of the gate,
  and chains of two links.
* `memory`: two partition slots, one graph node (so an insertion is refused), one of each other
  kernel object, one epoch step; ids run to two, so a slot is used again. `MCTiers` keeps the
  kernel's tiers to its first epoch and normal mode, which no code relates to them. 16 pages with
  blocks up to eight, in words of eight bits, so orders share words and a bitmap has several; two
  regions and owners; two deltas on three bytes, each damaged or missing; two callers between
  check and use with counters that wrap at three; two guests, one level-2 table (so the pool runs
  out), and the incoming address in each of the three operand registers.
* `platform`: two channels and four ids, so each residue is used twice; three partitions for
  two graph nodes, two edges; weights that accumulate (0, 1 and 2 up to 3) and decay, heavier
  ones between the two partitions that share an index entry (`MCThird`); two cuts of graphs of
  three nodes with every budget (0, 1, enough); one
  queue of one partition's entries at two urgencies and two pressures, deep enough for two
  levels of the heap; three CPU slots of which two exist; three runs of the boot.
* `packages`: four segments of 2, 1, 3 and 2 chunks in two stages, with every limit reached and
  exceeded by an arbitrary sender; two sessions, three epochs with two descriptors each and two
  tries (four in the code), the smallest numbers at which one session wins between another's
  look-up and move; a table budget of 5 where the tables of a descriptor are up to 7, so it
  refuses; containers of up to seven cells with segments of length 0, 1 and 3 over an alignment of
  two, so a segment may end off a boundary before a page of four; modules up to and beyond 11
  bytes in every split; two instances in logs of up to 14 records, short ones of 6 where the parts
  are combined most; broker limits reached, with a clock that goes back.
* `context`: a ring of four with a backlog limit of two (the smallest the drainer accepts), nine
  records and one restart, so the backlog overruns the ring; names around every length limit; four
  capability slots, three bindings and four tokens, so that two children, a revocation of one and
  a new root in its slot fit; two clients with two revisions of two aliases; seven calls of a
  page; three segments with profiles right and wrong about them; envelopes with up to three
  changes to lengths, nonce, magic, cells or end.

The sessions of `PinStore` are proved for any number, so the run needs only two. No run uses
symmetry. Deadlock is checked in `timer_rearm` only: the other models stop at their `Max`
bounds, a hung revocation stops for good, and so does a poisoned or failed session.

### Fairness

Only `capabilities` (the services) and `timer_rearm` assume fairness; operations are calls that
clients may or may not make, and those have none.

* Durable resolver: none. Jobs are drained by open, forget and maintenance only, and the server
  never calls maintenance, so nothing in the code makes a purge that failed run again. That no
  erasure is lost is the safety property `ErasureOwed`; that it happens is the operator's part.
* Identity thread: weak fairness of hashing and of the reply, since nothing in the code can
  block the thread.
* Gateway: weak fairness of the semaphore and of the time limits, which the async runtime
  gives. None of the clients.
* Timer: the counter counts, the line is raised, the handler runs. Raising needs strong
  fairness because software may disable and enable the interrupt again and again.

## 4. Proofs

All proofs hold for every value of the constants that satisfies the modules' ASSUMEs.

* `CapManagerProofs`
  * `TypeCorrect`: `TypeOK`, with the point that a generation never becomes `u32::MAX`, the
    value a never-used slot carries.
  * `AuthorityInvariant`, `AttenuationHolds`, `GrantOnceSpentHolds`. `Attenuation` compares a
    slot with all its ancestors and is not inductive: a grant compares with the parent's
    present rights only. `AuthorityInv` adds that ids not handed out yet were never born
    (`IdsFresh`), that a held slot's capability was born with at least the rights it has now
    (`HeldSlotsBorn`), that each birth attenuates each ancestor (`BirthsAttenuate`), and that a
    held capability that still has GRANT_ONCE and never had GRANT has no child
    (`OnceUnspent`). `BirthStep` and `FreeingStep` carry the argument for every action.
  * `DepthHolds`: `DepthIsAncestry`, the part of `TreeSound` that does not walk lists. A grant
    compares the depth its slot carries; that this is the number of ancestors needs that no
    capability descends from itself (`NotOwnAncestor`), with the authority invariant.
  * `HandleInvariant`, `HandleReuseWindowHolds`: generations run round a lap of
    `u32::MAX - 1` values; `SlotsOnLap` and `BirthsOnLap` tie the generation of a slot and of
    each birth to the number of times the slot was taken, so equal generations are at least a
    lap apart.
  * `AuthorityHolds`: their conjunction, which the run checks.
* `ProofEngineProofs`
  * `ReplayNeedsCollisionHolds`, from `IndexInv`: the index entry of a residue is the last
    nonzero nonce accepted with that residue.
  * `FairInvariant`, `NoncesFairHolds`. That a growing nonce passes does not follow from what is
    visible: the invariant needs that ring, index and watermark hold accepted nonces only. The
    watermark is the least of the ring when it has wrapped, which exists because a nonempty
    set of naturals has a least element (`LeastNatural`).
  * `SignedEvidenceHolds`, from `GateInv`: a signature is a MAC exactly if the enclave vouched for
    it (`SignedWhenAttested`), each call of the gate leaves one record, of that call (`Recorded`),
    and the boot chain passes its roots one after the other (`Chained`). The report recomputes
    the chain by a recursive function; the invariant carries the roots it was extended to as
    the witness that there is one, and `RootIsLast` shows that the recomputed root is the
    last of them. `AuxTells`, `SignTells` and `VerifyTells` read a tag back: it tells its key and
    its record. Assumed: requests have the shape the gate is called with (`RequestsTyped`).
* `PlatformProofs`
  * Channels: `Invariance`, `ChannelsConsistent`, `Refines`. The invariant says that no two slots
    hold the same id, that every id is below the next one to be issued, that `edge_count` counts
    the slots in use, and which places of a ring hold messages (those between head and tail);
    the index may hold anything, as the lookup falls back to the slots. Every step of slots,
    rings and index is then a step of the FIFO channels under the mapping, or leaves them as
    they are.
  * Boot: `BootInvariant`, `AttestedHolds`, for any number of stages, any of which call the HAL.
    What holds only of the completed stages is stated by `current` (`Reached`, `Timed`): a failed
    run leaves a start time behind, but of the stage it will start again. `BeginTimes` and
    `CompleteTimes` say what the two changes of the sequence leave alone.
  * Run queues: `ServesMostUrgentHolds`, for any number of processors and any capacity. `HeapInv`
    says that each queue is a heap of entries. While an entry rises or sinks the heap is out of
    order in one place; `Sifting` says where, and how the entries around that place are
    ordered, so that one turn of the loop keeps it (`TurnKeeps`) and the end of the loop
    leaves a heap (`SiftsToHeap`). That nothing is lost or served twice is `SwapKeeps`: an
    exchange is a bijection between the places of each entry, so every entry is there as often
    as before. That the root outranks everything (`RootIsMost`) follows from the order of parents
    and children, by a least counterexample.
  * Processors: `IdleCpusHold`. `CpusInv` lets a slot be a free or a busy processor and nothing
    between (`FreeCpu`, `BusyCpu`); `FirstIsOne` and `OneIsBusiest` turn the searches' least index
    and greatest urgency into facts about all processors.
* `KernelProofs`: `Invariance`, `TypeCorrect`, `Soundness`, `Freshness`. The audit and the
  tables agree operation by operation; that a new partition's id appears nowhere needs that no
  queue, processor or channel ever names an id at or above `next_id` (`NamesInv`), since
  destroying a partition clears neither.
* `MemoryProofs`
  * `IsolationHolds`, from `RegionsInv`: the occupied regions are pairwise `Apart`, in their guest
    pages if they have the same owner and in their host pages whoever has them, and
    `RegionsIsolate` shows that this is isolation page by page. A transfer changes the owner of a
    region and is checked against the guest pages of the new one.
  * `NoThrashHolds`, from `TiersInv`: an id is in one slot at most, so that what a promotion
    compares is the region it changes; `PromotedIsSettled` needs the gap between the thresholds
    and no more.
  * `StageTwoHolds`, from `MmuInv`: tables are sound (each level-1 entry has a level-2 table of
    its own among those handed out) and translate as told. `Indices` shows that two blocks
    with the same two indices are the same block, `MapBlock` and `WriteEntry` that a write shows
    in one translation only, and `IdentityReached` follows `identity_map` through its loop, however
    far it gets before a block is refused. A mapping only adds translations, so no TLB entry
    becomes stale by it.
  * `ResumesHolds`, from `SwitchInv`: the saved array may hold an unsafe mode, the history holds
    what the guest was stopped with; they agree up to the mode that loading replaces. It says what
    this routine keeps: stack pointers, link and return address always, x20 to x27 unless the
    incoming address is in x29, and nothing of x0 to x17 (section 5).
  * `AccountsHold`, from `BudgetInv`, `QuotaInv` and `MigrationInv`. `LaunchBalances` shows that the
    pre-check of a launch agrees with what charging one counter after the other finds, and that each
    refusal restores the counters charged before it;
    only compute ever leaks. `QuotaInv` remembers for each caller what its check allowed:
    recording it within the quota needs that the usage has not changed since and that the sum
    did not wrap (`SumWithin`).
* `ContextProofs`: the context service from its log to its page.
  * The witness log. `RingInvariant`, `LogTypeCorrect`, `RingHolds`: each retained record is at its
    sequence number modulo N, from a few facts on remainders. `LinkedInvariant`: each record ever
    appended carries the hash in force before it and the one after it, whether a later one
    overwrote it or not. `ChainFromIs` shows that the hashes a verifier recomputes are those the
    log passed, so every suffix still in the ring verifies (`SuffixVerifies`); with
    `SnapshotReads` and `SinceReads` that gives `LogReadsHolds`, for every ring size, buffer and
    hash function, collisions included.
  * Receipts. `ReceiptInvariant`, `RuntimeAtCursorHolds`, `CursorHolds`: the ring invariant again,
    for the appends of every operation, with what the ring still holds of the backlog. The backlog
    itself has no bound; what is proved is that the drainer's yes can be relied on.
    `StoreInvariant`, `StoreHolds`: `StoreInv` counts the receipts by the epoch the cursor names
    (`Sealed`) and says of each receipt which records of the history it holds, so that later
    appends leave it true (`StillTruthful`); `SealedTruthfully` shows that a seal without an error
    took the newest records whatever chain hash the cursor carries, which matters after a
    restart, when the log is a new one.
  * The in-memory resolver. `AliasInvariant`, `AliasesRefine`, `ForgottenHolds`, `AcceptsHolds`.
    `CasStep` and `ForgetStep` map a swap and a forget to the register's `CreateName` and
    `Replace`, `LearnStep` a resolve to `Observe`; every other step leaves the register alone.
    The invariant carries what the rest needs: what was forgotten is still in the table and not
    stored (`GoneIsGone`), so a put of the same bytes conflicts. `AnsweredEntry` shows that each
    entry of each kind of answer is stored under its own name, and `AliasInvAccepted` that the
    runtime's checks let all of them through; that a selection is no longer than its limit
    needs the tables finite (`EntriesFinite`, `HistoryFinite`).
  * Capabilities and the page. `ContextInvariant`, `ContextHolds`. `AuthorityInv` strengthens the
    properties of capabilities by what they rest on: no token is of an epoch to come, bindings are
    scopes, and the lineage a token carries is what its ancestors were bound to when it was made,
    so it stays true whatever a revocation takes or misses. That a revocation ends a branch is not
    proved, and does not hold once a slot is reused (`RevokedBranchesEnd`, section 5). `PageInv`
    says that decisions come before completions in the page's ring (`DecisionsFirst`), and that
    moves of aliases, puts and tokens are counted there one by one (`MovesCounted`, `PutsCounted`,
    `TokensCounted`). Assumed: there is a token to hand out, and paths are sequences.
* `CompareAndSetProofs`: stores whose writers compare before they set, and the services whose
  answers may come late. Whatever a session looked up or a client holds may be stale when it
  writes, but the write succeeds only if it is not, so what was checked earlier holds of the
  store at that moment.
  * Pins: `OneDescriptor`, `EpochOrder`, `Refusals`, `PinsHold`, `MovesForward`, for any number of
    sessions, epochs, hashes and tries. The check made earlier is `Advance`; every descriptor
    ever recorded stays at or below the pin (`AtOrBelow`), so a check against the pin is a
    check against all of them. `Recorded` ties a complete session to the store.
  * Durable aliases: `DurableInvariant`, `DurableRefines`, `IndexHolds`, `ErasureHolds`,
    `ListingsHold`. `IndexFollowsAliases` speaks of names without a job and is not inductive:
    `DurableInv` adds that a pending job asks for what the alias says now (`JobsCurrent`), as each
    write replaces the job of its name, and what each step of a drain has done so far
    (`DrainInOrder`). A failure or a crash drops the drain and keeps the jobs, so both survive it
    (`CallBegins`). `ErasureHolds`: a purge job is removed only after the index was brought in
    step and the sink answered (`PurgeInOrder`). `ListingsHold` needs that a live alias names a
    stored object (`LiveStored`) sealed to its own key. Assumed: a client without a snapshot and a
    target without a revision are told from the others (`Option::None`), and the first generation
    is allowed.
  * Services: `ServicesInvariant`, `ServicesHold`. `IdentityInv` says that what the identity thread
    has hashed, followed by what is in its queue, is what it was given, in order, until one side
    is gone; so a digest that arrives is of everything, whoever ends first. `GatewayInv` says
    that a connection carries one request from its permit to its answer, that effects are
    ordered by the generations they made (`EffectsOrdered`), and that what a client was told of a
    change is what happened to it (`ToldTrue`). A client that sends again what was applied names
    a generation that is gone, so it takes effect once, with lost answers and time limits that
    end a request after its effect.
* `PackageProofs`: what launches packages.
  * Streaming sessions: `StreamInvariant`, `SessionSoundHolds`, `CompleteIsFinalHolds`, for every
    descriptor and every sender. All books of the verifier are functions of the prefix of each
    segment it has released, which `Progress` states; the bounds on open segments and tables
    follow. `Outcome` ties session, admission and obligation to how the stream ended, `Records`
    the witness records to all three.
  * Launches: `LaunchInvariant`, `LaunchSoundHolds`. What must be told of an instance is in a span
    of it from the step that writes it (`Covered`), whatever others have written since the
    operation began: the span closed in that step starts at a position read earlier, which is
    never past the end of the log (`Opened`). `AgentsMatchInstances` says which instance an agent
    runs; `Origins` that a session starts what it has an instance for; `Claimed` that a claim in
    the log was computed from the adapter of the instance, or of the creation still under way.
  * The broker: `BrokerSoundHolds`. The bounds speak of any window of time, the code of the window
    that ends now. `EffectsRemembered` connects them: an effect that can still share a window
    with a later one is among the attempts the quota remembers, so there is room for one more
    (`EffectHasRoom`) whatever the clock does. An attempt that was allowed and could not be
    audited stays in that memory too, so the bound need not be reached. That receipts and
    effects are the same numbers in the same order needs only that numbers are new
    (`NumbersAreNew`).
  * Discharge: `DischargeHolds`, for any table and any tree of derivations. The sweep goes round as
    often as there are slots. `RoundsReach` shows that this is enough: a round that does not
    find everything reached adds a slot, and there are no more than that many. What it took is
    what the session held or hangs from it (`Reached`), so no other root is among it.

Loops. The library's induction theorems take an operator as a parameter and cannot be used
here. Two forms do without: `LeastNatural` (from the well-foundedness of the order on naturals)
and `InductionTo`, which is about a set that contains 0 and, with each number below n, the next
one. A recursive function is a CHOOSE of something that satisfies its equation, so a proof
first shows that there is one (`ChainFromEquation` by a witness, `AfterEachExists`,
`TurnsExist` and `RoundsExist` by induction) and then follows it to the end.

A theorem is about the component's own specification (`Spec`, `EngineSpec`, `RSpec`,
`StoreSpec`, `DurableSpec`, `RegionsSpec`, `TiersSpec`, `SessionSpec`, `LaunchSpec`, `BrokerSpec`,
`RunQueuesSpec` and so on). In the composed runs a component takes the same steps or stutters.

Only model-checked:

* `TreeSound` apart from `DepthIsAncestry`, and P3: walks along sibling lists that may be stale. The
  count of the tree rests on these walks too: a root is added without a look at its node, so
  the count is right only if no free slot has a live node, that is, if the walk that collects
  finds nothing that the walk that revokes does not.
* `CoherenceSound`: every fact is stored twice, and the cuts are a search in nested loops.
* `Tiling`, `AllocFindsRoom` (levels of a buddy tree over words of bits) and `PointInTime` (deltas
  applied byte by byte) of `MemorySound`.
* `RevokedBranchesEnd`: it speaks of what those walks find, too.
* `AnchoredEvidence` and `ContainerSound`: `ExternalAnchor` and `RvfContainer` declare RECURSIVE
  operators, and what a recursive definition computes for every input is out of reach here.
* `StreamsAgree` (a table, a stream and a buffer are read by the same loops), `WasmVerdictsHold`
  (any split of any bytes), `UriSound` (a text search against its definition) and
  `PackagesReadBack`: inductions over data.
* `NobodyWaitsForEver`: there is no rule for fairness or ENABLED among the
  provers at hand.

## 5. Met while modelling

Beside the six runs above, these follow from properties that hold or from the code as read:

* Capabilities and proofs. A nonce displaced from its index slot by another of the same residue
  is forgotten while both are above the watermark (policy.rs:184; rvm-cap verify.rs:306 has the
  same one-slot index); `ReplayNeedsCollision` says that this is the only way. An epoch change
  says it invalidates stale handles, but only P1 looks at the epoch (manager.rs:150).
  `verify_p3` of the engine remembers no nonce and walks no chain (engine.rs:111).
* Signers. `verify_chain_signatures` signs a minimal record, so records taken from the log never
  verify as links, and 32 bits of each link are signed (gate.rs:322). Witness-tier proofs are
  not tied to their commitment; a preimage over 64 bytes never verifies; two signers of one key
  around HMAC give the same eight bytes. `verify_chain` starts at sequence 0 and so fails on an
  intact ring that has wrapped.
* Anchoring. The `accepted` a receipt carries is compared with nothing that is recomputed from
  the samples (stats.rs:106, receipt.rs:232). An anchor that loses the race for the log position
  (`SequenceRaced`) leaves its record in the log.
* Kernel. `destroy_partition` ("Destroy a partition and reclaim its resources.", lib.rs:438)
  leaves run-queue entries, channels and leases that name the partition; `execute_merge` leaves
  the absorbed one alive; leases expire only in a call the kernel never makes; a guest's send
  and receive pass by the booted check, the coherence feed and the witness.
* Scheduling. Equal priorities are not first-in first-out; an entry of id 0 at a heap's root
  would stop its CPU (the kernel never enqueues one); one partition may be assigned to two CPUs.
* Coherence. A communication of weight 0 adds a second edge for a pair; a self-loop counts twice
  in the total. "If the computation exceeds the iteration budget, the last known cut is returned"
  (mincut.rs:102-103): a search past its budget overwrites it with what it has so far, all on one
  side at the start (mincut.rs:192-205; the test `budget_exceeded_returns_last_known` looks at the
  counters and the flag). `LastKnownCutKept` of `CoherenceGraph` states the comment and fails;
  `CutIsMinimum` speaks of cuts within the budget.
* Memory. A double free after part of the block was given out again is accepted; the final hash of
  a reconstruction is not compared, though its header says so.
* Quotas. `record_usage` wraps in release builds (quota.rs:180-192); `record_kernel_launch`
  charges compute time that it does not give back when refused; `total_threads` can wrap.
* World switch. "This inline version saves/restores the system registers and the caller-clobberable
  GP registers" (aarch64/boot.rs:242-243). The restore loads x29 with x28, and x18 and x19 before
  x16 to x0; the address it loads through is in one of the three, so x0 to x17, and with x29 also
  x18 to x27, are loaded through the guest's own value of that register. `OwnRegistersReturn` of
  `Stage2Mmu` states the comment and fails; `ResumesInPlace` says what does hold. The same doc says
  that this is not the full switch.
* Hardware. A flush reaches the current VMID only, so a caller has to install the guest first;
  40-bit addresses are declared (boot.rs:147) over a level-1 table for 39; interrupt ids to 1020
  are accepted although 1020 to 1023 are special. A failed boot cannot be rerun on its context.
* Receipts. "Admission stops before an unsealed record can be overwritten" (ADR-158:127), but no
  caller of `ReceiptDrainer::admit` exists outside its tests, and refused and failed seals append
  records nobody admits. `BackpressureHolds` of `ReceiptChain` states the line and fails; the next
  seal then reports the overwritten records. `CursorSound` says what admission would give. After a
  restart the cursor points past the end of an empty log and the next seal fails with a future
  checkpoint.
* Context capabilities. "Revoke a capability and all descendants" (capability.rs:666): with root
  A, its children B and C, C revoked and a new root D in its slot, the list of A leads through D
  and ends there, so revoking A takes D and leaves B live and bound. It is `cap_revoke`, seen from
  the context; `RevokedBranchesEnd` holds exactly while no such slot was taken.
* Context store. The durable resolver keeps views it cannot read back (resolver.rs:220, 241 and
  rvm-context runtime.rs:394); it accepts again a revision that was forgotten, which the
  in-memory one refuses; one unreadable object fails a whole enumeration, which the in-memory
  one skips; the first failing job blocks the later ones, and a failing index job makes open and
  search fail.
* Gateway. A retry of an applied change gets a conflict although it was applied; MCP answers 200
  always; a panic under the lock makes the API answer 503 from then on.
* Packages. A container whose last segment ends off a boundary and whose page starts there, while
  a header lies at the aligned offset inside the page, can be read in two ways. "A real page
  always starts on a segment boundary" (container.rs:163-164), but nothing checks that of a page
  whose segments tile up to it: the walk takes the page. `OneReading` of `RvfContainer`, that a
  container has only one reading, fails; `WalkReadsTheBuffer` says which one is taken. Header
  bytes after offset 40 are unsigned by design; `Order::File` with `Stages::ByType` can emit
  frames its receiver refuses; the framing's section count is 16 bits wide; a table is freed with
  its segment although the limit is documented for the life of the stream; `install_capabilities`
  does not repeat the pin check of `take_module`; view segments of a bound profile may be
  encrypted.
* Launch. `SpawnFailed` is not witnessed and `ModuleRefused` lies outside the spans; spans of
  two instances may overlap in the log although documented as disjoint (instance.rs:404); an
  agent whose activation fails has no owner; a failing terminate ends a discharge early.
* Browser. A page's compare-and-set consumes its snapshot; issuing, delegating, revoking and
  changing the epoch are not witnessed.

## 6. Not modelled, and why

* `rvm-types`: data without operations that change state.
* `rvm-kernel/src/main.rs` and the UART: start-up code that calls `Kernel` and `Boot` once, and
  an output device.
* In modelled crates: `check_lease` and `expire_leases` (never called by the kernel); the
  feature-gated bridges of rvm-coherence to an external engine; the embedding of texts as vectors;
  the accessors and error texts of the browser binding; suspending and resuming a stream verifier,
  which no session does.
* Cryptography, JSON, TLS, HTTP, WASM type checking and the database's own recovery are
  libraries: their outcome is an input, and a database transaction is atomic.
* Benches, examples, scripts and guides. The submodules (cuda-wasm, rudevolution, ruvector) are
  empty in this commit.

## 7. Plan

The modelling is complete as far as the code's own state goes. What is worth doing next is to
prove more, in this order: `Conservation`, with an invariant of the sibling lists that makes
both walks of a revocation visit the same nodes; `OpensAsSealed` and
`BoundViewsAreDescribed` of `ContextProfile`; the copies that `CoherenceGraph` keeps of each
fact. `Tiling` and `CutIsMinimum` need inductions over several nested loops and stay with TLC.
