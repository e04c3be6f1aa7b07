------------------------------- MODULE Kernel -------------------------------
(***************************************************************************)
(* The kernel object of rvm-kernel (lib.rs), which owns the partition      *)
(* manager, the scheduler's run queues, the IPC channels, the device       *)
(* leases, the coherence graph and the witness log, and offers one         *)
(* operation at a time on them (&mut self).                                *)
(*                                                                         *)
(* Each component appears by what it promises: channels as in Channels,    *)
(* run queues as bags (the order in which the heap of the scheduler serves *)
(* them is left open), coherence scores and the gate's verdict on a token  *)
(* as inputs; of a memory region its tier (Memory has the scores that      *)
(* decide a move).  The witness log appears as what an auditor learns from *)
(* replaying it: the partitions, the numbers of channels and leases, and   *)
(* the tiers of regions that were moved.                                   *)
(***************************************************************************)
EXTENDS Integers, Sequences, FiniteSets, FiniteSetsExt

CONSTANTS
  MAX_PARTITIONS,   \* partition slots
  ENGINE_MAX_NODES, \* nodes of the coherence graph
  MAX_EDGES,        \* IPC channels at a time
  QUEUE_SIZE,       \* messages in a channel
  Cpu,              \* processors
  MAX_RUN_QUEUE,    \* entries of a run queue
  MAX_DEVICES,      \* devices
  MAX_LEASES,       \* leases at a time
  KernelRegion,     \* memory regions
  Tiers,            \* 0 hot, 1 warm, 2 dormant, 3 cold
  MaxId,            \* bound: partition ids assigned
  MaxEdgeId,        \* bound: edge ids assigned
  MaxLeaseId,       \* bound: lease ids assigned
  MaxKernelEpoch    \* bound: scheduler epochs

ASSUME SizesAssumption ==
  /\ {MAX_PARTITIONS, ENGINE_MAX_NODES, MAX_EDGES, QUEUE_SIZE, MAX_RUN_QUEUE,
      MAX_DEVICES, MAX_LEASES, MaxId, MaxEdgeId, MaxLeaseId, MaxKernelEpoch} \subseteq Nat

VARIABLES
  booted,
  partitions, next_partition_id,    \* PartitionManager: live ids
  coherence,                        \* partitions in the coherence graph
  run_queues, current, epoch, degraded,   \* Scheduler
  channels, next_edge_id,           \* IpcManager: edge -> source, dest, count
  devices, leases, next_lease_id,   \* DeviceLeaseManager
  region_tiers,                     \* TierManager: region -> tier
  audit                             \* what the witness records account for

partition_vars == <<partitions, next_partition_id, coherence>>
sched_vars == <<run_queues, current, epoch, degraded>>
ipc_vars == <<channels, next_edge_id>>
device_vars == <<devices, leases, next_lease_id, region_tiers>>
state_vars == <<booted, partition_vars, sched_vars, ipc_vars, device_vars>>
kernelVars == <<state_vars, audit>>

PartitionId == 1 .. MaxId
COLD == 3
Device == 0 .. MAX_DEVICES - 1

KernelInit ==
  /\ booted = FALSE
  /\ partitions = {} /\ next_partition_id = 1
  /\ coherence = {}
  /\ run_queues = [c \in Cpu |-> [p \in PartitionId |-> 0]]
  /\ current = [c \in Cpu |-> 0]
  /\ epoch = 0
  /\ degraded = FALSE
  /\ channels = <<>> /\ next_edge_id = 1
  /\ devices = <<>> /\ leases = <<>> /\ next_lease_id = 1
  /\ region_tiers = <<>>
  /\ audit = [live |-> {}, channels |-> 0, leases |-> 0, tiers |-> <<>>]

-----------------------------------------------------------------------------
(* Witness records. *)

\* A record that neither creates nor removes an object, or none.
Unaccounted == UNCHANGED audit

AuditLive(live) == audit' = [audit EXCEPT !.live = live]

AuditChannels(n) == audit' = [audit EXCEPT !.channels = n]

AuditLeases(n) == audit' = [audit EXCEPT !.leases = n]

With(f, k, v) == [x \in DOMAIN f \cup {k} |-> IF x = k THEN v ELSE f[x]]

Without(f, k) == [x \in DOMAIN f \ {k} |-> f[x]]

-----------------------------------------------------------------------------
(* Boot, epochs and degraded mode. *)

\* The seven phases in order, each with its record.  A second boot fails on
\* the first phase.
Boot ==
  /\ ~booted
  /\ booted' = TRUE
  /\ Unaccounted
  /\ UNCHANGED <<partition_vars, sched_vars, ipc_vars, device_vars>>

\* Scores and tier decay are data; leases are not looked at.
KernelTick ==
  /\ booted
  /\ epoch < MaxKernelEpoch
  /\ epoch' = epoch + 1
  /\ Unaccounted
  /\ UNCHANGED <<booted, partition_vars, run_queues, current, degraded, ipc_vars, device_vars>>

EnterDegradedMode ==
  /\ degraded' = TRUE
  /\ Unaccounted
  /\ UNCHANGED <<booted, partition_vars, run_queues, current, epoch, ipc_vars, device_vars>>

ExitDegradedMode ==
  /\ degraded' = FALSE
  /\ Unaccounted
  /\ UNCHANGED <<booted, partition_vars, run_queues, current, epoch, ipc_vars, device_vars>>

-----------------------------------------------------------------------------
(* Partition lifecycle. *)

BugNewId == CHOOSE p \in PartitionId :
  p \notin partitions /\ \A q \in PartitionId : q \notin partitions => p <= q

NewId == next_partition_id

SlotsFull == Cardinality(partitions) >= MAX_PARTITIONS

\* The coherence graph may be full: the partition then exists without a node.
AddNode(p) ==
  coherence' = IF Cardinality(coherence) < ENGINE_MAX_NODES
               THEN coherence \cup {p} ELSE coherence

NewPartition ==
  /\ ~SlotsFull
  /\ next_partition_id <= MaxId
  /\ partitions' = partitions \cup {NewId}
  /\ next_partition_id' = next_partition_id + 1
  /\ AddNode(NewId)

CreatePartition ==
  /\ booted
  /\ NewPartition
  /\ AuditLive(audit.live \cup {NewId})
  /\ UNCHANGED <<booted, sched_vars, ipc_vars, device_vars>>

\* The security gate appends a record of its own before the operation: for an
\* allowed token a PartitionCreate for target 0, for another a ProofRejected and
\* nothing else happens.  An allowed creation can still fail.
CheckedCreatePartition ==
  /\ booted
  /\ \/ NewPartition /\ AuditLive(audit.live \cup {0, NewId})
     \/ SlotsFull /\ AuditLive(audit.live \cup {0}) /\ UNCHANGED partition_vars
  /\ UNCHANGED <<booted, sched_vars, ipc_vars, device_vars>>

\* A partition is in state Created, from which Destroyed is a valid step.
DestroyPartition(p) ==
  /\ booted
  /\ p \in partitions
  /\ coherence' = coherence \ {p}
  /\ partitions' = partitions \ {p}
  /\ AuditLive(audit.live \ {p})
  /\ UNCHANGED <<booted, next_partition_id, sched_vars, ipc_vars, device_vars>>

BugExecuteSplit(source) ==
  /\ booted
  /\ source \in partitions
  /\ NewPartition
  /\ Unaccounted
  /\ UNCHANGED <<booted, sched_vars, ipc_vars, device_vars>>

ExecuteSplit(source) ==
  /\ booted
  /\ source \in partitions
  /\ NewPartition
  /\ AuditLive(audit.live \cup {NewId})
  /\ UNCHANGED <<booted, sched_vars, ipc_vars, device_vars>>

\* Whether the two scores meet the threshold is an input; a partition without
\* a node counts as fully coherent.
ExecuteMerge(absorber, absorbed) ==
  /\ booted
  /\ absorber \in partitions
  /\ absorbed \in partitions
  /\ coherence' = coherence \ {absorbed}
  /\ Unaccounted
  /\ UNCHANGED <<booted, partitions, next_partition_id, sched_vars, ipc_vars, device_vars>>

-----------------------------------------------------------------------------
(* Scheduling. *)

Queued(c) == MapThenSumSet(LAMBDA p : run_queues[c][p], PartitionId)

\* The same partition may be queued more than once.
Enqueue(c, p) ==
  /\ Queued(c) < MAX_RUN_QUEUE
  /\ run_queues' = [run_queues EXCEPT ![c][p] = @ + 1]

EnqueuePartition(c, p) ==
  /\ booted
  /\ p \in partitions
  /\ Enqueue(c, p)
  /\ Unaccounted
  /\ UNCHANGED <<booted, partition_vars, current, epoch, degraded, ipc_vars, device_vars>>

SwitchPartition(c, p) ==
  /\ run_queues[c][p] > 0
  /\ run_queues' = [run_queues EXCEPT ![c][p] = @ - 1]
  /\ current' = [current EXCEPT ![c] = p]
  /\ Unaccounted
  /\ UNCHANGED <<booted, partition_vars, epoch, degraded, ipc_vars, device_vars>>

-----------------------------------------------------------------------------
(* Channels. *)

CreateChannel(from, to) ==
  /\ booted
  /\ from \in partitions /\ to \in partitions
  /\ Cardinality(DOMAIN channels) < MAX_EDGES
  /\ next_edge_id <= MaxEdgeId
  /\ channels' = With(channels, next_edge_id, [source |-> from, dest |-> to, count |-> 0])
  /\ next_edge_id' = next_edge_id + 1
  /\ AuditChannels(audit.channels + 1)
  /\ UNCHANGED <<booted, partition_vars, sched_vars, device_vars>>

Enqueued(e) ==
  /\ channels[e].count < QUEUE_SIZE
  /\ channels' = [channels EXCEPT ![e].count = @ + 1]
  /\ UNCHANGED <<booted, partition_vars, sched_vars, next_edge_id, device_vars>>

\* ipc_send by the channel's source; neither endpoint need exist any more.
IpcSend(e, caller) ==
  /\ booted
  /\ e \in DOMAIN channels
  /\ channels[e].source = caller
  /\ Enqueued(e)
  /\ Unaccounted

\* The gate's record first; the sender is whoever the message names.
CheckedIpcSend(e, sender, allowed) == allowed /\ IpcSend(e, sender)

\* Rights a guest's token must have for a host function.
required_rights(f) ==
  CASE f \in {"Receive", "Yield", "GetTime", "GetId", "GpuSync"} -> {"READ"}
    [] f \in {"Send", "Alloc", "Free", "GpuAlloc", "GpuFree"} -> {"WRITE"}
    [] f = "Spawn" -> {"EXECUTE"}
    [] f = "GpuLaunch" -> {"EXECUTE", "WRITE"}
    [] f = "GpuTransfer" -> {"READ", "WRITE"}

\* KernelHostContext.send: a guest's send goes to the IPC manager itself, not to
\* the hypervisor and not to the guest's own partition.
HostSend(e, partition, target) ==
  /\ target \notin {0, partition}
  /\ e \in DOMAIN channels
  /\ channels[e].source = partition
  /\ Enqueued(e)
  /\ Unaccounted

IpcReceive(e) ==
  /\ booted
  /\ e \in DOMAIN channels
  /\ channels' = [channels EXCEPT ![e].count = IF @ = 0 THEN 0 ELSE @ - 1]
  /\ Unaccounted
  /\ UNCHANGED <<booted, partition_vars, sched_vars, next_edge_id, device_vars>>

\* KernelHostContext.receive, without a look at who receives.
HostReceive(e) ==
  /\ e \in DOMAIN channels
  /\ channels' = [channels EXCEPT ![e].count = IF @ = 0 THEN 0 ELSE @ - 1]
  /\ Unaccounted
  /\ UNCHANGED <<booted, partition_vars, sched_vars, next_edge_id, device_vars>>

\* The other host functions reach the default handlers of HostContext, which keep
\* no state.
dispatch_host_call(f, rights, e, partition, target) ==
  /\ required_rights(f) \subseteq rights
  /\ \/ f = "Send" /\ HostSend(e, partition, target)
     \/ f = "Receive" /\ HostReceive(e)

DestroyChannel(e) ==
  /\ booted
  /\ e \in DOMAIN channels
  /\ channels' = Without(channels, e)
  /\ AuditChannels(audit.channels - 1)
  /\ UNCHANGED <<booted, partition_vars, sched_vars, next_edge_id, device_vars>>

-----------------------------------------------------------------------------
(* Devices. *)

RegisterDevice ==
  /\ Cardinality(DOMAIN devices) < MAX_DEVICES
  /\ devices' = With(devices, Cardinality(DOMAIN devices), [available |-> TRUE])
  /\ Unaccounted
  /\ UNCHANGED <<booted, partition_vars, sched_vars, ipc_vars, leases, next_lease_id, region_tiers>>

Available(d) == devices[d].available

\* The holder is not looked up.
grant_lease(d, p, duration) ==
  /\ d \in DOMAIN devices
  /\ Available(d)
  /\ Cardinality(DOMAIN leases) < MAX_LEASES
  /\ next_lease_id <= MaxLeaseId
  /\ leases' = With(leases, next_lease_id,
                    [device |-> d, partition |-> p, expiry |-> epoch + duration])
  /\ next_lease_id' = next_lease_id + 1
  /\ devices' = [devices EXCEPT ![d].available = FALSE]

GrantDeviceLease(d, p, duration) ==
  /\ booted
  /\ grant_lease(d, p, duration)
  /\ AuditLeases(audit.leases + 1)
  /\ UNCHANGED <<booted, partition_vars, sched_vars, ipc_vars, region_tiers>>

revoke_lease(l) ==
  /\ l \in DOMAIN leases
  /\ leases' = Without(leases, l)
  /\ devices' = [devices EXCEPT ![leases[l].device].available = TRUE]

RevokeDeviceLease(l) ==
  /\ revoke_lease(l)
  /\ AuditLeases(audit.leases - 1)
  /\ UNCHANGED <<booted, partition_vars, sched_vars, ipc_vars, next_lease_id, region_tiers>>

-----------------------------------------------------------------------------
(* Memory tiers: whether the scores allow a move is an input. *)

RegisterRegion(r, tier) ==
  /\ r \notin DOMAIN region_tiers
  /\ region_tiers' = With(region_tiers, r, tier)
  /\ Unaccounted
  /\ UNCHANGED <<booted, partition_vars, sched_vars, ipc_vars, devices, leases, next_lease_id>>

\* A move and its record, which names the old tier and the new one.
Moved(r, target) ==
  /\ region_tiers' = [region_tiers EXCEPT ![r] = target]
  /\ audit' = [audit EXCEPT !.tiers = With(@, r, target)]
  /\ UNCHANGED <<booted, partition_vars, sched_vars, ipc_vars, devices, leases, next_lease_id>>

PromoteRegion(r, target) ==
  r \in DOMAIN region_tiers /\ target < region_tiers[r] /\ region_tiers[r] # COLD /\ Moved(r, target)

DemoteRegion(r, target) == r \in DOMAIN region_tiers /\ target > region_tiers[r] /\ Moved(r, target)

KernelNext ==
  \/ Boot \/ KernelTick \/ EnterDegradedMode \/ ExitDegradedMode
  \/ CreatePartition \/ CheckedCreatePartition \/ RegisterDevice
  \/ \E p \in PartitionId :
       \/ DestroyPartition(p) \/ ExecuteSplit(p)
       \/ \E q \in PartitionId : ExecuteMerge(p, q) \/ CreateChannel(p, q)
       \/ \E c \in Cpu : EnqueuePartition(c, p) \/ SwitchPartition(c, p)
       \/ \E e \in 1 .. MaxEdgeId : IpcSend(e, p) \/ CheckedIpcSend(e, p, TRUE)
       \/ \E e \in 1 .. MaxEdgeId, target \in PartitionId, f \in {"Send", "Receive"}, rights \in {{"READ"}, {"WRITE"}} :
            dispatch_host_call(f, rights, e, p, target)
       \/ \E d \in Device, duration \in {1} : GrantDeviceLease(d, p, duration)
  \/ \E e \in 1 .. MaxEdgeId : IpcReceive(e) \/ DestroyChannel(e)
  \/ \E l \in 1 .. MaxLeaseId : RevokeDeviceLease(l)
  \/ \E g \in KernelRegion, t \in Tiers : RegisterRegion(g, t) \/ PromoteRegion(g, t) \/ DemoteRegion(g, t)

KernelSpec == KernelInit /\ [][KernelNext]_kernelVars

-----------------------------------------------------------------------------
(* Properties. *)

(* Type correctness of the kernel's state. *)
KernelTypeOK ==
  /\ booted \in BOOLEAN /\ degraded \in BOOLEAN /\ epoch \in Nat
  /\ partitions \subseteq PartitionId /\ coherence \subseteq PartitionId
  /\ next_partition_id \in 1 .. MaxId + 1
  /\ run_queues \in [Cpu -> [PartitionId -> Nat]]
  /\ current \in [Cpu -> PartitionId \cup {0}]
  /\ DOMAIN channels \subseteq 1 .. next_edge_id - 1
  /\ DOMAIN leases \subseteq 1 .. next_lease_id - 1
  /\ DOMAIN devices \subseteq Device

(* An auditor who replays the witness records, creations and splits,       *)
(* destructions, channels, leases and moves between tiers, arrives at the  *)
(* partitions, channels, leases and tiers the kernel has, whatever         *)
(* operations were refused in between; the gate's records of attempts      *)
(* (target 0) are told apart by their target.                              *)
AuditMatches ==
  /\ audit.live \ {0} = partitions
  /\ audit.channels = Cardinality(DOMAIN channels)
  /\ audit.leases = Cardinality(DOMAIN leases)
  /\ \A r \in DOMAIN audit.tiers : region_tiers[r] = audit.tiers[r]

(* A partition that is created inherits nothing: no run queue, processor,  *)
(* channel or coherence node names its id when it is assigned, although    *)
(* destroy_partition leaves run queues and channels as they are.  (Leases  *)
(* are granted to ids that were never looked up.)                          *)
NewPartitionIsFresh ==
  [][\A p \in partitions' \ partitions :
       /\ p \notin coherence
       /\ \A c \in Cpu : run_queues[c][p] = 0 /\ current[c] # p
       /\ \A e \in DOMAIN channels : p \notin {channels[e].source, channels[e].dest}]_kernelVars

(* The coherence graph never holds a node for a partition that is gone, so *)
(* that no split or merge is decided for one.                              *)
CoherenceTracksPartitions == coherence \subseteq partitions

(* A device has at most one lease, and is available exactly when it has    *)
(* none, over any order of grants and revocations.                         *)
LeasesExclusive ==
  /\ \A k, l \in DOMAIN leases : leases[k].device = leases[l].device => k = l
  /\ \A d \in DOMAIN devices :
       devices[d].available <=> \A l \in DOMAIN leases : leases[l].device # d

(* The kernel's tables and the account an auditor can give of them agree.  *)
KernelSound == AuditMatches /\ CoherenceTracksPartitions /\ LeasesExclusive
=============================================================================
