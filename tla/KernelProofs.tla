---------------------------- MODULE KernelProofs ----------------------------
(***************************************************************************)
(* Proofs about the kernel object, for every number of slots, nodes,       *)
(* channels, processors, devices, leases and regions.                      *)
(*                                                                         *)
(* The invariant has one part for each table.  An operation changes one of *)
(* them together with the account the witness log gives of it, so a step   *)
(* is proved against the parts it touches, and the frame lemmas carry the  *)
(* others over.                                                            *)
(***************************************************************************)
EXTENDS Kernel, FiniteSetTheorems, TLAPS

LEMMA Sizes ==
  /\ MAX_PARTITIONS \in Nat /\ MAX_EDGES \in Nat /\ MAX_DEVICES \in Nat /\ MAX_LEASES \in Nat
  /\ MaxId \in Nat /\ MaxEdgeId \in Nat /\ MaxLeaseId \in Nat /\ MaxKernelEpoch \in Nat
BY SizesAssumption

USE Sizes

LEMMA FiniteBelow ==
  ASSUME NEW n \in Nat \ {0}, NEW S, S \subseteq 1 .. n - 1
  PROVE  IsFiniteSet(S)
<1>1. 1 \in Int /\ n - 1 \in Int
  OBVIOUS
<1>2. IsFiniteSet(1 .. n - 1)
  BY <1>1, FS_Interval
<1> QED BY <1>2, FS_Subset

-----------------------------------------------------------------------------
(* The inductive invariant. *)

AuditShape ==
  audit = [live |-> audit.live, channels |-> audit.channels, leases |-> audit.leases,
           tiers |-> audit.tiers]

\* Ids in use were assigned, only live partitions have a node, and the records
\* account for the live ones (0 is the gate's).
PartitionsInv ==
  /\ next_partition_id \in 1 .. MaxId + 1
  /\ partitions \subseteq 1 .. next_partition_id - 1
  /\ coherence \subseteq partitions
  /\ audit.live \ {0} = partitions

\* No queue, processor or channel names an id before it is assigned.
NamesInv ==
  /\ run_queues \in [Cpu -> [PartitionId -> Nat]]
  /\ \A c \in Cpu, p \in PartitionId : p >= next_partition_id => run_queues[c][p] = 0
  /\ current \in [Cpu -> 0 .. next_partition_id - 1]
  /\ \A e \in DOMAIN channels :
       channels[e].source \in 1 .. next_partition_id - 1 /\ channels[e].dest \in 1 .. next_partition_id - 1

ChannelsInv ==
  /\ next_edge_id \in Nat \ {0}
  /\ DOMAIN channels \subseteq 1 .. next_edge_id - 1
  /\ audit.channels = Cardinality(DOMAIN channels)

\* Devices are numbered as they come; leases are for devices there are.
LeasesInv ==
  /\ next_lease_id \in Nat \ {0}
  /\ \E n \in 0 .. MAX_DEVICES : DOMAIN devices = 0 .. n - 1
  /\ \A d \in DOMAIN devices : devices[d] \in [available : BOOLEAN]
  /\ DOMAIN leases \subseteq 1 .. next_lease_id - 1
  /\ \A l \in DOMAIN leases : leases[l].device \in DOMAIN devices
  /\ audit.leases = Cardinality(DOMAIN leases)
  /\ LeasesExclusive

TiersInv ==
  /\ DOMAIN audit.tiers \subseteq DOMAIN region_tiers
  /\ \A r \in DOMAIN audit.tiers : region_tiers[r] = audit.tiers[r]

ModesInv == booted \in BOOLEAN /\ degraded \in BOOLEAN /\ epoch \in Nat

IInv ==
  /\ AuditShape
  /\ PartitionsInv
  /\ NamesInv
  /\ ChannelsInv
  /\ LeasesInv
  /\ TiersInv
  /\ ModesInv

-----------------------------------------------------------------------------
(* What a record changes in the account. *)

LEMMA AuditLiveIs ==
  ASSUME AuditShape, NEW live, AuditLive(live)
  PROVE  /\ AuditShape'
         /\ audit'.live = live /\ audit'.channels = audit.channels
         /\ audit'.leases = audit.leases /\ audit'.tiers = audit.tiers
<1>1. audit' = [live |-> live, channels |-> audit.channels, leases |-> audit.leases,
                tiers |-> audit.tiers]
  BY DEF AuditShape, AuditLive
<1> QED BY <1>1 DEF AuditShape

LEMMA AuditChannelsIs ==
  ASSUME AuditShape, NEW n, AuditChannels(n)
  PROVE  /\ AuditShape'
         /\ audit'.live = audit.live /\ audit'.channels = n
         /\ audit'.leases = audit.leases /\ audit'.tiers = audit.tiers
<1>1. audit' = [live |-> audit.live, channels |-> n, leases |-> audit.leases,
                tiers |-> audit.tiers]
  BY DEF AuditShape, AuditChannels
<1> QED BY <1>1 DEF AuditShape

LEMMA AuditLeasesIs ==
  ASSUME AuditShape, NEW n, AuditLeases(n)
  PROVE  /\ AuditShape'
         /\ audit'.live = audit.live /\ audit'.channels = audit.channels
         /\ audit'.leases = n /\ audit'.tiers = audit.tiers
<1>1. audit' = [live |-> audit.live, channels |-> audit.channels, leases |-> n,
                tiers |-> audit.tiers]
  BY DEF AuditShape, AuditLeases
<1> QED BY <1>1 DEF AuditShape

LEMMA UnaccountedIs ==
  ASSUME AuditShape, Unaccounted
  PROVE  /\ AuditShape'
         /\ audit'.live = audit.live /\ audit'.channels = audit.channels
         /\ audit'.leases = audit.leases /\ audit'.tiers = audit.tiers
BY DEF AuditShape, Unaccounted

-----------------------------------------------------------------------------
(* The parts a step does not touch. *)

LEMMA PartitionsFrame ==
  ASSUME PartitionsInv, UNCHANGED partition_vars, audit'.live = audit.live
  PROVE  PartitionsInv'
BY DEF PartitionsInv, partition_vars

LEMMA ChannelsFrame ==
  ASSUME ChannelsInv, UNCHANGED ipc_vars, audit'.channels = audit.channels
  PROVE  ChannelsInv'
BY DEF ChannelsInv, ipc_vars

LEMMA LeasesFrame ==
  ASSUME LeasesInv, UNCHANGED <<devices, leases, next_lease_id>>, audit'.leases = audit.leases
  PROVE  LeasesInv'
BY DEF LeasesInv, LeasesExclusive

LEMMA TiersFrame ==
  ASSUME TiersInv, UNCHANGED region_tiers, audit'.tiers = audit.tiers
  PROVE  TiersInv'
BY DEF TiersInv

\* Names stay assigned when ids are.
LEMMA NamesFrame ==
  ASSUME NamesInv, PartitionsInv, PartitionsInv', next_partition_id' >= next_partition_id,
         UNCHANGED <<run_queues, current, channels>>
  PROVE  NamesInv'
<1>1. next_partition_id \in 1 .. MaxId + 1 /\ next_partition_id' \in 1 .. MaxId + 1
  BY DEF PartitionsInv
<1>2. 0 .. next_partition_id - 1 \subseteq 0 .. next_partition_id' - 1 /\ 1 .. next_partition_id - 1 \subseteq 1 .. next_partition_id' - 1
  <2> DEFINE a == next_partition_id
             b == next_partition_id'
  <2>1. a \in Int /\ b \in Int /\ b >= a
    BY <1>1
  <2> HIDE DEF a, b
  <2>2. \A x \in Int : x <= a - 1 => x <= b - 1
    BY <2>1
  <2>3. 0 .. a - 1 \subseteq 0 .. b - 1 /\ 1 .. a - 1 \subseteq 1 .. b - 1
    BY <2>1, <2>2
  <2> QED BY <2>3 DEF a, b
<1>3. current' \in [Cpu -> 0 .. next_partition_id' - 1]
  <2>1. current \in [Cpu -> 0 .. next_partition_id - 1]
    BY DEF NamesInv
  <2>2. current' = current
    OBVIOUS
  <2> QED BY <1>2, <2>1, <2>2
<1>4. \A c \in Cpu, p \in PartitionId : p >= next_partition_id' => run_queues'[c][p] = 0
  BY <1>1 DEF NamesInv, PartitionId
<1>5. \A e \in DOMAIN channels' :
        channels'[e].source \in 1 .. next_partition_id' - 1 /\ channels'[e].dest \in 1 .. next_partition_id' - 1
  BY <1>2 DEF NamesInv
<1>6. run_queues' \in [Cpu -> [PartitionId -> Nat]]
  BY DEF NamesInv
<1> QED BY <1>3, <1>4, <1>5, <1>6 DEF NamesInv

\* A step that changes neither the partitions nor the queues, processors and channels.
LEMMA SameNames ==
  ASSUME NamesInv, PartitionsInv, UNCHANGED <<partition_vars, run_queues, current, channels>>
  PROVE  NamesInv'
BY DEF NamesInv, partition_vars

LEMMA Start == KernelInit => IInv
<1> SUFFICES ASSUME KernelInit PROVE IInv
  OBVIOUS
<1>1. AuditShape /\ TiersInv /\ ModesInv
  BY DEF KernelInit, AuditShape, TiersInv, ModesInv
<1>2. PartitionsInv
  BY DEF KernelInit, PartitionsInv
<1>3. NamesInv
  BY DEF KernelInit, NamesInv
<1>4. ChannelsInv
  BY FS_EmptySet DEF KernelInit, ChannelsInv
<1>5. LeasesInv
  <2>1. DOMAIN devices = 0 .. 0 - 1 /\ 0 \in 0 .. MAX_DEVICES
    BY DEF KernelInit
  <2>2. devices = <<>> /\ leases = <<>> /\ next_lease_id = 1 /\ audit.leases = 0
    BY DEF KernelInit
  <2>3. DOMAIN devices = {} /\ DOMAIN leases = {}
    BY <2>2
  <2>4. LeasesExclusive
    BY <2>3 DEF LeasesExclusive
  <2> QED BY <2>1, <2>2, <2>3, <2>4, FS_EmptySet DEF LeasesInv
<1> QED BY <1>1, <1>2, <1>3, <1>4, <1>5 DEF IInv

-----------------------------------------------------------------------------
(* Steps on partitions. *)

\* A created partition, with the record of it (and perhaps the gate's own).
LEMMA NewPartitionStep ==
  ASSUME PartitionsInv, NamesInv, NewPartition, NEW gate \in SUBSET {0},
         audit'.live = audit.live \cup gate \cup {NewId},
         UNCHANGED <<run_queues, current, channels>>
  PROVE  PartitionsInv' /\ NamesInv'
<1>1. /\ next_partition_id \in 1 .. MaxId + 1 /\ next_partition_id <= MaxId
      /\ partitions \subseteq 1 .. next_partition_id - 1 /\ coherence \subseteq partitions
      /\ audit.live \ {0} = partitions
      /\ partitions' = partitions \cup {next_partition_id} /\ next_partition_id' = next_partition_id + 1
  BY DEF PartitionsInv, NewPartition, NewId
<1>2. coherence' \subseteq coherence \cup {next_partition_id}
  BY DEF NewPartition, NewId, AddNode
<1>3. next_partition_id' \in 1 .. MaxId + 1 /\ next_partition_id # 0 /\ next_partition_id' >= next_partition_id
  BY <1>1
<1>4. partitions' \subseteq 1 .. next_partition_id' - 1
  BY <1>1
<1>5. audit'.live \ {0} = partitions'
  BY <1>1, <1>3 DEF NewId
<1>6. coherence' \subseteq partitions'
  BY <1>1, <1>2
<1>7. PartitionsInv'
  BY <1>3, <1>4, <1>5, <1>6 DEF PartitionsInv
<1> QED BY <1>3, <1>7, NamesFrame

LEMMA CreateStep ==
  ASSUME IInv, CreatePartition \/ CheckedCreatePartition
               \/ \E source \in PartitionId : ExecuteSplit(source)
  PROVE  IInv'
<1>1. PICK gate \in SUBSET {0} :
        /\ NewPartition \/ UNCHANGED partition_vars
        /\ NewPartition => AuditLive(audit.live \cup gate \cup {NewId})
        /\ ~NewPartition => AuditLive(audit.live \cup {0})
        /\ UNCHANGED <<booted, sched_vars, ipc_vars, device_vars>>
  <2>1. CASE CreatePartition
    <3>1. audit.live \cup {} \cup {NewId} = audit.live \cup {NewId}
      OBVIOUS
    <3>2. /\ NewPartition
          /\ AuditLive(audit.live \cup {} \cup {NewId})
          /\ UNCHANGED <<booted, sched_vars, ipc_vars, device_vars>>
      BY <2>1, <3>1, Zenon DEF CreatePartition
    <3> WITNESS {} \in SUBSET {0}
    <3> QED BY <3>2, Zenon
  <2>2. CASE CheckedCreatePartition
    <3>1. audit.live \cup {0} \cup {NewId} = audit.live \cup {0, NewId}
      OBVIOUS
    <3>2. NewPartition => ~SlotsFull
      BY DEF NewPartition
    <3>3. /\ NewPartition \/ UNCHANGED partition_vars
          /\ NewPartition => AuditLive(audit.live \cup {0} \cup {NewId})
          /\ ~NewPartition => AuditLive(audit.live \cup {0})
          /\ UNCHANGED <<booted, sched_vars, ipc_vars, device_vars>>
      BY <2>2, <3>1, <3>2 DEF CheckedCreatePartition
    <3> WITNESS {0} \in SUBSET {0}
    <3> QED BY <3>3
  <2>3. CASE \E source \in PartitionId : ExecuteSplit(source)
    <3>1. audit.live \cup {} \cup {NewId} = audit.live \cup {NewId}
      OBVIOUS
    <3>2. /\ NewPartition
          /\ AuditLive(audit.live \cup {} \cup {NewId})
          /\ UNCHANGED <<booted, sched_vars, ipc_vars, device_vars>>
      BY <2>3, <3>1, Zenon DEF ExecuteSplit
    <3> WITNESS {} \in SUBSET {0}
    <3> QED BY <3>2, Zenon
  <2> QED BY <2>1, <2>2, <2>3
<1>2. PICK live : AuditLive(live)
  BY <1>1
<1>3. /\ AuditShape'
      /\ audit'.live = live /\ audit'.channels = audit.channels
      /\ audit'.leases = audit.leases /\ audit'.tiers = audit.tiers
  BY <1>2, AuditLiveIs DEF IInv
<1>4. NewPartition => audit'.live = audit.live \cup gate \cup {NewId}
  BY <1>1, AuditLiveIs DEF IInv
<1>5. ~NewPartition => audit'.live = audit.live \cup {0}
  BY <1>1, AuditLiveIs DEF IInv
<1>6. /\ UNCHANGED ipc_vars /\ UNCHANGED <<devices, leases, next_lease_id>> /\ UNCHANGED region_tiers
      /\ UNCHANGED <<run_queues, current, channels>> /\ UNCHANGED <<booted, degraded, epoch>>
  BY <1>1 DEF ipc_vars, sched_vars, device_vars
<1>7. PartitionsInv' /\ NamesInv'
  <2>1. CASE NewPartition
    BY <1>4, <1>6, <2>1, NewPartitionStep DEF IInv
  <2>2. CASE ~NewPartition
    <3>1. PartitionsInv'
      BY <1>1, <1>5, <2>2 DEF IInv, PartitionsInv, partition_vars
    <3> QED BY <1>1, <1>6, <2>2, <3>1, SameNames DEF IInv
  <2> QED BY <2>1, <2>2
<1>8. ModesInv'
  BY <1>6 DEF IInv, ModesInv
<1> QED BY <1>3, <1>6, <1>7, <1>8, ChannelsFrame, LeasesFrame, TiersFrame DEF IInv

LEMMA DestroyStep ==
  ASSUME IInv, NEW p \in PartitionId, DestroyPartition(p)
  PROVE  IInv'
<1>1. /\ coherence' = coherence \ {p} /\ partitions' = partitions \ {p}
      /\ AuditLive(audit.live \ {p})
      /\ UNCHANGED <<booted, next_partition_id, sched_vars, ipc_vars, device_vars>>
  BY DEF DestroyPartition
<1>2. /\ AuditShape'
      /\ audit'.live = audit.live \ {p} /\ audit'.channels = audit.channels
      /\ audit'.leases = audit.leases /\ audit'.tiers = audit.tiers
  BY <1>1, AuditLiveIs DEF IInv
<1>3. /\ UNCHANGED ipc_vars /\ UNCHANGED <<devices, leases, next_lease_id>> /\ UNCHANGED region_tiers
      /\ UNCHANGED <<run_queues, current, channels>> /\ UNCHANGED <<booted, degraded, epoch>>
  BY <1>1 DEF ipc_vars, sched_vars, device_vars
<1>4. PartitionsInv'
  BY <1>1, <1>2 DEF IInv, PartitionsInv
<1>5. NamesInv'
  <2>1. next_partition_id' >= next_partition_id
    BY <1>1 DEF IInv, PartitionsInv
  <2> QED BY <1>3, <1>4, <2>1, NamesFrame DEF IInv
<1>6. ModesInv'
  BY <1>3 DEF IInv, ModesInv
<1> QED BY <1>2, <1>3, <1>4, <1>5, <1>6, ChannelsFrame, LeasesFrame, TiersFrame DEF IInv

LEMMA MergeStep ==
  ASSUME IInv, NEW p \in PartitionId, NEW q \in PartitionId, ExecuteMerge(p, q)
  PROVE  IInv'
<1>1. /\ coherence' = coherence \ {q} /\ Unaccounted
      /\ UNCHANGED <<booted, partitions, next_partition_id, sched_vars, ipc_vars, device_vars>>
  BY DEF ExecuteMerge
<1>2. /\ AuditShape'
      /\ audit'.live = audit.live /\ audit'.channels = audit.channels
      /\ audit'.leases = audit.leases /\ audit'.tiers = audit.tiers
  BY <1>1, UnaccountedIs DEF IInv
<1>3. /\ UNCHANGED ipc_vars /\ UNCHANGED <<devices, leases, next_lease_id>> /\ UNCHANGED region_tiers
      /\ UNCHANGED <<run_queues, current, channels>> /\ UNCHANGED <<booted, degraded, epoch>>
  BY <1>1 DEF ipc_vars, sched_vars, device_vars
<1>4. PartitionsInv'
  BY <1>1, <1>2 DEF IInv, PartitionsInv
<1>5. NamesInv'
  <2>1. next_partition_id' >= next_partition_id
    BY <1>1 DEF IInv, PartitionsInv
  <2> QED BY <1>3, <1>4, <2>1, NamesFrame DEF IInv
<1>6. ModesInv'
  BY <1>3 DEF IInv, ModesInv
<1> QED BY <1>2, <1>3, <1>4, <1>5, <1>6, ChannelsFrame, LeasesFrame, TiersFrame DEF IInv

-----------------------------------------------------------------------------
(* Steps of the scheduler. *)

\* Boot, the ticks and the degraded mode.
LEMMA ModeStep ==
  ASSUME IInv, Boot \/ KernelTick \/ EnterDegradedMode \/ ExitDegradedMode
  PROVE  IInv'
<1>1. /\ Unaccounted
      /\ UNCHANGED <<partition_vars, run_queues, current, ipc_vars, device_vars>>
  BY DEF Boot, KernelTick, EnterDegradedMode, ExitDegradedMode, sched_vars
<1>2. ModesInv'
  <2>1. booted \in BOOLEAN /\ degraded \in BOOLEAN /\ epoch \in Nat
    BY DEF IInv, ModesInv
  <2>2. epoch' = epoch \/ epoch' = epoch + 1
    BY DEF Boot, KernelTick, EnterDegradedMode, ExitDegradedMode, sched_vars
  <2>3. booted' \in BOOLEAN /\ degraded' \in BOOLEAN
    BY <2>1, Zenon DEF Boot, KernelTick, EnterDegradedMode, ExitDegradedMode, sched_vars
  <2>4. epoch' \in Nat
    BY <2>1, <2>2
  <2> QED BY <2>3, <2>4 DEF ModesInv
<1>3. /\ AuditShape'
      /\ audit'.live = audit.live /\ audit'.channels = audit.channels
      /\ audit'.leases = audit.leases /\ audit'.tiers = audit.tiers
  BY <1>1, UnaccountedIs DEF IInv
<1>4. /\ UNCHANGED partition_vars /\ UNCHANGED ipc_vars /\ UNCHANGED region_tiers
      /\ UNCHANGED <<devices, leases, next_lease_id>>
      /\ UNCHANGED <<partition_vars, run_queues, current, channels>>
  BY <1>1 DEF ipc_vars, device_vars
<1> QED BY <1>2, <1>3, <1>4, PartitionsFrame, SameNames, ChannelsFrame, LeasesFrame, TiersFrame
        DEF IInv

\* Only a live partition is queued, and only a queued one is run.
LEMMA QueueStep ==
  ASSUME IInv, NEW c \in Cpu, NEW p \in PartitionId, EnqueuePartition(c, p) \/ SwitchPartition(c, p)
  PROVE  IInv'
<1>1. /\ Unaccounted
      /\ UNCHANGED <<booted, partition_vars, epoch, degraded, ipc_vars, device_vars>>
  BY DEF EnqueuePartition, SwitchPartition
<1>2. /\ AuditShape'
      /\ audit'.live = audit.live /\ audit'.channels = audit.channels
      /\ audit'.leases = audit.leases /\ audit'.tiers = audit.tiers
  BY <1>1, UnaccountedIs DEF IInv
<1>3. /\ UNCHANGED partition_vars /\ UNCHANGED ipc_vars /\ UNCHANGED region_tiers
      /\ UNCHANGED <<devices, leases, next_lease_id>> /\ UNCHANGED <<booted, degraded, epoch>>
      /\ UNCHANGED <<next_partition_id, channels>>
  BY <1>1 DEF ipc_vars, device_vars, partition_vars
<1>4. /\ next_partition_id \in 1 .. MaxId + 1 /\ partitions \subseteq 1 .. next_partition_id - 1
      /\ run_queues \in [Cpu -> [PartitionId -> Nat]]
      /\ current \in [Cpu -> 0 .. next_partition_id - 1]
      /\ \A d \in Cpu, q \in PartitionId : q >= next_partition_id => run_queues[d][q] = 0
      /\ p \in Nat
  BY DEF IInv, PartitionsInv, NamesInv, PartitionId
<1>5. CASE EnqueuePartition(c, p)
  <2>1. /\ p \in partitions /\ current' = current
        /\ run_queues' = [run_queues EXCEPT ![c][p] = @ + 1]
    BY <1>5 DEF EnqueuePartition, Enqueue
  <2>2. p < next_partition_id
    BY <1>4, <2>1
  <2>3. run_queues' \in [Cpu -> [PartitionId -> Nat]]
    BY <1>4, <2>1
  <2>4. \A d \in Cpu, q \in PartitionId : q # p => run_queues'[d][q] = run_queues[d][q]
    BY <1>4, <2>1
  <2>5. NamesInv'
    BY <1>3, <1>4, <2>1, <2>2, <2>3, <2>4 DEF IInv, NamesInv
  <2> QED BY <1>2, <1>3, <2>5, PartitionsFrame, ChannelsFrame, LeasesFrame, TiersFrame
          DEF IInv, ModesInv
<1>6. CASE SwitchPartition(c, p)
  <2>1. /\ run_queues[c][p] > 0
        /\ current' = [current EXCEPT ![c] = p]
        /\ run_queues' = [run_queues EXCEPT ![c][p] = @ - 1]
    BY <1>6 DEF SwitchPartition
  <2>2. p \in 1 .. next_partition_id - 1
    BY <1>4, <2>1 DEF PartitionId
  <2>3. run_queues' \in [Cpu -> [PartitionId -> Nat]]
    <3>1. run_queues[c][p] - 1 \in Nat
      BY <1>4, <2>1
    <3> QED BY <1>4, <2>1, <3>1
  <2>4. \A d \in Cpu, q \in PartitionId : q # p => run_queues'[d][q] = run_queues[d][q]
    BY <1>4, <2>1
  <2>5. current' \in [Cpu -> 0 .. next_partition_id - 1]
    <3>1. p \in 0 .. next_partition_id - 1
      BY <2>2
    <3> QED BY <1>4, <2>1, <3>1
  <2>6. NamesInv'
    BY <1>3, <1>4, <2>2, <2>3, <2>4, <2>5 DEF IInv, NamesInv
  <2> QED BY <1>2, <1>3, <2>6, PartitionsFrame, ChannelsFrame, LeasesFrame, TiersFrame
          DEF IInv, ModesInv
<1> QED BY <1>5, <1>6

-----------------------------------------------------------------------------
(* Steps on channels. *)

LEMMA CreateChannelStep ==
  ASSUME IInv, NEW from \in PartitionId, NEW to \in PartitionId, CreateChannel(from, to)
  PROVE  IInv'
<1>1. /\ from \in partitions /\ to \in partitions /\ next_edge_id <= MaxEdgeId
      /\ channels' = With(channels, next_edge_id, [source |-> from, dest |-> to, count |-> 0])
      /\ next_edge_id' = next_edge_id + 1
      /\ AuditChannels(audit.channels + 1)
      /\ UNCHANGED <<booted, partition_vars, sched_vars, device_vars>>
  BY DEF CreateChannel
<1>2. /\ AuditShape'
      /\ audit'.live = audit.live /\ audit'.channels = audit.channels + 1
      /\ audit'.leases = audit.leases /\ audit'.tiers = audit.tiers
  BY <1>1, AuditChannelsIs DEF IInv
<1>3. /\ UNCHANGED partition_vars /\ UNCHANGED region_tiers
      /\ UNCHANGED <<devices, leases, next_lease_id>> /\ UNCHANGED <<booted, degraded, epoch>>
      /\ UNCHANGED <<next_partition_id, run_queues, current>>
  BY <1>1 DEF sched_vars, device_vars, partition_vars
<1>4. /\ DOMAIN channels' = DOMAIN channels \cup {next_edge_id}
      /\ channels'[next_edge_id] = [source |-> from, dest |-> to, count |-> 0]
      /\ \A e \in DOMAIN channels : e # next_edge_id => channels'[e] = channels[e]
  BY <1>1 DEF With
<1>5. ChannelsInv'
  <2>1. next_edge_id \in Nat \ {0} /\ DOMAIN channels \subseteq 1 .. next_edge_id - 1
    BY DEF IInv, ChannelsInv
  <2>2. next_edge_id' \in Nat \ {0} /\ DOMAIN channels' \subseteq 1 .. next_edge_id' - 1
    BY <1>1, <1>4, <2>1
  <2>3. IsFiniteSet(DOMAIN channels)
    BY <2>1, FiniteBelow
  <2>4. next_edge_id \notin DOMAIN channels
    BY <2>1
  <2>5. Cardinality(DOMAIN channels') = Cardinality(DOMAIN channels) + 1
    BY <1>4, <2>3, <2>4, FS_AddElement
  <2> QED BY <1>2, <2>2, <2>5 DEF IInv, ChannelsInv
<1>6. NamesInv'
  <2>1. from \in 1 .. next_partition_id - 1 /\ to \in 1 .. next_partition_id - 1
    BY <1>1 DEF IInv, PartitionsInv
  <2>2. \A e \in DOMAIN channels' :
          channels'[e].source \in 1 .. next_partition_id - 1 /\ channels'[e].dest \in 1 .. next_partition_id - 1
    BY <1>4, <2>1 DEF IInv, NamesInv
  <2> QED BY <1>3, <2>2 DEF IInv, NamesInv
<1> QED BY <1>2, <1>3, <1>5, <1>6, PartitionsFrame, LeasesFrame, TiersFrame DEF IInv, ModesInv

\* A send or a receive, by whatever way, changes the number of messages only.
LEMMA CountStep ==
  ASSUME IInv, NEW e \in DOMAIN channels, NEW n,
         channels' = [channels EXCEPT ![e].count = n], Unaccounted,
         UNCHANGED <<booted, partition_vars, sched_vars, next_edge_id, device_vars>>
  PROVE  IInv'
<1>1. /\ AuditShape'
      /\ audit'.live = audit.live /\ audit'.channels = audit.channels
      /\ audit'.leases = audit.leases /\ audit'.tiers = audit.tiers
  BY UnaccountedIs DEF IInv
<1>2. /\ UNCHANGED partition_vars /\ UNCHANGED region_tiers
      /\ UNCHANGED <<devices, leases, next_lease_id>> /\ UNCHANGED <<booted, degraded, epoch>>
      /\ UNCHANGED <<next_partition_id, run_queues, current, next_edge_id>>
  BY DEF sched_vars, device_vars, partition_vars
<1>3. /\ DOMAIN channels' = DOMAIN channels
      /\ \A x \in DOMAIN channels : /\ channels'[x].source = channels[x].source
                                    /\ channels'[x].dest = channels[x].dest
  OBVIOUS
<1>4. ChannelsInv'
  BY <1>1, <1>2, <1>3 DEF IInv, ChannelsInv
<1>5. NamesInv'
  BY <1>2, <1>3 DEF IInv, NamesInv
<1> QED BY <1>1, <1>2, <1>4, <1>5, PartitionsFrame, LeasesFrame, TiersFrame DEF IInv, ModesInv

LEMMA MessageStep ==
  ASSUME IInv, NEW e, NEW p, NEW target, NEW f \in {"Send", "Receive"}, NEW rights,
         \/ IpcSend(e, p) \/ CheckedIpcSend(e, p, TRUE) \/ IpcReceive(e)
         \/ dispatch_host_call(f, rights, e, p, target)
  PROVE  IInv'
<1>1. \/ IpcSend(e, p) \/ IpcReceive(e) \/ HostSend(e, p, target) \/ HostReceive(e)
  BY DEF CheckedIpcSend, dispatch_host_call
<1>2. CASE IpcSend(e, p) \/ HostSend(e, p, target)
  <2>1. e \in DOMAIN channels /\ Unaccounted /\ Enqueued(e)
    BY <1>2 DEF IpcSend, HostSend
  <2> QED BY <2>1, CountStep DEF Enqueued
<1>3. CASE IpcReceive(e) \/ HostReceive(e)
  <2> DEFINE n == IF channels[e].count = 0 THEN 0 ELSE channels[e].count - 1
  <2>1. /\ e \in DOMAIN channels /\ Unaccounted
        /\ channels' = [channels EXCEPT ![e].count = n]
        /\ UNCHANGED <<booted, partition_vars, sched_vars, next_edge_id, device_vars>>
    BY <1>3, Zenon DEF IpcReceive, HostReceive
  <2> HIDE DEF n
  <2> QED BY <2>1, CountStep
<1> QED BY <1>1, <1>2, <1>3

LEMMA DestroyChannelStep ==
  ASSUME IInv, NEW e, DestroyChannel(e)
  PROVE  IInv'
<1>1. /\ e \in DOMAIN channels /\ channels' = Without(channels, e)
      /\ AuditChannels(audit.channels - 1)
      /\ UNCHANGED <<booted, partition_vars, sched_vars, next_edge_id, device_vars>>
  BY DEF DestroyChannel
<1>2. /\ AuditShape'
      /\ audit'.live = audit.live /\ audit'.channels = audit.channels - 1
      /\ audit'.leases = audit.leases /\ audit'.tiers = audit.tiers
  BY <1>1, AuditChannelsIs DEF IInv
<1>3. /\ UNCHANGED partition_vars /\ UNCHANGED region_tiers
      /\ UNCHANGED <<devices, leases, next_lease_id>> /\ UNCHANGED <<booted, degraded, epoch>>
      /\ UNCHANGED <<next_partition_id, run_queues, current, next_edge_id>>
  BY <1>1 DEF sched_vars, device_vars, partition_vars
<1>4. /\ DOMAIN channels' = DOMAIN channels \ {e}
      /\ \A x \in DOMAIN channels' : channels'[x] = channels[x]
  BY <1>1 DEF Without
<1>5. ChannelsInv'
  <2>1. next_edge_id \in Nat \ {0} /\ DOMAIN channels \subseteq 1 .. next_edge_id - 1
    BY DEF IInv, ChannelsInv
  <2>2. IsFiniteSet(DOMAIN channels)
    BY <2>1, FiniteBelow
  <2>3. Cardinality(DOMAIN channels') = Cardinality(DOMAIN channels) - 1
    BY <1>1, <1>4, <2>2, FS_RemoveElement
  <2> QED BY <1>2, <1>3, <1>4, <2>1, <2>3 DEF IInv, ChannelsInv
<1>6. NamesInv'
  BY <1>3, <1>4 DEF IInv, NamesInv
<1> QED BY <1>2, <1>3, <1>5, <1>6, PartitionsFrame, LeasesFrame, TiersFrame DEF IInv, ModesInv

-----------------------------------------------------------------------------
(* Steps on devices. *)

LEMMA RegisterDeviceStep ==
  ASSUME IInv, RegisterDevice
  PROVE  IInv'
<1>1. /\ Cardinality(DOMAIN devices) < MAX_DEVICES
      /\ devices' = With(devices, Cardinality(DOMAIN devices), [available |-> TRUE])
      /\ Unaccounted
      /\ UNCHANGED <<booted, partition_vars, sched_vars, ipc_vars, leases, next_lease_id, region_tiers>>
  BY DEF RegisterDevice
<1>2. /\ AuditShape'
      /\ audit'.live = audit.live /\ audit'.channels = audit.channels
      /\ audit'.leases = audit.leases /\ audit'.tiers = audit.tiers
  BY <1>1, UnaccountedIs DEF IInv
<1>3. /\ UNCHANGED partition_vars /\ UNCHANGED region_tiers /\ UNCHANGED ipc_vars
      /\ UNCHANGED <<booted, degraded, epoch>>
      /\ UNCHANGED <<partition_vars, run_queues, current, channels>>
  BY <1>1 DEF sched_vars, ipc_vars
<1>4. PICK n \in 0 .. MAX_DEVICES : DOMAIN devices = 0 .. n - 1
  BY DEF IInv, LeasesInv
<1>5. Cardinality(DOMAIN devices) = n
  <2>1. 0 \in Int /\ n - 1 \in Int /\ n \in Nat
    BY <1>4
  <2>2. Cardinality(0 .. n - 1) = IF 0 > n - 1 THEN 0 ELSE n - 1 - 0 + 1
    BY <2>1, FS_Interval
  <2> QED BY <1>4, <2>1, <2>2
<1>6. /\ DOMAIN devices' = DOMAIN devices \cup {n} /\ n \notin DOMAIN devices
      /\ devices'[n] = [available |-> TRUE]
      /\ \A d \in DOMAIN devices : devices'[d] = devices[d]
  BY <1>1, <1>4, <1>5 DEF With
<1>7. n + 1 \in 0 .. MAX_DEVICES /\ DOMAIN devices' = 0 .. n + 1 - 1
  <2>1. n + 1 \in 0 .. MAX_DEVICES
    BY <1>1, <1>4, <1>5
  <2>2. 0 .. n - 1 \cup {n} = 0 .. n + 1 - 1
    BY <1>4
  <2> QED BY <1>4, <1>6, <2>1, <2>2
<1>8. \A l \in DOMAIN leases : leases[l].device \in DOMAIN devices
  BY DEF IInv, LeasesInv
<1>9. LeasesExclusive'
  <2>1. \A d \in DOMAIN devices' :
          devices'[d].available <=> \A l \in DOMAIN leases : leases[l].device # d
    <3> TAKE d \in DOMAIN devices'
    <3>1. CASE d = n
      BY <1>6, <1>8, <3>1
    <3>2. CASE d # n
      BY <1>6, <3>2 DEF IInv, LeasesInv, LeasesExclusive
    <3> QED BY <3>1, <3>2
  <2> QED BY <1>1, <2>1 DEF IInv, LeasesInv, LeasesExclusive
<1>10. \A d \in DOMAIN devices' : devices'[d] \in [available : BOOLEAN]
  <2>1. [available |-> TRUE] \in [available : BOOLEAN]
    OBVIOUS
  <2>2. \A d \in DOMAIN devices : devices[d] \in [available : BOOLEAN]
    BY DEF IInv, LeasesInv
  <2> QED BY <1>6, <2>1, <2>2, Zenon
<1>11. LeasesInv'
  <2>1. \E k \in 0 .. MAX_DEVICES : DOMAIN devices' = 0 .. k - 1
    BY <1>7
  <2>2. \A l \in DOMAIN leases' : leases'[l].device \in DOMAIN devices'
    BY <1>1, <1>6, <1>8
  <2> QED BY <1>1, <1>2, <1>9, <1>10, <2>1, <2>2 DEF IInv, LeasesInv
<1> QED BY <1>2, <1>3, <1>11, PartitionsFrame, SameNames, ChannelsFrame, TiersFrame
        DEF IInv, ModesInv

LEMMA GrantStep ==
  ASSUME IInv, NEW d, NEW p, NEW duration, GrantDeviceLease(d, p, duration)
  PROVE  IInv'
<1> DEFINE new == [device |-> d, partition |-> p, expiry |-> epoch + duration]
<1>1. /\ d \in DOMAIN devices /\ devices[d].available /\ next_lease_id <= MaxLeaseId
      /\ leases' = With(leases, next_lease_id, new)
      /\ next_lease_id' = next_lease_id + 1
      /\ devices' = [devices EXCEPT ![d].available = FALSE]
      /\ AuditLeases(audit.leases + 1)
      /\ UNCHANGED <<booted, partition_vars, sched_vars, ipc_vars, region_tiers>>
  BY DEF GrantDeviceLease, grant_lease, Available
<1>2. new.device = d
  OBVIOUS
<1> HIDE DEF new
<1>3. /\ AuditShape'
      /\ audit'.live = audit.live /\ audit'.channels = audit.channels
      /\ audit'.leases = audit.leases + 1 /\ audit'.tiers = audit.tiers
  BY <1>1, AuditLeasesIs DEF IInv
<1>4. /\ UNCHANGED partition_vars /\ UNCHANGED region_tiers /\ UNCHANGED ipc_vars
      /\ UNCHANGED <<booted, degraded, epoch>>
      /\ UNCHANGED <<partition_vars, run_queues, current, channels>>
  BY <1>1 DEF sched_vars, ipc_vars
<1>5. /\ next_lease_id \in Nat \ {0} /\ DOMAIN leases \subseteq 1 .. next_lease_id - 1
      /\ \A l \in DOMAIN leases : leases[l].device \in DOMAIN devices
      /\ \A x \in DOMAIN devices : devices[x] \in [available : BOOLEAN]
      /\ LeasesExclusive
  BY DEF IInv, LeasesInv
<1>6. /\ DOMAIN leases' = DOMAIN leases \cup {next_lease_id} /\ next_lease_id \notin DOMAIN leases
      /\ leases'[next_lease_id] = new
      /\ \A l \in DOMAIN leases : leases'[l] = leases[l]
  BY <1>1, <1>5 DEF With
<1>7. /\ DOMAIN devices' = DOMAIN devices
      /\ devices'[d].available = FALSE
      /\ \A x \in DOMAIN devices : devices'[x] \in [available : BOOLEAN]
      /\ \A x \in DOMAIN devices : x # d => devices'[x] = devices[x]
  BY <1>1, <1>5
<1>8. \A l \in DOMAIN leases : leases[l].device # d
  BY <1>1, <1>5 DEF LeasesExclusive
<1>9. LeasesExclusive'
  <2>1. \A k, l \in DOMAIN leases' : leases'[k].device = leases'[l].device => k = l
    BY <1>2, <1>5, <1>6, <1>8 DEF LeasesExclusive
  <2>2. \A x \in DOMAIN devices' :
          devices'[x].available <=> \A l \in DOMAIN leases' : leases'[l].device # x
    <3> TAKE x \in DOMAIN devices'
    <3>1. CASE x = d
      BY <1>2, <1>6, <1>7, <3>1
    <3>2. CASE x # d
      <4>1. devices'[x].available <=> \A l \in DOMAIN leases : leases[l].device # x
        BY <1>5, <1>7, <3>2 DEF LeasesExclusive
      <4> QED BY <1>2, <1>6, <3>2, <4>1
    <3> QED BY <3>1, <3>2
  <2> QED BY <2>1, <2>2 DEF LeasesExclusive
<1>10. audit'.leases = Cardinality(DOMAIN leases')
  <2>1. IsFiniteSet(DOMAIN leases)
    BY <1>5, FiniteBelow
  <2>2. Cardinality(DOMAIN leases') = Cardinality(DOMAIN leases) + 1
    BY <1>6, <2>1, FS_AddElement
  <2> QED BY <1>3, <2>2 DEF IInv, LeasesInv
<1>11. LeasesInv'
  <2>1. next_lease_id' \in Nat \ {0} /\ DOMAIN leases' \subseteq 1 .. next_lease_id' - 1
    BY <1>1, <1>5, <1>6
  <2>2. \E n \in 0 .. MAX_DEVICES : DOMAIN devices' = 0 .. n - 1
    BY <1>7 DEF IInv, LeasesInv
  <2>3. \A l \in DOMAIN leases' : leases'[l].device \in DOMAIN devices'
    BY <1>1, <1>2, <1>5, <1>6, <1>7
  <2>4. \A x \in DOMAIN devices' : devices'[x] \in [available : BOOLEAN]
    BY <1>7
  <2> QED BY <1>9, <1>10, <2>1, <2>2, <2>3, <2>4 DEF LeasesInv
<1> QED BY <1>3, <1>4, <1>11, PartitionsFrame, SameNames, ChannelsFrame, TiersFrame
        DEF IInv, ModesInv

LEMMA RevokeStep ==
  ASSUME IInv, NEW l, RevokeDeviceLease(l)
  PROVE  IInv'
<1> DEFINE d == leases[l].device
<1>1. /\ l \in DOMAIN leases /\ leases' = Without(leases, l)
      /\ devices' = [devices EXCEPT ![d].available = TRUE]
      /\ AuditLeases(audit.leases - 1)
      /\ UNCHANGED <<booted, partition_vars, sched_vars, ipc_vars, next_lease_id, region_tiers>>
  BY DEF RevokeDeviceLease, revoke_lease
<1>2. /\ AuditShape'
      /\ audit'.live = audit.live /\ audit'.channels = audit.channels
      /\ audit'.leases = audit.leases - 1 /\ audit'.tiers = audit.tiers
  BY <1>1, AuditLeasesIs DEF IInv
<1>3. /\ UNCHANGED partition_vars /\ UNCHANGED region_tiers /\ UNCHANGED ipc_vars
      /\ UNCHANGED <<booted, degraded, epoch>>
      /\ UNCHANGED <<partition_vars, run_queues, current, channels>>
  BY <1>1 DEF sched_vars, ipc_vars
<1>4. /\ next_lease_id \in Nat \ {0} /\ DOMAIN leases \subseteq 1 .. next_lease_id - 1
      /\ \A k \in DOMAIN leases : leases[k].device \in DOMAIN devices
      /\ \A x \in DOMAIN devices : devices[x] \in [available : BOOLEAN]
      /\ LeasesExclusive
  BY DEF IInv, LeasesInv
<1>5. /\ DOMAIN leases' = DOMAIN leases \ {l}
      /\ \A k \in DOMAIN leases' : leases'[k] = leases[k]
  BY <1>1 DEF Without
<1>6. /\ d \in DOMAIN devices /\ DOMAIN devices' = DOMAIN devices
      /\ devices'[d].available = TRUE
      /\ \A x \in DOMAIN devices : devices'[x] \in [available : BOOLEAN]
      /\ \A x \in DOMAIN devices : x # d => devices'[x] = devices[x]
  BY <1>1, <1>4
<1>7. \A k \in DOMAIN leases : k # l => leases[k].device # d
  BY <1>1, <1>4 DEF LeasesExclusive
<1> HIDE DEF d
<1>8. LeasesExclusive'
  <2>1. \A j, k \in DOMAIN leases' : leases'[j].device = leases'[k].device => j = k
    BY <1>4, <1>5 DEF LeasesExclusive
  <2>2. \A x \in DOMAIN devices' :
          devices'[x].available <=> \A k \in DOMAIN leases' : leases'[k].device # x
    <3> TAKE x \in DOMAIN devices'
    <3>1. CASE x = d
      BY <1>5, <1>6, <1>7, <3>1
    <3>2. CASE x # d
      <4>1. devices'[x].available <=> \A k \in DOMAIN leases : leases[k].device # x
        BY <1>4, <1>6, <3>2 DEF LeasesExclusive
      <4> QED BY <1>1, <1>5, <3>2, <4>1 DEF d
    <3> QED BY <3>1, <3>2
  <2> QED BY <2>1, <2>2 DEF LeasesExclusive
<1>9. audit'.leases = Cardinality(DOMAIN leases')
  <2>1. IsFiniteSet(DOMAIN leases)
    BY <1>4, FiniteBelow
  <2> QED BY <1>1, <1>2, <1>5, <2>1, FS_RemoveElement DEF IInv, LeasesInv
<1>10. LeasesInv'
  <2>1. next_lease_id' \in Nat \ {0} /\ DOMAIN leases' \subseteq 1 .. next_lease_id' - 1
    BY <1>1, <1>4, <1>5
  <2>2. \E n \in 0 .. MAX_DEVICES : DOMAIN devices' = 0 .. n - 1
    BY <1>6 DEF IInv, LeasesInv
  <2>3. \A k \in DOMAIN leases' : leases'[k].device \in DOMAIN devices'
    BY <1>4, <1>5, <1>6
  <2>4. \A x \in DOMAIN devices' : devices'[x] \in [available : BOOLEAN]
    BY <1>6
  <2> QED BY <1>8, <1>9, <2>1, <2>2, <2>3, <2>4 DEF LeasesInv
<1> QED BY <1>2, <1>3, <1>10, PartitionsFrame, SameNames, ChannelsFrame, TiersFrame
        DEF IInv, ModesInv

-----------------------------------------------------------------------------
(* Steps on regions. *)

LEMMA RegionStep ==
  ASSUME IInv, NEW r, NEW t, RegisterRegion(r, t) \/ PromoteRegion(r, t) \/ DemoteRegion(r, t)
  PROVE  IInv'
<1>1. UNCHANGED <<booted, partition_vars, sched_vars, ipc_vars, devices, leases, next_lease_id>>
  BY DEF RegisterRegion, PromoteRegion, DemoteRegion, Moved
<1>2. /\ UNCHANGED partition_vars /\ UNCHANGED ipc_vars
      /\ UNCHANGED <<devices, leases, next_lease_id>> /\ UNCHANGED <<booted, degraded, epoch>>
      /\ UNCHANGED <<partition_vars, run_queues, current, channels>>
  BY <1>1 DEF sched_vars, ipc_vars
<1>3. DOMAIN audit.tiers \subseteq DOMAIN region_tiers /\ \A x \in DOMAIN audit.tiers : region_tiers[x] = audit.tiers[x]
  BY DEF IInv, TiersInv
<1>4. CASE RegisterRegion(r, t)
  <2>1. r \notin DOMAIN region_tiers /\ region_tiers' = With(region_tiers, r, t) /\ Unaccounted
    BY <1>4 DEF RegisterRegion
  <2>2. /\ AuditShape'
        /\ audit'.live = audit.live /\ audit'.channels = audit.channels
        /\ audit'.leases = audit.leases /\ audit'.tiers = audit.tiers
    BY <2>1, UnaccountedIs DEF IInv
  <2>3. /\ DOMAIN region_tiers' = DOMAIN region_tiers \cup {r}
        /\ \A x \in DOMAIN region_tiers : region_tiers'[x] = region_tiers[x]
    BY <2>1 DEF With
  <2>4. TiersInv'
    BY <1>3, <2>2, <2>3 DEF TiersInv
  <2> QED BY <1>2, <2>2, <2>4, PartitionsFrame, SameNames, ChannelsFrame, LeasesFrame
          DEF IInv, ModesInv
<1>5. CASE PromoteRegion(r, t) \/ DemoteRegion(r, t)
  <2>1. r \in DOMAIN region_tiers /\ region_tiers' = [region_tiers EXCEPT ![r] = t]
    BY <1>5 DEF PromoteRegion, DemoteRegion, Moved
  <2>2. audit' = [audit EXCEPT !.tiers = With(audit.tiers, r, t)]
    BY <1>5, Zenon DEF PromoteRegion, DemoteRegion, Moved
  <2>3. audit' = [live |-> audit.live, channels |-> audit.channels, leases |-> audit.leases,
                  tiers |-> With(audit.tiers, r, t)]
    BY <2>2 DEF IInv, AuditShape
  <2>4. /\ AuditShape'
        /\ audit'.live = audit.live /\ audit'.channels = audit.channels
        /\ audit'.leases = audit.leases /\ audit'.tiers = With(audit.tiers, r, t)
    BY <2>3 DEF AuditShape
  <2>5. /\ DOMAIN region_tiers' = DOMAIN region_tiers /\ region_tiers'[r] = t
        /\ \A x \in DOMAIN region_tiers : x # r => region_tiers'[x] = region_tiers[x]
    BY <2>1
  <2>6. /\ DOMAIN With(audit.tiers, r, t) = DOMAIN audit.tiers \cup {r}
        /\ With(audit.tiers, r, t)[r] = t
        /\ \A x \in DOMAIN audit.tiers : x # r => With(audit.tiers, r, t)[x] = audit.tiers[x]
    BY DEF With
  <2>7. TiersInv'
    BY <1>3, <2>1, <2>4, <2>5, <2>6 DEF TiersInv
  <2> QED BY <1>2, <2>4, <2>7, PartitionsFrame, SameNames, ChannelsFrame, LeasesFrame
          DEF IInv, ModesInv
<1> QED BY <1>4, <1>5

-----------------------------------------------------------------------------
(* The theorems. *)

LEMMA Step == IInv /\ [KernelNext]_kernelVars => IInv'
<1> SUFFICES ASSUME IInv, [KernelNext]_kernelVars PROVE IInv'
  OBVIOUS
<1>1. CASE UNCHANGED kernelVars
  <2>1. /\ UNCHANGED partition_vars /\ UNCHANGED ipc_vars /\ UNCHANGED region_tiers
        /\ UNCHANGED <<devices, leases, next_lease_id>> /\ UNCHANGED <<booted, degraded, epoch>>
        /\ UNCHANGED <<partition_vars, run_queues, current, channels>> /\ audit' = audit
    BY <1>1 DEF kernelVars, state_vars, partition_vars, ipc_vars, device_vars, sched_vars
  <2> QED BY <2>1, PartitionsFrame, SameNames, ChannelsFrame, LeasesFrame, TiersFrame
          DEF IInv, ModesInv, AuditShape
<1>2. CASE Boot \/ KernelTick \/ EnterDegradedMode \/ ExitDegradedMode
  BY <1>2, ModeStep
<1>3. CASE CreatePartition \/ CheckedCreatePartition \/ \E p \in PartitionId : ExecuteSplit(p)
  BY <1>3, CreateStep
<1>4. CASE RegisterDevice
  BY <1>4, RegisterDeviceStep
<1>5. ASSUME NEW p \in PartitionId, DestroyPartition(p)
      PROVE  IInv'
  BY <1>5, DestroyStep
<1>6. ASSUME NEW p \in PartitionId, NEW q \in PartitionId, ExecuteMerge(p, q) \/ CreateChannel(p, q)
      PROVE  IInv'
  BY <1>6, MergeStep, CreateChannelStep
<1>7. ASSUME NEW p \in PartitionId, NEW c \in Cpu, EnqueuePartition(c, p) \/ SwitchPartition(c, p)
      PROVE  IInv'
  BY <1>7, QueueStep
<1>8. ASSUME NEW e, NEW p, NEW target, NEW f \in {"Send", "Receive"}, NEW rights,
             dispatch_host_call(f, rights, e, p, target)
      PROVE  IInv'
  BY <1>8, MessageStep
<1>13. ASSUME NEW e, NEW p, IpcSend(e, p) \/ CheckedIpcSend(e, p, TRUE) \/ IpcReceive(e)
       PROVE  IInv'
  <2>1. \A f \in {"Send", "Receive"} : \A rights, target : IInv'
    BY <1>13, MessageStep
  <2> QED BY <2>1
<1>9. ASSUME NEW d, NEW p, NEW duration, GrantDeviceLease(d, p, duration)
      PROVE  IInv'
  BY <1>9, GrantStep
<1>10. ASSUME NEW e, DestroyChannel(e)
       PROVE  IInv'
  BY <1>10, DestroyChannelStep
<1>11. ASSUME NEW l, RevokeDeviceLease(l)
       PROVE  IInv'
  BY <1>11, RevokeStep
<1>12. ASSUME NEW r, NEW t, RegisterRegion(r, t) \/ PromoteRegion(r, t) \/ DemoteRegion(r, t)
       PROVE  IInv'
  BY <1>12, RegionStep
<1>14. ASSUME NEW p \in PartitionId,
              \/ DestroyPartition(p) \/ ExecuteSplit(p)
              \/ \E q \in PartitionId : ExecuteMerge(p, q) \/ CreateChannel(p, q)
              \/ \E c \in Cpu : EnqueuePartition(c, p) \/ SwitchPartition(c, p)
              \/ \E e \in 1 .. MaxEdgeId : IpcSend(e, p) \/ CheckedIpcSend(e, p, TRUE)
              \/ \E e \in 1 .. MaxEdgeId, target \in PartitionId, f \in {"Send", "Receive"},
                    rights \in {{"READ"}, {"WRITE"}} : dispatch_host_call(f, rights, e, p, target)
              \/ \E d \in Device, duration \in {1} : GrantDeviceLease(d, p, duration)
       PROVE  IInv'
  <2>1. CASE DestroyPartition(p) \/ ExecuteSplit(p)
    BY <1>3, <1>5, <2>1
  <2>2. CASE \E q \in PartitionId : ExecuteMerge(p, q) \/ CreateChannel(p, q)
    BY <1>6, <2>2
  <2>3. CASE \E c \in Cpu : EnqueuePartition(c, p) \/ SwitchPartition(c, p)
    BY <1>7, <2>3
  <2>4. CASE \E e \in 1 .. MaxEdgeId : IpcSend(e, p) \/ CheckedIpcSend(e, p, TRUE)
    BY <1>13, <2>4
  <2>5. CASE \E e \in 1 .. MaxEdgeId, target \in PartitionId, f \in {"Send", "Receive"},
               rights \in {{"READ"}, {"WRITE"}} : dispatch_host_call(f, rights, e, p, target)
    BY <1>8, <2>5
  <2>6. CASE \E d \in Device, duration \in {1} : GrantDeviceLease(d, p, duration)
    BY <1>9, <2>6
  <2> QED BY <1>14, <2>1, <2>2, <2>3, <2>4, <2>5, <2>6
<1>15. CASE KernelNext
  BY <1>2, <1>3, <1>4, <1>10, <1>11, <1>12, <1>13, <1>14, <1>15 DEF KernelNext
<1> QED BY <1>1, <1>15

THEOREM Invariance == KernelSpec => []IInv
BY Start, Step, PTL DEF KernelSpec

\* KernelTypeOK (Kernel): the kernel's tables have the ids and shapes its operations
\* rely on.
THEOREM TypeCorrect == KernelSpec => []KernelTypeOK
<1>1. IInv => KernelTypeOK
  <2> SUFFICES ASSUME IInv PROVE KernelTypeOK
    OBVIOUS
  <2>1. booted \in BOOLEAN /\ degraded \in BOOLEAN /\ epoch \in Nat
    BY DEF IInv, ModesInv
  <2>2. /\ partitions \subseteq PartitionId /\ coherence \subseteq PartitionId
        /\ next_partition_id \in 1 .. MaxId + 1
    BY DEF IInv, PartitionsInv, PartitionId
  <2>3. run_queues \in [Cpu -> [PartitionId -> Nat]]
    BY DEF IInv, NamesInv
  <2>4. current \in [Cpu -> PartitionId \cup {0}]
    <3>1. 0 .. next_partition_id - 1 \subseteq PartitionId \cup {0}
      BY <2>2 DEF PartitionId
    <3> QED BY <3>1 DEF IInv, NamesInv
  <2>5. /\ DOMAIN channels \subseteq 1 .. next_edge_id - 1
        /\ DOMAIN leases \subseteq 1 .. next_lease_id - 1
    BY DEF IInv, ChannelsInv, LeasesInv
  <2>6. DOMAIN devices \subseteq Device
    BY DEF IInv, LeasesInv, Device
  <2> QED BY <2>1, <2>2, <2>3, <2>4, <2>5, <2>6 DEF KernelTypeOK
<1> QED BY <1>1, Invariance, PTL

\* KernelSound (Kernel): whatever operations succeed and fail, in any order, the
\* witness records account for the partitions, channels, leases and region_tiers there
\* are, the coherence graph has nodes for live partitions only, and no device
\* has two leases or is available while it has one.
THEOREM Soundness == KernelSpec => []KernelSound
<1>1. IInv => KernelSound
  BY DEF IInv, PartitionsInv, ChannelsInv, LeasesInv, TiersInv,
         KernelSound, AuditMatches, CoherenceTracksPartitions
<1> QED BY <1>1, Invariance, PTL

\* NewPartitionIsFresh (Kernel): although destroying a partition leaves the run
\* queues, processors and channels that name it, no partition that appears was
\* named by any of them, because its id was never assigned before.
THEOREM Freshness == KernelSpec => NewPartitionIsFresh
<1> DEFINE Fresh ==
      \A p \in partitions' \ partitions :
        /\ p \notin coherence
        /\ \A c \in Cpu : run_queues[c][p] = 0 /\ current[c] # p
        /\ \A e \in DOMAIN channels : p \notin {channels[e].source, channels[e].dest}
<1>1. ASSUME IInv, KernelNext
      PROVE  Fresh
  <2>1. ASSUME NEW p \in partitions' \ partitions
        PROVE  p = next_partition_id /\ next_partition_id <= MaxId
    <3>1. \/ NewPartition \/ UNCHANGED partitions \/ partitions' \subseteq partitions
      BY <1>1 DEF KernelNext, Boot, KernelTick, EnterDegradedMode, ExitDegradedMode, CreatePartition,
        CheckedCreatePartition, RegisterDevice, DestroyPartition, ExecuteSplit, ExecuteMerge,
        CreateChannel, EnqueuePartition, SwitchPartition, IpcSend, CheckedIpcSend, Enqueued,
        dispatch_host_call, HostSend, HostReceive, GrantDeviceLease, IpcReceive, DestroyChannel,
        RevokeDeviceLease, RegisterRegion, PromoteRegion, DemoteRegion, Moved, partition_vars
    <3> QED BY <2>1, <3>1 DEF NewPartition, NewId
  <2>2. /\ next_partition_id \in 1 .. MaxId + 1 /\ coherence \subseteq 1 .. next_partition_id - 1
        /\ \A c \in Cpu, q \in PartitionId : q >= next_partition_id => run_queues[c][q] = 0
        /\ \A c \in Cpu : current[c] \in 0 .. next_partition_id - 1
        /\ \A e \in DOMAIN channels :
             channels[e].source \in 1 .. next_partition_id - 1 /\ channels[e].dest \in 1 .. next_partition_id - 1
    BY <1>1 DEF IInv, PartitionsInv, NamesInv
  <2>3. next_partition_id <= MaxId => next_partition_id \in PartitionId /\ next_partition_id >= next_partition_id
    BY <2>2 DEF PartitionId
  <2>4. next_partition_id \notin 1 .. next_partition_id - 1 /\ next_partition_id \notin 0 .. next_partition_id - 1
    BY <2>2
  <2> QED BY <2>1, <2>2, <2>3, <2>4
<1>2. IInv /\ [KernelNext]_kernelVars => [Fresh]_kernelVars
  BY <1>1
<1> QED BY <1>2, Invariance, PTL DEF KernelSpec, NewPartitionIsFresh
=============================================================================
