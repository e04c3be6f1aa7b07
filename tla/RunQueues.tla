------------------------------ MODULE RunQueues ------------------------------
(***************************************************************************)
(* rvm-sched: the per-CPU run queues of the Scheduler, each a binary       *)
(* max-heap in an array, the epoch counters, and the SmpCoordinator that   *)
(* says which CPU is online and what it runs.  The two share nothing: the  *)
(* first is told a CPU number, the second finds one.                       *)
(*                                                                         *)
(* Partition 0 is the hypervisor, which an entry of a queue may not name:  *)
(* its id marks an empty place.  enqueue takes it all the same.            *)
(***************************************************************************)
EXTENDS Integers, Sequences, FiniteSets

CONSTANTS
    MAX_CPUS, cpu_count,   \* the array and the CPUs the machine has
    MAX_RUN_QUEUE,
    Runnable,              \* ids of partitions
    Urgency,               \* deadline urgencies, u16
    Pressure, FixedOne,    \* cut pressures in fixed point, and 1.0: 2^16
    U16Max,                \* u16::MAX
    SchedulerMode,         \* with "Flow"
    MaxTicks,              \* u64::MAX: a CPU's ticks stay there
    EpochWrap              \* the epoch counter wraps here, 2^32 in the code

ASSUME RunQueueSizes == /\ {MAX_CPUS, cpu_count, MAX_RUN_QUEUE, U16Max, MaxTicks, EpochWrap} \subseteq Nat
                        /\ Urgency \subseteq Nat /\ Pressure \subseteq Nat /\ FixedOne \in Nat \ {0}
                        /\ Runnable \subseteq Nat /\ "Flow" \in SchedulerMode

VARIABLES
    heap,        \* CPU -> sequence of entries, position i over 2i and 2i+1
    per_cpu,     \* PerCpuScheduler: current and idle
    epochs,      \* EpochTracker: current_epoch and switch_count
    mode,        \* mode and degraded of the Scheduler
    cpus         \* SmpCoordinator: cpu_states

schedulerVars == <<heap, per_cpu, epochs, mode>>
runQueueVars == <<schedulerVars, cpus>>
CpuId == 0 .. MAX_CPUS - 1
HYPERVISOR == 0
Nobody == -1       \* None

-----------------------------------------------------------------------------
(* Scheduler *)

Lesser(a, b) == IF a < b THEN a ELSE b
compute_priority(urgency, pressure) == urgency + Lesser(pressure \div FixedOne, U16Max)

Swapped(q, i, j) == [q EXCEPT ![i] = q[j], ![j] = q[i]]

\* The place of the parent if it is smaller.
Smaller(q, pos) ==
    IF pos > 1 /\ q[pos].priority > q[pos \div 2].priority THEN pos \div 2 ELSE pos

BugLargest(q, pos) ==
    LET Over(i, j) == i <= Len(q) /\ q[i].priority > q[j].priority
    IN IF Over(2*pos + 1, pos) THEN 2*pos + 1 ELSE IF Over(2*pos, pos) THEN 2*pos ELSE pos

\* The larger child if it is larger than the parent, the left one first.
Largest(q, pos) ==
    LET Over(i, j) == i <= Len(q) /\ q[i].priority > q[j].priority
        left == IF Over(2*pos, pos) THEN 2*pos ELSE pos
    IN IF Over(2*pos + 1, left) THEN 2*pos + 1 ELSE left

\* One turn of the loop of either sift, which comes to rest within as many turns as there
\* are places.
SiftTurn(s, up) ==
    LET to == IF up THEN Smaller(s.q, s.pos) ELSE Largest(s.q, s.pos)
    IN [q |-> Swapped(s.q, s.pos, to), pos |-> to]
Sifted(q, pos, up) ==
    LET after[n \in 0 .. Len(q)] ==
          IF n = 0 THEN [q |-> q, pos |-> pos] ELSE SiftTurn(after[n - 1], up)
    IN after[Len(q)].q
sift_up(q) == Sifted(q, Len(q), TRUE)
sift_down(q) == Sifted(q, 1, FALSE)

enqueue(c, p, urgency, pressure) ==
    /\ Len(heap[c]) < MAX_RUN_QUEUE
    /\ LET effective == IF mode.degraded THEN 0 ELSE pressure
           entry == [partition |-> p, priority |-> compute_priority(urgency, effective)]
       IN heap' = [heap EXCEPT ![c] = sift_up(Append(@, entry))]
    /\ UNCHANGED <<per_cpu, epochs, mode, cpus>>

\* The last entry takes the place of the first and sinks.
Popped(q) ==
    LET short == SubSeq(q, 1, Len(q) - 1)
    IN IF short = <<>> THEN short ELSE sift_down([short EXCEPT ![1] = q[Len(q)]])

\* EpochTracker: advance also returns a summary of the epoch, a reading of its state.
EpochTrackerNew == [current_epoch |-> 0, switch_count |-> 0]
record_switch(e) == [e EXCEPT !.switch_count = Lesser(@ + 1, U16Max)]
advance(e) == [current_epoch |-> (e.current_epoch + 1) % EpochWrap, switch_count |-> 0]

\* An entry of the hypervisor at the root looks like an empty queue, for good.
switch_next(c) ==
    /\ heap[c] # <<>> /\ heap[c][1].partition # HYPERVISOR
    /\ heap' = [heap EXCEPT ![c] = Popped(@)]
    /\ per_cpu' = [per_cpu EXCEPT ![c] = [current |-> heap[c][1].partition, idle |-> FALSE]]
    /\ epochs' = record_switch(epochs)
    /\ UNCHANGED <<mode, cpus>>

tick_epoch ==
    /\ epochs' = advance(epochs)
    /\ UNCHANGED <<heap, per_cpu, mode, cpus>>

\* The scheduler's own mode: a CPU's own stays Flow.
PerCpuSchedulerNew == [current |-> Nobody, idle |-> TRUE]
set_mode(m) == mode' = [mode EXCEPT !.mode = m] /\ UNCHANGED <<heap, per_cpu, epochs, cpus>>
set_degraded(d) == mode' = [mode EXCEPT !.degraded = d] /\ UNCHANGED <<heap, per_cpu, epochs, cpus>>

-----------------------------------------------------------------------------
(* SmpCoordinator *)

Offline == [online |-> FALSE, runs |-> Nobody, idle |-> TRUE, ticks |-> 0]

CpuStep(c, state) == cpus' = [cpus EXCEPT ![c] = state] /\ UNCHANGED schedulerVars

\* new clamps the CPUs of the machine to the array.
OnlineLimit == Lesser(cpu_count, MAX_CPUS)

bring_online(c) ==
    /\ c < OnlineLimit /\ ~cpus[c].online
    /\ CpuStep(c, [cpus[c] EXCEPT !.online = TRUE, !.idle = TRUE, !.runs = Nobody])

take_offline(c) ==
    /\ cpus[c].online /\ cpus[c].runs = Nobody
    /\ CpuStep(c, [cpus[c] EXCEPT !.online = FALSE, !.idle = TRUE])

assign_partition(c, p) ==
    /\ cpus[c].online /\ cpus[c].runs = Nobody
    /\ CpuStep(c, [cpus[c] EXCEPT !.runs = p, !.idle = FALSE, !.ticks = Lesser(@ + 1, MaxTicks)])

BugRelease(c) ==
    /\ cpus[c].runs # Nobody
    /\ CpuStep(c, [cpus[c] EXCEPT !.runs = Nobody])

release_partition(c) ==
    /\ cpus[c].runs # Nobody
    /\ CpuStep(c, [cpus[c] EXCEPT !.runs = Nobody, !.idle = TRUE])

First(S) == {c \in S : \A d \in S : c <= d}
find_idle_cpu == First({c \in CpuId : cpus[c].online /\ cpus[c].idle})
partition_affinity(p) == First({c \in CpuId : cpus[c].online /\ cpus[c].runs = p})
Busy == {c \in CpuId : cpus[c].online /\ cpus[c].runs # Nobody}

\* max_by_key keeps the last of equal maxima.
rebalance_hint ==
    {h \in Busy \X find_idle_cpu :
       \A d \in Busy : \/ cpus[d].ticks < cpus[h[1]].ticks
                       \/ cpus[d].ticks = cpus[h[1]].ticks /\ d <= h[1]}

-----------------------------------------------------------------------------
RunQueueInit ==
    /\ heap = [c \in CpuId |-> <<>>] /\ per_cpu = [c \in CpuId |-> PerCpuSchedulerNew]
    /\ epochs = EpochTrackerNew
    /\ mode = [mode |-> "Flow", degraded |-> FALSE]
    /\ cpus = [c \in CpuId |-> Offline]

SchedulerNext ==
    \/ \E c \in CpuId, p \in Runnable \cup {HYPERVISOR}, u \in Urgency, x \in Pressure : enqueue(c, p, u, x)
    \/ \E c \in CpuId : switch_next(c)
    \/ tick_epoch
    \/ \E d \in BOOLEAN : set_degraded(d)
    \/ \E m \in SchedulerMode : set_mode(m)

SmpNext ==
    \E c \in CpuId :
      \/ bring_online(c) \/ take_offline(c) \/ release_partition(c)
      \/ \E p \in Runnable \cup {HYPERVISOR} : assign_partition(c, p)

RunQueuesSpec == RunQueueInit /\ [][SchedulerNext \/ SmpNext]_runQueueVars

-----------------------------------------------------------------------------
(* Properties *)

\* switch_next hands the CPU to an entry that none waiting on that CPU outranks,
\* whatever pushes and pops, in degraded mode or out of it, shaped the heap before:
\* equal priorities are served in no particular order, but none is served early.
ServesMostUrgent ==
    [][\A c \in CpuId : Len(heap'[c]) < Len(heap[c]) =>
          /\ \A i \in 1 .. Len(heap'[c]) : heap'[c][i].priority <= heap[c][1].priority
          /\ \A e \in {heap[c][i] : i \in 1 .. Len(heap[c])} :
               Cardinality({i \in 1 .. Len(heap[c]) : heap[c][i] = e})
               = Cardinality({i \in 1 .. Len(heap'[c]) : heap'[c][i] = e})
                 + (IF e = heap[c][1] THEN 1 ELSE 0)]_runQueueVars

\* Work is never left waiting beside a free CPU: an online CPU that runs nothing is
\* one find_idle_cpu can return, a partition that runs is found where it runs, and a
\* rebalancing hint names a busy CPU and one that takes its partition.
IdleCpusAreFound ==
    /\ \A c \in CpuId : cpus[c].runs # Nobody => partition_affinity(cpus[c].runs) # {}
    /\ \A c \in CpuId : cpus[c].online /\ cpus[c].runs = Nobody => cpus[c].idle
    /\ (Busy # {} /\ \E c \in CpuId : cpus[c].online /\ cpus[c].runs = Nobody)
         => Cardinality(rebalance_hint) = 1
    /\ \A h \in rebalance_hint : h[1] # h[2] /\ cpus[h[2]].runs = Nobody
=============================================================================
