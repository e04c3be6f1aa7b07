------------------------------- MODULE Quotas -------------------------------
(***************************************************************************)
(* The books that bound what a partition spends in one scheduling epoch:   *)
(* the GPU context with its GpuBudget and command queue (rvm-gpu), and the  *)
(* ResourceQuota and GpuQuota of rvm-security.  Every book keeps a counter  *)
(* per resource; memory is held across epochs, everything else starts       *)
(* again at reset_epoch.  The models differ in how a request that needs     *)
(* several counters at once behaves when the last one refuses.              *)
(***************************************************************************)
EXTENDS Naturals, Sequences, FiniteSets

CONSTANTS
    Limit,       \* the maximum of every counter of a book
    AmountWord,  \* one more than the largest value of a counter (2^64)
    Amount,      \* amounts a caller asks for
    max_depth,   \* commands a queue holds
    MaxSubmitted,\* bound: commands submitted in a behaviour
    MaxActive    \* bound: kernels counted active at once

ASSUME LimitIsCount == Limit \in Nat /\ AmountWord \in Nat /\ Limit < AmountWord
ASSUME AmountIsCount == Amount \subseteq 0 .. (AmountWord - 1)
ASSUME DepthIsCount == {max_depth, MaxSubmitted, MaxActive} \subseteq Nat

VARIABLES
    book,     \* which book: "gpu" (GpuContext), "quota" or "gpuquota"
    spent,    \* its counters
    gpu,      \* the rest of a GpuContext, and its queue
    granted,  \* ghost: what successful requests were promised this epoch
    leaked    \* ghost: what refused requests left charged

budgetVars == <<book, spent, gpu, granted, leaked>>

Meters == {"compute", "memory", "transfer", "launches"}
Idle0 == [r \in Meters |-> 0]
Queue0 == [depth |-> 0, submitted |-> 0, completed |-> 0]
GpuContextNew ==
    [status |-> "Initializing", active |-> 0, allocated |-> 0, queue |-> Queue0]

BudgetInit ==
    /\ book \in {"gpu", "quota", "gpuquota"}
    /\ spent = Idle0 /\ granted = Idle0 /\ leaked = Idle0
    /\ gpu = GpuContextNew

-----------------------------------------------------------------------------
(* Counters *)

\* checked_add, then the limit.
Fits(used, r, n) == used[r] + n < AmountWord /\ used[r] + n <= Limit
Charged(used, r, n) == [used EXCEPT ![r] = @ + n]
Less(a, b) == IF a < b THEN 0 ELSE a - b
Capped(n) == IF n < AmountWord THEN n ELSE AmountWord - 1

\* One counter, checked and charged in one call.
Grant(r, n) ==
    /\ spent' = IF Fits(spent, r, n) THEN Charged(spent, r, n) ELSE spent
    /\ granted' = IF Fits(spent, r, n) THEN Charged(granted, r, n) ELSE granted
    /\ UNCHANGED <<book, leaked>>

check_compute(n) == Fits(spent, "compute", n) \/ n = 0
check_transfer(n) == Fits(spent, "transfer", n) \/ n = 0
check_launch == spent["launches"] < Limit

-----------------------------------------------------------------------------
(* GpuContext *)

Ready == book = "gpu" /\ gpu.status = "Ready"

\* The status is a public field of the context: whoever drives the device sets it.
SetStatus(s) ==
    /\ book = "gpu" /\ gpu' = [gpu EXCEPT !.status = s]
    /\ UNCHANGED <<book, spent, granted, leaked>>

\* The pre-check: it answers, and charges nothing.
check_budget(c, t) == Ready /\ check_compute(c) /\ check_transfer(t) /\ check_launch

\* Charges compute, then transfer, then the launch; a refusal puts back what the
\* counters charged before it were.
Restored(now, before, rs) == [r \in DOMAIN now |-> IF r \in rs THEN before[r] ELSE now[r]]

Launched(used, c, t) ==
    LET one == Charged(used, "compute", c)
        two == Charged(one, "transfer", t) IN
    IF ~Fits(used, "compute", c) THEN used
    ELSE IF ~Fits(one, "transfer", t) THEN Restored(one, used, {"compute"})
    ELSE IF two["launches"] >= Limit THEN Restored(two, used, {"compute", "transfer"})
    ELSE Charged(two, "launches", 1)

try_launch(c, t) ==
    /\ Ready /\ gpu.active < MaxActive
    /\ spent' = Launched(spent, c, t)
    /\ IF check_budget(c, t)
       THEN /\ granted' = Charged(Charged(Charged(granted, "compute", c),
                                          "transfer", t), "launches", 1)
            /\ gpu' = [gpu EXCEPT !.active = @ + 1]
       ELSE UNCHANGED <<granted, gpu>>
    /\ UNCHANGED <<book, leaked>>

\* The older call: compute is charged, and stays charged when the launch is refused.
record_kernel_launch(c) ==
    /\ Ready /\ gpu.active < MaxActive /\ Fits(spent, "compute", c)
    /\ IF check_launch
       THEN /\ spent' = Charged(Charged(spent, "compute", c), "launches", 1)
            /\ granted' = Charged(Charged(granted, "compute", c), "launches", 1)
            /\ gpu' = [gpu EXCEPT !.active = @ + 1]
            /\ UNCHANGED leaked
       ELSE /\ spent' = Charged(spent, "compute", c)
            /\ leaked' = Charged(leaked, "compute", c)
            /\ UNCHANGED <<granted, gpu>>
    /\ UNCHANGED book

try_transfer(n) == Ready /\ Grant("transfer", n) /\ UNCHANGED gpu

\* try_alloc and record_memory_alloc.
try_alloc(n) ==
    /\ Ready /\ Grant("memory", n)
    /\ gpu' = IF Fits(spent, "memory", n)
              THEN [gpu EXCEPT !.allocated = Capped(@ + n)] ELSE gpu

record_kernel_complete ==
    /\ book = "gpu" /\ gpu' = [gpu EXCEPT !.active = Less(@, 1)]
    /\ UNCHANGED <<book, spent, granted, leaked>>

record_memory_free(n) ==
    /\ Ready
    /\ gpu' = [gpu EXCEPT !.allocated = Less(@, n)]
    /\ spent' = [spent EXCEPT !["memory"] = Less(@, n)]
    /\ granted' = [granted EXCEPT !["memory"] = Less(@, n)]
    /\ UNCHANGED <<book, leaked>>

\* Memory is held across epochs.
Kept(used) == [Idle0 EXCEPT !["memory"] = used["memory"]]

reset_epoch ==
    /\ spent' = Kept(spent)
    /\ granted' = [Idle0 EXCEPT !["memory"] = granted["memory"]]
    /\ leaked' = Idle0
    /\ UNCHANGED <<book, gpu>>

-----------------------------------------------------------------------------
(* GpuQueue *)

\* What of a command is there: its type and which operands.
QueueCommand == [cmd_type : {"KernelLaunch", "BufferCopy", "BufferFill",
                             "Barrier", "TimestampQuery"},
                 kernel : BOOLEAN, src : BOOLEAN, dst : BOOLEAN, sized : BOOLEAN]

kernel_launch == [cmd_type |-> "KernelLaunch", kernel |-> TRUE, src |-> FALSE,
                  dst |-> FALSE, sized |-> FALSE]
buffer_copy(sized) == [cmd_type |-> "BufferCopy", kernel |-> FALSE, src |-> TRUE,
                       dst |-> TRUE, sized |-> sized]
buffer_fill(sized) == [cmd_type |-> "BufferFill", kernel |-> FALSE, src |-> FALSE,
                       dst |-> TRUE, sized |-> sized]
barrier == [cmd_type |-> "Barrier", kernel |-> FALSE, src |-> FALSE,
            dst |-> FALSE, sized |-> FALSE]

validate_command(c) ==
    /\ c.cmd_type = "KernelLaunch" => c.kernel
    /\ c.cmd_type = "BufferCopy" => c.src /\ c.dst /\ c.sized
    /\ c.cmd_type = "BufferFill" => c.dst /\ c.sized

is_full == gpu.queue.depth >= max_depth

gpu_enqueue(c) ==
    /\ book = "gpu" /\ validate_command(c) /\ ~is_full
    /\ gpu.queue.submitted < MaxSubmitted
    /\ gpu' = [gpu EXCEPT !.queue.depth = @ + 1, !.queue.submitted = @ + 1]
    /\ UNCHANGED <<book, spent, granted, leaked>>

complete_one ==
    /\ book = "gpu" /\ gpu.queue.depth > 0
    /\ gpu' = [gpu EXCEPT !.queue.depth = @ - 1, !.queue.completed = @ + 1]
    /\ UNCHANGED <<book, spent, granted, leaked>>

-----------------------------------------------------------------------------
(* The quotas of rvm-security: "compute" is the CPU time, "transfer" the DMA   *)
(* bytes and "launches" the IPC count of a ResourceQuota.                      *)

Quota == book \in {"quota", "gpuquota"}
check_cpu_time(n) == book = "quota" /\ Grant("compute", n) /\ UNCHANGED gpu
quota_memory(n) == Quota /\ Grant("memory", n) /\ UNCHANGED gpu
check_dma(n) == book = "quota" /\ n # 0 /\ Grant("transfer", n) /\ UNCHANGED gpu
check_ipc == book = "quota" /\ Grant("launches", 1) /\ UNCHANGED gpu
quota_compute(n) == book = "gpuquota" /\ Grant("compute", n) /\ UNCHANGED gpu
quota_transfer(n) ==
    book = "gpuquota" /\ n # 0 /\ Grant("transfer", n) /\ UNCHANGED gpu
quota_launch == book = "gpuquota" /\ Grant("launches", 1) /\ UNCHANGED gpu

release_memory(n) ==
    /\ Quota
    /\ spent' = [spent EXCEPT !["memory"] = Less(@, n)]
    /\ granted' = [granted EXCEPT !["memory"] = Less(@, n)]
    /\ UNCHANGED <<book, gpu, leaked>>

BudgetNext ==
    \/ \E s \in {"Ready", "Error"} : SetStatus(s)
    \/ \E c, t \in Amount : try_launch(c, t)
    \/ \E n \in Amount :
          \/ record_kernel_launch(n) \/ try_transfer(n) \/ try_alloc(n)
          \/ record_memory_free(n)
          \/ check_cpu_time(n) \/ quota_memory(n) \/ check_dma(n)
          \/ quota_compute(n) \/ quota_transfer(n) \/ release_memory(n)
    \/ check_ipc \/ quota_launch
    \/ record_kernel_complete \/ reset_epoch
    \/ \E c \in {kernel_launch, buffer_copy(TRUE), buffer_copy(FALSE),
                 buffer_fill(TRUE), buffer_fill(FALSE), barrier} : gpu_enqueue(c)
    \/ complete_one

BudgetSpec == BudgetInit /\ [][BudgetNext]_budgetVars

-----------------------------------------------------------------------------
(* Properties *)

\* A book charges exactly what its successful requests were promised, plus what a
\* refused record_kernel_launch left behind: a launch refused at its second or third
\* counter is rolled back by try_launch, memory survives an epoch, and no sequence of
\* requests, frees and epochs gets more out of a counter than its limit.  A context's
\* own allocated_memory never drifts from the budget's memory counter, and its queue
\* accounts for every command it took.
BooksBalance ==
    /\ \A r \in Meters : /\ spent[r] = granted[r] + leaked[r]
                         /\ spent[r] <= Limit
    /\ book = "gpu" => gpu.allocated = spent["memory"]
    /\ gpu.queue.submitted = gpu.queue.completed + gpu.queue.depth
    /\ gpu.queue.depth <= max_depth

-----------------------------------------------------------------------------
(***************************************************************************)
(* QuotaTracker of rvm-wasm: what the agents of a partition may use, kept   *)
(* per partition, charged either by the older pair check_quota and          *)
(* record_usage, between which other callers run, or by one                 *)
(* check_and_record call; and MigrationTracker, which walks an agent        *)
(* through the phases of a move under a deadline.                           *)
(***************************************************************************)

CONSTANTS
    QuotaPartition, \* partitions
    MaxQuotas,      \* slots of the tracker
    QuotaMax,       \* the quota of every resource
    CpuWord,        \* 2^64, the width of the CPU sum
    CountWord,      \* 2^32, the width of the other counters
    UseAmount,      \* amounts asked for
    QuotaCaller,    \* callers that use the two-step pair
    NoCheck,        \* a caller with no check outstanding
    deadline_ns,    \* deadline of the migration plan
    MaxNow          \* bound: the last instant of the clock

ASSUME QuotaWidths == /\ {QuotaMax, CountWord, CpuWord} \subseteq Nat
                      /\ QuotaMax < CountWord /\ CountWord <= CpuWord
ASSUME QuotaAmounts == UseAmount \subseteq 0 .. (CpuWord - 1)
ASSUME QuotaBounds == {MaxQuotas, deadline_ns, MaxNow} \subseteq Nat

VARIABLES
    usage,     \* registered partitions and what they used
    checked,   \* what each caller's last check_quota allowed
    excused,   \* ghost: counters charged on a stale check or a wrapped sum
    clock,     \* nanoseconds
    migration, \* the tracker: its phase and when it began
    moved      \* ghost: witnesses the migration emitted, in order of emission

quotaVars == <<usage, checked, excused, clock, migration, moved>>

ResourceKind == {"Cpu", "Memory", "Ipc", "Agents"}
ResourceUsage == [ResourceKind -> Nat]

QuotaInit ==
    /\ usage = <<>> /\ excused = {}
    /\ checked = [c \in QuotaCaller |-> NoCheck]
    /\ clock = 0 /\ moved = <<>>
    /\ migration = [state |-> "None", start_ns |-> 0]

Registered == DOMAIN usage
Width(r) == IF r = "Cpu" THEN CpuWord ELSE CountWord
Saturated(n, w) == IF n < w THEN n ELSE w - 1

Tick ==
    /\ clock < MaxNow /\ clock' = clock + 1
    /\ UNCHANGED <<usage, checked, excused, migration, moved>>

-----------------------------------------------------------------------------
(* Quotas *)

quota_register(p) ==
    /\ p \notin Registered /\ Cardinality(Registered) < MaxQuotas
    /\ usage' = [q \in Registered \cup {p} |->
                    IF q = p THEN [r \in ResourceKind |-> 0] ELSE usage[q]]
    /\ UNCHANGED <<checked, excused, clock, migration, moved>>

\* All the sums are formed in 64 bits; a release build wraps.
within_budget(used, n) == (used + n) % CpuWord <= QuotaMax

check_quota(c, p, r, n) ==
    /\ p \in Registered /\ within_budget(usage[p][r], n)
    /\ checked' = [checked EXCEPT ![c] = <<p, r, n, usage[p][r]>>]
    /\ UNCHANGED <<usage, excused, clock, migration, moved>>

\* The amount is cut to the counter's width before it is added.
record_usage(c) ==
    /\ checked[c] # NoCheck
    /\ LET p == checked[c][1]
           r == checked[c][2]
           n == checked[c][3] IN
       /\ usage' = [usage EXCEPT ![p][r] = Saturated(@ + (n % Width(r)), Width(r))]
       /\ excused' = IF usage[p][r] # checked[c][4] \/ usage[p][r] + n >= CpuWord
                     THEN excused \cup {<<p, r>>} ELSE excused
    /\ checked' = [checked EXCEPT ![c] = NoCheck]
    /\ UNCHANGED <<clock, migration, moved>>

BugWithin(used, r, n) == used <= QuotaMax

\* The CPU sum is formed in 64 bits and wraps; the others are widened first, so
\* only the CPU's can.
Within(used, r, n) ==
    IF r = "Cpu" THEN (used + n) % CpuWord <= QuotaMax ELSE used + n <= QuotaMax

\* check_and_record_cpu, check_and_record_memory and check_and_record_ipc.
CheckAndRecord(p, r, n) ==
    /\ p \in Registered /\ n < Width(r) /\ Within(usage[p][r], r, n)
    /\ usage' = [usage EXCEPT ![p][r] = Saturated(@ + n, Width(r))]
    /\ excused' = IF usage[p][r] + n >= CpuWord THEN excused \cup {<<p, r>>}
                  ELSE excused
    /\ UNCHANGED <<checked, clock, migration, moved>>

check_and_record_cpu(p, us) == CheckAndRecord(p, "Cpu", us)
check_and_record_memory(p, pages) == CheckAndRecord(p, "Memory", pages)
check_and_record_ipc(p) == CheckAndRecord(p, "Ipc", 1)

enforce_quota(p) == \E r \in ResourceKind : usage[p][r] > QuotaMax

reset_epoch_counters ==
    /\ usage' = [p \in Registered |-> [usage[p] EXCEPT !["Cpu"] = 0, !["Ipc"] = 0]]
    /\ excused' = {e \in excused : e[2] \notin {"Cpu", "Ipc"}}
    /\ UNCHANGED <<checked, clock, migration, moved>>

-----------------------------------------------------------------------------
(* Migration *)

Phases == <<"Serializing", "PausingComms", "TransferringRegions", "UpdatingEdges",
            "UpdatingGraph", "Verifying", "Resuming", "Complete">>
next_phase(s) == LET i == CHOOSE i \in DOMAIN Phases : Phases[i] = s IN Phases[i + 1]
is_terminal(s) == s \in {"Complete", "Aborted"}

migration_begin(src, dst) ==
    /\ migration.state = "None" /\ src # dst
    /\ migration' = [state |-> "Serializing", start_ns |-> clock]
    /\ UNCHANGED <<usage, checked, excused, clock, moved>>

\* A phase that is late aborts the move, whatever phase it is in.
Late == clock - migration.start_ns > deadline_ns

advance ==
    /\ migration.state # "None" /\ ~is_terminal(migration.state)
    /\ migration' = [migration EXCEPT !.state =
                        IF Late THEN "Aborted" ELSE next_phase(@)]
    /\ moved' = IF Late THEN Append(moved, "MigrationTimeout")
                ELSE IF next_phase(migration.state) = "Complete"
                THEN Append(moved, "PartitionMigrate") ELSE moved
    /\ UNCHANGED <<usage, checked, excused, clock>>

abort ==
    /\ migration.state # "None" /\ ~is_terminal(migration.state)
    /\ migration' = [migration EXCEPT !.state = "Aborted"]
    /\ moved' = Append(moved, "MigrationTimeout")
    /\ UNCHANGED <<usage, checked, excused, clock>>

QuotaNext ==
    \/ \E p \in QuotaPartition :
          \/ quota_register(p) \/ check_and_record_ipc(p)
          \/ \E n \in UseAmount : \/ check_and_record_cpu(p, n)
                                  \/ check_and_record_memory(p, n)
          \/ \E c \in QuotaCaller, r \in ResourceKind, n \in UseAmount :
                check_quota(c, p, r, n)
    \/ \E c \in QuotaCaller : record_usage(c)
    \/ reset_epoch_counters

\* The tracker of a move shares nothing with the quotas but the clock.
MigrationNext ==
    \/ \E p, q \in QuotaPartition : migration_begin(p, q)
    \/ advance \/ abort \/ Tick

QuotaSpec == QuotaInit /\ [][QuotaNext \/ MigrationNext]_quotaVars

-----------------------------------------------------------------------------
(* Properties *)

\* enforce_quota finds a partition over its quota only where a caller of the
\* deprecated pair recorded after the usage it had checked changed, or where the
\* 64-bit CPU sum wrapped: the one-step calls never take a counter past its quota,
\* in any interleaving with the two-step ones.
OverOnlyByStaleCheck ==
    \A p \in Registered : enforce_quota(p) =>
        \E r \in ResourceKind : <<p, r>> \in excused

\* A move is witnessed once, when it ends: as done if it completed in time, as timed
\* out otherwise; an unfinished move has no witness.
MoveWitnessedOnce ==
    CASE migration.state = "Complete" -> moved = <<"PartitionMigrate">>
      [] migration.state = "Aborted"  -> moved = <<"MigrationTimeout">>
      [] OTHER                        -> moved = <<>>

\* Accounts are exact: budgets balance, quotas are exceeded only through a check that
\* was stale when it was used, and a migration is witnessed once (rvm-security:
\* budget.rs; rvm-gpu: budget.rs, context.rs, queue.rs; rvm-wasm: quota.rs, migration.rs).
QuotasHold == BooksBalance /\ OverOnlyByStaleCheck /\ MoveWitnessedOnce
=============================================================================
