----------------------------- MODULE MC_Memory -----------------------------
(***************************************************************************)
(* Small instances of the kernel, and of what holds memory and accounts    *)
(* for its use: the allocator, regions and tiers, recovery from            *)
(* checkpoints, the stage-2 tables and the world switch, budgets, quotas   *)
(* and migration.  They share no state here, so a behaviour exercises one  *)
(* of them, `part`, and the others stay where they began.                  *)
(***************************************************************************)
EXTENDS Kernel, Memory, Quotas, Stage2Mmu

VARIABLE part

\* Tiers and epochs do not meet in the code: the kernel's tiers are assigned and
\* moved in its first epoch and in normal mode.
MCTiers == region_tiers' # <<>> => epoch' = 0 /\ ~degraded'

\* Modes and return addresses need not be tried with every content of the registers.
MCContext ==
  {c \in Context : /\ c.hyp => c.mode = "EL1h"
                   /\ c.mode = "EL1t" => c.low = c.high /\ c.sp = c.high}

MCSwitchNext ==
  \/ \E from, to \in Vm : context_switch_vmid(from, to)
  \/ \E c \in MCContext : GuestRuns(c)

-----------------------------------------------------------------------------
\* A component that is not exercised begins in one of its initial states only.
MemoryInit ==
  /\ part \in {"kernel", "buddy", "regions", "tiers", "recovery", "budgets", "quotas", "migration", "mmu", "switch"}
  /\ KernelInit
  /\ BuddyInit /\ RegionsInit /\ TiersInit /\ ReconInit
  /\ BudgetInit /\ (part # "budgets" => book = "gpu")
  /\ QuotaInit
  /\ Stage2Init /\ vttbr = CHOOSE v \in Vm : TRUE
  /\ toReg \in (IF part = "switch" THEN {"x19", "x29"} ELSE {"x29"})    \* x18 is as x19

MemoryNext ==
  /\ UNCHANGED part
  /\ \/ /\ part = "kernel" /\ KernelNext /\ MCTiers
        /\ UNCHANGED <<buddyVars, regionVars, tierVars, reconVars, budgetVars, quotaVars, stage2Vars>>
     \/ /\ part = "buddy" /\ BuddyNext
        /\ UNCHANGED <<kernelVars, regionVars, tierVars, reconVars, budgetVars, quotaVars, stage2Vars>>
     \/ /\ part = "regions" /\ RegionsNext
        /\ UNCHANGED <<kernelVars, buddyVars, tierVars, reconVars, budgetVars, quotaVars, stage2Vars>>
     \/ /\ part = "tiers" /\ TiersNext
        /\ UNCHANGED <<kernelVars, buddyVars, regionVars, reconVars, budgetVars, quotaVars, stage2Vars>>
     \/ /\ part = "recovery" /\ ReconNext
        /\ UNCHANGED <<kernelVars, buddyVars, regionVars, tierVars, budgetVars, quotaVars, stage2Vars>>
     \/ /\ part = "budgets" /\ BudgetNext
        /\ UNCHANGED <<kernelVars, buddyVars, regionVars, tierVars, reconVars, quotaVars, stage2Vars>>
     \/ /\ \/ part = "quotas" /\ QuotaNext
           \/ part = "migration" /\ MigrationNext
        /\ UNCHANGED <<kernelVars, buddyVars, regionVars, tierVars, reconVars, budgetVars, stage2Vars>>
     \/ /\ \/ part = "mmu" /\ MmuNext
           \/ part = "switch" /\ MCSwitchNext
        /\ UNCHANGED <<kernelVars, buddyVars, regionVars, tierVars, reconVars, budgetVars, quotaVars>>

varsMemory == <<part, kernelVars, buddyVars, regionVars, tierVars, reconVars, budgetVars, quotaVars, stage2Vars>>

MemorySpec == MemoryInit /\ [][MemoryNext]_varsMemory

-----------------------------------------------------------------------------
(* The properties of the parts. *)

\* Memory is neither shared nor lost: blocks tile the pages and are found when they are
\* free, regions stay isolated, and what is rebuilt from a checkpoint and its deltas is
\* what the region was (rvm-memory: allocator.rs, region.rs, reconstruction.rs).
MemorySound ==
  /\ part = "buddy" => Tiling /\ AllocFindsRoom
  /\ part = "regions" => Isolation
  /\ part = "recovery" => PointInTime
=============================================================================
