---------------------------- MODULE MC_Platform ----------------------------
(***************************************************************************)
(* Small instances of the other components under the kernel object:        *)
(* channels, the coherence graph and its cuts, run queues and CPUs, and    *)
(* boot.  They share no state here, so a behaviour exercises one of them,  *)
(* `part`, and the others stay where they began.                           *)
(***************************************************************************)
EXTENDS IpcManager, CoherenceGraph, RunQueues, Boot

VARIABLE part

-----------------------------------------------------------------------------
\* A component that is not exercised begins in one of its initial states only.
PlatformInit ==
  /\ part \in {"ipc", "graph", "cut", "queues", "cpus", "boot"}
  /\ Init
  /\ CoherenceInit
  /\ CutInit /\ (part # "cut" => budget = 0 /\ \A e \in DOMAIN comm : comm[e] = 0)
  /\ RunQueueInit
  /\ BootInit

\* The run queue of one CPU is enough: a CPU's queue and its switches touch no other.
OneQueue == \A c \in CpuId \ {0} : heap'[c] = <<>>

\* Three partitions come and go with light edges; two of them, which share an index
\* entry, with edges of every weight.
MCThird ==
  find_node(graph', 2) # NoNode => \A e \in EdgeIdx : graph'.edges[e].active => graph'.edges[e].weight <= 1

PlatformNext ==
  /\ UNCHANGED part
  /\ \/ /\ part = "ipc" /\ Next
        /\ UNCHANGED <<coherenceVars, cutVars, runQueueVars, bootVars>>
     \/ /\ part = "graph" /\ CoherenceNext /\ MCThird
        /\ UNCHANGED <<vars, cutVars, runQueueVars, bootVars>>
     \/ /\ part = "cut" /\ CutNext
        /\ UNCHANGED <<vars, coherenceVars, runQueueVars, bootVars>>
     \/ /\ \/ part = "queues" /\ SchedulerNext /\ OneQueue
           \/ part = "cpus" /\ SmpNext
        /\ UNCHANGED <<vars, coherenceVars, cutVars, bootVars>>
     \/ /\ part = "boot" /\ BootNext
        /\ UNCHANGED <<vars, coherenceVars, cutVars, runQueueVars>>

varsPlatform == <<part, vars, coherenceVars, cutVars, runQueueVars, bootVars>>

PlatformSpec == PlatformInit /\ [][PlatformNext]_varsPlatform

-----------------------------------------------------------------------------
(* The properties of the parts. *)

\* The graph, the scores and the cuts the kernel acts on agree with what was
\* communicated (rvm-coherence: graph.rs, engine.rs, mincut.rs).
CoherenceSound ==
  /\ part = "graph" => GraphConsistent /\ ScoresCurrent
  /\ part = "cut" => CutIsMinimum
=============================================================================
