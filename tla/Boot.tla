--------------------------------- MODULE Boot ---------------------------------
(***************************************************************************)
(* rvm-boot: run_boot_sequence takes a BootContext through seven stages,   *)
(* calling the HAL in three of them, measures each stage into an           *)
(* accumulator and records its completion and its time.  A HAL call that   *)
(* fails ends the run where it is; the caller may run it again on the same *)
(* context.  BootTracker is the kernel's own list of seven phases.         *)
(*                                                                         *)
(* Hashes are free of collisions: a digest is what went into it, and the   *)
(* accumulator everything it was extended with, in order.                  *)
(***************************************************************************)
EXTENDS Naturals, Sequences

CONSTANTS
    BOOT_STAGE_COUNT,   \* 7
    HalStages,          \* stages that call the HAL: UART, MMU, interrupts
    HardwareDetect,     \* the stage that finds the memory and opens the UART
    FirstWitness,       \* the stage whose digest is taken over the attestation
    RamSize,            \* 128 MiB
    MaxRuns             \* bound: calls of run_boot_sequence

ASSUME BootNumbers == /\ BOOT_STAGE_COUNT \in Nat \ {0} /\ {HardwareDetect, FirstWitness} \subseteq Nat
                      /\ HardwareDetect # FirstWitness
                      /\ HardwareDetect \in HalStages /\ HalStages \subseteq 0 .. BOOT_STAGE_COUNT - 1
                      /\ RamSize \in Nat \ {0} /\ MaxRuns \in Nat

VARIABLES
    at,          \* the stage run_boot_sequence has reached, Done when it has returned
    sequence,    \* BootSequence: current, completed, timings, witness_digests
    measured,    \* MeasuredBootState: accumulator, measurement_count, phase_hashes
    platform,    \* BootContext: ram_size and uart_ready
    hal,         \* history: stages whose HAL call succeeded
    ticks,       \* what tick_fn returns next
    bootRuns,
    tracker      \* BootTracker: current, completed

bootVars == <<at, sequence, measured, platform, hal, ticks, bootRuns, tracker>>

BootStage == 0 .. BOOT_STAGE_COUNT - 1
Done == BOOT_STAGE_COUNT   \* next() of the last stage is None

BootSequenceNew ==
    [current |-> 0, completed |-> {}, timings |-> [s \in BootStage |-> [start |-> 0, end |-> 0]],
     digests |-> [s \in BootStage |-> <<>>]]
MeasuredBootStateNew == [accumulator |-> <<>>, count |-> 0, hashes |-> [s \in BootStage |-> <<>>]]
BootTrackerNew == [current |-> 0, completed |-> {}]

\* A digest is its stage and what was hashed with it: the configuration of the
\* stage's own call, a constant, or what ram_size and the accumulator are.
phase_digest(s, data) == <<s, data>>

StageDigest(s) ==
    phase_digest(s, CASE s = FirstWitness -> measured.accumulator
                      [] s = HardwareDetect -> <<RamSize>>
                      [] OTHER -> <<>>)

extend_measurement(mb, s, digest) ==
    [accumulator |-> Append(mb.accumulator, <<s, digest>>), count |-> mb.count + 1,
     hashes |-> [mb.hashes EXCEPT ![s] = digest]]

\* The start of a stage is recorded before its work may fail.
begin_stage(seq, s, tick) == [seq EXCEPT !.timings[s].start = tick]

complete_stage(seq, s, tick, digest) ==
    [seq EXCEPT !.current = s + 1, !.completed = @ \cup {s},
                !.timings[s].end = tick, !.digests[s] = digest]

duration_ticks(t) == IF t.end > t.start THEN t.end - t.start ELSE 0

complete_phase(p) ==
    /\ tracker.current = p
    /\ tracker' = [current |-> p + 1, completed |-> tracker.completed \cup {p}]
    /\ UNCHANGED <<at, sequence, measured, platform, hal, ticks, bootRuns>>

-----------------------------------------------------------------------------
run_boot_sequence ==
    /\ at = Done /\ bootRuns < MaxRuns
    /\ at' = 0 /\ bootRuns' = bootRuns + 1
    /\ UNCHANGED <<sequence, measured, platform, hal, ticks, tracker>>

\* begin_stage refuses a stage that is not the current one: a second run on a
\* context that got past the first stage stops here.
StageRefused ==
    /\ at \in BootStage /\ sequence.current # at
    /\ at' = Done /\ ticks' = ticks + 1
    /\ UNCHANGED <<sequence, measured, platform, hal, bootRuns, tracker>>

BugHalFails ==
    /\ at \in HalStages /\ sequence.current = at
    /\ at' = Done /\ ticks' = ticks + 1
    /\ sequence' = begin_stage(sequence, at, ticks)
    /\ platform' = IF at = HardwareDetect THEN [ram_size |-> RamSize, uart_ready |-> TRUE] ELSE platform
    /\ UNCHANGED <<measured, hal, bootRuns, tracker>>

\* begin_stage, ram_size in the stage that finds it, and a HAL call that fails.
HalFails ==
    /\ at \in HalStages /\ sequence.current = at
    /\ at' = Done /\ ticks' = ticks + 1
    /\ sequence' = begin_stage(sequence, at, ticks)
    /\ platform' = [platform EXCEPT !.ram_size = IF at = HardwareDetect THEN RamSize ELSE @]
    /\ UNCHANGED <<measured, hal, bootRuns, tracker>>

\* begin_stage, the HAL call of the stage, extend_measurement, complete_stage.
StageRuns ==
    /\ at \in BootStage /\ sequence.current = at
    /\ LET digest == StageDigest(at)
           begun == begin_stage(sequence, at, ticks)
       IN /\ measured' = extend_measurement(measured, at, digest)
          /\ sequence' = complete_stage(begun, at, ticks + 1, digest)
    /\ platform' = IF at = HardwareDetect THEN [ram_size |-> RamSize, uart_ready |-> TRUE] ELSE platform
    /\ hal' = hal \cup ({at} \cap HalStages)
    /\ at' = at + 1 /\ ticks' = ticks + 2
    /\ UNCHANGED <<bootRuns, tracker>>

BootInit ==
    /\ at = Done /\ sequence = BootSequenceNew /\ measured = MeasuredBootStateNew
    /\ platform = [ram_size |-> 0, uart_ready |-> FALSE]
    /\ hal = {} /\ ticks = 1 /\ bootRuns = 0 /\ tracker = BootTrackerNew

BootNext ==
    \/ run_boot_sequence \/ StageRefused \/ HalFails \/ StageRuns
    \/ \E p \in BootStage : complete_phase(p)

BootSpec == BootInit /\ [][BootNext]_bootVars

is_complete(s) == s.current = Done /\ s.completed = BootStage

-----------------------------------------------------------------------------
(* Properties *)

\* What is attested is what ran, in the order run_boot_sequence states: a stage begins,
\* performs its work, extends the chain and completes (entry.rs:53-57).  Through failed
\* and repeated runs the accumulator holds one measurement of each completed stage, in
\* order and with the digest the sequence recorded; the hardware of a completed stage,
\* and no other, is initialised and said to be; the first witness is taken over the
\* stages before it; and the stages' times follow one another, so that no start of a
\* failed run is taken for that of one that ended.
AttestedIsWhatRan ==
    /\ measured.accumulator
         = [i \in 1 .. sequence.current |-> <<i - 1, sequence.digests[i - 1]>>]
    /\ measured.count = Len(measured.accumulator)
    /\ sequence.completed = {s \in BootStage : s < sequence.current}
    /\ HalStages \cap sequence.completed = hal
    /\ platform.uart_ready <=> HardwareDetect \in sequence.completed
    /\ FirstWitness \in sequence.completed =>
         sequence.digests[FirstWitness] = <<FirstWitness, SubSeq(measured.accumulator, 1, FirstWitness)>>
    /\ is_complete(sequence) => measured.hashes = sequence.digests
    /\ \A s \in sequence.completed :
         /\ duration_ticks(sequence.timings[s]) > 0
         /\ s > 0 => sequence.timings[s - 1].end <= sequence.timings[s].start

\* "Before each phase executes, it hashes the next phase's code/config and extends the
\* measurement." (measured.rs:18-19): a stage that has begun has been measured.
MeasuredFirst ==
    \A s \in BootStage : sequence.timings[s].start > 0 => s < Len(measured.accumulator)
=============================================================================
