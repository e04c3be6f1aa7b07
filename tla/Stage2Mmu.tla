------------------------------- MODULE Stage2Mmu -------------------------------
(***************************************************************************)
(* Second-stage translation on aarch64 (rvm-hal): two-level tables of 2 MB   *)
(* blocks, one per partition, the TLB that caches them, and the context      *)
(* switch between vCPUs.  An address is counted in blocks: its low bits are  *)
(* an alignment flag, the next ones index a level-2 table, and what is above *)
(* indexes the level-1 table modulo its size, as the code's mask does.  The  *)
(* TLB is hardware: it may cache whatever the current tables say, keeps it   *)
(* until an invalidation, and tags it with the VMID.                         *)
(***************************************************************************)
EXTENDS Naturals, FiniteSets

CONSTANTS
    Vm,              \* partitions, each with its Aarch64Mmu and one vCPU
    L1Entries, L2Entries, \* ENTRIES_PER_TABLE, of either level
    MAX_L2_TABLES,
    Frame,           \* host blocks
    GuestReg         \* what a register may hold

ASSUME TableSizes == {L1Entries, L2Entries, MAX_L2_TABLES} \subseteq Nat \ {0}

VARIABLES
    s2,        \* the tables of each partition
    intended,  \* history: what each partition was told is mapped
    tlb,       \* cached translations: vm (the VMID), block, frame
    vttbr,     \* the partition whose tables are installed
    owed,      \* history: who unmapped something since its entries were invalidated
    toReg,     \* where the compiler keeps the incoming array's address
    running,   \* whose registers are live
    cpu,       \* the live guest registers
    saved,     \* the register arrays: regs, and what the slot of toReg holds
    stopped    \* history: what each vCPU held when it was switched out

mmuVars == <<s2, intended, tlb, vttbr, owed>>
cpuVars == <<toReg, running, cpu, saved, stopped>>
stage2Vars == <<mmuVars, cpuVars>>

L1 == 0 .. L1Entries - 1
L2 == 0 .. L2Entries - 1
Invalid == [valid |-> FALSE, frame |-> 0]

\* Guest blocks the tables tell apart.
BlockEntry == 0 .. L1Entries * L2Entries - 1
l1_index(b) == (b \div L2Entries) % L1Entries
l2_index(b) == b % L2Entries

Stage2PageTableNew ==
    [l1 |-> [i \in L1 |-> MAX_L2_TABLES], next_l2 |-> 0,
     l2 |-> [t \in 0 .. MAX_L2_TABLES - 1 |-> [j \in L2 |-> Invalid]]]

-----------------------------------------------------------------------------
(* Tables.  An l1 entry holds the index of its level-2 table, or MAX_L2_TABLES. *)

HasTable(pt, b) == pt.l1[l1_index(b)] # MAX_L2_TABLES
Entry(pt, b) == pt.l2[pt.l1[l1_index(b)]][l2_index(b)]

\* The next table, zeroed.
alloc_l2_for(pt, b) ==
    [pt EXCEPT !.l1[l1_index(b)] = pt.next_l2, !.next_l2 = @ + 1,
               !.l2[pt.next_l2] = [j \in L2 |-> Invalid]]

\* The level-2 table is there after a refusal too, once it has been made.
map_2mb_block(pt, b, f) ==
    LET ready == IF HasTable(pt, b) THEN pt ELSE alloc_l2_for(pt, b) IN
    IF ~HasTable(pt, b) /\ pt.next_l2 >= MAX_L2_TABLES THEN [ok |-> FALSE, pt |-> pt]
    ELSE IF Entry(ready, b).valid THEN [ok |-> FALSE, pt |-> ready]
    ELSE [ok |-> TRUE,
          pt |-> [ready EXCEPT !.l2[ready.l1[l1_index(b)]][l2_index(b)] =
                    [valid |-> TRUE, frame |-> f]]]

stage2_translate(pt, b) ==
    IF HasTable(pt, b) /\ Entry(pt, b).valid THEN {Entry(pt, b).frame} ELSE {}

\* map_ram_2mb and map_device_2mb; a misaligned address is refused first, and
\* the attributes that tell RAM from a device are data.
Map(v, b, f) ==
    LET r == map_2mb_block(s2[v], b, f) IN
    /\ s2' = [s2 EXCEPT ![v] = r.pt]
    /\ intended' = IF r.ok THEN [intended EXCEPT ![v][b] = {f}] ELSE intended
    /\ UNCHANGED <<tlb, vttbr, owed, cpuVars>>

\* One block more, unless one was refused before it; n is the end of what is mapped.
IdentityStep(r, b) ==
    IF ~r.ok THEN r
    ELSE LET m == map_2mb_block(r.pt, b, b) IN
         [ok |-> m.ok, pt |-> m.pt, n |-> IF m.ok THEN b + 1 ELSE b]

\* One block after the other until one is refused: the earlier ones stay.
identity_map(v, first, last) ==
    LET after[b \in first .. last + 1] ==
          IF b = first THEN [ok |-> TRUE, pt |-> s2[v], n |-> first]
          ELSE IdentityStep(after[b - 1], b - 1)
        end == after[last + 1] IN
    /\ s2' = [s2 EXCEPT ![v] = end.pt]
    /\ intended' = [intended EXCEPT ![v] =
                      [b \in BlockEntry |-> IF b \in first .. end.n - 1 THEN {b}
                                            ELSE intended[v][b]]]
    /\ UNCHANGED <<tlb, vttbr, owed, cpuVars>>

\* The entry only: the TLB is the caller's to flush.
unmap_page(v, b) ==
    /\ stage2_translate(s2[v], b) # {}
    /\ s2' = [s2 EXCEPT ![v].l2[s2[v].l1[l1_index(b)]][l2_index(b)] = Invalid]
    /\ intended' = [intended EXCEPT ![v][b] = {}]
    /\ owed' = owed \cup {v}
    /\ UNCHANGED <<tlb, vttbr, cpuVars>>

-----------------------------------------------------------------------------
(* The TLB *)

Others(S, v) == {e \in S : e.vm # v}

\* VMALLS12E1: the entries of the VMID that is current when it executes.
invalidate_stage2_tlb(current) == tlb' = Others(tlb, current) /\ owed' = owed \ {current}

BugInstall(v) ==
    /\ vttbr' = v
    /\ tlb' = tlb /\ owed' = owed \ {v}
    /\ UNCHANGED <<s2, intended, cpuVars>>

\* Aarch64Mmu::install: the base register first, then the invalidation under it.
install(v) ==
    /\ vttbr' = v
    /\ invalidate_stage2_tlb(v)
    /\ UNCHANGED <<s2, intended, cpuVars>>

\* Whichever partition asks, the entries of the current one go.
flush_tlb ==
    /\ invalidate_stage2_tlb(vttbr)
    /\ UNCHANGED <<s2, intended, vttbr, cpuVars>>

\* The guest touches a block and the walk is cached.
Walk(b) ==
    /\ \E f \in stage2_translate(s2[vttbr], b) :
          tlb' = tlb \cup {[vm |-> vttbr, block |-> b, frame |-> f]}
    /\ UNCHANGED <<s2, intended, vttbr, owed, cpuVars>>

-----------------------------------------------------------------------------
(* Registers, in the groups the assembly tells apart: low is x0 to x17, high x20 to
   x27, sp stands for x28, x30 and SP_EL1, hyp says that ELR lies in hypervisor space,
   and mode is the M field of SPSR.  Every other register is clobbered, so the operands
   of the assembly are in x18, x19 and x29, one each, as the compiler chose. *)

Mode == {"EL1h", "EL1t", "EL2h"}
Context == [low : GuestReg, high : GuestReg, sp : GuestReg, hyp : BOOLEAN, mode : Mode]
OperandReg == {"x18", "x19", "x29"}

sanitize_spsr(m) == IF m \in {"EL1h", "EL1t"} THEN m ELSE "EL1h"
validate_elr(c) == ~c.hyp
Sanitized(c) == [c EXCEPT !.mode = sanitize_spsr(@)]

\* The address of an array, or no array's: what is there is anything.
AddressOf(v) == {v}
Through(base, arrays, group) ==
    IF base = {} THEN GuestReg ELSE {arrays[v].regs[group] : v \in base}

\* Stored are the guest's registers and, in the operands' slots, the operands; the
\* incoming mode has been made safe in its array.
Stored(from, to) ==
    [saved EXCEPT ![to].regs = Sanitized(@),
                  ![from] = [regs |-> cpu, base |-> AddressOf(to)]]

BugSwitchInner(from, to) ==
    /\ saved' = Stored(from, to)
    /\ \E low, high, sp \in GuestReg :
          /\ low \in Through(saved[to].base, saved', "low")
          /\ high \in Through(saved[to].base, saved', "high")
          /\ sp \in Through(saved[to].base, saved', "sp")
          /\ cpu' = [Sanitized(saved[to].regs) EXCEPT !.low = low, !.high = high, !.sp = sp]

\* ELR, SPSR, SP_EL1, x30 and x28 are loaded while the incoming address is where it was;
\* x29 is loaded with x28, before x20 to x27; x18 and x19 after them, before x0 to x17.
context_switch_inner(from, to) ==
    /\ saved' = Stored(from, to)
    /\ \E low, high \in GuestReg :
          /\ low \in Through(saved[to].base, saved', "low")
          /\ high \in Through(IF toReg = "x29" THEN saved[to].base ELSE AddressOf(to),
                              saved', "high")
          /\ cpu' = [Sanitized(saved[to].regs) EXCEPT !.low = low, !.high = high]

\* The assertion on the return address comes first, and panics.
context_switch(from, to) ==
    /\ validate_elr(saved[to].regs)
    /\ context_switch_inner(from, to)
    /\ stopped' = [stopped EXCEPT ![from] = cpu]
    /\ running' = to
    /\ UNCHANGED toReg

\* What the guest leaves in the registers.
GuestRuns(c) == cpu' = c /\ UNCHANGED <<mmuVars, toReg, running, saved, stopped>>

\* The two arrays are borrowed apart, and with one vCPU each the tags differ.  The base
\* register is the caller's: this invalidates what is current.
context_switch_vmid(from, to) ==
    /\ from = running /\ from # to
    /\ invalidate_stage2_tlb(vttbr)
    /\ context_switch(from, to)
    /\ UNCHANGED <<s2, intended, vttbr>>

-----------------------------------------------------------------------------
Stage2Init ==
    /\ s2 = [v \in Vm |-> Stage2PageTableNew]
    /\ intended = [v \in Vm |-> [b \in BlockEntry |-> {}]]
    /\ tlb = {} /\ owed = {}
    /\ vttbr \in Vm /\ running = vttbr
    /\ toReg \in OperandReg
    /\ LET r == CHOOSE x \in GuestReg : TRUE
           start == [low |-> r, high |-> r, sp |-> r, hyp |-> FALSE, mode |-> "EL1h"] IN
       /\ cpu = start /\ stopped = [v \in Vm |-> start]
       /\ saved = [v \in Vm |-> [regs |-> start, base |-> {}]]

MmuNext ==
    \/ \E v \in Vm, b \in BlockEntry :
         \/ \E f \in Frame : Map(v, b, f)
         \/ unmap_page(v, b)
    \/ \E v \in Vm, last \in BlockEntry : identity_map(v, 0, last)
    \/ flush_tlb \/ \E v \in Vm : install(v)
    \/ \E b \in BlockEntry : Walk(b)

SwitchNext ==
    \/ \E from, to \in Vm : context_switch_vmid(from, to)
    \/ \E c \in Context : GuestRuns(c)

Stage2Spec == Stage2Init /\ [][MmuNext \/ SwitchNext]_stage2Vars

-----------------------------------------------------------------------------
(* Properties *)

\* The tables say what the callers were told: a block translates to the frame of the
\* last successful mapping not unmapped since, after refusals, exhausted level-2
\* tables and half-done identity maps as well; and no two level-1 entries share a
\* level-2 table, so mapping one region never shows in another.
TablesAsTold ==
    \A v \in Vm :
      /\ \A b \in BlockEntry : stage2_translate(s2[v], b) = intended[v][b]
      /\ \A i, j \in L1 : i # j /\ s2[v].l1[i] = s2[v].l1[j] => s2[v].l1[i] = MAX_L2_TABLES

\* A translation the TLB still holds is the one in its partition's tables, or that
\* partition unmapped something since its entries were last invalidated: installing tables
\* leaves nothing stale behind, whatever was unmapped while another partition ran.
StaleOnlyWhileOwed == \A e \in tlb : e.frame \in stage2_translate(s2[e.vm], e.block) \/ e.vm \in owed

\* Guests see the memory they were given: tables as told, and an old translation only
\* while its flush is owed (aarch64/mmu.rs).
StageTwoSound == TablesAsTold /\ StaleOnlyWhileOwed

\* Whichever registers the compiler chose, and whatever was switched in between: a vCPU
\* resumes with the stack pointers, link and return address it was stopped with, below
\* EL2 and outside the hypervisor; its x20 to x27 return too unless the incoming address
\* is in x29; and the array of the one switched out holds all its registers
\* (context_switch, aarch64/boot.rs).
ResumesInPlace ==
    [][\A from, to \in Vm : context_switch_vmid(from, to) =>
          /\ cpu'.sp = stopped[to].sp /\ ~stopped[to].hyp /\ ~cpu'.hyp
          /\ cpu'.mode = sanitize_spsr(stopped[to].mode) /\ cpu'.mode # "EL2h"
          /\ toReg # "x29" => cpu'.high = stopped[to].high
          /\ saved'[from].regs = cpu /\ saved'[to].regs = Sanitized(stopped[to])]_stage2Vars

\* "This inline version saves/restores the system registers and the caller-clobberable
\* GP registers" (aarch64/boot.rs:242-243): a vCPU this routine once switched out
\* resumes with its own x0 to x17.
OwnRegistersReturn ==
    [][\A from, to \in Vm : context_switch_vmid(from, to) /\ saved[to].base # {} =>
          cpu'.low = stopped[to].low]_stage2Vars
=============================================================================
