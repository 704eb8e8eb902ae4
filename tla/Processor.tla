------------------------------ MODULE Processor ------------------------------
(***************************************************************************)
(* A processor that runs no hypervisor of the driver's, maybe under one    *)
(* that was there before: each instruction that VmExits may have to carry  *)
(* out for a guest is one step here, and it faults where the processor's   *)
(* manual says so.  VMX operation was never entered.                       *)
(*                                                                         *)
(* A 64-bit register is a pair of halves, a half is a set of bits: "or" is *)
(* the union, and what a processor does with a half is a constant.         *)
(***************************************************************************)
EXTENDS Integers
CONSTANTS
    Bits,          \* the bits of half a register
    RipLimit,      \* instruction addresses wrap around at RipLimit
    Length,        \* Length[op]: bytes of instruction op
    Leaf,          \* Leaf[<<function, subleaf>>]: what CPUID answers
    HyperVMsrs,    \* MSR indices of Hyper-V
    Present,       \* MSR indices the platform has, under Hyper-V
    Accepts,       \* Accepts[i]: values that MSR i may be given
    InitialMsrs,   \* contents of the MSRs before virtualization (bound)
    Xcr0Values,    \* values that XCR0 may hold
    LinearFlush,   \* hypercalls that drop translations of linear addresses
    PhysicalFlush, \* hypercalls that drop translations of guest addresses
    Answers,       \* results of a hypercall
    KernelCr3,     \* CR3 of the system process
    Cr3s           \* CR3 values of processes

Half == SUBSET Bits
Word == [hi : Half, lo : Half]
Zero == [hi |-> {}, lo |-> {}]
ZeroExtended(h) == [hi |-> {}, lo |-> h]

Registers == [rax : Word, rbx : Word, rcx : Word, rdx : Word]
System == [cr3 : Cr3s, tables : {"own", "host"}, dr7 : {"off", "set"}, flags : SUBSET {"CF", "IF"}]
Optional == {"RDTSCP", "INVPCID", "XSAVES"}
Calls == {"VmmCall", "VmmCallInCaller", "UnknownCall", "Hypercall"}
Flagging == {"VMREAD", "INVEPT"}
Unhandled == {"VMRESUME", "INVD", "GETSEC", "VMFUNC"}
Ops == {"CPUID", "RDMSR", "WRMSR", "XSETBV", "MOVCR3"}
         \cup Optional \cup Calls \cup Flagging \cup Unhandled

\* What the processor may have: the instructions above, and a hypervisor that
\* was there before and answers to VMCALL.
Feature == Optional \cup {"Hypercall"}

ASSUME ProcessorAssumption ==
    /\ RipLimit \in Nat \ {0}
    /\ Length \in [Ops -> Nat]
    /\ Leaf \in [Half \X Half -> [eax : Half, ebx : Half, ecx : Half, edx : Half]]
    /\ Accepts \in [Half -> SUBSET Word]
    /\ InitialMsrs \subseteq [Half -> Word]
    /\ LinearFlush \cap PhysicalFlush = {}
    /\ Answers \subseteq Word
    /\ KernelCr3 \in Cr3s

VARIABLES
    rip,     \* address of the next instruction
    regs,    \* the registers the instructions below use
    system,  \* the rest of the processor's state: CR3, descriptor tables, ...
    msrs,    \* contents of the MSRs
    xcr0,    \* contents of XCR0
    stale,   \* kinds of translations that are out of date in the TLB
    stopped, \* the machine has ended
    op,      \* the instruction fetched to be executed, or "none"
    features \* what the processor has of Feature

processorVars == <<rip, regs, system, msrs, xcr0, stale, stopped, op, features>>

ProcessorInit ==
    /\ rip = 0
    /\ regs = [rax |-> Zero, rbx |-> Zero, rcx |-> Zero, rdx |-> Zero]
    /\ system = [cr3 |-> KernelCr3, tables |-> "own", dr7 |-> "off", flags |-> {"IF"}]
    /\ msrs \in InitialMsrs
    /\ xcr0 \in Xcr0Values
    /\ stale = {}
    /\ stopped = FALSE
    /\ op = "none"
    /\ features \in SUBSET Feature
-----------------------------------------------------------------------------
\* Code that no hypervisor takes part in: it computes registers, switches
\* processes, sets breakpoints and changes page tables.
ByItself ==
    /\ op = "none"
    /\ \/ regs' \in Registers /\ UNCHANGED <<system, stale>>
       \/ /\ system' \in System
          /\ system'.tables = system.tables
          /\ UNCHANGED <<regs, stale>>
       \/ stale' \in SUBSET {"linear", "physical"} /\ UNCHANGED <<regs, system>>
    /\ UNCHANGED <<rip, msrs, xcr0, stopped, op>>

\* An instruction is fetched and then executed, or both at once.
Fetch(o) ==
    /\ op = "none" /\ op' = o
    /\ UNCHANGED <<rip, regs, system, msrs, xcr0, stale, stopped>>

Executed(o) == op \in {"none", o} /\ op' = "none"

\* The instruction o, once.
Done(o) ==
    /\ Executed(o)
    /\ rip' = (rip + Length[o]) % RipLimit
    /\ UNCHANGED stopped

Cpuid ==
    LET leaf == Leaf[<<regs.rax.lo, regs.rcx.lo>>] IN
    /\ regs' = [rax |-> ZeroExtended(leaf.eax), rbx |-> ZeroExtended(leaf.ebx),
                rcx |-> ZeroExtended(leaf.ecx), rdx |-> ZeroExtended(leaf.edx)]
    /\ Done("CPUID")
    /\ UNCHANGED <<system, msrs, xcr0, stale>>

\* The MSRs of Hyper-V are there when it is.
Exists(i) == i \in Present /\ (i \in HyperVMsrs => "Hypercall" \in features)

\* RDMSR ends with a value, and something in the upper half of RDX.
Reads(value, upper) ==
    /\ regs' = [regs EXCEPT !.rax = ZeroExtended(value.lo), !.rdx = [hi |-> upper, lo |-> value.hi]]
    /\ Done("RDMSR")
    /\ UNCHANGED <<system, msrs, xcr0, stale>>
Rdmsr == Exists(regs.rcx.lo) /\ Reads(msrs[regs.rcx.lo], {})

\* The operand is EDX:EAX, whatever the upper halves hold.
EdxEax == [hi |-> regs.rdx.lo, lo |-> regs.rax.lo]
Writable(i, value) == Exists(i) /\ value \in Accepts[i]
Writes(contents) ==
    /\ msrs' = contents
    /\ Done("WRMSR")
    /\ UNCHANGED <<regs, system, xcr0, stale>>
Wrmsr == Writable(regs.rcx.lo, EdxEax) /\ Writes([msrs EXCEPT ![regs.rcx.lo] = EdxEax])

Sets(value) ==
    /\ regs.rcx.lo = {} /\ value \in Xcr0Values
    /\ xcr0' = value
    /\ Done("XSETBV")
    /\ UNCHANGED <<regs, system, msrs, stale>>
Xsetbv == Sets(EdxEax)

\* VMCALL under a hypervisor: a hypercall that asks for it leaves no
\* translation that is out of date.
Hypercall ==
    /\ "Hypercall" \in features
    /\ \E answer \in Answers : regs' = [regs EXCEPT !.rax = answer]
    /\ stale' \subseteq stale
    /\ regs.rcx.lo \in LinearFlush => "linear" \notin stale'
    /\ regs.rcx.lo \in PhysicalFlush => "physical" \notin stale'
    /\ Done("Hypercall")
    /\ UNCHANGED <<system, msrs, xcr0>>

\* A new process, and instructions that run where the processor has them.
Switch ==
    /\ \E cr3 \in Cr3s : system' = [system EXCEPT !.cr3 = cr3]
    /\ Done("MOVCR3")
    /\ UNCHANGED <<regs, msrs, xcr0, stale>>
Run(o) ==
    /\ o \in (features \cap Optional) \cup {"INVD"}
    /\ Done(o)
    /\ UNCHANGED <<regs, system, msrs, xcr0, stale>>

\* An instruction the processor does not have or an operand it does not take
\* faults: the guest's handler is at address zero.
Faults(o) ==
    \/ o \in Optional \ features
    \/ o \in Calls /\ "Hypercall" \notin features
    \/ o \in Flagging \cup (Unhandled \ {"INVD"})
    \/ o = "RDMSR" /\ ~Exists(regs.rcx.lo)
    \/ o = "WRMSR" /\ ~Writable(regs.rcx.lo, EdxEax)
    \/ o = "XSETBV" /\ ~(regs.rcx.lo = {} /\ EdxEax \in Xcr0Values)
Fault(o) ==
    /\ Faults(o)
    /\ Executed(o)
    /\ rip' = 0
    /\ UNCHANGED <<regs, system, msrs, xcr0, stale, stopped>>

\* The machine ends at an instruction.
Stop ==
    /\ stopped' = TRUE /\ op' = "none"
    /\ UNCHANGED <<rip, regs, system, msrs, xcr0, stale>>

ProcessorNext ==
    /\ ~stopped
    /\ UNCHANGED features
    /\ \/ ByItself \/ Cpuid \/ Rdmsr \/ Wrmsr \/ Xsetbv \/ Hypercall \/ Switch \/ Stop
       \/ \E o \in Ops : Fetch(o) \/ Run(o) \/ Fault(o)
ProcessorSpec == ProcessorInit /\ [][ProcessorNext]_processorVars
=============================================================================
