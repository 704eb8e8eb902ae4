------------------------------- MODULE VmExits -------------------------------
(***************************************************************************)
(* The VM exits that are not about a page (Hpv.cpp): a processor that is   *)
(* virtualized runs the guest until an instruction leaves it, the handler  *)
(* the table names for the reason carries the instruction out, moves the   *)
(* guest past it and lets it run again.  Which instructions leave the      *)
(* guest depends on the execution controls, on what the platform forces on *)
(* or off in them, and on the MSR bitmap, which is zero.                   *)
(*                                                                         *)
(* While the guest is out, regs is the GuestContext that VmxVmmRun pushes  *)
(* and pops, rip is the VMCS field, and saved and savedMsrs are the rest   *)
(* of the guest area of the VMCS: an exit replaces the MSRs that the VMCS  *)
(* has fields for by those of the host area.  A handler runs with          *)
(* interrupts off and is one step.  A fault in it ends the machine, and so *)
(* does the breakpoint of a reason without a handler.                      *)
(***************************************************************************)
EXTENDS Processor, FiniteSets
CONSTANTS
    Platforms,     \* what processors force on or off in the controls
    PlainMsrs,     \* MSR indices covered by the MSR bitmap
    HeldMsrs,      \* those the VMCS has fields for: bases of FS and GS, ...
    DebugCtl,      \* one of them, that a control has saved and loaded
    SysenterCs,    \* one of them, that VirtualizeProcessor leaves out
    Unwritten,     \* what a field of the VMCS may hold that was not written
    HyperSign,     \* the driver's signature, as half a register
    Seen,          \* Seen[cr3]: what an argument's address holds under cr3
    Loads,         \* register contents the guest computes (bound)
    Systems,       \* states of the rest of the processor (bound)
    SignBit        \* the highest bit of a half

Fields == {"pin", "primary", "vmexit", "vmentry"}
Bit == {"UseMsrBitmaps", "ActivateSecondaryControls", "Cr3LoadExiting",
        "SaveDebugControls", "HostAddressSpaceSize", "LoadDebugControls", "Ia32ModeGuest",
        "EnableEpt", "EnableRdtscp", "EnableVpid", "EnableInvpcid", "EnableVmFunctions",
        "EnableXsavesXrstors"}
ControlsMask == [zero : SUBSET Bit, one : SUBSET Bit]
Platform == [any : BOOLEAN, outer : BOOLEAN, plain : [Fields -> ControlsMask], exact : [Fields -> ControlsMask],
             secondary : ControlsMask]

ASSUME VmExitsAssumption ==
    /\ Platforms \subseteq Platform
    /\ Loads \subseteq Registers
    /\ Systems \subseteq System
    /\ \A s \in Systems : s.tables = "own"
    /\ SignBit \in Bits
    /\ HyperSign \in Half
    /\ Seen \in [Cr3s -> Word]
    /\ HeldMsrs \subseteq PlainMsrs /\ PlainMsrs \subseteq Half
    /\ DebugCtl \in HeldMsrs /\ SysenterCs \in HeldMsrs \ {DebugCtl}
    /\ Unwritten \subseteq Word
    /\ \A p \in Platforms :
         /\ p.secondary.zero = {}
         /\ \A field \in Fields : p.plain[field].zero \subseteq p.plain[field].one
                               /\ p.exact[field].zero \subseteq p.exact[field].one
         /\ \A table \in {p.plain, p.exact} :
              /\ "SaveDebugControls" \in table["vmexit"].one
              /\ "LoadDebugControls" \in table["vmentry"].one
              /\ "ActivateSecondaryControls" \in table["primary"].one

VARIABLES
    mode,      \* "off", "guest", "exit", "entry" or "dead"
    saved,     \* guest area of the VMCS, RIP and MSRs apart
    savedMsrs, \* MSRs of the guest area
    hostMsrs,  \* MSRs of the host area
    controls,  \* execution controls of the VMCS
    platform   \* the processor's capability MSRs, and who runs below

vars == <<processorVars, mode, saved, savedMsrs, hostMsrs, controls, platform>>
-----------------------------------------------------------------------------
(***************************************************************************)
(* The controls.                                                           *)
(***************************************************************************)

\* Mutant: the first MSRs are read whatever IA32_VMX_BASIC says.
MaskOfPlain(field) == platform.plain[field]

\* GetPinControlsMask and its siblings: the MSRs named TRUE where there are
\* any, for they let go of what the others hold at one.
MaskOf(field) == IF platform.any THEN platform.exact[field] ELSE platform.plain[field]

ApplyMask(wanted, mask) == (wanted \cap mask.one) \cup mask.zero

NoControls == [f \in Fields \cup {"secondary"} |-> {}]
Interceptions ==
    [f \in Fields \cup {"secondary"} |->
       CASE f = "pin" -> ApplyMask({}, MaskOf("pin"))
         [] f = "primary" -> ApplyMask({"UseMsrBitmaps", "ActivateSecondaryControls"}, MaskOf("primary"))
         [] f = "vmexit" -> ApplyMask({"SaveDebugControls", "HostAddressSpaceSize"}, MaskOf("vmexit"))
         [] f = "vmentry" -> ApplyMask({"LoadDebugControls", "Ia32ModeGuest"}, MaskOf("vmentry"))
         [] OTHER -> ApplyMask({"EnableEpt", "EnableRdtscp", "EnableVpid", "EnableInvpcid",
                                "EnableVmFunctions", "EnableXsavesXrstors"}, platform.secondary)]

\* The control an optional instruction needs in a guest, and has in the
\* capability MSR when the processor has the instruction.
Enabling(o) == CASE o = "RDTSCP" -> "EnableRdtscp" [] o = "INVPCID" -> "EnableInvpcid"
                 [] OTHER -> "EnableXsavesXrstors"
Secondary == IF "ActivateSecondaryControls" \in controls["primary"] THEN controls["secondary"] ELSE {}

\* What the processor lets out of the guest under these controls.
Exits(o) ==
    CASE o \in {"RDMSR", "WRMSR"} ->
           "UseMsrBitmaps" \notin controls["primary"] \/ regs.rcx.lo \notin PlainMsrs
      [] o = "MOVCR3" -> "Cr3LoadExiting" \in controls["primary"]
      [] o = "VMFUNC" -> "EnableVmFunctions" \in Secondary
      [] o \in Optional -> FALSE
      [] OTHER -> TRUE
-----------------------------------------------------------------------------
(***************************************************************************)
(* Into the guest and out of it.                                           *)
(***************************************************************************)

\* What an exit loads: the host area, and what is fixed for every exit.
HostState == [cr3 |-> KernelCr3, tables |-> "host", dr7 |-> "off", flags |-> {}]

\* What is left to know of the guest area once the guest runs: the next exit
\* writes all of it but DR7.
Forgotten == [HostState EXCEPT !.dr7 = saved.dr7]
ForgottenMsrs == [hostMsrs EXCEPT ![DebugCtl] = savedMsrs[DebugCtl]]

\* The MSRs, with those of an area of the VMCS.
Swapped(area) == [i \in Half |-> IF i \in HeldMsrs THEN area[i] ELSE msrs[i]]

Init ==
    /\ ProcessorInit
    /\ platform \in Platforms
    /\ features = {o \in Optional : Enabling(o) \in platform.secondary.one}
                     \cup (IF platform.outer THEN {"Hypercall"} ELSE {})
    /\ mode = "off"
    /\ saved = HostState
    /\ savedMsrs = [i \in HeldMsrs |-> Zero]
    /\ hostMsrs = [i \in HeldMsrs |-> Zero]
    /\ controls = NoControls

\* VirtualizeProcessor, as far as this processor's controls and areas go: the
\* guest goes on with what it had, but for the one field nobody writes.
Launch ==
    /\ mode = "off"
    /\ mode' = "guest"
    /\ controls' = Interceptions
    /\ saved' = [HostState EXCEPT !.dr7 = system.dr7]
    /\ hostMsrs' = [i \in HeldMsrs |-> IF i = DebugCtl THEN Zero ELSE msrs[i]]
    /\ savedMsrs' = [hostMsrs' EXCEPT ![DebugCtl] = msrs[DebugCtl]]
    /\ \E value \in Unwritten : msrs' = [msrs EXCEPT ![SysenterCs] = value]
    /\ UNCHANGED <<rip, regs, system, xcr0, stale, stopped, op, features, platform>>

\* The guest area as an exit leaves it: DR7 and IA32_DEBUGCTL are only saved
\* if asked for.
SavesDebug == "SaveDebugControls" \in controls["vmexit"]
LoadsDebug == "LoadDebugControls" \in controls["vmentry"]
SavedState == [system EXCEPT !.dr7 = IF SavesDebug THEN @ ELSE saved.dr7]
SavedMsrs == [i \in HeldMsrs |-> IF i = DebugCtl /\ ~SavesDebug THEN savedMsrs[i] ELSE msrs[i]]

\* The instruction o leaves the guest, and VmxVmmRun saves the registers.
Exit(o) ==
    /\ mode = "guest"
    /\ Exits(o)
    /\ mode' = "exit"
    /\ op' = o
    /\ saved' = SavedState
    /\ savedMsrs' = SavedMsrs
    /\ system' = HostState
    /\ msrs' = Swapped(hostMsrs)
    /\ UNCHANGED <<rip, regs, xcr0, stale, stopped, features, hostMsrs, controls, platform>>

\* VmxVmmRun takes the registers back and resumes the guest.
Enter ==
    /\ mode = "entry"
    /\ mode' = "guest"
    /\ system' = [saved EXCEPT !.dr7 = IF LoadsDebug THEN @ ELSE system.dr7]
    /\ msrs' = Swapped([savedMsrs EXCEPT ![DebugCtl] = IF LoadsDebug THEN @ ELSE msrs[DebugCtl]])
    /\ saved' = Forgotten
    /\ savedMsrs' = ForgottenMsrs
    /\ UNCHANGED <<rip, regs, xcr0, stale, stopped, op, features, hostMsrs, controls, platform>>
-----------------------------------------------------------------------------
(***************************************************************************)
(* What the guest does by itself.                                          *)
(***************************************************************************)

Outside == UNCHANGED <<features, mode, saved, savedMsrs, hostMsrs, controls, platform>>

Compute ==
    /\ mode \in {"guest", "off"}
    /\ \/ regs' \in Loads /\ UNCHANGED <<system, stale>>
       \/ \E s \in Systems : system' = [s EXCEPT !.tables = system.tables] /\ UNCHANGED <<regs, stale>>
       \/ \E kind \in {"linear", "physical"} : stale' = {kind} /\ UNCHANGED <<regs, system>>
    /\ UNCHANGED <<rip, msrs, xcr0, stopped, op>>
    /\ Outside

\* An MSR the bitmap covers, a switch of processes, an optional instruction.
RunNative(o) ==
    /\ mode = "guest"
    /\ ~Exits(o)
    /\ \/ o = "RDMSR" /\ Rdmsr
       \/ o = "WRMSR" /\ Wrmsr
       \/ o = "MOVCR3" /\ Switch
       \/ o \in Optional /\ Enabling(o) \in Secondary /\ Run(o)
    /\ Outside

FaultNative(o) ==
    /\ mode = "guest"
    /\ ~Exits(o)
    /\ \/ o = "RDMSR" /\ ~Exists(regs.rcx.lo)
       \/ o = "WRMSR" /\ ~Writable(regs.rcx.lo, EdxEax)
       \/ o \in Optional /\ Enabling(o) \notin Secondary
       \/ o = "VMFUNC"
    /\ rip' = 0
    /\ UNCHANGED <<regs, system, msrs, xcr0, stale, stopped, op>>
    /\ Outside
-----------------------------------------------------------------------------
(***************************************************************************)
(* The handlers.                                                           *)
(***************************************************************************)

HandlersTable ==
    [o \in Ops |->
       CASE o = "CPUID" -> "CpuidHandler"
         [] o = "XSETBV" -> "XsetbvHandler"
         [] o \in Calls -> "VmcallHandler"
         [] o = "RDMSR" -> "RdmsrHandler"
         [] o = "WRMSR" -> "WrmsrHandler"
         [] o \in Flagging -> "VmxRelatedHandler"
         [] OTHER -> "EmptyHandler"]

\* The end of VmxVmExitHandler for a handler that does not ask to repeat.
Continue ==
    /\ mode' = "entry"
    /\ Done(op)

\* __debugbreak, or a fault, where no debugger and no handler is.
Die ==
    /\ mode' = "dead"
    /\ stopped' = TRUE
    /\ UNCHANGED <<rip, regs, system, msrs, xcr0, stale, op, saved>>

\* To end virtualization it leaves VMX operation and then tells VmxVmmRun to
\* go on: vmresume is an invalid opcode there, before the guest sees any of
\* the state that was brought back for it.
CpuidHandler ==
    LET leaf == Leaf[<<regs.rax.lo, regs.rcx.lo>>] IN
    IF regs.rax.lo = HyperSign THEN Die
    ELSE /\ Continue
         /\ regs' = [rax |-> ZeroExtended(leaf.eax), rbx |-> ZeroExtended(leaf.ebx),
                     rcx |-> ZeroExtended(leaf.ecx), rdx |-> ZeroExtended(leaf.edx)]
         /\ UNCHANGED <<system, msrs, xcr0, stale, saved>>

\* RAX as a whole is or-ed in, here and in WrmsrHandler.
Operand == [hi |-> regs.rdx.lo \cup regs.rax.hi, lo |-> regs.rax.lo]

XsetbvHandler ==
    IF regs.rcx.lo = {} /\ Operand \in Xcr0Values
    THEN /\ Continue
         /\ xcr0' = Operand
         /\ UNCHANGED <<regs, system, msrs, stale, saved>>
    ELSE Die

IsMsrAllowed(i) == i \in PlainMsrs \cup HyperVMsrs

\* LARGE_INTEGER's HighPart is signed.
SignExtended(h) == [hi |-> IF SignBit \in h THEN Bits ELSE {}, lo |-> h]

RdmsrHandler ==
    LET i == regs.rcx.lo IN
    IF IsMsrAllowed(i) /\ ~Exists(i) THEN Die
    ELSE /\ Continue
         /\ regs' = IF IsMsrAllowed(i)
                    THEN [regs EXCEPT !.rdx = SignExtended(msrs[i].hi), !.rax = ZeroExtended(msrs[i].lo)]
                    ELSE [regs EXCEPT !.rdx = Zero, !.rax = Zero]
         /\ UNCHANGED <<system, msrs, xcr0, stale, saved>>

\* A value the MSR does not take, and an MSR that is only read, fault here.
WrmsrHandler ==
    LET i == regs.rcx.lo IN
    IF IsMsrAllowed(i) /\ ~Writable(i, Operand) THEN Die
    ELSE /\ Continue
         /\ msrs' = IF IsMsrAllowed(i) THEN [msrs EXCEPT ![i] = Operand] ELSE msrs
         /\ UNCHANGED <<regs, system, xcr0, stale, saved>>

\* Mutant: the flushes of guest addresses go on without INVEPT.
InvalidatedLinear == IF regs.rcx.lo \in LinearFlush \cup PhysicalFlush THEN {"linear"} ELSE {}

\* INVVPID drops translations of linear addresses, INVEPT those and the ones
\* of guest addresses.
Invalidated ==
    CASE regs.rcx.lo \in LinearFlush -> {"linear"}
      [] regs.rcx.lo \in PhysicalFlush -> {"linear", "physical"}
      [] OTHER -> {}

\* CR3 is the guest's while the function runs, if the caller asked for it.  A
\* hypercall goes to who runs below; if nobody does, VMCALL fails as it does
\* in VMX root operation, and RAX is what the host had in it.
VmcallHandler ==
    /\ Continue
    /\ \E answer \in Answers :
         regs' = [regs EXCEPT !.rax =
                    CASE op = "VmmCall" -> Seen[system.cr3]
                      [] op = "VmmCallInCaller" -> Seen[saved.cr3]
                      [] op = "UnknownCall" -> ZeroExtended(HyperSign)
                      [] OTHER -> answer]
    /\ stale' = IF op = "Hypercall" THEN stale \ Invalidated ELSE stale
    /\ UNCHANGED <<system, msrs, xcr0, saved>>

VmxRelatedHandler ==
    /\ Continue
    /\ saved' = [saved EXCEPT !.flags = @ \cup {"CF"}]
    /\ UNCHANGED <<regs, system, msrs, xcr0, stale>>

\* VmxVmExitHandler.
Handle ==
    /\ mode = "exit"
    /\ CASE HandlersTable[op] = "CpuidHandler" -> CpuidHandler
         [] HandlersTable[op] = "XsetbvHandler" -> XsetbvHandler
         [] HandlersTable[op] = "VmcallHandler" -> VmcallHandler
         [] HandlersTable[op] = "RdmsrHandler" -> RdmsrHandler
         [] HandlersTable[op] = "WrmsrHandler" -> WrmsrHandler
         [] HandlersTable[op] = "VmxRelatedHandler" -> VmxRelatedHandler
         [] OTHER -> Die
    /\ UNCHANGED <<features, savedMsrs, hostMsrs, controls, platform>>

Next ==
    \/ Launch \/ Enter \/ Handle \/ Compute
    \/ \E o \in Ops : Exit(o) \/ RunNative(o) \/ FaultNative(o)

Spec == Init /\ [][Next]_vars
-----------------------------------------------------------------------------
(***************************************************************************)
(* Properties.                                                             *)
(***************************************************************************)

\* The registers, the VMCS and the controls hold what they can hold, and a
\* processor that is out of the guest runs on the host's state.
VmExitsTypeOK ==
    /\ rip \in 0 .. RipLimit - 1
    /\ regs \in Registers
    /\ system \in System /\ saved \in System
    /\ msrs \in [Half -> Word]
    /\ xcr0 \in Xcr0Values
    /\ savedMsrs \in [HeldMsrs -> Word] /\ hostMsrs \in [HeldMsrs -> Word]
    /\ stale \in SUBSET {"linear", "physical"}
    /\ stopped = (mode = "dead")
    /\ features \in SUBSET Feature
    /\ mode \in {"off", "guest", "exit", "entry", "dead"}
    /\ op \in Ops \cup {"none"}
    /\ controls \in [Fields \cup {"secondary"} -> SUBSET Bit]
    /\ platform \in Platforms
    /\ mode \in {"exit", "entry"} => system = HostState
    /\ mode = "exit" => \A i \in HeldMsrs : msrs[i] = hostMsrs[i]
    /\ op = "none" <=> mode \in {"off", "guest", "entry"}

\* Compiled code shifts one register for WRMSR and XSETBV, or leaves RAX with
\* nothing above EAX: then Operand is what the guest meant.
Mixes == ~(regs.rax.hi \subseteq regs.rdx.lo)

\* An access to MSR i leaves the guest.
Trapped(i) == i \notin PlainMsrs \/ "UseMsrBitmaps" \notin Interceptions["primary"]

\* The machine stops only at an instruction that the table has no handler
\* for, at the CPUID that asks for the end of virtualization, at a move to CR3
\* where the platform insists on an exit, at RDMSR, WRMSR and XSETBV that
\* fault on the processor itself, and at an operand of the last two that the
\* handlers mix up (HandlersTable, Interceptions, WrmsrHandler).
OnlyUnhandledStops ==
    mode = "dead" =>
        \/ op \in Unhandled
        \/ op = "CPUID" /\ regs.rax.lo = HyperSign
        \/ op = "MOVCR3" /\ "Cr3LoadExiting" \in
             (IF platform.any THEN platform.exact ELSE platform.plain)["primary"].zero
        \/ op \in {"RDMSR", "WRMSR", "XSETBV"} /\ Faults(op)
        \/ op \in {"WRMSR", "XSETBV"} /\ Mixes

\* What the guest can see of the state, out of the guest or in it.
VisibleSystem == IF mode \in {"off", "guest"} THEN system ELSE saved
VisibleMsrs == IF mode \in {"off", "guest"} THEN msrs ELSE Swapped(savedMsrs)
Fetched == IF mode = "dead" THEN "none" ELSE op
Machine == INSTANCE Processor WITH system <- VisibleSystem, msrs <- VisibleMsrs, op <- Fetched

\* MSRs that IsMsrAllowed does not know read as zero, and take anything.
UnknownMsr ==
    /\ ~IsMsrAllowed(regs.rcx.lo)
    /\ Machine!Reads(Zero, {}) \/ Machine!Writes(VisibleMsrs)

\* RDX gets the sign of what RdmsrHandler has read.
SignedMsr ==
    LET value == VisibleMsrs[regs.rcx.lo] IN
    /\ Trapped(regs.rcx.lo) /\ Exists(regs.rcx.lo)
    /\ SignBit \in value.hi /\ Machine!Reads(value, Bits)

\* Where RAX holds bits that EDX lacks, they get into the operand.
MixedOperand ==
    /\ Mixes
    /\ \/ Machine!Sets(Operand)
       \/ /\ Trapped(regs.rcx.lo) /\ Writable(regs.rcx.lo, Operand)
          /\ Machine!Writes([VisibleMsrs EXCEPT ![regs.rcx.lo] = Operand])

\* Without an MSR bitmap the guest reads the host's FS, GS, SYSENTER and
\* debug MSRs, and what it writes to them is lost.
HostsMsr ==
    /\ regs.rcx.lo \in HeldMsrs /\ Trapped(regs.rcx.lo)
    /\ \/ \E upper \in {{}, Bits} : Machine!Reads(hostMsrs[regs.rcx.lo], upper)
       \/ Machine!Writes(VisibleMsrs)

\* IA32_SYSENTER_CS changes when the guest is launched.
UnsetMsr ==
    /\ mode = "off"
    /\ \E value \in Unwritten : VisibleMsrs' = [VisibleMsrs EXCEPT ![SysenterCs] = value]
    /\ UNCHANGED <<rip, regs, VisibleSystem, xcr0, stale, stopped, Fetched>>

\* The driver's calls: a function reads its argument where the caller asked
\* for it, an unknown index answers with the signature.
OwnCall(o) ==
    /\ o \in {"VmmCall", "VmmCallInCaller", "UnknownCall"}
    /\ regs' = [regs EXCEPT !.rax =
                  CASE o = "VmmCall" -> Seen[KernelCr3]
                    [] o = "VmmCallInCaller" -> Seen[VisibleSystem.cr3]
                    [] OTHER -> ZeroExtended(HyperSign)]
    /\ Machine!Done(o)
    /\ UNCHANGED <<VisibleSystem, VisibleMsrs, xcr0, stale>>

\* A hypercall is answered though nobody is there to answer it.
AnsweredCall ==
    /\ "Hypercall" \notin features
    /\ \E answer \in Answers : regs' = [regs EXCEPT !.rax = answer]
    /\ stale' \subseteq stale
    /\ Machine!Done("Hypercall")
    /\ UNCHANGED <<VisibleSystem, VisibleMsrs, xcr0>>

\* VMX instructions set CF where they should fault.
FailedVmx(o) ==
    /\ o \in Flagging
    /\ VisibleSystem' = [VisibleSystem EXCEPT !.flags = @ \cup {"CF"}]
    /\ Machine!Done(o)
    /\ UNCHANGED <<regs, VisibleMsrs, xcr0, stale>>

\* All that tells a guest from a processor that was never virtualized.
Deviation ==
    /\ ~stopped /\ UNCHANGED features
    /\ \/ UnknownMsr \/ SignedMsr \/ MixedOperand \/ HostsMsr \/ UnsetMsr \/ AnsweredCall
       \/ \E o \in Ops : OwnCall(o) \/ FailedVmx(o)

\* The guest is on a bare processor, but for these deviations: every other
\* instruction, whatever the controls make leave the guest, does once what it
\* does there, with the guest's own registers, CR3, MSRs and translations
\* (VmxVmExitHandler and the handlers, VmxVmmRun, VirtualizeProcessor).
BehavesAsTheProcessor ==
    Machine!ProcessorInit /\ [][Machine!ProcessorNext \/ Deviation]_(Machine!processorVars)
=============================================================================
