---------------------------- MODULE VmExitsProofs ----------------------------
(* Proofs about VmExits: its types, what may stop the machine, and that the *)
(* guest sees the bare processor of module Processor.                       *)
EXTENDS VmExits, TLAPS

\* While the guest is virtualized the controls are those of Interceptions,
\* and features are what the platform lets them enable.
ControlsAreSet ==
    /\ features = {o \in Optional : Enabling(o) \in platform.secondary.one}
                     \cup (IF platform.outer THEN {"Hypercall"} ELSE {})
    /\ mode # "off" => controls = Interceptions

\* The descriptor tables the guest sees are its own.
GuestKeepsItsTables == VisibleSystem.tables = "own"

\* The instruction that a handler carries out had to leave the guest.
ExitsHaveReasons == mode = "exit" => Exits(op)

VmExitsInv == VmExitsTypeOK /\ ControlsAreSet /\ GuestKeepsItsTables /\ ExitsHaveReasons /\ OnlyUnhandledStops

USE ProcessorAssumption, VmExitsAssumption
-----------------------------------------------------------------------------
LEMMA WordFacts ==
    /\ Zero \in Word
    /\ \A h \in Half : ZeroExtended(h) \in Word
    /\ \A h \in Half : SignExtended(h) \in Word
    /\ {} \in Half
    /\ Bits \in Half
BY DEF Zero, Word, Half, ZeroExtended, SignExtended

LEMMA HostStateIsSystem == HostState \in System
BY DEF HostState, System

\* The areas of the VMCS hold MSRs, and so does the processor after a swap.
LEMMA MsrFacts ==
    ASSUME VmExitsTypeOK
    PROVE  /\ \A area \in [HeldMsrs -> Word] : Swapped(area) \in [Half -> Word]
           /\ SavedMsrs \in [HeldMsrs -> Word]
           /\ ForgottenMsrs \in [HeldMsrs -> Word]
BY DEF VmExitsTypeOK, Swapped, SavedMsrs, ForgottenMsrs

LEMMA RipFact == ASSUME NEW r \in 0 .. RipLimit - 1, NEW n \in Nat
                 PROVE  (r + n) % RipLimit \in 0 .. RipLimit - 1
OBVIOUS

LEMMA EnablingIsBit == \A o \in Optional : Enabling(o) \in Bit
BY DEF Optional, Enabling, Bit

\* The controls on any platform, as far as the proofs use them.
LEMMA InterceptionsFacts ==
    ASSUME platform \in Platforms
    PROVE  /\ Interceptions \in [Fields \cup {"secondary"} -> SUBSET Bit]
           /\ "SaveDebugControls" \in Interceptions["vmexit"]
           /\ "LoadDebugControls" \in Interceptions["vmentry"]
           /\ "ActivateSecondaryControls" \in Interceptions["primary"]
           /\ \A o \in Optional : Enabling(o) \in Interceptions["secondary"]
                                     <=> Enabling(o) \in platform.secondary.one
<1> DEFINE Table == IF platform.any THEN platform.exact ELSE platform.plain
<1>1. platform \in Platform /\ Table \in [Fields -> ControlsMask] /\ platform.secondary \in ControlsMask
    BY DEF Platform
<1>2. \A f \in Fields : MaskOf(f) = Table[f]
    BY DEF MaskOf
<1>3. /\ "SaveDebugControls" \in Table["vmexit"].one
      /\ "LoadDebugControls" \in Table["vmentry"].one
      /\ "ActivateSecondaryControls" \in Table["primary"].one
      /\ platform.secondary.zero = {}
    BY <1>1 DEF Platform
<1>4. ASSUME NEW w \in SUBSET Bit, NEW k \in ControlsMask
      PROVE  ApplyMask(w, k) \in SUBSET Bit
    BY DEF ApplyMask, ControlsMask
<1> HIDE DEF Table
<1>5. ASSUME NEW f \in Fields \cup {"secondary"}
      PROVE  Interceptions[f] \in SUBSET Bit
    <2> DEFINE Wanted == CASE f = "pin" -> {}
                           [] f = "primary" -> {"UseMsrBitmaps", "ActivateSecondaryControls"}
                           [] f = "vmexit" -> {"SaveDebugControls", "HostAddressSpaceSize"}
                           [] f = "vmentry" -> {"LoadDebugControls", "Ia32ModeGuest"}
                           [] OTHER -> {"EnableEpt", "EnableRdtscp", "EnableVpid", "EnableInvpcid",
                                        "EnableVmFunctions", "EnableXsavesXrstors"}
    <2> DEFINE Of == IF f = "secondary" THEN platform.secondary ELSE Table[f]
    <2>1. Wanted \in SUBSET Bit
        BY DEF Bit
    <2>2. Of \in ControlsMask
        BY <1>1 DEF Fields
    <2>3. Interceptions[f] = ApplyMask(Wanted, Of)
        BY <1>2, <1>5 DEF Interceptions, Fields
    <2> HIDE DEF Wanted, Of
    <2> QED
        BY <2>1, <2>2, <2>3, <1>4
<1>6. Interceptions = [f \in Fields \cup {"secondary"} |-> Interceptions[f]]
    BY DEF Interceptions
<1>7. Interceptions \in [Fields \cup {"secondary"} -> SUBSET Bit]
    BY <1>5, <1>6
<1>8. /\ "SaveDebugControls" \in Interceptions["vmexit"]
      /\ "LoadDebugControls" \in Interceptions["vmentry"]
      /\ "ActivateSecondaryControls" \in Interceptions["primary"]
    BY <1>2, <1>3 DEF Interceptions, Fields, ApplyMask
<1>9. ASSUME NEW o \in Optional
      PROVE  Enabling(o) \in Interceptions["secondary"] <=> Enabling(o) \in platform.secondary.one
    BY <1>3 DEF Interceptions, Fields, ApplyMask, Enabling, Optional
<1> QED
    BY <1>7, <1>8, <1>9
-----------------------------------------------------------------------------
(* The invariant. *)

LEMMA InitInv == Init => VmExitsInv
<1> SUFFICES ASSUME Init PROVE VmExitsInv
    OBVIOUS
<1>1. VmExitsTypeOK
    <2>1. regs \in Registers
        BY WordFacts DEF Init, ProcessorInit, Registers
    <2>2. system \in System /\ saved \in System
        BY HostStateIsSystem DEF Init, ProcessorInit, System
    <2>3. msrs \in [Half -> Word]
        BY DEF Init, ProcessorInit
    <2>7. savedMsrs \in [HeldMsrs -> Word] /\ hostMsrs \in [HeldMsrs -> Word]
        BY WordFacts DEF Init
    <2>4. controls \in [Fields \cup {"secondary"} -> SUBSET Bit]
        BY DEF Init, NoControls
    <2>5. rip \in 0 .. RipLimit - 1
        BY DEF Init, ProcessorInit
    <2>6. features \in SUBSET Feature /\ stopped = (mode = "dead") /\ (op = "none" <=> mode \in {"off", "guest", "entry"})
        BY DEF Init, ProcessorInit
    <2> QED
        BY <2>1, <2>2, <2>3, <2>7, <2>4, <2>5, <2>6 DEF Init, ProcessorInit, VmExitsTypeOK
<1>2. ControlsAreSet /\ GuestKeepsItsTables /\ ExitsHaveReasons /\ OnlyUnhandledStops
    BY DEF Init, ProcessorInit, ControlsAreSet, GuestKeepsItsTables, VisibleSystem, ExitsHaveReasons,
           OnlyUnhandledStops
<1> QED
    BY <1>1, <1>2 DEF VmExitsInv

LEMMA LaunchInv == ASSUME VmExitsInv, Launch PROVE VmExitsInv'
<1> USE DEF VmExitsInv, Launch
<1>1. saved' \in System
    BY HostStateIsSystem DEF VmExitsTypeOK, System
<1>2. controls' \in [Fields \cup {"secondary"} -> SUBSET Bit]
    BY InterceptionsFacts DEF VmExitsTypeOK
<1>3. hostMsrs' \in [HeldMsrs -> Word] /\ savedMsrs' \in [HeldMsrs -> Word] /\ msrs' \in [Half -> Word]
    <2>1. hostMsrs' \in [HeldMsrs -> Word]
        BY WordFacts DEF VmExitsTypeOK
    <2>2. savedMsrs' = [hostMsrs' EXCEPT ![DebugCtl] = msrs[DebugCtl]] /\ msrs[DebugCtl] \in Word
        BY DEF VmExitsTypeOK
    <2> QED
        BY <2>1, <2>2 DEF VmExitsTypeOK
<1>7. VmExitsTypeOK'
    BY <1>1, <1>2, <1>3 DEF VmExitsTypeOK
<1>4. Interceptions' = Interceptions
    BY DEF Interceptions, MaskOf
<1>5. ControlsAreSet'
    BY <1>4 DEF ControlsAreSet
<1>6. GuestKeepsItsTables' /\ ExitsHaveReasons' /\ OnlyUnhandledStops'
    BY DEF GuestKeepsItsTables, VisibleSystem, ExitsHaveReasons, OnlyUnhandledStops
<1> QED
    BY <1>5, <1>6, <1>7

LEMMA ExitInv == ASSUME VmExitsInv, NEW o \in Ops, Exit(o) PROVE VmExitsInv'
<1> USE DEF VmExitsInv, Exit
<1>1. saved' \in System /\ system' \in System
    BY HostStateIsSystem DEF VmExitsTypeOK, SavedState, System
<1>2. VmExitsTypeOK'
    <2>1. "none" \notin Ops
        BY DEF Ops, Optional, Calls, Flagging, Unhandled
    <2>2. op = "none"
        BY DEF VmExitsTypeOK
    <2>3. HostState' = HostState
        BY DEF HostState
    <2>4. /\ msrs' \in [Half -> Word] /\ savedMsrs' \in [HeldMsrs -> Word]
          /\ \A i \in HeldMsrs : msrs'[i] = hostMsrs[i]
        BY MsrFacts DEF VmExitsTypeOK, Swapped
    <2> QED
        BY <1>1, <2>1, <2>3, <2>4 DEF VmExitsTypeOK
<1>3. ControlsAreSet'
    <2>1. Interceptions' = Interceptions
        BY DEF Interceptions, MaskOf
    <2> QED
        BY <2>1 DEF ControlsAreSet
<1>4. GuestKeepsItsTables'
    BY DEF GuestKeepsItsTables, VisibleSystem, SavedState, VmExitsTypeOK, System
<1>5. ExitsHaveReasons'
    <2>1. Exits(o)'
        BY DEF Exits, Secondary
    <2> QED
        BY <2>1 DEF ExitsHaveReasons, Exits
<1>6. OnlyUnhandledStops'
    BY DEF OnlyUnhandledStops
<1> QED
    BY <1>2, <1>3, <1>4, <1>5, <1>6

LEMMA EnterInv == ASSUME VmExitsInv, Enter PROVE VmExitsInv'
<1> USE DEF VmExitsInv, Enter
<1>1. saved' \in System /\ system' \in System
    BY HostStateIsSystem DEF VmExitsTypeOK, Forgotten, System
<1>6. msrs' \in [Half -> Word] /\ savedMsrs' \in [HeldMsrs -> Word]
    <2>1. [savedMsrs EXCEPT ![DebugCtl] = IF LoadsDebug THEN @ ELSE msrs[DebugCtl]] \in [HeldMsrs -> Word]
        BY DEF VmExitsTypeOK
    <2> QED
        BY <2>1, MsrFacts
<1>2. VmExitsTypeOK'
    BY <1>1, <1>6 DEF VmExitsTypeOK
<1>3. ControlsAreSet'
    <2>1. Interceptions' = Interceptions
        BY DEF Interceptions, MaskOf
    <2> QED
        BY <2>1 DEF ControlsAreSet
<1>4. GuestKeepsItsTables'
    BY DEF GuestKeepsItsTables, VisibleSystem, VmExitsTypeOK, System
<1>5. ExitsHaveReasons' /\ OnlyUnhandledStops'
    BY DEF ExitsHaveReasons, OnlyUnhandledStops
<1> QED
    BY <1>2, <1>3, <1>4, <1>5

LEMMA ComputeInv == ASSUME VmExitsInv, Compute PROVE VmExitsInv'
<1> USE DEF VmExitsInv, Compute, Outside
<1>1. regs' \in Registers
    BY DEF VmExitsTypeOK
<1>2. system' \in System /\ system'.tables = system.tables
    BY DEF VmExitsTypeOK, System
<1>3. stale' \in SUBSET {"linear", "physical"}
    BY DEF VmExitsTypeOK
<1>4. VmExitsTypeOK'
    BY <1>1, <1>2, <1>3 DEF VmExitsTypeOK
<1>5. ControlsAreSet'
    <2>1. Interceptions' = Interceptions
        BY DEF Interceptions, MaskOf
    <2> QED
        BY <2>1 DEF ControlsAreSet
<1>6. GuestKeepsItsTables'
    BY <1>2 DEF GuestKeepsItsTables, VisibleSystem
<1>7. ExitsHaveReasons' /\ OnlyUnhandledStops'
    BY DEF ExitsHaveReasons, OnlyUnhandledStops
<1> QED
    BY <1>4, <1>5, <1>6, <1>7

LEMMA RunNativeInv == ASSUME VmExitsInv, NEW o \in Ops, RunNative(o) PROVE VmExitsInv'
<1> USE DEF VmExitsInv, RunNative, Outside
<1>1. /\ mode = "guest" /\ mode' = "guest" /\ op' = "none" /\ rip' \in 0 .. RipLimit - 1
      /\ UNCHANGED <<stale, xcr0, stopped, features, saved, savedMsrs, hostMsrs, controls, platform>>
    <2>1. Length[o] \in Nat /\ rip' = (rip + Length[o]) % RipLimit
        BY DEF Rdmsr, Reads, Wrmsr, Writes, Switch, Run, Done
    <2> QED
        BY <2>1, RipFact DEF Rdmsr, Reads, Wrmsr, Writes, Switch, Run, Done, Executed, VmExitsTypeOK
<1>2. /\ regs' \in Registers /\ msrs' \in [Half -> Word]
      /\ system' \in System /\ system'.tables = system.tables
    <2>1. CASE o = "RDMSR" /\ Rdmsr
        <3>1. PICK w \in Word : regs' = [regs EXCEPT !.rax = ZeroExtended(w.lo), !.rdx = [hi |-> {}, lo |-> w.hi]]
            <4>1. regs.rcx.lo \in Half
                BY DEF VmExitsTypeOK, Registers, Word
            <4> QED
                BY <2>1, <4>1 DEF Rdmsr, Reads, VmExitsTypeOK
        <3>2. ZeroExtended(w.lo) \in Word /\ [hi |-> {}, lo |-> w.hi] \in Word
            BY WordFacts DEF Word
        <3>3. regs' \in Registers
            BY <3>1, <3>2 DEF VmExitsTypeOK, Registers
        <3> QED
            BY <2>1, <3>3 DEF Rdmsr, Reads, VmExitsTypeOK
    <2>2. CASE o = "WRMSR" /\ Wrmsr
        <3>1. EdxEax \in Word
            BY DEF EdxEax, VmExitsTypeOK, Registers, Word
        <3> QED
            BY <2>2, <3>1 DEF Wrmsr, Writes, VmExitsTypeOK
    <2>3. CASE o = "MOVCR3" /\ Switch
        <3>1. PICK cr3 \in Cr3s : system' = [system EXCEPT !.cr3 = cr3]
            BY <2>3 DEF Switch
        <3>2. system' \in System /\ system'.tables = system.tables
            BY <3>1 DEF VmExitsTypeOK, System
        <3> QED
            BY <2>3, <3>2 DEF Switch, VmExitsTypeOK
    <2>4. CASE Run(o)
        BY <2>4 DEF Run, VmExitsTypeOK
    <2> QED
        BY <2>1, <2>2, <2>3, <2>4
<1>3. VmExitsTypeOK'
    BY <1>1, <1>2 DEF VmExitsTypeOK
<1>4. ControlsAreSet'
    <2>1. Interceptions' = Interceptions
        BY <1>1 DEF Interceptions, MaskOf
    <2> QED
        BY <1>1, <2>1 DEF ControlsAreSet
<1>5. GuestKeepsItsTables'
    BY <1>1, <1>2 DEF GuestKeepsItsTables, VisibleSystem
<1>6. ExitsHaveReasons' /\ OnlyUnhandledStops'
    BY <1>1 DEF ExitsHaveReasons, OnlyUnhandledStops
<1> QED
    BY <1>3, <1>4, <1>5, <1>6

LEMMA FaultNativeInv == ASSUME VmExitsInv, NEW o \in Ops, FaultNative(o) PROVE VmExitsInv'
<1> USE DEF VmExitsInv, FaultNative, Outside
<1>1. VmExitsTypeOK'
    <2>1. rip' \in 0 .. RipLimit - 1
        OBVIOUS
    <2> QED
        BY <2>1 DEF VmExitsTypeOK
<1>2. ControlsAreSet'
    <2>1. Interceptions' = Interceptions
        BY DEF Interceptions, MaskOf
    <2> QED
        BY <2>1 DEF ControlsAreSet
<1>3. GuestKeepsItsTables' /\ ExitsHaveReasons' /\ OnlyUnhandledStops'
    BY DEF GuestKeepsItsTables, VisibleSystem, ExitsHaveReasons, OnlyUnhandledStops
<1> QED
    BY <1>1, <1>2, <1>3
-----------------------------------------------------------------------------
(* The handlers keep the invariant. *)

\* Which handler an instruction has.
LEMMA HandlersFacts ==
    ASSUME NEW o \in Ops
    PROVE  /\ HandlersTable[o] = "CpuidHandler" <=> o = "CPUID"
           /\ HandlersTable[o] = "XsetbvHandler" <=> o = "XSETBV"
           /\ HandlersTable[o] = "VmcallHandler" <=> o \in Calls
           /\ HandlersTable[o] = "RdmsrHandler" <=> o = "RDMSR"
           /\ HandlersTable[o] = "WrmsrHandler" <=> o = "WRMSR"
           /\ HandlersTable[o] = "VmxRelatedHandler" <=> o \in Flagging
BY DEF HandlersTable, Calls, Flagging

\* What a handler has to keep so that the processor may go on.
LEMMA ContinueInv ==
    ASSUME VmExitsInv, mode = "exit", Continue,
           regs' \in Registers, msrs' \in [Half -> Word], xcr0' \in Xcr0Values,
           stale' \in SUBSET {"linear", "physical"},
           saved' \in System, saved'.tables = saved.tables,
           UNCHANGED <<system, features, savedMsrs, hostMsrs, controls, platform>>
    PROVE  VmExitsInv'
<1> USE DEF VmExitsInv, Continue
<1>1. op \in Ops
    BY DEF VmExitsTypeOK
<1>2. rip' \in 0 .. RipLimit - 1
    BY <1>1, RipFact DEF Done, VmExitsTypeOK
<1>3. op' = "none" /\ UNCHANGED stopped
    BY DEF Done, Executed
<1>4. VmExitsTypeOK'
    BY <1>2, <1>3 DEF VmExitsTypeOK, HostState
<1>5. ControlsAreSet'
    <2>1. Interceptions' = Interceptions
        BY DEF Interceptions, MaskOf
    <2> QED
        BY <2>1 DEF ControlsAreSet
<1>6. GuestKeepsItsTables' /\ ExitsHaveReasons' /\ OnlyUnhandledStops'
    BY DEF GuestKeepsItsTables, VisibleSystem, ExitsHaveReasons, OnlyUnhandledStops
<1> QED
    BY <1>4, <1>5, <1>6

\* The operand is the guest's, unless RAX holds bits that EDX lacks.
LEMMA OperandOfGuest == Operand = EdxEax \/ Mixes
BY DEF Operand, EdxEax, Mixes

LEMMA DieInv ==
    ASSUME VmExitsInv, mode = "exit", Die, UNCHANGED <<features, savedMsrs, hostMsrs, controls, platform>>,
           \/ op \in Unhandled \/ op = "MOVCR3"
           \/ op = "CPUID" /\ regs.rax.lo = HyperSign
           \/ op = "RDMSR" /\ ~Exists(regs.rcx.lo)
           \/ op = "WRMSR" /\ ~Writable(regs.rcx.lo, Operand)
           \/ op = "XSETBV" /\ (regs.rcx.lo # {} \/ Operand \notin Xcr0Values)
    PROVE  VmExitsInv'
<1> USE DEF VmExitsInv, Die
<1>1. VmExitsTypeOK'
    BY DEF VmExitsTypeOK
<1>2. ControlsAreSet' /\ Interceptions' = Interceptions
    <2>1. Interceptions' = Interceptions
        BY DEF Interceptions, MaskOf
    <2> QED
        BY <2>1 DEF ControlsAreSet
<1>3. GuestKeepsItsTables' /\ ExitsHaveReasons'
    BY DEF GuestKeepsItsTables, VisibleSystem, ExitsHaveReasons
<1>4. ASSUME op = "MOVCR3"
      PROVE  "Cr3LoadExiting" \in (IF platform.any THEN platform.exact ELSE platform.plain)["primary"].zero
    <2>1. "Cr3LoadExiting" \in Interceptions["primary"]
        BY <1>4 DEF ExitsHaveReasons, Exits, ControlsAreSet
    <2> QED
        BY <2>1 DEF Interceptions, Fields, ApplyMask, MaskOf
<1>5. ASSUME \/ op = "RDMSR" /\ ~Exists(regs.rcx.lo)
             \/ op = "WRMSR" /\ ~Writable(regs.rcx.lo, Operand)
             \/ op = "XSETBV" /\ (regs.rcx.lo # {} \/ Operand \notin Xcr0Values)
      PROVE  \/ op \in {"RDMSR", "WRMSR", "XSETBV"} /\ Faults(op)
             \/ op \in {"WRMSR", "XSETBV"} /\ Mixes
    <2>1. CASE op = "RDMSR"
        BY <1>5, <2>1 DEF Faults
    <2>2. CASE op = "WRMSR"
        BY <1>5, <2>2, OperandOfGuest DEF Faults
    <2>3. CASE op = "XSETBV"
        BY <1>5, <2>3, OperandOfGuest DEF Faults
    <2> QED
        BY <1>5, <2>1, <2>2, <2>3
<1>7. Faults(op)' = Faults(op) /\ Mixes' = Mixes
    BY DEF Faults, Mixes, Writable, Exists, EdxEax
<1>6. OnlyUnhandledStops'
    BY <1>4, <1>5, <1>7 DEF OnlyUnhandledStops
<1> QED
    BY <1>1, <1>2, <1>3, <1>6

LEMMA TypesOfOperands ==
    ASSUME VmExitsTypeOK
    PROVE  /\ \A r \in {"rax", "rbx", "rcx", "rdx"} : regs[r].hi \in Half /\ regs[r].lo \in Half
           /\ regs \in Registers
           /\ Operand \in Word
<1>1. \A r \in {"rax", "rbx", "rcx", "rdx"} : regs[r] \in Word
    BY DEF VmExitsTypeOK, Registers
<1>2. \A r \in {"rax", "rbx", "rcx", "rdx"} : regs[r].hi \in Half /\ regs[r].lo \in Half
    BY <1>1 DEF Word
<1>3. regs.rdx.lo \cup regs.rax.hi \in Half
    BY <1>2 DEF Half
<1> QED
    BY <1>2, <1>3 DEF Operand, Word, VmExitsTypeOK

LEMMA CpuidHandlerInv ==
    ASSUME VmExitsInv, mode = "exit", op = "CPUID", CpuidHandler, UNCHANGED <<features, savedMsrs, hostMsrs, controls, platform>>
    PROVE  VmExitsInv'
<1>1. CASE regs.rax.lo = HyperSign
    BY <1>1, DieInv DEF CpuidHandler
<1>2. CASE regs.rax.lo # HyperSign
    <2>1. <<regs.rax.lo, regs.rcx.lo>> \in Half \X Half
        BY TypesOfOperands DEF VmExitsInv
    <2>2. PICK leaf \in [eax : Half, ebx : Half, ecx : Half, edx : Half] :
            regs' = [rax |-> ZeroExtended(leaf.eax), rbx |-> ZeroExtended(leaf.ebx),
                     rcx |-> ZeroExtended(leaf.ecx), rdx |-> ZeroExtended(leaf.edx)]
        BY <1>2, <2>1 DEF CpuidHandler
    <2>3. regs' \in Registers
        BY <2>2, WordFacts DEF Registers
    <2> QED
        BY <1>2, <2>3, ContinueInv DEF CpuidHandler, VmExitsInv, VmExitsTypeOK
<1> QED
    BY <1>1, <1>2

LEMMA XsetbvHandlerInv ==
    ASSUME VmExitsInv, mode = "exit", op = "XSETBV", XsetbvHandler, UNCHANGED <<features, savedMsrs, hostMsrs, controls, platform>>
    PROVE  VmExitsInv'
<1>1. CASE regs.rcx.lo = {} /\ Operand \in Xcr0Values
    BY <1>1, ContinueInv DEF XsetbvHandler, VmExitsInv, VmExitsTypeOK
<1>2. CASE ~(regs.rcx.lo = {} /\ Operand \in Xcr0Values)
    BY <1>2, DieInv DEF XsetbvHandler
<1> QED
    BY <1>1, <1>2

LEMMA RdmsrHandlerInv ==
    ASSUME VmExitsInv, mode = "exit", op = "RDMSR", RdmsrHandler, UNCHANGED <<features, savedMsrs, hostMsrs, controls, platform>>
    PROVE  VmExitsInv'
<1> DEFINE i == regs.rcx.lo
<1>1. CASE IsMsrAllowed(i) /\ ~Exists(i)
    BY <1>1, DieInv DEF RdmsrHandler
<1>2. CASE ~(IsMsrAllowed(i) /\ ~Exists(i))
    <2>1. msrs[i] \in Word
        BY TypesOfOperands DEF VmExitsInv, VmExitsTypeOK
    <2>2. SignExtended(msrs[i].hi) \in Word /\ ZeroExtended(msrs[i].lo) \in Word /\ Zero \in Word
        BY <2>1, WordFacts DEF Word
    <2>3. PICK high \in Word, low \in Word : regs' = [regs EXCEPT !.rdx = high, !.rax = low]
        BY <1>2, <2>2 DEF RdmsrHandler
    <2>4. regs' \in Registers
        BY <2>3, TypesOfOperands DEF VmExitsInv, Registers
    <2> QED
        BY <1>2, <2>4, ContinueInv DEF RdmsrHandler, VmExitsInv, VmExitsTypeOK
<1> QED
    BY <1>1, <1>2

LEMMA WrmsrHandlerInv ==
    ASSUME VmExitsInv, mode = "exit", op = "WRMSR", WrmsrHandler, UNCHANGED <<features, savedMsrs, hostMsrs, controls, platform>>
    PROVE  VmExitsInv'
<1> DEFINE i == regs.rcx.lo
<1>1. CASE IsMsrAllowed(i) /\ ~Writable(i, Operand)
    BY <1>1, DieInv DEF WrmsrHandler
<1>2. CASE ~(IsMsrAllowed(i) /\ ~Writable(i, Operand))
    <2>1. msrs' \in [Half -> Word]
        BY <1>2, TypesOfOperands DEF WrmsrHandler, VmExitsInv, VmExitsTypeOK
    <2> QED
        BY <1>2, <2>1, ContinueInv DEF WrmsrHandler, VmExitsInv, VmExitsTypeOK
<1> QED
    BY <1>1, <1>2

LEMMA VmcallHandlerInv ==
    ASSUME VmExitsInv, mode = "exit", VmcallHandler, UNCHANGED <<features, savedMsrs, hostMsrs, controls, platform>>
    PROVE  VmExitsInv'
<1>1. regs' \in Registers
    <2>1. PICK answer \in Answers :
            regs' = [regs EXCEPT !.rax =
                       CASE op = "VmmCall" -> Seen[system.cr3]
                         [] op = "VmmCallInCaller" -> Seen[saved.cr3]
                         [] op = "UnknownCall" -> ZeroExtended(HyperSign)
                         [] OTHER -> answer]
        BY DEF VmcallHandler
    <2>2. Seen[system.cr3] \in Word /\ Seen[saved.cr3] \in Word /\ ZeroExtended(HyperSign) \in Word
        BY WordFacts DEF VmExitsInv, VmExitsTypeOK, System
    <2>3. answer \in Word
        OBVIOUS
    <2>4. PICK w \in Word : regs' = [regs EXCEPT !.rax = w]
        BY <2>1, <2>2, <2>3
    <2> QED
        BY <2>4, TypesOfOperands DEF VmExitsInv, Registers
<1>2. stale' \in SUBSET {"linear", "physical"}
    BY DEF VmcallHandler, VmExitsInv, VmExitsTypeOK
<1> QED
    BY <1>1, <1>2, ContinueInv DEF VmcallHandler, VmExitsInv, VmExitsTypeOK

LEMMA VmxRelatedHandlerInv ==
    ASSUME VmExitsInv, mode = "exit", VmxRelatedHandler, UNCHANGED <<features, savedMsrs, hostMsrs, controls, platform>>
    PROVE  VmExitsInv'
<1>1. saved' \in System /\ saved'.tables = saved.tables
    BY DEF VmxRelatedHandler, VmExitsInv, VmExitsTypeOK, System
<1> QED
    BY <1>1, ContinueInv DEF VmxRelatedHandler, VmExitsInv, VmExitsTypeOK

\* Handle is the handler of the instruction that left the guest.
LEMMA HandleCases ==
    ASSUME VmExitsInv, Handle
    PROVE  \/ op = "CPUID" /\ CpuidHandler
           \/ op = "XSETBV" /\ XsetbvHandler
           \/ op \in Calls /\ VmcallHandler
           \/ op = "RDMSR" /\ RdmsrHandler
           \/ op = "WRMSR" /\ WrmsrHandler
           \/ op \in Flagging /\ VmxRelatedHandler
           \/ op \in Unhandled \cup {"MOVCR3"} /\ Die
<1>1. op \in Ops /\ op \notin Optional
    BY DEF VmExitsInv, VmExitsTypeOK, Handle, ExitsHaveReasons, Exits, Optional
<1>2. CASE op = "CPUID"
    <2>1. HandlersTable[op] = "CpuidHandler"
        BY <1>1, <1>2, HandlersFacts
    <2> QED
        BY <2>1, <1>2 DEF Handle
<1>3. CASE op = "XSETBV"
    <2>1. HandlersTable[op] = "XsetbvHandler"
        BY <1>1, <1>3, HandlersFacts
    <2> QED
        BY <2>1, <1>3 DEF Handle
<1>4. CASE op \in Calls
    <2>1. HandlersTable[op] = "VmcallHandler"
        BY <1>1, <1>4, HandlersFacts
    <2> QED
        BY <2>1, <1>4 DEF Handle
<1>5. CASE op = "RDMSR"
    <2>1. HandlersTable[op] = "RdmsrHandler"
        BY <1>1, <1>5, HandlersFacts
    <2> QED
        BY <2>1, <1>5 DEF Handle
<1>6. CASE op = "WRMSR"
    <2>1. HandlersTable[op] = "WrmsrHandler"
        BY <1>1, <1>6, HandlersFacts
    <2> QED
        BY <2>1, <1>6 DEF Handle
<1>7. CASE op \in Flagging
    <2>1. HandlersTable[op] = "VmxRelatedHandler"
        BY <1>1, <1>7, HandlersFacts
    <2> QED
        BY <2>1, <1>7 DEF Handle
<1>8. CASE op \in Unhandled \cup {"MOVCR3"}
    <2>1. HandlersTable[op] = "EmptyHandler"
        BY <1>1, <1>8 DEF HandlersTable, Unhandled, Calls, Flagging
    <2> QED
        BY <2>1, <1>8 DEF Handle
<1> QED
    BY <1>1, <1>2, <1>3, <1>4, <1>5, <1>6, <1>7, <1>8 DEF Ops

LEMMA HandleInv == ASSUME VmExitsInv, Handle PROVE VmExitsInv'
<1>1. mode = "exit" /\ UNCHANGED <<features, savedMsrs, hostMsrs, controls, platform>>
    BY DEF Handle
<1> QED
    BY <1>1, HandleCases, CpuidHandlerInv, XsetbvHandlerInv, VmcallHandlerInv, RdmsrHandlerInv,
       WrmsrHandlerInv, VmxRelatedHandlerInv, DieInv

LEMMA StutterInv == ASSUME VmExitsInv, UNCHANGED vars PROVE VmExitsInv'
<1>1. Interceptions' = Interceptions
    BY DEF vars, Interceptions, MaskOf
<1> QED
    BY <1>1 DEF vars, processorVars, VmExitsInv, VmExitsTypeOK, ControlsAreSet, GuestKeepsItsTables,
                VisibleSystem, ExitsHaveReasons, Exits, Secondary, OnlyUnhandledStops, Faults, Mixes,
                Writable, Exists, EdxEax

LEMMA InvAlways == Spec => []VmExitsInv
<1>1. ASSUME VmExitsInv, [Next]_vars
      PROVE  VmExitsInv'
    BY <1>1, LaunchInv, EnterInv, HandleInv, ComputeInv, ExitInv, RunNativeInv, FaultNativeInv, StutterInv
       DEF Next
<1> QED
    BY <1>1, InitInv, PTL DEF Spec

-----------------------------------------------------------------------------
(* What the guest sees is the processor of module Processor, but for the     *)
(* deviations.  Outside a handler the mapping shows the state itself, inside *)
(* one the guest area.                                                       *)

\* The mapping changes CR3, the MSRs and the instruction fetched: what is not
\* about them means the same in both.
LEMMA SameData ==
    /\ Machine!Optional = Optional /\ Machine!Calls = Calls
    /\ Machine!Flagging = Flagging /\ Machine!Unhandled = Unhandled
    /\ Machine!Ops = Ops /\ Machine!Feature = Feature
    /\ Machine!Half = Half /\ Machine!Word = Word /\ Machine!Zero = Zero
    /\ Machine!Registers = Registers /\ Machine!System = System
    /\ Machine!EdxEax = EdxEax
    /\ \A h : Machine!ZeroExtended(h) = ZeroExtended(h)
    /\ \A i : Machine!Exists(i) = Exists(i)
    /\ \A i, v : Machine!Writable(i, v) = Writable(i, v)
<1>1. /\ Machine!Optional = Optional /\ Machine!Calls = Calls
      /\ Machine!Flagging = Flagging /\ Machine!Unhandled = Unhandled
    BY DEF Machine!Optional, Optional, Machine!Calls, Calls, Machine!Flagging, Flagging, Machine!Unhandled, Unhandled
<1>2. Machine!Ops = Ops /\ Machine!Feature = Feature
    BY <1>1 DEF Machine!Ops, Ops, Machine!Feature, Feature
<1>3. Machine!Half = Half /\ Machine!Zero = Zero /\ Machine!EdxEax = EdxEax
    BY DEF Machine!Half, Half, Machine!Zero, Zero, Machine!EdxEax, EdxEax
<1>4. Machine!Word = Word
    BY <1>3 DEF Machine!Word, Word
<1>5. Machine!Registers = Registers /\ Machine!System = System
    BY <1>4 DEF Machine!Registers, Registers, Machine!System, System
<1>6. \A h : Machine!ZeroExtended(h) = ZeroExtended(h)
    BY DEF Machine!ZeroExtended, ZeroExtended
<1>7. \A i : Machine!Exists(i) = Exists(i)
    BY DEF Machine!Exists, Exists
<1>8. \A i, v : Machine!Writable(i, v) = Writable(i, v)
    BY <1>7 DEF Machine!Writable, Writable
<1> QED
    BY <1>1, <1>2, <1>3, <1>4, <1>5, <1>6, <1>7, <1>8

\* A step of one instruction of the processor.
LEMMA StepOf ==
    ASSUME VmExitsInv, mode # "dead", UNCHANGED features,
           \/ Machine!ByItself \/ Machine!Cpuid \/ Machine!Rdmsr \/ Machine!Wrmsr \/ Machine!Xsetbv
           \/ Machine!Hypercall \/ Machine!Switch \/ Machine!Stop
           \/ \E o \in Ops : Machine!Fetch(o) \/ Machine!Run(o) \/ Machine!Fault(o)
    PROVE  Machine!ProcessorNext
<1>1. ~stopped
    BY DEF VmExitsInv, VmExitsTypeOK
<1> QED
    BY <1>1, SameData DEF Machine!ProcessorNext

\* A step that tells the guest where it is.
LEMMA DeviationOf ==
    ASSUME VmExitsInv, mode # "dead", UNCHANGED features,
           \/ UnknownMsr \/ SignedMsr \/ MixedOperand \/ HostsMsr \/ UnsetMsr \/ AnsweredCall
           \/ \E o \in Ops : OwnCall(o) \/ FailedVmx(o)
    PROVE  Deviation
BY DEF Deviation, VmExitsInv, VmExitsTypeOK

LEMMA InitImplements == Init => Machine!ProcessorInit
<1> SUFFICES ASSUME Init PROVE Machine!ProcessorInit
    OBVIOUS
<1>1. features \in SUBSET Feature
    BY DEF Init, ProcessorInit
<1>2. VisibleSystem = system /\ VisibleMsrs = msrs /\ Fetched = "none"
    BY DEF Init, ProcessorInit, VisibleSystem, VisibleMsrs, Fetched
<1> QED
    BY <1>1, <1>2, SameData DEF Init, ProcessorInit, Machine!ProcessorInit

LEMMA LaunchImplements == ASSUME VmExitsInv, Launch PROVE Deviation
<1>1. /\ VisibleSystem' = VisibleSystem /\ Fetched' = Fetched
      /\ VisibleMsrs = msrs /\ VisibleMsrs' = msrs'
    BY DEF Launch, VisibleSystem, VisibleMsrs, Fetched
<1>2. UnsetMsr
    BY <1>1 DEF Launch, UnsetMsr
<1> QED
    BY <1>2, DeviationOf DEF Launch

LEMMA EnterImplements == ASSUME VmExitsInv, Enter PROVE UNCHANGED Machine!processorVars
<1>1. LoadsDebug
    BY InterceptionsFacts DEF Enter, VmExitsInv, VmExitsTypeOK, ControlsAreSet, LoadsDebug
<1>2. system' = saved
    BY <1>1 DEF Enter, VmExitsInv, VmExitsTypeOK, System
<1>3. msrs' = Swapped(savedMsrs)
    BY <1>1 DEF Enter, VmExitsInv, VmExitsTypeOK
<1> QED
    BY <1>2, <1>3 DEF Enter, Machine!processorVars, VisibleSystem, VisibleMsrs, Fetched

LEMMA ExitImplements == ASSUME VmExitsInv, NEW o \in Ops, Exit(o) PROVE Machine!ProcessorNext
<1>1. SavesDebug
    BY InterceptionsFacts DEF Exit, VmExitsInv, VmExitsTypeOK, ControlsAreSet, SavesDebug
<1>2. saved' = system
    BY <1>1 DEF Exit, SavedState, VmExitsInv, VmExitsTypeOK, System
<1>3. Fetched = "none" /\ Fetched' = o
    BY DEF Exit, Fetched, VmExitsInv, VmExitsTypeOK
<1>4. VisibleMsrs' = VisibleMsrs
    <2>1. savedMsrs' = [i \in HeldMsrs |-> msrs[i]]
        BY <1>1 DEF Exit, SavedMsrs
    <2>2. \A i \in Half : i \notin HeldMsrs => msrs'[i] = msrs[i]
        BY DEF Exit, Swapped
    <2>3. Swapped(savedMsrs)' = [i \in Half |-> msrs[i]]
        BY <2>1, <2>2 DEF Swapped
    <2>4. msrs = [i \in Half |-> msrs[i]]
        BY DEF VmExitsInv, VmExitsTypeOK
    <2>5. VisibleMsrs = msrs /\ VisibleMsrs' = Swapped(savedMsrs)'
        BY DEF Exit, VisibleMsrs
    <2> QED
        BY <2>3, <2>4, <2>5
<1>5. Machine!Fetch(o)
    BY <1>2, <1>3, <1>4 DEF Exit, Machine!Fetch, VisibleSystem
<1> QED
    BY <1>5, StepOf DEF Exit

LEMMA ComputeImplements == ASSUME VmExitsInv, Compute PROVE Machine!ProcessorNext
<1> USE DEF Compute, Outside
<1>1. /\ Fetched = "none" /\ Fetched' = "none" /\ VisibleSystem = system /\ VisibleSystem' = system'
      /\ VisibleMsrs' = VisibleMsrs
    BY DEF Fetched, VisibleSystem, VisibleMsrs, VmExitsInv, VmExitsTypeOK
<1>2. CASE regs' \in Loads /\ UNCHANGED <<system, stale>>
    <2>1. regs' \in Machine!Registers
        BY <1>2, SameData
    <2> QED
        BY <1>1, <1>2, <2>1, StepOf DEF Machine!ByItself
<1>3. CASE \E s \in Systems : system' = [s EXCEPT !.tables = system.tables] /\ UNCHANGED <<regs, stale>>
    <2>1. PICK s \in Systems : system' = [s EXCEPT !.tables = system.tables] /\ UNCHANGED <<regs, stale>>
        BY <1>3
    <2>2. system' \in System /\ system'.tables = system.tables
        BY <2>1 DEF System, VmExitsInv, VmExitsTypeOK
    <2>3. system' \in Machine!System
        BY <2>2, SameData
    <2> QED
        BY <1>1, <2>1, <2>2, <2>3, StepOf DEF Machine!ByItself
<1>4. CASE \E kind \in {"linear", "physical"} : stale' = {kind} /\ UNCHANGED <<regs, system>>
    BY <1>1, <1>4, StepOf DEF Machine!ByItself
<1> QED
    BY <1>2, <1>3, <1>4
-----------------------------------------------------------------------------
(* Instructions that run in the guest. *)

LEMMA RunNativeImplements == ASSUME VmExitsInv, NEW o \in Ops, RunNative(o) PROVE Machine!ProcessorNext
<1> USE DEF RunNative, Outside
<1>1. /\ Fetched = "none" /\ VisibleSystem = system /\ VisibleSystem' = system'
      /\ VisibleMsrs = msrs /\ VisibleMsrs' = msrs'
      /\ mode = "guest" /\ mode' = "guest" /\ UNCHANGED features
    BY DEF Fetched, VisibleSystem, VisibleMsrs, VmExitsInv, VmExitsTypeOK
<1>2. ASSUME Done(o) PROVE Machine!Done(o)
    BY <1>1, <1>2 DEF Machine!Done, Done, Machine!Executed, Executed, Fetched
<1>3. CASE o = "RDMSR" /\ Rdmsr
    <2>1. Machine!Rdmsr
        BY <1>1, <1>2, <1>3, SameData DEF Machine!Rdmsr, Rdmsr, Machine!Reads, Reads
    <2> QED
        BY <1>1, <2>1, StepOf
<1>4. CASE o = "WRMSR" /\ Wrmsr
    <2>1. Machine!Wrmsr
        BY <1>1, <1>2, <1>4, SameData DEF Machine!Wrmsr, Wrmsr, Machine!Writes, Writes
    <2> QED
        BY <1>1, <2>1, StepOf
<1>5. CASE o = "MOVCR3" /\ Switch
    <2>1. Machine!Switch
        BY <1>1, <1>2, <1>5 DEF Machine!Switch, Switch
    <2> QED
        BY <1>1, <2>1, StepOf
<1>6. CASE o \in Optional /\ Enabling(o) \in Secondary /\ Run(o)
    <2>1. Machine!Run(o)
        BY <1>1, <1>2, <1>6, SameData DEF Machine!Run, Run
    <2> QED
        BY <1>1, <2>1, StepOf
<1> QED
    BY <1>3, <1>4, <1>5, <1>6

\* An instruction faults in the guest where it would have without one.
LEMMA FaultNativeImplements == ASSUME VmExitsInv, NEW o \in Ops, FaultNative(o) PROVE Machine!ProcessorNext
<1> USE DEF FaultNative, Outside
<1>1. /\ Fetched = "none" /\ Fetched' = "none" /\ VisibleSystem = system /\ VisibleSystem' = system'
      /\ VisibleMsrs' = VisibleMsrs
    BY DEF Fetched, VisibleSystem, VisibleMsrs, VmExitsInv, VmExitsTypeOK
<1>2. \/ o \in Optional \ features
      \/ o = "RDMSR" /\ ~Exists(regs.rcx.lo)
      \/ o = "WRMSR" /\ ~Writable(regs.rcx.lo, EdxEax)
      \/ o = "VMFUNC"
    <2>1. CASE o \in Optional /\ Enabling(o) \notin Secondary
        <3>1. /\ controls = Interceptions
              /\ o \in features <=> Enabling(o) \in platform.secondary.one
            BY <2>1 DEF VmExitsInv, ControlsAreSet, Optional
        <3>2. Enabling(o) \notin platform.secondary.one
            BY <2>1, <3>1, InterceptionsFacts DEF Secondary, VmExitsInv, VmExitsTypeOK
        <3> QED
            BY <2>1, <3>1, <3>2
    <2> QED
        BY <2>1
<1>3. Machine!Faults(o)
    BY <1>2, SameData DEF Machine!Faults, Unhandled
<1>4. Machine!Fault(o)
    BY <1>1, <1>3 DEF Machine!Fault, Machine!Executed
<1> QED
    BY <1>4, StepOf
-----------------------------------------------------------------------------
(* Instructions that a handler carries out. *)

\* What is common to the handlers that let the guest go on.
LEMMA ContinueShows ==
    ASSUME VmExitsInv, mode = "exit", Continue
    PROVE  /\ Machine!Done(op)
           /\ Fetched = op
           /\ VisibleSystem = saved /\ VisibleSystem' = saved'
           /\ VisibleMsrs = Swapped(savedMsrs) /\ VisibleMsrs' = Swapped(savedMsrs)'
           /\ UNCHANGED <<msrs, savedMsrs>> => VisibleMsrs' = VisibleMsrs
BY DEF Continue, Done, Executed, Machine!Done, Machine!Executed, Fetched, VisibleSystem, VisibleMsrs, Swapped

\* The bitmap of this platform does not cover an MSR whose access has left
\* the guest.
LEMMA TrappedMsr ==
    ASSUME VmExitsInv, mode = "exit", op \in {"RDMSR", "WRMSR"}
    PROVE  Trapped(regs.rcx.lo)
BY DEF VmExitsInv, ExitsHaveReasons, Exits, ControlsAreSet, Trapped

LEMMA DieImplements == ASSUME VmExitsInv, mode = "exit", Die, UNCHANGED savedMsrs PROVE Machine!Stop
BY DEF Die, Machine!Stop, Fetched, VisibleSystem, VisibleMsrs, Swapped

LEMMA CpuidImplements ==
    ASSUME VmExitsInv, mode = "exit", op = "CPUID", CpuidHandler, UNCHANGED savedMsrs
    PROVE  Machine!Cpuid \/ Machine!Stop
<1>1. CASE regs.rax.lo = HyperSign
    BY <1>1, DieImplements DEF CpuidHandler
<1>2. CASE regs.rax.lo # HyperSign
    <2>1. Continue /\ UNCHANGED <<system, msrs, xcr0, stale, saved>>
        BY <1>2 DEF CpuidHandler
    <2>2. Machine!Cpuid
        BY <1>2, <2>1, ContinueShows, SameData DEF CpuidHandler, Machine!Cpuid
    <2> QED
        BY <2>2
<1> QED
    BY <1>1, <1>2

LEMMA XsetbvImplements ==
    ASSUME VmExitsInv, mode = "exit", op = "XSETBV", XsetbvHandler, UNCHANGED savedMsrs
    PROVE  Machine!Xsetbv \/ MixedOperand \/ Machine!Stop
<1>1. CASE regs.rcx.lo = {} /\ Operand \in Xcr0Values
    <2>1. Continue /\ xcr0' = Operand /\ UNCHANGED <<regs, system, msrs, stale, saved>>
        BY <1>1 DEF XsetbvHandler
    <2>2. Machine!Sets(Operand)
        BY <1>1, <2>1, ContinueShows DEF Machine!Sets
    <2> QED
        BY <2>2, OperandOfGuest, SameData DEF Machine!Xsetbv, MixedOperand
<1>2. CASE ~(regs.rcx.lo = {} /\ Operand \in Xcr0Values)
    BY <1>2, DieImplements DEF XsetbvHandler
<1> QED
    BY <1>1, <1>2

LEMMA RdmsrImplements ==
    ASSUME VmExitsInv, mode = "exit", op = "RDMSR", RdmsrHandler, UNCHANGED savedMsrs
    PROVE  Machine!Rdmsr \/ UnknownMsr \/ SignedMsr \/ HostsMsr \/ Machine!Stop
<1> DEFINE i == regs.rcx.lo
<1>1. CASE IsMsrAllowed(i) /\ ~Exists(i)
    BY <1>1, DieImplements DEF RdmsrHandler
<1>2. CASE ~IsMsrAllowed(i)
    <2>1. Continue /\ UNCHANGED <<system, msrs, xcr0, stale, saved>>
        BY <1>2 DEF RdmsrHandler
    <2>2. regs' = [regs EXCEPT !.rax = Zero, !.rdx = Zero]
        BY <1>2, TypesOfOperands DEF RdmsrHandler, VmExitsInv, Registers
    <2>3. Machine!Reads(Zero, {})
        BY <2>1, <2>2, ContinueShows, SameData DEF Machine!Reads, ZeroExtended, Zero
    <2> QED
        BY <1>2, <2>3 DEF UnknownMsr
<1>3. CASE IsMsrAllowed(i) /\ Exists(i)
    <2>1. Continue /\ UNCHANGED <<system, msrs, xcr0, stale, saved>>
        BY <1>3 DEF RdmsrHandler
    <2> DEFINE upper == IF SignBit \in msrs[i].hi THEN Bits ELSE {}
    <2>2. regs' = [regs EXCEPT !.rax = ZeroExtended(msrs[i].lo), !.rdx = [hi |-> upper, lo |-> msrs[i].hi]]
        <3>1. SignExtended(msrs[i].hi) = [hi |-> upper, lo |-> msrs[i].hi]
            BY DEF SignExtended
        <3>2. regs' = [regs EXCEPT !.rdx = SignExtended(msrs[i].hi), !.rax = ZeroExtended(msrs[i].lo)]
            BY <1>3 DEF RdmsrHandler
        <3> HIDE DEF upper
        <3> QED
            BY <3>1, <3>2, TypesOfOperands DEF VmExitsInv, Registers
    <2>3. Machine!Reads(msrs[i], upper)
        BY <2>1, <2>2, ContinueShows, SameData DEF Machine!Reads
    <2>4. CASE i \in HeldMsrs
        <3>1. msrs[i] = hostMsrs[i]
            BY <2>4 DEF VmExitsInv, VmExitsTypeOK
        <3> QED
            BY <2>3, <2>4, <3>1, TrappedMsr DEF HostsMsr
    <2>5. CASE i \notin HeldMsrs
        <3>1. i \in Half
            BY TypesOfOperands DEF VmExitsInv
        <3>2. VisibleMsrs[i] = msrs[i]
            BY <2>1, <2>5, <3>1, ContinueShows DEF Swapped
        <3>3. CASE SignBit \in msrs[i].hi
            BY <1>3, <2>3, <3>2, <3>3, TrappedMsr DEF SignedMsr
        <3>4. CASE SignBit \notin msrs[i].hi
            BY <1>3, <2>3, <3>2, <3>4, SameData DEF Machine!Rdmsr
        <3> QED
            BY <3>3, <3>4
    <2> QED
        BY <2>4, <2>5
<1> QED
    BY <1>1, <1>2, <1>3

LEMMA WrmsrImplements ==
    ASSUME VmExitsInv, mode = "exit", op = "WRMSR", WrmsrHandler, UNCHANGED savedMsrs
    PROVE  Machine!Wrmsr \/ UnknownMsr \/ MixedOperand \/ HostsMsr \/ Machine!Stop
<1> DEFINE i == regs.rcx.lo
<1>1. CASE IsMsrAllowed(i) /\ ~Writable(i, Operand)
    BY <1>1, DieImplements DEF WrmsrHandler
<1>2. CASE ~IsMsrAllowed(i)
    <2>1. Continue /\ UNCHANGED <<regs, system, msrs, xcr0, stale, saved>>
        BY <1>2 DEF WrmsrHandler
    <2>2. Machine!Writes(VisibleMsrs)
        BY <2>1, ContinueShows DEF Machine!Writes
    <2> QED
        BY <1>2, <2>2 DEF UnknownMsr
<1>3. CASE IsMsrAllowed(i) /\ Writable(i, Operand)
    <2>1. /\ Continue /\ UNCHANGED <<regs, system, xcr0, stale, saved>>
          /\ msrs' = [msrs EXCEPT ![i] = Operand]
        BY <1>3 DEF WrmsrHandler
    <2>2. ASSUME NEW c, VisibleMsrs' = c PROVE Machine!Writes(c)
        BY <2>1, <2>2, ContinueShows DEF Machine!Writes
    <2>3. /\ VisibleMsrs = [j \in Half |-> IF j \in HeldMsrs THEN savedMsrs[j] ELSE msrs[j]]
          /\ VisibleMsrs' = [j \in Half |-> IF j \in HeldMsrs THEN savedMsrs[j] ELSE msrs'[j]]
        BY <2>1, ContinueShows DEF Swapped
    <2>4. msrs \in [Half -> Word] /\ i \in Half
        BY TypesOfOperands DEF VmExitsInv, VmExitsTypeOK
    <2>5. CASE i \in HeldMsrs
        <3>1. VisibleMsrs' = VisibleMsrs
            BY <2>1, <2>3, <2>4, <2>5
        <3> QED
            BY <2>2, <2>5, <3>1, TrappedMsr DEF HostsMsr
    <2>6. CASE i \notin HeldMsrs
        <3>1. VisibleMsrs' = [VisibleMsrs EXCEPT ![i] = Operand]
            BY <2>1, <2>3, <2>4, <2>6
        <3>2. Machine!Writes([VisibleMsrs EXCEPT ![i] = Operand])
            BY <2>2, <3>1
        <3>3. CASE Operand = EdxEax
            BY <1>3, <3>2, <3>3, SameData DEF Machine!Wrmsr
        <3>4. CASE Mixes
            BY <1>3, <3>2, <3>4, TrappedMsr DEF MixedOperand
        <3> QED
            BY <3>3, <3>4, OperandOfGuest
    <2> QED
        BY <2>5, <2>6
<1> QED
    BY <1>1, <1>2, <1>3

LEMMA VmcallImplements ==
    ASSUME VmExitsInv, mode = "exit", op \in Calls, VmcallHandler, UNCHANGED savedMsrs
    PROVE  OwnCall(op) \/ Machine!Hypercall \/ AnsweredCall
<1>1. PICK answer \in Answers :
        regs' = [regs EXCEPT !.rax =
                   CASE op = "VmmCall" -> Seen[system.cr3]
                     [] op = "VmmCallInCaller" -> Seen[saved.cr3]
                     [] op = "UnknownCall" -> ZeroExtended(HyperSign)
                     [] OTHER -> answer]
    BY DEF VmcallHandler
<1>2. /\ Continue /\ UNCHANGED <<system, msrs, xcr0, saved>>
      /\ stale' = IF op = "Hypercall" THEN stale \ Invalidated ELSE stale
    BY DEF VmcallHandler
<1>3. system.cr3 = KernelCr3
    BY DEF VmExitsInv, VmExitsTypeOK, HostState
<1>4. CASE op = "VmmCall"
    <2>1. regs' = [regs EXCEPT !.rax = Seen[KernelCr3]]
        BY <1>1, <1>3, <1>4
    <2> QED
        BY <1>2, <1>4, <2>1, ContinueShows DEF OwnCall
<1>5. CASE op = "VmmCallInCaller"
    <2>1. regs' = [regs EXCEPT !.rax = Seen[saved.cr3]]
        BY <1>1, <1>5
    <2> QED
        BY <1>2, <1>5, <2>1, ContinueShows DEF OwnCall
<1>6. CASE op = "UnknownCall"
    <2>1. regs' = [regs EXCEPT !.rax = ZeroExtended(HyperSign)]
        BY <1>1, <1>6
    <2> QED
        BY <1>2, <1>6, <2>1, ContinueShows DEF OwnCall
<1>7. CASE op = "Hypercall"
    <2>1. regs' = [regs EXCEPT !.rax = answer]
        BY <1>1, <1>7
    <2>2. /\ stale' = stale \ Invalidated
          /\ regs.rcx.lo \in LinearFlush => "linear" \in Invalidated
          /\ regs.rcx.lo \in PhysicalFlush => "physical" \in Invalidated
        BY <1>2, <1>7 DEF Invalidated
    <2>3. CASE "Hypercall" \in features
        <3>1. Machine!Hypercall
            BY <1>2, <1>7, <2>1, <2>2, <2>3, ContinueShows DEF Machine!Hypercall
        <3> QED
            BY <3>1
    <2>4. CASE "Hypercall" \notin features
        <3>1. AnsweredCall
            BY <1>2, <1>7, <2>1, <2>2, <2>4, ContinueShows DEF AnsweredCall
        <3> QED
            BY <3>1
    <2> QED
        BY <2>3, <2>4
<1> QED
    BY <1>4, <1>5, <1>6, <1>7 DEF Calls

LEMMA VmxRelatedImplements ==
    ASSUME VmExitsInv, mode = "exit", op \in Flagging, VmxRelatedHandler, UNCHANGED savedMsrs
    PROVE  FailedVmx(op)
<1>1. Continue /\ saved' = [saved EXCEPT !.flags = @ \cup {"CF"}] /\ UNCHANGED <<regs, system, msrs, xcr0, stale>>
    BY DEF VmxRelatedHandler
<1> QED
    BY <1>1, ContinueShows DEF FailedVmx

LEMMA HandleImplements == ASSUME VmExitsInv, Handle PROVE Machine!ProcessorNext \/ Deviation
<1>1. mode = "exit" /\ UNCHANGED <<features, savedMsrs>> /\ op \in Ops
    BY DEF Handle, VmExitsInv, VmExitsTypeOK
<1>2. \/ Machine!Cpuid \/ Machine!Xsetbv \/ Machine!Stop \/ Machine!Rdmsr \/ Machine!Wrmsr \/ Machine!Hypercall
      \/ UnknownMsr \/ SignedMsr \/ MixedOperand \/ HostsMsr \/ AnsweredCall \/ OwnCall(op) \/ FailedVmx(op)
    BY <1>1, HandleCases, CpuidImplements, XsetbvImplements, VmcallImplements, RdmsrImplements,
       WrmsrImplements, VmxRelatedImplements, DieImplements
<1>3. CASE \/ Machine!Cpuid \/ Machine!Xsetbv \/ Machine!Stop \/ Machine!Rdmsr \/ Machine!Wrmsr
           \/ Machine!Hypercall
    BY <1>1, <1>3, StepOf
<1>4. CASE \/ UnknownMsr \/ SignedMsr \/ MixedOperand \/ HostsMsr \/ AnsweredCall \/ OwnCall(op)
           \/ FailedVmx(op)
    BY <1>1, <1>4, DeviationOf
<1> QED
    BY <1>2, <1>3, <1>4

LEMMA StepImplements ==
    ASSUME VmExitsInv, [Next]_vars
    PROVE  [Machine!ProcessorNext \/ Deviation]_(Machine!processorVars)
<1>1. ASSUME UNCHANGED vars PROVE UNCHANGED Machine!processorVars
    BY <1>1 DEF vars, processorVars, Machine!processorVars, VisibleSystem, VisibleMsrs, Swapped, Fetched
<1> QED
    BY <1>1, LaunchImplements, EnterImplements, HandleImplements, ComputeImplements, ExitImplements,
       RunNativeImplements, FaultNativeImplements DEF Next
-----------------------------------------------------------------------------
\* The types of the registers, of the VMCS and of the controls, on every
\* platform (VmxVmExitHandler and VmxVmmRun).
THEOREM VmExitsTypes == Spec => []VmExitsTypeOK
BY InvAlways, PTL DEF VmExitsInv

\* Whatever the platform forces on or off, whatever values its MSRs take and
\* whatever the registers hold, the machine stops only at the instructions
\* that InitHandlersTable leaves out, at the CPUID that ends virtualization,
\* at moves to CR3 that the platform makes leave the guest, where RDMSR, WRMSR
\* and XSETBV fault on the processor itself, and at operands of the last two
\* that the handlers mix up.
THEOREM StopsAreUnhandled == Spec => []OnlyUnhandledStops
BY InvAlways, PTL DEF VmExitsInv

\* On every platform and with every contents of registers and MSRs, a guest
\* sees the bare processor of module Processor but for the deviations that
\* VmExits names (VirtualizeProcessor, VmxVmExitHandler, the handlers it calls
\* and VmxVmmRun).
THEOREM GuestSeesTheProcessor == Spec => BehavesAsTheProcessor
BY InvAlways, InitImplements, StepImplements, PTL DEF Spec, BehavesAsTheProcessor
=============================================================================
