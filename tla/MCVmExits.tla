------------------------------ MODULE MCVmExits ------------------------------
(* A small instance of VmExits for TLC: halves of two bits, so that every    *)
(* half is an index, a leaf or an operand of some instruction.               *)
EXTENDS VmExits

MCLength == [o \in Ops |-> IF o \in Flagging THEN 3 ELSE 1]
MCLeaf == [x \in Half \X Half |->
             [eax |-> IF x[1] = {} THEN {0, 1} ELSE {0}, ebx |-> {}, ecx |-> x[2], edx |-> {}]]
MCHyperSign == {0, 1}

\* {0} is IA32_DEBUGCTL, {} is IA32_SYSENTER_CS, {1} an MSR of Hyper-V, {0, 1}
\* an MSR that IsMsrAllowed does not know.
MCHeldMsrs == {{}, {0}}
MCPlainMsrs == MCHeldMsrs
MCHyperVMsrs == {{1}}
MCPresent == {{}, {0}, {1}}
Written == {[hi |-> {1}, lo |-> {0}], [hi |-> {}, lo |-> {0, 1}]}
MCAccepts == [i \in Half |-> IF i \in MCPresent THEN Written ELSE {}]
MCInitialMsrs == {[i \in Half |-> [hi |-> {}, lo |-> {0}]]}
MCXcr0Values == {[hi |-> {}, lo |-> {0}], [hi |-> {1}, lo |-> {0}]}
MCLinearFlush == {{0}}
MCPhysicalFlush == {{1}}
MCAnswers == {ZeroExtended({0})}
MCUnwritten == {Zero}
MCCr3s == {"kernel", "user"}
MCSeen == [c \in MCCr3s |-> IF c = "kernel" THEN ZeroExtended({0}) ELSE ZeroExtended({0, 1})]

\* RAX and RDX as a 64-bit value shifted down leaves them, as two halves
\* leave them, and with an upper half that changes what WRMSR and XSETBV do or
\* has them fault.
Load(rax, rdx, index) ==
    [rax |-> rax, rbx |-> Zero, rcx |-> ZeroExtended(index), rdx |-> ZeroExtended(rdx)]
MCLoads ==
    {Load([hi |-> {1}, lo |-> {0}], {1}, i) : i \in {{}, {1}}}
      \cup {Load([hi |-> {}, lo |-> {0, 1}], {}, {0})}
      \cup {Load([hi |-> {1}, lo |-> {0}], {}, i) : i \in {{}, {1}}}
      \cup {Load([hi |-> {0}, lo |-> {0}], {}, i) : i \in {{}, {0, 1}}}

MCSystems ==
    {[cr3 |-> "user", tables |-> "own", dr7 |-> "off", flags |-> {"IF"}],
     [cr3 |-> "user", tables |-> "own", dr7 |-> "set", flags |-> {}]}

\* A processor of today under Hyper-V, and an early one under nobody, that
\* always leaves the guest at moves to CR3 and has no MSR bitmap, no INVPCID
\* and no XSAVES.
Mask(z, o) == [zero |-> z, one |-> o]
FieldsOf(primary) ==
    [f \in Fields |-> IF f = "primary" THEN primary
                      ELSE Mask({}, {"SaveDebugControls", "HostAddressSpaceSize",
                                     "LoadDebugControls", "Ia32ModeGuest"})]
Early == FieldsOf(Mask({"Cr3LoadExiting"}, {"ActivateSecondaryControls", "Cr3LoadExiting"}))
Modern == FieldsOf(Mask({}, {"UseMsrBitmaps", "ActivateSecondaryControls", "Cr3LoadExiting"}))
SecondaryBits == {"EnableEpt", "EnableRdtscp", "EnableVpid"}
MCPlatforms ==
    {[any |-> TRUE, outer |-> TRUE, plain |-> Early, exact |-> Modern,
      secondary |-> Mask({}, SecondaryBits \cup {"EnableInvpcid", "EnableVmFunctions",
                                                 "EnableXsavesXrstors"})],
     [any |-> FALSE, outer |-> FALSE, plain |-> Early, exact |-> Modern, secondary |-> Mask({}, SecondaryBits)]}
=============================================================================
