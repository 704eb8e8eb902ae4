-------------------------------- MODULE Ioctl --------------------------------
(***************************************************************************)
(* Device requests: how the application's wrappers encode them and how the *)
(* driver finds the handler of a code (IOCTLRequests.cpp, SendIOCTLs.cpp,  *)
(* IOCTLs.hpp, CtlTypes.hpp, IOCTLHandlers.cpp).  A buffer is its size in  *)
(* bytes; what a handler answers to a well-formed request depends on parts *)
(* of the driver modelled elsewhere, so it may be any of its results.      *)
(***************************************************************************)
EXTENDS Naturals, Sequences

CtlBase == 2048
MethodNeither == 3

\* CTL_CODE without the device type, which nothing reads.
CtlCode(code, method) == code * 4 + method
ExtractCtlCode(ioctl) == (ioctl \div 4) % 4096

\* Ctls::CtlIndices, from zero.
CtlIndices == [MvVmmEnable |-> 0, MvVmmDisable |-> 1, MvVmmInterceptPage |-> 2,
    MvVmmDeinterceptPage |-> 3, MvVmmTraceProcess |-> 4, MvVmmInitTraceProcess |-> 5,
    MvGetHandlesCount |-> 6, MvTranslate |-> 7, MvNativeTranslate |-> 8,
    MvGetProcessCr3 |-> 9, MvGetEprocess |-> 10]

\* The table of DispatchIOCTL.
Handlers == <<"MvVmmEnable", "MvVmmDisable", "MvVmmInterceptPage", "MvVmmDeinterceptPage",
    "MvVmmTraceProcess", "MvVmmInitTraceProcess", "MvGetHandlesCount", "MvTranslate",
    "MvNativeTranslate", "MvGetProcessCr3", "MvGetEprocess">>

\* What each wrapper of the application sends; MvGetEprocess is MvGetEProcess.
Send(ctl, in, out) == [ctl |-> ctl, in |-> in, out |-> out]
Wrappers == [
    MvVmmEnable |-> Send("MvVmmEnable", 0, 0),
    MvVmmDisable |-> Send("MvVmmDisable", 0, 0),
    MvVmmInterceptPage |-> Send("MvVmmInterceptPage", 48, 0),
    MvVmmDeinterceptPage |-> Send("MvVmmDeinterceptPage", 8, 0),
    MvVmmTraceProcess |-> Send("MvVmmTraceProcess", 24, 32),
    MvVmmInitTraceProcess |-> Send("MvVmmInitTraceProcess", 24, 0),
    MvGetHandlesCount |-> Send("MvGetHandlesCount", 0, 4),
    MvTranslate |-> Send("MvTranslate", 16, 8),
    MvNativeTranslate |-> Send("MvNativeTranslate", 16, 8),
    MvGetProcessCr3 |-> Send("MvGetProcessCr3", 16, 8),
    MvGetEprocess |-> Send("MvGetProcessCr3", 8, 8)]

\* The sizes each handler asks for, where it asks.
Sizes == [
    MvVmmInterceptPage |-> [in |-> {48}, out |-> Nat],
    MvVmmDeinterceptPage |-> [in |-> {8}, out |-> Nat],
    MvVmmTraceProcess |-> [in |-> {24}, out |-> {32}],
    MvVmmInitTraceProcess |-> [in |-> {24}, out |-> Nat],
    MvGetHandlesCount |-> [in |-> Nat, out |-> {4}],
    MvTranslate |-> [in |-> {16}, out |-> {8}],
    MvNativeTranslate |-> [in |-> {16}, out |-> {8}],
    MvGetProcessCr3 |-> [in |-> {16}, out |-> {8}],
    MvGetEprocess |-> [in |-> {8}, out |-> {8}]]

SizesFit(handler, in, out) ==
    handler \in DOMAIN Sizes => in \in Sizes[handler].in /\ out \in Sizes[handler].out

\* The results of the handlers once the sizes fit.
Results == [
    MvVmmEnable |-> {"SUCCESS", "UNSUCCESSFUL"},
    MvVmmDisable |-> {"SUCCESS", "UNSUCCESSFUL"},
    MvVmmInterceptPage |-> {"SUCCESS", "NOT_SUPPORTED"},
    MvVmmDeinterceptPage |-> {"SUCCESS", "NOT_SUPPORTED"},
    MvVmmTraceProcess |-> {"SUCCESS", "INVALID_PARAMETER"},
    MvVmmInitTraceProcess |-> {"SUCCESS", "INVALID_PARAMETER", "UNSUCCESSFUL"},
    MvGetHandlesCount |-> {"SUCCESS", "INVALID_PARAMETER"},
    MvTranslate |-> {"SUCCESS", "INVALID_PARAMETER", "UNSUCCESSFUL"},
    MvNativeTranslate |-> {"SUCCESS", "INVALID_PARAMETER", "NOT_FOUND"},
    MvGetProcessCr3 |-> {"SUCCESS", "INVALID_PARAMETER", "NOT_FOUND"},
    MvGetEprocess |-> {"SUCCESS", "INVALID_PARAMETER", "NOT_FOUND"}]

\* Mutant: the base is taken from the whole code.
IndexUnshifted(ioctl) == (ioctl + 65536 - CtlBase) % 65536

\* Index is a USHORT: codes below CTL_BASE wrap round to large ones.
Index(ioctl) == (ExtractCtlCode(ioctl) + 65536 - CtlBase) % 65536

HandlerOf(ioctl) == IF Index(ioctl) < Len(Handlers) THEN Handlers[Index(ioctl) + 1] ELSE "none"

\* The handler a request reaches, and the statuses it may get.
DispatchIOCTL(ioctl, in, out) ==
    LET handler == HandlerOf(ioctl)
    IN  IF handler = "none" THEN {"NOT_IMPLEMENTED"}
        ELSE IF SizesFit(handler, in, out) THEN Results[handler] ELSE {"LENGTH_MISMATCH"}

\* SendIOCTL with the method all wrappers use.
IoctlOf(wrapper) == CtlCode(CtlBase + CtlIndices[Wrappers[wrapper].ctl], MethodNeither)
==============================================================================
