---------------------------- MODULE InterceptAll ----------------------------
(***************************************************************************)
(* InterceptPage and DeinterceptPage on every processor of a virtualized   *)
(* machine: each request is a DPC on every processor (Callable.cpp,        *)
(* DpcOnEachCpu), whose routine executes a VMCALL that runs the            *)
(* interceptor of its own processor.  Clients send requests at the same    *)
(* time, the processors reach the DPC in any order, and the other          *)
(* processors go on running the guest's threads until they do.             *)
(*                                                                         *)
(* The interceptor of a processor is reduced to the hook each page has     *)
(* (EptHandler models it in full): what it maps a page to depends on that  *)
(* alone.  Nothing else of the processor matters here, since DPC routine   *)
(* and VMCALL run with interrupts or threads held off.                     *)
(***************************************************************************)
CONSTANTS
    Cpus,       \* processors
    Clients,    \* threads that send requests
    Pages,      \* guest physical pages
    Hooks,      \* arguments of an interception: the frames of its views
    Null        \* no hook, no request, no owner

ASSUME InterceptAllAssumption ==
    /\ Cpus # {}
    /\ Null \notin Hooks
    /\ Null \notin Clients
    /\ Null \notin [page : Pages, hook : Hooks \union {Null}]
    /\ Null \notin [page : Pages, hook : Hooks \union {Null}, done : BOOLEAN]

VARIABLES
    installed,  \* installed[c]: the hook of each page in the interceptor of c
    calls,      \* calls[cl]: INTERCEPT_INFO on the stack of cl, or Null
    owner,      \* the client whose DPCs are under way, or Null
    stage       \* stage[c]: where processor c is in the DPC of owner

vars == <<installed, calls, owner, stage>>

HookTable == [Pages -> Hooks \union {Null}]
Info == [page : Pages, hook : Hooks \union {Null}]
Stage == {"idle", "queued", "called", "signaled"}

\* Every processor runs as a guest, with an interceptor that is new.
Init ==
    /\ installed = [c \in Cpus |-> [p \in Pages |-> Null]]
    /\ calls = [cl \in Clients |-> Null]
    /\ owner = Null
    /\ stage = [c \in Cpus |-> "idle"]
-----------------------------------------------------------------------------
(***************************************************************************)
(* Requests.                                                               *)
(***************************************************************************)

\* MvVmmInterceptPage, down to INTERCEPT_INFO in InternalInterceptPage.
InterceptPage(cl, p, h) ==
    /\ calls[cl] = Null
    /\ calls' = [calls EXCEPT ![cl] = [page |-> p, hook |-> h]]
    /\ UNCHANGED <<installed, owner, stage>>

\* MvVmmDeinterceptPage, down to DpcOnEachCpu.
DeinterceptPage(cl, p) ==
    /\ calls[cl] = Null
    /\ calls' = [calls EXCEPT ![cl] = [page |-> p, hook |-> Null]]
    /\ UNCHANGED <<installed, owner, stage>>

\* Mutant: the DPCs of two requests may be under way at the same time.
KeGenericCallDpcUnlocked(cl) ==
    /\ calls[cl] # Null
    /\ owner # cl
    /\ owner' = cl
    /\ stage' = [c \in Cpus |-> "queued"]
    /\ UNCHANGED <<installed, calls>>

\* KeGenericCallDpc queues a DPC to every processor, for one caller at a time.
KeGenericCallDpc(cl) ==
    /\ calls[cl] # Null
    /\ owner = Null
    /\ owner' = cl
    /\ stage' = [c \in Cpus |-> "queued"]
    /\ UNCHANGED <<installed, calls>>

\* Mutant: an interception leaves a page that is intercepted as it is.
HookAfterAsBefore(table, info) ==
    IF info.hook # Null /\ table[info.page] # Null THEN table
    ELSE [table EXCEPT ![info.page] = info.hook]

\* EptHandler::InterceptPage and EptHandler::DeinterceptPage.
HookAfter(table, info) == [table EXCEPT ![info.page] = info.hook]

\* The DPC routine of DpcOnEachCpu as far as the barrier: the VMCALL of
\* InternalInterceptPage or InternalDeinterceptPage on this processor.  The
\* routine finds the interceptor in Processors by the processor's number in
\* its group, which is its own: requests are let in only while the flag is
\* set, and it never is where two processors have one number (FlagIsTrue of
\* Virtualization).
Callback(c) ==
    /\ stage[c] = "queued"
    /\ installed' = [installed EXCEPT ![c] = HookAfter(@, calls[owner])]
    /\ stage' = [stage EXCEPT ![c] = "called"]
    /\ UNCHANGED <<calls, owner>>

\* Mutant: the routine returns without waiting for the other processors.
SignalAtOnce(c) ==
    /\ stage[c] = "called"
    /\ stage' = [stage EXCEPT ![c] = "signaled"]
    /\ UNCHANGED <<installed, calls, owner>>

\* KeSignalCallDpcSynchronize waits for the routine on every processor, then
\* KeSignalCallDpcDone, and the processor goes back to its threads.
Signal(c) ==
    /\ stage[c] = "called"
    /\ \A d \in Cpus : stage[d] # "queued"
    /\ stage' = [stage EXCEPT ![c] = "signaled"]
    /\ UNCHANGED <<installed, calls, owner>>

\* KeGenericCallDpc returns when every processor has signaled, and so do
\* DpcOnEachCpu, InternalInterceptPage and the request.
Answer(cl) ==
    /\ owner = cl
    /\ \A c \in Cpus : stage[c] = "signaled"
    /\ owner' = Null
    /\ calls' = [calls EXCEPT ![cl] = Null]
    /\ stage' = [c \in Cpus |-> "idle"]
    /\ UNCHANGED installed

Next ==
    \/ \E cl \in Clients :
          \/ \E p \in Pages, h \in Hooks : InterceptPage(cl, p, h)
          \/ \E p \in Pages : DeinterceptPage(cl, p)
          \/ KeGenericCallDpc(cl)
          \/ Answer(cl)
    \/ \E c \in Cpus : Callback(c) \/ Signal(c)

Spec == Init /\ [][Next]_vars
-----------------------------------------------------------------------------
(***************************************************************************)
(* Properties.                                                             *)
(***************************************************************************)

\* The values of the variables have their types.
InterceptAllTypeOK ==
    /\ installed \in [Cpus -> HookTable]
    /\ calls \in [Clients -> Info \union {Null}]
    /\ owner \in Clients \union {Null}
    /\ stage \in [Cpus -> Stage]

\* A processor between Callback and Signal is held in the DPC routine; any
\* other may be running threads of the guest.
MayRunThreads(c) == stage[c] # "called"

\* DpcOnEachCpu, KeSignalCallDpcSynchronize: two threads of the guest that run
\* at the same time on two processors have the same pages intercepted in the
\* same way, also while a request is being carried out.
RunningProcessorsAgree ==
    \A c, d \in Cpus :
        MayRunThreads(c) /\ MayRunThreads(d) => installed[c] = installed[d]

\* Why RunningProcessorsAgree holds: processors that have run the routine have
\* applied the request of owner to the table the others still have, and none
\* has left the routine while another has not entered it.
StageMatchesOwner ==
    /\ owner = Null => \A c \in Cpus : stage[c] = "idle"
    /\ owner # Null => calls[owner] # Null /\ \A c \in Cpus : stage[c] # "idle"

NoneSignalsEarly ==
    \A c, d \in Cpus : stage[c] = "queued" => stage[d] # "signaled"

EqualTables ==
    \A c, d \in Cpus :
        (stage[c] = "queued" <=> stage[d] = "queued") => installed[c] = installed[d]

OneRequestAhead ==
    \A c, d \in Cpus :
        stage[c] = "queued" /\ stage[d] # "queued" =>
            installed[d] = HookAfter(installed[c], calls[owner])

InterceptAllInv ==
    /\ InterceptAllTypeOK
    /\ StageMatchesOwner
    /\ NoneSignalsEarly
    /\ EqualTables
    /\ OneRequestAhead

\* The table the clients see: the old one until the last processor has run
\* the routine.
Queued == {c \in Cpus : stage[c] = "queued"}
CurrentTable ==
    installed[CHOOSE c \in Cpus : Queued # {} => c \in Queued]

\* A request is in force from the time the last processor has run the routine.
Requests ==
    [cl \in Clients |->
        IF calls[cl] = Null THEN Null
        ELSE [page |-> calls[cl].page, hook |-> calls[cl].hook,
              done |-> owner = cl /\ Queued = {}]]

Abstract == INSTANCE PageHooks WITH hooks <- CurrentTable, requests <- Requests

\* Every request takes effect on all processors at one instant between its
\* call and its return, and requests of several clients one after the other.
RequestsTakeEffectAtOnce == Abstract!AbstractSpec
=============================================================================
