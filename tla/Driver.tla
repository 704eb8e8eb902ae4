-------------------------------- MODULE Driver --------------------------------
(***************************************************************************)
(* The driver's image and the processes that load, use and unload it:      *)
(* DriverEntry and DriverUnload with the run time support for its global   *)
(* objects, the power callback, the count of open handles, the requests,   *)
(* and MvLoadAsDriver, MvLoadAsFilter and MvUnload of each client          *)
(* (DrvMain.cpp, CppSupport.cpp, IOCTLHandlers.cpp, SelfLoader.cpp).       *)
(*                                                                         *)
(* A client's call is the sequence of the steps it still has to make.  The *)
(* I/O manager and the service control manager are external: a driver with *)
(* open files that is stopped stays until the last is closed and lets no   *)
(* one else in; a service that is deleted goes when it has stopped and no  *)
(* handle to it is left.                                                   *)
(***************************************************************************)
EXTENDS Ioctl, FiniteSets

CONSTANTS
    Clients,   \* processes with the loader
    Power,     \* the system's power callback
    Unloader,  \* the thread that runs DriverUnload
    Objects,   \* global objects whose constructors register a destructor
    ExitSlots, \* max_destructors_count
    RawCodes,  \* codes that no wrapper sends
    Null

ASSUME DriverAssumption ==
    /\ Objects \in Nat /\ ExitSlots \in Nat \ {0}
    /\ \A code \in RawCodes :
           code \in Nat /\ code % 4096 \notin CtlBase .. CtlBase + Len(Handlers) - 1
    /\ IsFiniteSet(Clients) /\ Null \notin Clients
    /\ Power # Unloader /\ {Power, Unloader} \intersect Clients = {}

Actors == Clients \union {Power, Unloader}

VARIABLES
    image,       \* the image is in memory
    stopping,    \* the driver has been stopped and not yet unloaded
    unload,      \* where DriverUnload is
    registered,  \* the device, its link and the power callback
    power,       \* the power callback is idle or running
    isVirtualized, \* g_IsVirtualized
    guests,      \* processors run as guests, whose exits lead to the image
    op,          \* what each actor is doing to the processors
    need,        \* NeedToRevirtualizeOnWake
    alive,       \* the global objects that have been constructed and not destroyed
    exits,       \* the table of exit functions: the objects they destroy
    handles,     \* KbHandlesCount
    service,     \* the record of the service
    svcOpen,     \* the clients with a handle to it
    files,       \* each client's file object of the device
    hDriver,     \* MvLoader::hDriver is a handle
    todo,        \* what is left of each client's call
    stopped,     \* why the machine stopped
    \* History:
    newcomers,   \* who opened the device since each client looked for other handles
    lone,        \* the client whose call nobody and nothing has disturbed
    raced        \* an enable met another operation, and the flag may miss guests since

entry == <<image, registered, alive, exits, handles>>
hypervisor == <<isVirtualized, guests, op, need>>
scm == <<service, svcOpen>>
vars == <<entry, stopping, unload, power, hypervisor, scm, files, hDriver, todo,
          stopped, newcomers, lone, raced>>

Global == 1..Objects
Registered == {"device", "link", "callback"}

Init ==
    /\ image = FALSE /\ stopping = FALSE /\ unload = "idle"
    /\ registered = {} /\ power = "idle"
    /\ isVirtualized = FALSE /\ guests = FALSE /\ need = FALSE
    /\ op = [a \in Actors |-> "none"]
    /\ alive = {} /\ exits = << >> /\ handles = 0
    /\ service = "none" /\ svcOpen = {}
    /\ files = [c \in Clients |-> "none"]
    /\ hDriver = [c \in Clients |-> FALSE]
    /\ todo = [c \in Clients |-> << >>]
    /\ stopped = "no"
    /\ newcomers = [c \in Clients |-> {}]
    /\ lone = Null /\ raced = FALSE

Running == stopped = "no"
At(c, step) == Running /\ todo[c] # << >> /\ Head(todo[c]) = step
Do(c, steps) == todo' = [todo EXCEPT ![c] = steps]
Done(c) == Do(c, Tail(todo[c]))

\* A step of c disturbs the others' calls; a failure disturbs its own as well.
Disturb(c) == lone' = IF lone = c THEN c ELSE Null
Fail == lone' = Null

Refs == {c \in Clients : files[c] # "none"}

\* A record marked for deletion goes when nothing keeps it.
Settled(record, open, loaded) ==
    IF record = "marked" /\ open = {} /\ ~loaded THEN "none" ELSE record
CloseService(c) ==
    /\ svcOpen' = svcOpen \ {c}
    /\ service' = Settled(service, svcOpen \ {c}, image)

DeleteDriver == <<"openService", "stop", "deleteService">>
Install == <<"createService", "startService", "reopen">>

\* What may follow DeleteDriver, and the calls that are going to stop the driver.
Rests == {<<"TRUE">>, <<"FALSE">>, Install}
Asking == {DeleteDriver \o r : r \in Rests}
Stopping == {<<"stop", "deleteService">> \o r : r \in Rests}
WillStop == Asking \union Stopping \union {<<"closed">> \o r : r \in Asking}
                \union {<<"close", "closed">> \o r : r \in Asking}
-------------------------------------------------------------------------------
(***************************************************************************)
(* The driver: DriverEntry, its global objects, and its dispatch routines. *)
(***************************************************************************)

\* Mutant: atexit writes one entry behind the table.
CrtInitOverrun ==
    /\ alive' = Global
    /\ exits' = [i \in 1..(IF Objects < ExitSlots + 1 THEN Objects ELSE ExitSlots + 1) |-> i]

\* __crt_init: constructors run in order, atexit has room for ExitSlots of them.
CrtInit ==
    /\ alive' = Global
    /\ exits' = [i \in 1..(IF Objects < ExitSlots THEN Objects ELSE ExitSlots) |-> i]

\* IoCreateSymbolicLink has failed.
OnLinkFailure(made) == made \ {"device"}

\* What DriverEntry may leave registered, with its status.
EntryOutcomes ==
    {<<FALSE, {}>>, <<FALSE, OnLinkFailure({"device"})>>,
     <<TRUE, {"device", "link"}>>, <<TRUE, {"device", "link", "callback"}>>}

DriverEntry(outcome) ==
    /\ image' = outcome[1]
    /\ IF image' THEN CrtInit ELSE alive' = {} /\ exits' = << >>   \* gone with the image
    /\ registered' = outcome[2]
    /\ handles' = 0
    /\ isVirtualized' = FALSE /\ need' = FALSE
    /\ UNCHANGED <<guests, op>>

-------------------------------------------------------------------------------
(***************************************************************************)
(* The operations on the hypervisor, which clients, the power callback and *)
(* DriverUnload start without a lock.  Module Virtualization has them step *)
(* by step; here they check g_IsVirtualized first and write it last, and   *)
(* an enable moves the processors as it ends, a disable as it begins.      *)
(***************************************************************************)

\* Actor a begins.
Start(a, what) ==
    /\ op' = [op EXCEPT ![a] = what]
    /\ raced' = \/ raced
                \/ a = Power /\ unload # "idle"
                \/ a = Unloader /\ op[Power] # "none"
                \/ \E b \in Actors \ {a} : op[b] # "none" /\ "virtualize" \in {what, op[b]}

\* HyperVisor::Virtualize: g_IsVirtualized is not set.
Virtualize(a) ==
    /\ ~isVirtualized
    /\ Start(a, "virtualize")
    /\ UNCHANGED <<isVirtualized, guests, stopped>>

\* HyperVisor::Devirtualize: it is set.  A processor that leaves the guest may
\* stop the machine.
Devirtualize(a) ==
    /\ isVirtualized
    /\ Start(a, "devirtualize")
    /\ guests' = FALSE
    /\ stopped' \in IF guests THEN {"no", "shutdown"} ELSE {"no"}
    /\ UNCHANGED isVirtualized

\* It returns to the request, the callback or DriverUnload.  A race is over
\* when nothing is under way and the flag has the guests.
End(a) ==
    /\ op' = [op EXCEPT ![a] = "none"]
    /\ raced' = (raced /\ ~(unload = "idle" /\ (guests' => isVirtualized')
                            /\ \A b \in Actors \ {a} : op[b] = "none"))
    /\ todo' = IF a \in Clients THEN [todo EXCEPT ![a] = << >>] ELSE todo
    /\ power' = IF a = Power THEN "idle" ELSE power
    /\ UNCHANGED <<entry, stopping, unload, need, scm, files, hDriver, newcomers, lone>>

\* VirtualizeAllProcessors finds the flag set in the meantime, or virtualizes
\* the processors, or fails, which may have taken down every guest.  The report
\* of a failed request stops a debug build.
VirtualizeAllProcessors(a) ==
    /\ Running
    /\ op[a] = "virtualize"
    /\ \/ isVirtualized /\ UNCHANGED <<isVirtualized, guests, stopped>>
       \/ isVirtualized' = TRUE /\ guests' = TRUE /\ UNCHANGED stopped
       \/ /\ isVirtualized' = FALSE /\ guests' \in {guests, FALSE}
          /\ stopped' \in {"no", "shutdown"} \union IF a \in Clients THEN {"print"} ELSE {}
    /\ End(a)

DevirtualizeAllProcessors(a) ==
    /\ Running
    /\ op[a] = "devirtualize"
    /\ isVirtualized' = FALSE
    /\ UNCHANGED <<guests, stopped>>
    /\ End(a)

Operation(a) == VirtualizeAllProcessors(a) \/ DevirtualizeAllProcessors(a)
-------------------------------------------------------------------------------
(***************************************************************************)
(* DriverUnload and the power callback.                                    *)
(***************************************************************************)

\* Mutant: the hypervisor is left running.
OnDriverUnloadIdle ==
    /\ Running
    /\ unload = "idle" /\ stopping /\ Refs = {}
    /\ unload' = "deinit"
    /\ raced' = (raced \/ op[Power] # "none")
    /\ UNCHANGED <<entry, stopping, power, hypervisor, scm, files, hDriver, todo, stopped,
                   newcomers, lone>>

\* OnDriverUnload, called when the driver has been stopped and no file is left.
OnDriverUnload ==
    /\ Running
    /\ unload = "idle" /\ stopping /\ Refs = {}
    /\ unload' = "deinit"
    /\ IF isVirtualized
       THEN Devirtualize(Unloader)
       ELSE /\ raced' = (raced \/ op[Power] # "none")
            /\ UNCHANGED <<isVirtualized, guests, op, stopped>>
    /\ UNCHANGED <<entry, stopping, power, need, scm, files, hDriver, todo, newcomers, lone>>

Unregister(what, where) ==
    /\ registered' = registered \ what
    /\ unload' = where
    /\ UNCHANGED <<image, alive, exits, handles, stopping, power, hypervisor, scm, files, hDriver,
                   todo, stopped, newcomers, lone, raced>>

\* Mutant: the table is run from its beginning.
CrtDeinitForward ==
    /\ Running
    /\ unload = "deinit" /\ op[Unloader] = "none"
    /\ IF exits = << >>
       THEN unload' = "callback" /\ UNCHANGED <<alive, exits>>
       ELSE /\ alive' = alive \ {Head(exits)}
            /\ exits' = Tail(exits)
            /\ UNCHANGED unload
    /\ UNCHANGED <<image, registered, handles, stopping, power, hypervisor, scm, files, hDriver,
                   todo, stopped, newcomers, lone, raced>>

\* Mutant: the loop does not move.
CrtDeinitStuck ==
    /\ Running
    /\ unload = "deinit" /\ op[Unloader] = "none" /\ exits = << >>
    /\ unload' = "callback"
    /\ UNCHANGED <<entry, stopping, power, hypervisor, scm, files, hDriver,
                   todo, stopped, newcomers, lone, raced>>

\* One pass of the loop of __crt_deinit.
CrtDeinit ==
    /\ Running
    /\ unload = "deinit" /\ op[Unloader] = "none"
    /\ IF exits = << >>
       THEN unload' = "callback" /\ UNCHANGED <<alive, exits>>
       ELSE /\ alive' = alive \ {exits[Len(exits)]}
            /\ exits' = SubSeq(exits, 1, Len(exits) - 1)
            /\ UNCHANGED unload
    /\ UNCHANGED <<image, registered, handles, stopping, power, hypervisor, scm, files, hDriver,
                   todo, stopped, newcomers, lone, raced>>

\* ExUnregisterCallback prevents further calls, then waits for the running one.
UnregisterCallback ==
    /\ Running
    /\ unload = "callback"
    /\ Unregister({"callback"}, "drain")

DeleteSymbolicLink ==
    /\ Running
    /\ unload = "drain" /\ power = "idle"
    /\ Unregister({"link"}, "device")

\* DriverUnload returns and the image is removed.  Processors that still run
\* as guests exit to code that is no longer there, and a running callback
\* returns to it.
DeleteDevice ==
    /\ Running
    /\ unload = "device"
    /\ registered' = registered \ {"device"}
    /\ image' = FALSE /\ stopping' = FALSE /\ unload' = "idle"
    /\ alive' = {} /\ exits' = << >> /\ isVirtualized' = FALSE /\ need' = FALSE
    /\ service' = Settled(service, svcOpen, FALSE)
    /\ stopped' = IF guests THEN "exit" ELSE IF power # "idle" THEN "code" ELSE "no"
    /\ raced' = (raced /\ guests)
    /\ UNCHANGED <<handles, power, guests, op, svcOpen, files, hDriver,
                   todo, newcomers, lone>>

\* PowerCallback is called, if there still is code to run.
PowerCallback ==
    /\ Running
    /\ power = "idle" /\ "callback" \in registered
    /\ power' = "running"
    /\ stopped' = IF image THEN "no" ELSE "code"
    /\ UNCHANGED <<entry, stopping, unload, hypervisor, scm, files, hDriver,
                   todo, newcomers, lone, raced>>

OnSystemSleep ==
    /\ Running
    /\ power = "running" /\ op[Power] = "none"
    /\ need' = isVirtualized
    /\ IF isVirtualized
       THEN Devirtualize(Power) /\ UNCHANGED power
       ELSE power' = "idle" /\ UNCHANGED <<isVirtualized, guests, op, raced, stopped>>
    /\ UNCHANGED <<entry, stopping, unload, scm, files, hDriver, todo, newcomers, lone>>

OnSystemWake ==
    /\ Running
    /\ power = "running" /\ op[Power] = "none"
    /\ \/ need /\ Virtualize(Power) /\ UNCHANGED power
       \/ power' = "idle" /\ UNCHANGED <<isVirtualized, guests, op, raced, stopped>>
    /\ UNCHANGED <<entry, stopping, unload, need, scm, files, hDriver, todo, newcomers, lone>>
-------------------------------------------------------------------------------
(***************************************************************************)
(* Files of the device.                                                    *)
(***************************************************************************)
CanOpen == image /\ {"device", "link"} \subseteq registered /\ ~stopping

\* CreateFile has found the device; the create request is on its way.
Open(c, rest) ==
    /\ CanOpen
    /\ files' = [files EXCEPT ![c] = "creating"]
    /\ Do(c, <<"create">> \o rest)
    /\ Disturb(c)
    /\ UNCHANGED newcomers

\* There is no device, or CreateFile fails for a reason of its own: then
\* whoever has it open goes unseen.
OpenFails(c, rest) ==
    /\ Do(c, rest)
    /\ newcomers' = [newcomers EXCEPT ![c] = IF CanOpen THEN Clients \ {c} ELSE {}]
    /\ IF CanOpen THEN Fail ELSE Disturb(c)
    /\ UNCHANGED files

\* DriverStub with IRP_MJ_CREATE: OnDriverCreate.
OnDriverCreate(c) ==
    /\ At(c, "create")
    /\ handles' = handles + 1
    /\ files' = [files EXCEPT ![c] = "open"]
    /\ hDriver' = [hDriver EXCEPT ![c] = TRUE]
    /\ newcomers' = [d \in Clients |-> IF d # c /\ todo[d] \in WillStop
                                      THEN newcomers[d] \union {c} ELSE newcomers[d]]
    /\ Done(c) /\ Disturb(c)
    /\ UNCHANGED <<image, registered, alive, exits, stopping, unload, power, hypervisor, scm,
                   stopped, raced>>

\* CloseHandle begins with IRP_MJ_CLEANUP: OnDriverCleanup.
OnDriverCleanup(c) ==
    /\ At(c, "close")
    /\ files' = [files EXCEPT ![c] = "closing"]
    /\ Done(c) /\ Disturb(c)
    /\ UNCHANGED <<entry, stopping, unload, power, hypervisor, scm, hDriver,
                   stopped, newcomers, raced>>

\* Mutant: the handle is kept.
OnDriverCloseKeeps(c) ==
    /\ At(c, "closed")
    /\ handles' = handles - 1
    /\ files' = [files EXCEPT ![c] = "none"]
    /\ Done(c) /\ Disturb(c)
    /\ UNCHANGED <<image, registered, alive, exits, stopping, unload, power, hypervisor, scm,
                   hDriver, stopped, newcomers, raced>>

\* IRP_MJ_CLOSE: OnDriverClose.  CloseHandle returns and hDriver is reset.
OnDriverClose(c) ==
    /\ At(c, "closed")
    /\ handles' = handles - 1
    /\ files' = [files EXCEPT ![c] = "none"]
    /\ hDriver' = [hDriver EXCEPT ![c] = FALSE]
    /\ newcomers' = [d \in Clients |-> newcomers[d] \ {c}]
    /\ Done(c) /\ Disturb(c)
    /\ UNCHANGED <<image, registered, alive, exits, stopping, unload, power, hypervisor, scm,
                   stopped, raced>>
-------------------------------------------------------------------------------
(***************************************************************************)
(* The loader.                                                             *)
(***************************************************************************)
system == <<stopping, unload, power, hypervisor, stopped, raced>>

Undisturbed(c) ==
    /\ \A d \in Clients \ {c} : todo[d] = << >> /\ files[d] = "none"
    /\ ~stopping /\ unload = "idle" /\ service # "marked"

Call(c, steps) ==
    /\ Running
    /\ todo[c] = << >>
    /\ Do(c, steps)
    /\ lone' = IF Undisturbed(c) THEN c ELSE Null
    /\ UNCHANGED <<entry, system, scm, files, hDriver, newcomers>>

\* MvLoadAsDriver and MvLoadAsFilter, which differ once there is a service.
MvLoad(c) == Call(c, IF hDriver[c] THEN <<"TRUE">> ELSE <<"open">> \o Install)

MvUnload(c) == Call(c, IF hDriver[c] THEN <<"last">> ELSE <<"TRUE">>)

OpenDevice(c) ==
    /\ At(c, "open")
    /\ \/ Open(c, <<"count">> \o Tail(todo[c]))
       \/ OpenFails(c, DeleteDriver \o Tail(todo[c]))
    /\ UNCHANGED <<entry, system, scm, hDriver>>

ReopenDevice(c) ==
    /\ At(c, "reopen")
    /\ \/ Open(c, <<"TRUE">>)
       \/ OpenFails(c, DeleteDriver \o <<"FALSE">>)
    /\ UNCHANGED <<entry, system, scm, hDriver>>

\* Mutant: the loader counts its own handle as one more.
HandlesCountOff(c) ==
    /\ At(c, "count")
    /\ \/ Disturb(c) /\ Do(c, <<"close", "closed">> \o
             (IF handles > 2 THEN <<"FALSE">> ELSE DeleteDriver \o Tail(todo[c])))
       \/ Fail /\ Do(c, <<"close", "closed", "FALSE">>)
    /\ newcomers' = [newcomers EXCEPT ![c] = {}]
    /\ UNCHANGED <<entry, system, scm, files, hDriver>>

\* MvGetHandlesCount as MvLoadAsDriver uses it; it may fail.
HandlesCount(c) ==
    /\ At(c, "count")
    /\ \/ Disturb(c) /\ Do(c, <<"close", "closed">> \o
             (IF handles > 1 THEN <<"FALSE">> ELSE DeleteDriver \o Tail(todo[c])))
       \/ Fail /\ Do(c, <<"close", "closed", "FALSE">>)
    /\ newcomers' = [newcomers EXCEPT ![c] = {}]
    /\ UNCHANGED <<entry, system, scm, files, hDriver>>

\* MvGetHandlesCount as MvUnload uses it: if it fails the driver is stopped,
\* whoever else has it open.
LastHandle(c) ==
    /\ At(c, "last")
    /\ \/ /\ Disturb(c)
          /\ Do(c, <<"close", "closed">> \o
                   (IF handles > 1 THEN <<"TRUE">> ELSE DeleteDriver \o <<"TRUE">>))
          /\ newcomers' = [newcomers EXCEPT ![c] = {}]
       \/ /\ Fail
          /\ Do(c, <<"close", "closed">> \o DeleteDriver \o <<"TRUE">>)
          /\ newcomers' = [newcomers EXCEPT ![c] = Clients \ {c}]
    /\ UNCHANGED <<entry, system, scm, files, hDriver>>

\* DeleteDriver has failed: what that means is up to its caller.
DeleteFails(c, rest) == Do(c, IF rest = <<"TRUE">> THEN <<"FALSE">> ELSE rest)

OpenService(c) ==
    /\ At(c, "openService")
    /\ \/ service # "none" /\ svcOpen' = svcOpen \union {c} /\ Done(c) /\ Disturb(c)
       \/ /\ DeleteFails(c, SubSeq(todo[c], 4, Len(todo[c])))
          /\ UNCHANGED svcOpen
          /\ IF service = "none" THEN Disturb(c) ELSE Fail
    /\ UNCHANGED <<entry, system, service, files, hDriver, newcomers>>

\* ControlService with SERVICE_CONTROL_STOP returns when the driver is
\* unloaded, or at once if files are open.
StopService(c) ==
    /\ At(c, "stop")
    /\ IF image /\ ~stopping
       THEN /\ stopping' = TRUE
            /\ Do(c, (IF Refs = {} THEN <<"wait">> ELSE << >>) \o Tail(todo[c]))
       ELSE Done(c) /\ UNCHANGED stopping
    /\ newcomers' = [newcomers EXCEPT ![c] = {}]
    /\ Disturb(c)
    /\ UNCHANGED <<entry, unload, power, hypervisor, scm, files, hDriver, stopped, raced>>

Wait(c) ==
    /\ At(c, "wait")
    /\ ~stopping
    /\ Done(c) /\ Disturb(c)
    /\ UNCHANGED <<entry, system, scm, files, hDriver, newcomers>>

\* Mutant: the record is only closed.
DeleteServiceKeeps(c) ==
    /\ At(c, "deleteService")
    /\ CloseService(c)
    /\ Done(c) /\ Disturb(c)
    /\ UNCHANGED <<entry, system, files, hDriver, newcomers>>

DeleteService(c) ==
    /\ At(c, "deleteService")
    /\ svcOpen' = svcOpen \ {c}
    /\ service' = Settled("marked", svcOpen', image)
    /\ IF service = "marked" THEN DeleteFails(c, Tail(todo[c])) ELSE Done(c)
    /\ Disturb(c)
    /\ UNCHANGED <<entry, system, files, hDriver, newcomers>>

\* CreateService of InstallDriver, or of InstallMinifilter, which sets up an
\* instance before it starts the service.
CreateService(c) ==
    /\ At(c, "createService")
    /\ \/ /\ service = "none"
          /\ service' = "there" /\ svcOpen' = svcOpen \union {c}
          /\ Done(c) \/ Do(c, <<"setup">> \o Tail(todo[c]))
          /\ Disturb(c)
       \/ /\ Do(c, <<"FALSE">>)
          /\ UNCHANGED scm
          /\ IF service = "none" THEN Fail ELSE Disturb(c)
    /\ UNCHANGED <<entry, system, files, hDriver, newcomers>>

SetupFilterInstance(c) ==
    /\ At(c, "setup")
    /\ \/ Done(c) /\ Disturb(c) /\ UNCHANGED scm
       \/ Do(c, <<"FALSE">>) /\ Fail /\ CloseService(c)
    /\ UNCHANGED <<entry, system, files, hDriver, newcomers>>

\* StartService calls DriverEntry.
StartService(c) ==
    /\ At(c, "startService")
    /\ IF service = "there" /\ ~image
       THEN \E outcome \in EntryOutcomes :
              /\ DriverEntry(outcome)
              /\ IF outcome[1] THEN Done(c) /\ Disturb(c) ELSE Do(c, <<"FALSE">>) /\ Fail
       ELSE Do(c, <<"FALSE">>) /\ Disturb(c) /\ UNCHANGED <<entry, hypervisor>>
    /\ svcOpen' = svcOpen \ {c}
    /\ service' = Settled(service, svcOpen', image')
    /\ UNCHANGED <<stopping, unload, power, files, hDriver, stopped, newcomers, raced>>

Return(c) ==
    /\ At(c, "TRUE") \/ At(c, "FALSE")
    /\ Done(c) /\ Fail
    /\ newcomers' = [newcomers EXCEPT ![c] = {}]
    /\ UNCHANGED <<entry, system, scm, files, hDriver>>

\* The process ends, wherever it is outside the driver; the system closes its
\* handles and a new process may take its place.
Exit(c) ==
    /\ Running
    /\ todo[c] # << >> \/ hDriver[c]
    /\ files[c] \notin {"creating", "closing"} /\ op[c] = "none"
    /\ Do(c, IF files[c] = "open" THEN <<"close", "closed">> ELSE << >>)
    /\ hDriver' = [hDriver EXCEPT ![c] = FALSE]
    /\ newcomers' = [newcomers EXCEPT ![c] = {}]
    /\ Fail
    /\ CloseService(c)
    /\ UNCHANGED <<entry, system, files>>

\* A request through one of the wrappers, or with a code none of them sends.
Request(c, ioctl, in, out) ==
    /\ Running
    /\ todo[c] = << >> /\ hDriver[c]
    /\ \E status \in DispatchIOCTL(ioctl, in, out) :
         CASE status = "SUCCESS" /\ HandlerOf(ioctl) = "MvVmmEnable" ->
                Virtualize(c) /\ Do(c, <<"operation">>)
           [] status = "SUCCESS" /\ HandlerOf(ioctl) = "MvVmmDisable" /\ isVirtualized ->
                Devirtualize(c) /\ Do(c, <<"operation">>)
           [] OTHER ->   \* a debug build stops on UNSUCCESSFUL
                /\ stopped' \in IF status = "UNSUCCESSFUL" THEN {"no", "print"} ELSE {"no"}
                /\ UNCHANGED <<isVirtualized, guests, op, raced, todo>>
    /\ Fail
    /\ UNCHANGED <<entry, stopping, unload, power, need, scm, files, hDriver, newcomers>>

DriverControl(c) ==
    \/ \E w \in DOMAIN Wrappers : Request(c, IoctlOf(w), Wrappers[w].in, Wrappers[w].out)
    \/ \E code \in RawCodes : Request(c, CtlCode(code, MethodNeither), 0, 0)
-------------------------------------------------------------------------------
Proceed(c) ==
    \/ OnDriverCreate(c) \/ OnDriverCleanup(c) \/ OnDriverClose(c)
    \/ OpenDevice(c) \/ ReopenDevice(c) \/ HandlesCount(c) \/ LastHandle(c)
    \/ OpenService(c) \/ StopService(c) \/ Wait(c) \/ DeleteService(c)
    \/ CreateService(c) \/ SetupFilterInstance(c) \/ StartService(c) \/ Return(c)
    \/ Operation(c)

Unloading ==
    \/ OnDriverUnload \/ Operation(Unloader) \/ CrtDeinit
    \/ UnregisterCallback \/ DeleteSymbolicLink \/ DeleteDevice

Callback == OnSystemSleep \/ OnSystemWake \/ Operation(Power)

Next ==
    \/ Unloading \/ PowerCallback \/ Callback
    \/ \E c \in Clients : Proceed(c) \/ MvLoad(c) \/ MvUnload(c) \/ Exit(c) \/ DriverControl(c)

Spec == Init /\ [][Next]_vars

\* Calls in progress, DriverUnload and a running callback go on.
LiveSpec ==
    /\ Spec
    /\ WF_vars(Unloading)
    /\ WF_vars(Callback)
    /\ \A c \in Clients : WF_vars(Proceed(c))
-------------------------------------------------------------------------------
(***************************************************************************)
(* Properties.                                                             *)
(***************************************************************************)

\* The variables keep their types.
DriverTypeOK ==
    /\ {image, stopping, isVirtualized, guests, need, raced} \subseteq BOOLEAN
    /\ op \in [Actors -> {"none", "virtualize", "devirtualize"}]
    /\ unload \in {"idle", "deinit", "callback", "drain", "device"}
    /\ registered \subseteq Registered
    /\ power \in {"idle", "running"}
    /\ alive \subseteq Global
    /\ exits \in Seq(Global) /\ Len(exits) <= ExitSlots
    /\ handles \in 0..Cardinality(Clients)
    /\ service \in {"none", "there", "marked"} /\ svcOpen \subseteq Clients
    /\ files \in [Clients -> {"none", "creating", "open", "closing"}]
    /\ hDriver \in [Clients -> BOOLEAN]
    /\ \A c \in Clients : Len(todo[c]) <= 10
    /\ stopped \in {"no", "print", "shutdown", "code", "exit"}
    /\ newcomers \in [Clients -> SUBSET Clients]
    /\ lone \in Clients \union {Null}

\* A client that is between two calls and has a handle can use the driver,
\* even if others have tried to remove it: MvLoadAsDriver, which returns TRUE
\* because of the handle, tells the truth.
HandleIsUsable ==
    \A c \in Clients :
        hDriver[c] /\ todo[c] = << >> =>
            files[c] = "open" /\ image /\ "device" \in registered /\ unload = "idle"

\* The code and the objects of the image are there for all that uses them.
\* Once the image has gone, also after DriverEntry has failed half-way, no
\* device, link, callback or file leads into it, and no callback runs in it.
\* From the destruction of the first object on no request works on the
\* hypervisor; and no power callback does, and no guest exits to its handlers,
\* but after a race that has not been made good: of an enable with another
\* operation, or of the callback with DriverUnload.
CodeOutlivesItsCallers ==
    /\ ~image => registered = {} /\ power = "idle" /\ Refs = {}
    /\ stopped # "code"
    /\ ~image \/ alive # Global =>
          /\ \A c \in Clients : op[c] = "none"
          /\ guests \/ op[Power] # "none" => raced

\* Global objects die in the reverse order of their construction, all that
\* the table of exit functions has room for before DriverUnload goes on.
DestroyedInReverse ==
    /\ \A i, j \in Global : i < j /\ j <= ExitSlots /\ j \in alive => i \in alive
    /\ unload \in {"callback", "drain", "device"} => \A i \in alive : i > ExitSlots

\* Who stops the driver has looked for other handles, and those that are open
\* now came after that, or the look itself failed.
OnlyNewcomersAreStopped ==
    [][~stopping /\ stopping' =>
        \E c \in Clients :
            /\ At(c, "stop")
            /\ \A d \in Clients : files[d] \in {"open", "closing"} => d \in newcomers[c]]_vars

\* Whatever ended processes have left behind, a call that nobody disturbs and
\* in which nothing fails returns TRUE.
LoneCallsSucceed ==
    \A c \in Clients : lone = c => todo[c] # <<"FALSE">>

\* The wrappers' requests of a client that has a handle reach the handlers of
\* their names with the sizes these ask for, but for MvGetEProcess, which sends
\* another's code; codes of no wrapper are refused.
RequestsReachTheirHandlers ==
    (\E c \in Clients : hDriver[c]) =>
        /\ \A w \in DOMAIN Wrappers \ {"MvGetEprocess"} :
              /\ HandlerOf(IoctlOf(w)) = w
              /\ "LENGTH_MISMATCH" \notin
                     DispatchIOCTL(IoctlOf(w), Wrappers[w].in, Wrappers[w].out)
        /\ \A code \in RawCodes :
              DispatchIOCTL(CtlCode(code, MethodNeither), 0, 0) = {"NOT_IMPLEMENTED"}

\* Calls return unless the machine stops, also those that wait for the driver
\* to be unloaded and for a power callback to end.
CallsReturn ==
    \A c \in Clients : todo[c] # << >> ~> (todo[c] = << >> \/ ~Running)
===============================================================================
