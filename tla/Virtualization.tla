--------------------------- MODULE Virtualization ---------------------------
(***************************************************************************)
(* The life cycle of the hypervisor: how the requests of clients, power    *)
(* callbacks and driver unload put the processors into VMX operation and   *)
(* take them out (HyperVisor.cpp, Hpv.cpp, DrvMain.cpp, VMXrun.asm).       *)
(*                                                                         *)
(* Actors run requests concurrently; a processor that runs as a guest      *)
(* exits to VmxVmmRun.  One pass of a loop, one function without a loop or *)
(* one VMX instruction is a step, and each read of a shared variable sees  *)
(* what other actors made of it in between.                                *)
(***************************************************************************)
EXTENDS Naturals, FiniteSets

CONSTANTS
    Cpus,         \* the number of processors
    Blocks,       \* blocks of memory that can hold a PRIVATE_VM_DATA
    Clients,      \* threads that send device requests
    Power,        \* the system's power callback
    Unloader,     \* the thread that unloads the driver
    Concurrency,  \* bound: how many requests are in progress at once
    Numberings,   \* the ways the system may number the processors
    Null

Cpu == 1..Cpus
Actors == Clients \union {Power, Unloader}
Block == Blocks \union {Null}
Processors == [Cpu -> [data: Block, status: BOOLEAN]]

ASSUME VirtualizationAssumption ==
    /\ Cpus \in Nat \ {0}
    /\ Concurrency \in Nat \ {0}
    /\ Numberings \subseteq [Cpu -> Cpu]
    /\ Null \notin Blocks \union Processors
    /\ Power # Unloader /\ {Power, Unloader} \intersect Clients = {}
-----------------------------------------------------------------------------
VARIABLES
    isVirtualized,  \* g_IsVirtualized
    processors,     \* g_Shared.Processors: VmData and Status of each processor
    allocated,      \* the blocks AllocPhys returned and nobody freed
    need,           \* NeedToRevirtualizeOnWake
    loaded,         \* the driver is loaded
    vmx,            \* each processor: outside VMX operation, VMX root, guest
    data,           \* the block on which each processor was launched
    status,         \* what VmxVmExitHandler returned to VmxVmmRun
    regs,           \* the block CPUID left in EDX:EAX for the guest
    crashed,        \* the machine has stopped
    number,         \* KeGetCurrentProcessorNumber on each processor: its number
                    \* in its group, so processors of two groups share one
    pc, task        \* where each actor is, and its local variables

driver == <<isVirtualized, processors, allocated, need, loaded>>
machine == <<vmx, data, status, regs, crashed, number>>
vars == <<driver, machine, pc, task>>

Task == [cpu: Cpu, private: Block,                \* ForEachCpu, VirtualizeProcessor
         virtualized: BOOLEAN, restored: BOOLEAN, \* VirtualizeProcessor
         result: BOOLEAN,                         \* VirtualizeAllProcessors
         rollback: BOOLEAN,                       \* called by VirtualizeAllProcessors
         got: [Cpu -> Block], done: SUBSET Cpu]   \* DevirtualizeAllProcessors

Places == {"idle", "virtualize", "thread", "alloc", "captured", "vmxon", "vmcs", "launch",
           "status", "finish", "devirtualize", "broadcast", "unload"}

NoTask == [cpu |-> 1, private |-> Null, virtualized |-> FALSE, restored |-> FALSE,
           result |-> FALSE, rollback |-> FALSE,
           got |-> [c \in Cpu |-> Null], done |-> {}]

Init ==
    /\ isVirtualized = FALSE
    /\ processors = Null
    /\ allocated = {}
    /\ need = FALSE
    /\ loaded = TRUE
    /\ vmx = [c \in Cpu |-> "off"]
    /\ data = [c \in Cpu |-> Null]
    /\ status = [c \in Cpu |-> "none"]
    /\ regs = [c \in Cpu |-> Null]
    /\ crashed = FALSE
    /\ number \in Numberings
    /\ pc = [a \in Actors |-> "idle"]
    /\ task = [a \in Actors |-> NoTask]

At(a, where) == ~crashed /\ pc[a] = where
Goto(a, where) == pc' = [pc EXCEPT ![a] = where]
Reply(a) == Goto(a, "idle") /\ task' = [task EXCEPT ![a] = NoTask]

\* A NULL pointer is used, or an instruction is executed where it must not be.
Crash == crashed' = TRUE /\ UNCHANGED <<driver, vmx, data, status, regs, number, pc, task>>
-----------------------------------------------------------------------------
(***************************************************************************)
(* Requests.                                                               *)
(***************************************************************************)
Busy == {a \in Actors : pc[a] # "idle"}

\* The system lets no request in once the driver is being unloaded.
Accepts(a) ==
    /\ At(a, "idle")
    /\ loaded /\ pc[Unloader] = "idle"
    /\ Cardinality(Busy) < Concurrency

\* MvVmmEnable
Enable(a) ==
    /\ a \in Clients
    /\ Accepts(a)
    /\ Goto(a, "virtualize")
    /\ UNCHANGED <<driver, machine, task>>

\* MvVmmDisable
Disable(a) ==
    /\ a \in Clients
    /\ Accepts(a)
    /\ Goto(a, "devirtualize")
    /\ UNCHANGED <<driver, machine, task>>

OnSystemSleep ==
    /\ Accepts(Power)
    /\ need' = isVirtualized
    /\ IF isVirtualized THEN Goto(Power, "devirtualize") ELSE UNCHANGED pc
    /\ UNCHANGED <<isVirtualized, processors, allocated, loaded, machine, task>>

OnSystemWake ==
    /\ Accepts(Power)
    /\ IF need THEN Goto(Power, "virtualize") ELSE UNCHANGED pc
    /\ UNCHANGED <<driver, machine, task>>

\* DriverUnload is called when no handle of the device is open.
DriverUnload ==
    /\ Accepts(Unloader)
    /\ \A a \in Clients : pc[a] = "idle"
    /\ Goto(Unloader, "devirtualize")
    /\ UNCHANGED <<driver, machine, task>>

\* The end of DriverUnload; ExUnregisterCallback waits for a running callback.
Unloaded ==
    /\ At(Unloader, "unload")
    /\ pc[Power] = "idle"
    /\ loaded' = FALSE
    /\ Reply(Unloader)
    /\ UNCHANGED <<isVirtualized, processors, allocated, need, machine>>

Return(a) ==
    /\ Goto(a, IF a = Unloader THEN "unload" ELSE "idle")
    /\ task' = [task EXCEPT ![a] = NoTask]
-----------------------------------------------------------------------------
(***************************************************************************)
(* HyperVisor::Virtualize and VirtualizeAllProcessors.                     *)
(***************************************************************************)
Virtualize(a) ==
    /\ At(a, "virtualize")
    /\ IF isVirtualized THEN Reply(a) ELSE Goto(a, "thread") /\ UNCHANGED task
    /\ UNCHANGED <<driver, machine>>

\* The flag is checked again, and CallInSystemContext creates the thread that
\* does the rest and waits for it.
CreateThread(a) ==
    /\ At(a, "thread")
    /\ \/ /\ isVirtualized
          /\ Reply(a)
          /\ UNCHANGED processors
       \/ /\ ~isVirtualized
          /\ processors' = [c \in Cpu |-> [data |-> Null, status |-> FALSE]]
          /\ Goto(a, "alloc")
          /\ UNCHANGED task
       \/ /\ ~isVirtualized    \* PsCreateSystemThread fails
          /\ Goto(a, "finish")
          /\ UNCHANGED <<processors, task>>
    /\ UNCHANGED <<isVirtualized, allocated, need, loaded, machine>>

DataOf(p) == {p[c].data : c \in Cpu}

\* Mutant: a failure does not end the loop.
AllocVmDataContinues(a) ==
    LET c == task[a].cpu
    IN  /\ At(a, "alloc")
        /\ IF processors = Null
           THEN Crash
           ELSE /\ \/ \E b \in Blocks \ allocated :
                         /\ processors' = [processors EXCEPT ![c].data = b]
                         /\ allocated' = allocated \union {b}
                   \/ /\ allocated' = allocated \ DataOf(processors)
                      /\ processors' = Null
                /\ IF c < Cpus
                   THEN task' = [task EXCEPT ![a].cpu = c + 1] /\ UNCHANGED pc
                   ELSE task' = [task EXCEPT ![a].cpu = 1] /\ Goto(a, "captured")
                /\ UNCHANGED <<isVirtualized, need, loaded, machine>>

\* One pass of the allocation loop; a failure frees what there is.
AllocVmData(a) ==
    LET c == task[a].cpu
    IN  /\ At(a, "alloc")
        /\ IF processors = Null
           THEN Crash
           ELSE \/ /\ \E b \in Blocks \ allocated :
                         /\ processors' = [processors EXCEPT ![c].data = b]
                         /\ allocated' = allocated \union {b}
                   /\ IF c < Cpus
                      THEN task' = [task EXCEPT ![a].cpu = c + 1] /\ UNCHANGED pc
                      ELSE task' = [task EXCEPT ![a].cpu = 1] /\ Goto(a, "captured")
                   /\ UNCHANGED <<isVirtualized, need, loaded, machine>>
                \/ /\ allocated' = allocated \ DataOf(processors)
                   /\ processors' = Null
                   /\ Goto(a, "finish")
                   /\ UNCHANGED <<isVirtualized, need, loaded, machine, task>>

\* ForEachCpu goes on after the callback returned true, and stops otherwise.
CallbackTrue(a) ==
    IF task[a].cpu < Cpus
    THEN /\ task' = [task EXCEPT ![a] = [NoTask EXCEPT !.cpu = task[a].cpu + 1]]
         /\ Goto(a, "captured")
    ELSE Goto(a, "status") /\ UNCHANGED task

CallbackFalse(a) == Goto(a, "status") /\ UNCHANGED task

\* Mutant: the context is restored again and again.
CapturedForever(a) ==
    LET c == task[a].cpu
    IN  /\ At(a, "captured")
        /\ status[c] = "none"
        /\ IF ~task[a].virtualized
           THEN Goto(a, "vmxon") /\ UNCHANGED <<driver, machine, task>>
           ELSE task' = [task EXCEPT ![a].restored = FALSE]
                /\ UNCHANGED <<driver, machine, pc>>

\* VirtualizeProcessor where RtlCaptureContext returns: the first time, as the
\* guest that vmlaunch started there, and once more after RtlRestoreContext.
Captured(a) ==
    LET c == task[a].cpu
    IN  /\ At(a, "captured")
        /\ status[c] = "none"
        /\ IF ~task[a].virtualized
           THEN Goto(a, "vmxon") /\ UNCHANGED <<driver, machine, task>>
           ELSE IF ~task[a].restored
           THEN /\ task' = [task EXCEPT ![a].restored = TRUE]
                /\ UNCHANGED <<driver, machine, pc>>
           ELSE IF processors = Null
           THEN Crash
           ELSE /\ processors' = [processors EXCEPT ![number[c]].status = TRUE]
                /\ CallbackTrue(a)
                /\ UNCHANGED <<isVirtualized, allocated, need, loaded, machine>>

\* Mutant: the data of the first processor is taken for every one.
VmxOnFirst(a) ==
    LET c == task[a].cpu
    IN  /\ At(a, "vmxon")
        /\ status[c] = "none"
        /\ processors # Null
        /\ \/ /\ processors[1].data = Null \/ vmx[c] # "guest"
              /\ CallbackFalse(a)
              /\ UNCHANGED <<driver, machine>>
           \/ /\ processors[1].data # Null
              /\ vmx[c] = "off"
              /\ vmx' = [vmx EXCEPT ![c] = "root"]
              /\ task' = [task EXCEPT ![a].private = processors[1].data]
              /\ Goto(a, "vmcs")
              /\ UNCHANGED <<driver, data, status, regs, crashed, number>>

\* The check of VmData and __vmx_on, which fails in VMX root operation, may
\* fail outside VMX operation, and exits to VmxRelatedHandler in a guest.
VmxOn(a) ==
    LET c == task[a].cpu
        i == number[c]
    IN  /\ At(a, "vmxon")
        /\ status[c] = "none"
        /\ \/ processors = Null /\ Crash
           \/ /\ processors # Null
              /\ processors[i].data = Null \/ vmx[c] # "guest"
              /\ CallbackFalse(a)
              /\ UNCHANGED <<driver, machine>>
           \/ /\ processors # Null
              /\ processors[i].data # Null
              /\ vmx[c] = "off"
              /\ vmx' = [vmx EXCEPT ![c] = "root"]
              /\ task' = [task EXCEPT ![a].private = processors[i].data]
              /\ Goto(a, "vmcs")
              /\ UNCHANGED <<driver, data, status, regs, crashed, number>>

\* VmxRelatedHandler tells the guest that its __vmx_on failed.
VmxRelatedHandler(a) ==
    LET c == task[a].cpu
    IN  /\ At(a, "vmxon")
        /\ processors # Null /\ processors[number[c]].data # Null
        /\ vmx[c] = "guest" /\ status[c] = "none"
        /\ vmx' = [vmx EXCEPT ![c] = "root"]
        /\ status' = [status EXCEPT ![c] = "continue"]
        /\ CallbackFalse(a)
        /\ UNCHANGED <<driver, data, regs, crashed, number>>

\* Mutant: VMX operation is not left on a failure.
VmxOffForgotten(a) ==
    /\ CallbackFalse(a)
    /\ UNCHANGED <<driver, vmx, data, status, regs, crashed, number>>

VmxOff(a) ==
    /\ vmx' = [vmx EXCEPT ![task[a].cpu] = "off"]
    /\ CallbackFalse(a)
    /\ UNCHANGED <<driver, data, status, regs, crashed, number>>

\* __vmx_vmclear, __vmx_vmptrld and the contents of the VMCS
LoadVmcs(a) ==
    /\ At(a, "vmcs")
    /\ \/ Goto(a, "launch") /\ UNCHANGED <<driver, machine, task>>
       \/ VmxOff(a)

\* __vmx_vmlaunch; the guest starts where RtlCaptureContext returned.
VmLaunch(a) ==
    LET c == task[a].cpu
    IN  /\ At(a, "launch")
        /\ \/ /\ vmx' = [vmx EXCEPT ![c] = "guest"]
              /\ data' = [data EXCEPT ![c] = task[a].private]
              /\ task' = [task EXCEPT ![a].virtualized = TRUE]
              /\ Goto(a, "captured")
              /\ UNCHANGED <<driver, status, regs, crashed, number>>
           \/ VmxOff(a)

\* Mutant: only the first processor's Status counts.
CheckStatusFirst(a) ==
    /\ At(a, "status")
    /\ status[task[a].cpu] = "none"
    /\ IF processors = Null
       THEN Crash
       ELSE /\ IF processors[1].status
               THEN task' = [task EXCEPT ![a].result = TRUE] /\ Goto(a, "finish")
               ELSE task' = [task EXCEPT ![a].rollback = TRUE] /\ Goto(a, "broadcast")
            /\ UNCHANGED <<driver, machine>>

\* The loop over Status after ForEachCpu.
CheckStatus(a) ==
    /\ At(a, "status")
    /\ status[task[a].cpu] = "none"
    /\ IF processors = Null
       THEN Crash
       ELSE /\ IF \A c \in Cpu : processors[c].status
               THEN task' = [task EXCEPT ![a].result = TRUE] /\ Goto(a, "finish")
               ELSE task' = [task EXCEPT ![a].rollback = TRUE] /\ Goto(a, "broadcast")
            /\ UNCHANGED <<driver, machine>>

\* The result of the system thread becomes the flag and the reply.
Finish(a) ==
    /\ At(a, "finish")
    /\ isVirtualized' = task[a].result
    /\ Reply(a)
    /\ UNCHANGED <<processors, allocated, need, loaded, machine>>
-----------------------------------------------------------------------------
(***************************************************************************)
(* HyperVisor::Devirtualize and DevirtualizeAllProcessors.                 *)
(***************************************************************************)
Devirtualize(a) ==
    /\ At(a, "devirtualize")
    /\ IF isVirtualized THEN Goto(a, "broadcast") /\ UNCHANGED task ELSE Return(a)
    /\ UNCHANGED <<driver, machine>>

\* KeIpiGenericCall runs one broadcast at a time.
Broadcasts(a) ==
    /\ At(a, "broadcast")
    /\ \A b \in Actors \ {a} : task[b].done = {}

\* DevirtualizeProcessor on processor c, after its CPUID.
DevirtualizeProcessor(a, c) ==
    /\ Broadcasts(a)
    /\ c \notin task[a].done
    /\ vmx[c] # "guest" /\ status[c] = "none"
    /\ task' = [task EXCEPT ![a].got[number[c]] = regs[c], ![a].done = @ \union {c}]
    /\ regs' = [regs EXCEPT ![c] = Null]
    /\ UNCHANGED <<driver, vmx, data, status, crashed, number, pc>>

\* The CPUID of DevirtualizeProcessor in a guest.
CpuidHandler(a, c) ==
    /\ Broadcasts(a)
    /\ c \notin task[a].done
    /\ vmx[c] = "guest" /\ status[c] = "none"
    /\ regs' = [regs EXCEPT ![c] = data[c]]
    /\ vmx' = [vmx EXCEPT ![c] = "off"]
    /\ status' = [status EXCEPT ![c] = "continue"]
    /\ UNCHANGED <<driver, data, crashed, number, pc, task>>

\* VmxVmmRun after VmxVmExitHandler returned: vmresume, which needs VMX
\* operation, or with VMM_SHUTDOWN the jump back to the guest's code.
VmxVmmRun(c) ==
    /\ ~crashed
    /\ status[c] # "none"
    /\ IF status[c] = "continue" /\ vmx[c] = "off"
       THEN Crash
       ELSE /\ vmx' = [vmx EXCEPT ![c] = IF status[c] = "continue" THEN "guest" ELSE @]
            /\ status' = [status EXCEPT ![c] = "none"]
            /\ UNCHANGED <<driver, data, regs, crashed, number, pc, task>>

\* Processor c runs, or is being launched, on block b.
WorksOn(c, b) ==
    \/ (vmx[c] = "guest" \/ status[c] = "continue") /\ data[c] = b
    \/ \E a \in Actors : pc[a] \in {"vmcs", "launch"} /\ task[a].cpu = c /\ task[a].private = b

\* Two processors put the same VMXON region, VMCS and stack to use, or one goes
\* on with those that were freed: anything may come of it at any moment, which
\* at worst is the end of the machine.
StrayBlock ==
    /\ ~crashed
    /\ \E c \in Cpu, b \in Blocks :
          /\ WorksOn(c, b)
          /\ b \notin allocated \/ \E d \in Cpu \ {c} : WorksOn(d, b)
    /\ Crash

Got(a) == {task[a].got[c] : c \in Cpu}

\* The end of DevirtualizeAllProcessors and, when VirtualizeAllProcessors
\* called it to undo what it did, of that function's system thread.
FreeVmData(a) ==
    /\ Broadcasts(a)
    /\ task[a].done = Cpu
    /\ allocated' = allocated \ Got(a)
    /\ isVirtualized' = FALSE
    /\ IF task[a].rollback
       THEN processors' = Null /\ Goto(a, "finish") /\ task' = [task EXCEPT ![a] = NoTask]
       ELSE Return(a) /\ UNCHANGED processors
    /\ UNCHANGED <<need, loaded, machine>>
-----------------------------------------------------------------------------
Step(a) ==
    \/ Virtualize(a)
    \/ CreateThread(a)
    \/ AllocVmData(a)
    \/ Captured(a)
    \/ VmxOn(a)
    \/ VmxRelatedHandler(a)
    \/ LoadVmcs(a)
    \/ VmLaunch(a)
    \/ CheckStatus(a)
    \/ Finish(a)
    \/ Devirtualize(a)
    \/ \E c \in Cpu : DevirtualizeProcessor(a, c) \/ CpuidHandler(a, c)
    \/ FreeVmData(a)

Request ==
    \/ \E a \in Clients : Enable(a) \/ Disable(a)
    \/ OnSystemSleep
    \/ OnSystemWake
    \/ DriverUnload

Next ==
    \/ Request
    \/ \E a \in Actors : Step(a)
    \/ \E c \in Cpu : VmxVmmRun(c)
    \/ StrayBlock
    \/ Unloaded

\* Threads that can run do run, and so do processors.
Fairness ==
    /\ \A a \in Actors : WF_vars(Step(a))
    /\ \A c \in Cpu : WF_vars(VmxVmmRun(c))
    /\ WF_vars(Unloaded)

Spec == Init /\ [][Next]_vars
LiveSpec == Spec /\ Fairness
-----------------------------------------------------------------------------
(***************************************************************************)
(* Properties.                                                             *)
(***************************************************************************)

\* The values of the variables have their types; the loop of ForEachCpu stays
\* within the processors there are.
VirtualizationTypeOK ==
    /\ isVirtualized \in BOOLEAN
    /\ processors \in Processors \union {Null}
    /\ allocated \subseteq Blocks
    /\ need \in BOOLEAN /\ loaded \in BOOLEAN /\ crashed \in BOOLEAN
    /\ vmx \in [Cpu -> {"off", "root", "guest"}]
    /\ data \in [Cpu -> Block]
    /\ status \in [Cpu -> {"none", "continue", "shutdown"}]
    /\ regs \in [Cpu -> Block]
    /\ number \in [Cpu -> Cpu]
    /\ pc \in [Actors -> Places]
    /\ task \in [Actors -> Task]

Running(c) == vmx[c] = "guest" \/ (vmx[c] = "root" /\ status[c] # "none")

\* The flag never claims a processor that does not run as a guest, whatever
\* requests race, and is never set where two processors share a number: what
\* InterceptPage's VMCALL and its index into Processors rely on.
FlagIsTrue ==
    isVirtualized /\ ~crashed /\ (\A a \in Actors : pc[a] # "broadcast") =>
        \A c \in Cpu : Running(c) /\ \A d \in Cpu \ {c} : number[d] # number[c]

\* With one request at a time the flag misses no processor either: when it is
\* unset and no request is in progress, every one is outside VMX operation.
FlagIsComplete ==
    ~isVirtualized /\ ~crashed /\ Busy = {} => \A c \in Cpu : vmx[c] = "off"

\* Every processor that runs as a guest does so on the block g_Shared records
\* for its number, which is allocated and that of no processor with another
\* number: what the VMCALLs of InterceptPage and the addresses returned by
\* CPUID rely on.  Processors of two groups do share one block.
RunningDataOwned ==
    \A c \in Cpu : Running(c) =>
        /\ processors # Null
        /\ data[c] = processors[number[c]].data
        /\ data[c] \in allocated
        /\ \A d \in Cpu : number[d] # number[c] => data[d] # data[c]

OneGroup == \A c, d \in Cpu : number[c] = number[d] => c = d

\* With one request at a time, on a machine with one processor group, the
\* machine stops nowhere but in the middle of taking a processor out of VMX
\* operation.
OnlyShutdownCrashes == crashed /\ OneGroup => \E a \in Actors : pc[a] = "broadcast"

\* Every request is answered, or the machine has stopped.
RequestsReturn ==
    \A a \in Actors : pc[a] # "idle" ~> pc[a] = "idle" \/ crashed

=============================================================================
