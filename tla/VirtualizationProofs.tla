------------------------ MODULE VirtualizationProofs ------------------------
(***************************************************************************)
(* Proofs about Virtualization.  Its types, and that the flag claims no    *)
(* processor that does not run as a guest, whatever requests race, and is  *)
(* never set when two processors have one number.  Then,                   *)
(* for requests that do not overlap: the flag misses no processor, each    *)
(* guest runs on the block of its number, no NULL pointer is used and, in  *)
(* one processor group, no block by two processors.  SerialInv             *)
(* says for these what the actor in progress has allocated, launched and   *)
(* claimed at each of its places, and what is left when nobody is.  Last,  *)
(* for any requests again: each has a bounded number of steps to take.     *)
(***************************************************************************)
EXTENDS Virtualization, FiniteSetTheorems, TLAPS

USE VirtualizationAssumption

LEMMA CpuFacts == 1 \in Cpu /\ \A c \in Cpu : c < Cpus => c + 1 \in Cpu
  BY DEF Cpu

LEMMA NoTaskFacts ==
    /\ NoTask \in Task
    /\ \A c \in Cpu : [NoTask EXCEPT !.cpu = c] \in Task
  BY CpuFacts DEF NoTask, Task, Block

\* An assignment to a local variable keeps the locals what they are.
LEMMA TaskStores ==
    ASSUME NEW t \in Task
    PROVE  /\ \A c \in Cpu : [t EXCEPT !.cpu = c] \in Task
           /\ \A b \in Block : [t EXCEPT !.private = b] \in Task
           /\ [t EXCEPT !.virtualized = TRUE] \in Task
           /\ [t EXCEPT !.restored = TRUE] \in Task
           /\ [t EXCEPT !.result = TRUE] \in Task
           /\ [t EXCEPT !.rollback = TRUE] \in Task
<1>1. \A c \in Cpu : [t EXCEPT !.cpu = c] \in Task
  BY DEF Task
<1>2. \A b \in Block : [t EXCEPT !.private = b] \in Task
  BY DEF Task
<1>3. [t EXCEPT !.virtualized = TRUE] \in Task
  BY DEF Task
<1>4. [t EXCEPT !.restored = TRUE] \in Task
  BY DEF Task
<1>5. [t EXCEPT !.result = TRUE] \in Task
  BY DEF Task
<1>6. [t EXCEPT !.rollback = TRUE] \in Task
  BY DEF Task
<1>7. QED
  BY <1>1, <1>2, <1>3, <1>4, <1>5, <1>6

LEMMA TaskTyped ==
    ASSUME VirtualizationTypeOK, NEW a \in Actors, NEW t \in Task,
           task' = [task EXCEPT ![a] = t]
    PROVE  task' \in [Actors -> Task]
  BY DEF VirtualizationTypeOK

\* What a step does to one actor's place and locals keeps their types.
LEMMA GotoTyped ==
    ASSUME VirtualizationTypeOK, NEW a \in Actors, NEW where \in Places, Goto(a, where)
    PROVE  pc' \in [Actors -> Places]
  BY DEF Goto, VirtualizationTypeOK

LEMMA ReplyTyped ==
    ASSUME VirtualizationTypeOK, NEW a \in Actors, Reply(a)
    PROVE  pc' \in [Actors -> Places] /\ task' \in [Actors -> Task]
  BY NoTaskFacts DEF Reply, Goto, Places, VirtualizationTypeOK
-----------------------------------------------------------------------------
(***************************************************************************)
(* Types.                                                                  *)
(***************************************************************************)
LEMMA InitTyped == Init => VirtualizationTypeOK
<1> SUFFICES ASSUME Init PROVE VirtualizationTypeOK
  OBVIOUS
<1>1. pc \in [Actors -> Places] /\ task \in [Actors -> Task]
  BY NoTaskFacts DEF Init, Places
<1>2. /\ vmx \in [Cpu -> {"off", "root", "guest"}] /\ data \in [Cpu -> Block]
      /\ status \in [Cpu -> {"none", "continue", "shutdown"}] /\ regs \in [Cpu -> Block]
  BY DEF Init, Block
<1>3. QED
  BY <1>1, <1>2 DEF Init, VirtualizationTypeOK

\* Requests.
LEMMA RequestTyped == VirtualizationTypeOK /\ Request => VirtualizationTypeOK'
<1> SUFFICES ASSUME VirtualizationTypeOK, Request PROVE VirtualizationTypeOK'
  OBVIOUS
<1> USE DEF VirtualizationTypeOK, Goto, Places, driver, machine
<1>1. CASE \E a \in Clients : Enable(a) \/ Disable(a)
  BY <1>1 DEF Enable, Disable
<1>2. CASE OnSystemSleep
  BY <1>2 DEF OnSystemSleep
<1>3. CASE OnSystemWake
  BY <1>3 DEF OnSystemWake
<1>4. CASE DriverUnload
  BY <1>4 DEF DriverUnload
<1>5. QED
  BY <1>1, <1>2, <1>3, <1>4 DEF Request

LEMMA CrashTyped == VirtualizationTypeOK /\ Crash => VirtualizationTypeOK'
  BY DEF VirtualizationTypeOK, Crash, driver

\* Enabling, up to the loop over the processors.
LEMMA EnableTyped ==
    ASSUME VirtualizationTypeOK, NEW a \in Actors,
           Virtualize(a) \/ CreateThread(a) \/ AllocVmData(a)
    PROVE  VirtualizationTypeOK'
<1> USE DEF VirtualizationTypeOK, Goto, Places, driver, machine
<1>1. CASE Virtualize(a)
  BY <1>1, ReplyTyped DEF Virtualize
<1>2. CASE CreateThread(a)
  <2>1. [c \in Cpu |-> [data |-> Null, status |-> FALSE]] \in Processors
    BY DEF Processors, Block
  <2>2. QED
    BY <1>2, <2>1, ReplyTyped DEF CreateThread
<1>3. CASE AllocVmData(a)
  <2> DEFINE c == task[a].cpu
  <2>1. c \in Cpu
    BY DEF Task
  <2>2. CASE Crash
    BY <2>2, CrashTyped
  <2>3. ASSUME processors # Null, NEW b \in Blocks \ allocated,
               processors' = [processors EXCEPT ![c].data = b],
               allocated' = allocated \union {b},
               \/ c < Cpus /\ task' = [task EXCEPT ![a].cpu = c + 1] /\ UNCHANGED pc
               \/ task' = [task EXCEPT ![a].cpu = 1] /\ Goto(a, "captured"),
               UNCHANGED <<isVirtualized, need, loaded, machine>>
        PROVE  VirtualizationTypeOK'
    <3>1. processors' \in Processors
      BY <2>1, <2>3 DEF Processors, Block
    <3>2. task' \in [Actors -> Task]
      <4>1. CASE c < Cpus /\ task' = [task EXCEPT ![a].cpu = c + 1]
        BY <2>1, <4>1, CpuFacts, TaskStores, TaskTyped
      <4>2. CASE task' = [task EXCEPT ![a].cpu = 1]
        BY <4>2, CpuFacts, TaskStores, TaskTyped
      <4>3. QED
        BY <2>3, <4>1, <4>2
    <3>3. QED
      BY <2>3, <3>1, <3>2
  <2>4. ASSUME processors' = Null, allocated' = allocated \ DataOf(processors),
               Goto(a, "finish"), UNCHANGED <<isVirtualized, need, loaded, machine, task>>
        PROVE  VirtualizationTypeOK'
    BY <2>4
  <2>5. QED
    BY <1>3, <2>2, <2>3, <2>4 DEF AllocVmData
<1>4. QED
  BY <1>1, <1>2, <1>3

\* ForEachCpu goes on or ends.
LEMMA CallbackTyped ==
    ASSUME VirtualizationTypeOK, NEW a \in Actors, CallbackTrue(a) \/ CallbackFalse(a)
    PROVE  pc' \in [Actors -> Places] /\ task' \in [Actors -> Task]
<1> USE DEF VirtualizationTypeOK, Goto, Places
<1>1. task[a].cpu \in Cpu
  BY DEF Task
<1>2. CASE CallbackTrue(a) /\ task[a].cpu < Cpus
  BY <1>1, <1>2, CpuFacts, NoTaskFacts DEF CallbackTrue
<1>3. CASE UNCHANGED task /\ Goto(a, "status")
  BY <1>3
<1>4. QED
  BY <1>2, <1>3 DEF CallbackTrue, CallbackFalse

\* The launch of one processor.
LEMMA LaunchTyped ==
    ASSUME VirtualizationTypeOK, NEW a \in Actors,
           \/ Captured(a) \/ VmxOn(a) \/ VmxRelatedHandler(a) \/ LoadVmcs(a) \/ VmLaunch(a)
    PROVE  VirtualizationTypeOK'
<1> DEFINE c == task[a].cpu
<1>1. c \in Cpu /\ task[a] \in Task
  BY DEF Task, VirtualizationTypeOK
<1>2. CASE Crash
  BY <1>2, CrashTyped
<1>3. CASE VmxOff(a)
  BY <1>3, CallbackTyped DEF VmxOff, driver, VirtualizationTypeOK
<1>4. CASE Captured(a)
  <2>1. CASE Goto(a, "vmxon") /\ UNCHANGED <<driver, machine, task>>
    BY <2>1 DEF Goto, Places, driver, machine, VirtualizationTypeOK
  <2>2. CASE task' = [task EXCEPT ![a].restored = TRUE] /\ UNCHANGED <<driver, machine, pc>>
    <3>1. task' \in [Actors -> Task]
      BY <1>1, <2>2, TaskStores, TaskTyped
    <3>2. QED
      BY <2>2, <3>1 DEF driver, machine, VirtualizationTypeOK
  <2>3. ASSUME processors # Null, processors' = [processors EXCEPT ![number[c]].status = TRUE],
               CallbackTrue(a), UNCHANGED <<isVirtualized, allocated, need, loaded, machine>>
        PROVE  VirtualizationTypeOK'
    <3>1. processors' \in Processors
      <4>1. processors \in Processors
        BY <2>3 DEF VirtualizationTypeOK
      <4>2. QED
        BY <1>1, <2>3, <4>1 DEF Processors, VirtualizationTypeOK
    <3>2. QED
      BY <2>3, <3>1, CallbackTyped DEF machine, VirtualizationTypeOK
  <2>4. QED
    BY <1>2, <1>4, <2>1, <2>2, <2>3 DEF Captured
<1>5. CASE VmxOn(a)
  <2>1. CASE CallbackFalse(a) /\ UNCHANGED <<driver, machine>>
    BY <2>1, CallbackTyped DEF driver, machine, VirtualizationTypeOK
  <2>2. ASSUME processors # Null, vmx' = [vmx EXCEPT ![c] = "root"],
               task' = [task EXCEPT ![a].private = processors[number[c]].data],
               Goto(a, "vmcs"), UNCHANGED <<driver, data, status, regs, crashed, number>>
        PROVE  VirtualizationTypeOK'
    <3>1. processors[number[c]].data \in Block
      BY <1>1, <2>2 DEF Processors, VirtualizationTypeOK
    <3>2. task' \in [Actors -> Task]
      BY <1>1, <2>2, <3>1, TaskStores, TaskTyped
    <3>3. QED
      BY <1>1, <2>2, <3>2 DEF Goto, Places, driver, VirtualizationTypeOK
  <2>3. QED
    BY <1>2, <1>5, <2>1, <2>2 DEF VmxOn
<1>6. CASE VmxRelatedHandler(a)
  BY <1>1, <1>6, CallbackTyped DEF VmxRelatedHandler, driver, VirtualizationTypeOK
<1>7. CASE LoadVmcs(a)
  BY <1>3, <1>7 DEF LoadVmcs, Goto, Places, driver, machine, VirtualizationTypeOK
<1>8. CASE VmLaunch(a)
  <2>1. ASSUME vmx' = [vmx EXCEPT ![c] = "guest"], data' = [data EXCEPT ![c] = task[a].private],
               task' = [task EXCEPT ![a].virtualized = TRUE], Goto(a, "captured"),
               UNCHANGED <<driver, status, regs, crashed, number>>
        PROVE  VirtualizationTypeOK'
    <3>1. task[a].private \in Block
      BY <1>1 DEF Task
    <3>2. task' \in [Actors -> Task]
      BY <1>1, <2>1, TaskStores, TaskTyped
    <3>3. QED
      BY <1>1, <2>1, <3>1, <3>2 DEF Goto, Places, driver, VirtualizationTypeOK
  <2>2. QED
    BY <1>3, <1>8, <2>1 DEF VmLaunch
<1>9. QED
  BY <1>4, <1>5, <1>6, <1>7, <1>8

\* The result of an enable.
LEMMA ResultTyped ==
    ASSUME VirtualizationTypeOK, NEW a \in Actors, CheckStatus(a) \/ Finish(a)
    PROVE  VirtualizationTypeOK'
<1>1. CASE Crash
  BY <1>1, CrashTyped
<1>2. ASSUME \/ task' = [task EXCEPT ![a].result = TRUE] /\ Goto(a, "finish")
             \/ task' = [task EXCEPT ![a].rollback = TRUE] /\ Goto(a, "broadcast"),
             UNCHANGED <<driver, machine>>
      PROVE  VirtualizationTypeOK'
  <2>0. task[a] \in Task
    BY DEF VirtualizationTypeOK
  <2>1. task' \in [Actors -> Task]
    BY <1>2, <2>0, TaskStores, TaskTyped
  <2>2. QED
    BY <1>2, <2>1 DEF Goto, Places, driver, machine, VirtualizationTypeOK
<1>3. CASE CheckStatus(a)
  BY <1>1, <1>2, <1>3 DEF CheckStatus
<1>4. CASE Finish(a)
  <2>1. task[a].result \in BOOLEAN
    BY DEF Task, VirtualizationTypeOK
  <2>2. QED
    BY <1>4, <2>1, ReplyTyped DEF Finish, machine, VirtualizationTypeOK
<1>5. QED
  BY <1>3, <1>4

\* The way back.
LEMMA ReturnTyped ==
    ASSUME VirtualizationTypeOK, NEW a \in Actors, Return(a)
    PROVE  pc' \in [Actors -> Places] /\ task' \in [Actors -> Task]
  BY NoTaskFacts DEF Return, Goto, Places, VirtualizationTypeOK

LEMMA DisableTyped ==
    ASSUME VirtualizationTypeOK, NEW a \in Actors,
           \/ Devirtualize(a)
           \/ \E c \in Cpu : DevirtualizeProcessor(a, c) \/ CpuidHandler(a, c)
           \/ FreeVmData(a)
    PROVE  VirtualizationTypeOK'
<1>1. CASE Devirtualize(a)
  BY <1>1, ReturnTyped DEF Devirtualize, Goto, Places, driver, machine, VirtualizationTypeOK
<1>2. ASSUME NEW c \in Cpu, DevirtualizeProcessor(a, c) PROVE VirtualizationTypeOK'
  <2>1. regs[c] \in Block /\ task[a] \in Task
    BY DEF VirtualizationTypeOK
  <2>2. task' \in [Actors -> Task]
    BY <1>2, <2>1 DEF DevirtualizeProcessor, Task, VirtualizationTypeOK
  <2>3. regs' \in [Cpu -> Block]
    BY <1>2 DEF DevirtualizeProcessor, Block, VirtualizationTypeOK
  <2>4. QED
    BY <1>2, <2>2, <2>3 DEF DevirtualizeProcessor, driver, VirtualizationTypeOK
<1>3. ASSUME NEW c \in Cpu, CpuidHandler(a, c) PROVE VirtualizationTypeOK'
  BY <1>3 DEF CpuidHandler, driver, VirtualizationTypeOK
<1>4. CASE FreeVmData(a)
  <2>1. CASE task[a].rollback
    <3>1. Goto(a, "finish") /\ task' = [task EXCEPT ![a] = NoTask]
      BY <1>4, <2>1 DEF FreeVmData
    <3>2. pc' \in [Actors -> Places] /\ task' \in [Actors -> Task]
      BY <3>1, NoTaskFacts DEF Goto, Places, VirtualizationTypeOK
    <3>3. QED
      BY <1>4, <2>1, <3>2 DEF FreeVmData, machine, VirtualizationTypeOK
  <2>2. CASE ~task[a].rollback
    BY <1>4, <2>2, ReturnTyped DEF FreeVmData, machine, VirtualizationTypeOK
  <2>3. QED
    BY <2>1, <2>2
<1>5. QED
  BY <1>1, <1>2, <1>3, <1>4

\* The values of the variables have their types, and ForEachCpu stays within
\* the processors there are, for any number of processors, actors and requests.
THEOREM VirtualizationTypes == Spec => []VirtualizationTypeOK
<1>1. VirtualizationTypeOK /\ [Next]_vars => VirtualizationTypeOK'
  <2> SUFFICES ASSUME VirtualizationTypeOK, [Next]_vars PROVE VirtualizationTypeOK'
    OBVIOUS
  <2>1. ASSUME NEW a \in Actors, Step(a) PROVE VirtualizationTypeOK'
    BY <2>1, EnableTyped, LaunchTyped, ResultTyped, DisableTyped DEF Step
  <2>2. ASSUME NEW c \in Cpu, VmxVmmRun(c) PROVE VirtualizationTypeOK'
    BY <2>2, CrashTyped DEF VmxVmmRun, driver, VirtualizationTypeOK
  <2>3. CASE Unloaded
    <3>1. Unloader \in Actors
      BY DEF Actors
    <3>2. QED
      BY <2>3, <3>1, ReplyTyped DEF Unloaded, machine, VirtualizationTypeOK
  <2>4. CASE UNCHANGED vars
    BY <2>4 DEF vars, driver, machine, VirtualizationTypeOK
  <2>5. CASE StrayBlock
    BY <2>5, CrashTyped DEF StrayBlock
  <2>6. QED
    BY <2>1, <2>2, <2>3, <2>4, <2>5, RequestTyped DEF Next
<1>2. QED
  BY <1>1, InitTyped, PTL DEF Spec
-----------------------------------------------------------------------------
\* The parts of an enable in which its actor owns a processor in VMX root
\* operation.
Owns(a) == pc[a] \in {"vmcs", "launch"}

\* A processor that has been told to leave VMX operation and is about to
\* execute vmresume outside of it.
Doomed(c) == vmx[c] = "off" /\ status[c] # "none"

\* Once launched, a processor is a guest until a broadcast takes it down.
Up(c) == Running(c) \/ Doomed(c)

\* Every processor is, and no two have one number.
AllUp == OneGroup /\ \A c \in Cpu : Up(c)

\* Status is that of some processor with the number.
StatusTrue(p) ==
    p # Null => \A i \in Cpu : p[i].status => \E c \in Cpu : number[c] = i /\ Up(c)

\* CpuidHandler and VmxRelatedHandler continue.
StatusInv ==
    \A c \in Cpu : status[c] \in {"none", "continue"} /\ (status[c] # "none" => vmx[c] # "guest")

\* A processor in VMX root operation that has not left the guest is owned by
\* the one actor that executed vmxon there.
OwnerInv ==
    \A a \in Actors : Owns(a) =>
        /\ vmx[task[a].cpu] = "root" /\ status[task[a].cpu] = "none"
        /\ \A b \in Actors \ {a} : Owns(b) => task[b].cpu # task[a].cpu

\* Whatever says that a processor is virtualized says so of one that is: the
\* local variable of VirtualizeProcessor, Status, the result of the system
\* thread, and the flag.
ClaimInv ==
    /\ \A a \in Actors : task[a].virtualized =>
          /\ pc[a] \in {"captured", "status", "finish", "broadcast", "unload"}
          /\ Up(task[a].cpu)
    /\ StatusTrue(processors)
    /\ \A a \in Actors : task[a].result => AllUp
    /\ isVirtualized => AllUp

\* The broadcast that took a processor down never ends.
DoomInv ==
    \A c \in Cpu : Doomed(c) => \E a \in Actors : pc[a] = "broadcast" /\ c \notin task[a].done

FlagInv == StatusInv /\ OwnerInv /\ ClaimInv /\ DoomInv

LEMMA InitFlag == Init => FlagInv
  BY DEF Init, FlagInv, StatusInv, OwnerInv, ClaimInv, StatusTrue, DoomInv, Owns, Doomed, Up, Running, NoTask

\* A step that leaves the processors' modes alone keeps the invariant when the
\* actor that takes it owns nothing, gives no broadcast up, and claims nothing
\* that was not claimed.
LEMMA Bystander ==
    ASSUME VirtualizationTypeOK, FlagInv, UNCHANGED <<vmx, status, number>>,
           NEW a \in Actors, NEW where \in Places, Goto(a, where),
           ~Owns(a), where \notin {"vmcs", "launch"}, pc[a] # "broadcast",
           \A b \in Actors \ {a} : task'[b] = task[b],
           task'[a].virtualized =>
               where \in {"captured", "status", "finish", "broadcast", "unload"} /\ Up(task'[a].cpu),
           task'[a].result => AllUp,
           StatusTrue(processors'),
           isVirtualized' => AllUp
    PROVE  FlagInv'
<1> USE DEF FlagInv, Goto, Owns, VirtualizationTypeOK
<1>1. \A c \in Cpu : Up(c)' = Up(c) /\ Doomed(c)' = Doomed(c)
  BY DEF Up, Doomed, Running
<1>0. AllUp' = AllUp
  BY <1>1 DEF AllUp, OneGroup
<1>2. StatusInv'
  BY DEF StatusInv
<1>3. OwnerInv'
  BY DEF OwnerInv
<1>4. ClaimInv'
  <2>1. ASSUME NEW b \in Actors, (task[b].virtualized)'
        PROVE  (pc[b] \in {"captured", "status", "finish", "broadcast", "unload"} /\ Up(task[b].cpu))'
    BY <2>1 DEF ClaimInv, Up, Doomed, Running
  <2>2. \A b \in Actors : task'[b].result => AllUp'
    BY <1>0 DEF ClaimInv
  <2>3. StatusTrue(processors)'
    BY <1>1 DEF StatusTrue
  <2>4. QED
    BY <1>0, <2>1, <2>2, <2>3 DEF ClaimInv
<1>5. DoomInv'
  BY <1>1 DEF DoomInv
<1>6. QED
  BY <1>2, <1>3, <1>4, <1>5

\* What is claimed now, for the steps that claim nothing new.
LEMMA Claims ==
    ASSUME VirtualizationTypeOK, FlagInv, NEW a \in Actors
    PROVE  /\ task[a].cpu \in Cpu
           /\ task[a].virtualized =>
                 pc[a] \in {"captured", "status", "finish", "broadcast", "unload"} /\ Up(task[a].cpu)
           /\ task[a].result => AllUp
           /\ StatusTrue(processors)
           /\ isVirtualized => AllUp
  BY DEF FlagInv, ClaimInv, VirtualizationTypeOK, Task

\* Requests and the ends of requests.
LEMMA RequestFlag ==
    VirtualizationTypeOK /\ FlagInv /\ UNCHANGED number /\ Request => FlagInv'
<1> SUFFICES ASSUME VirtualizationTypeOK, FlagInv, UNCHANGED number, NEW a \in Actors, NEW where \in Places,
                    pc[a] = "idle", Goto(a, where) \/ UNCHANGED pc, where \notin {"vmcs", "launch"},
                    UNCHANGED <<isVirtualized, processors, machine, task>>
             PROVE  FlagInv'
  BY DEF Request, Enable, Disable, OnSystemSleep, OnSystemWake, DriverUnload, Accepts, At,
         Actors, Places, driver
<1>1. CASE Goto(a, where)
  BY <1>1, Bystander, Claims DEF Owns, machine
<1>2. CASE UNCHANGED pc
  BY <1>2 DEF FlagInv, StatusInv, OwnerInv, ClaimInv, StatusTrue, AllUp, OneGroup, DoomInv,
              Owns, Up, Doomed, Running, machine
<1>3. QED
  BY <1>1, <1>2

LEMMA ReplyFlag ==
    ASSUME VirtualizationTypeOK, FlagInv, UNCHANGED number, NEW a \in Actors, ~Owns(a), pc[a] # "broadcast",
           Reply(a) \/ Return(a), UNCHANGED <<processors, machine>>,
           isVirtualized' => AllUp
    PROVE  FlagInv'
<1>1. PICK where \in {"idle", "unload"} : Goto(a, where)
  BY DEF Reply, Return
<1>2. task' = [task EXCEPT ![a] = NoTask]
  BY DEF Reply, Return
<1>3. task'[a] = NoTask
  BY <1>2 DEF VirtualizationTypeOK
<1>4. QED
  BY <1>1, <1>2, <1>3, Bystander, Claims DEF NoTask, Places, machine, VirtualizationTypeOK

LEMMA EnableFlag ==
    ASSUME VirtualizationTypeOK, FlagInv, UNCHANGED number, NEW a \in Actors,
           Virtualize(a) \/ CreateThread(a) \/ AllocVmData(a)
    PROVE  FlagInv'
<1> USE DEF Owns, At, Places, driver, machine
<1>1. CASE Virtualize(a)
  <2>1. CASE Reply(a)
    BY <1>1, <2>1, ReplyFlag, Claims DEF Virtualize
  <2>2. CASE Goto(a, "thread") /\ UNCHANGED task
    BY <1>1, <2>2, Bystander, Claims DEF Virtualize
  <2>3. QED
    BY <1>1, <2>1, <2>2 DEF Virtualize
<1>2. CASE CreateThread(a)
  <2>1. CASE Reply(a) /\ UNCHANGED processors
    BY <1>2, <2>1, ReplyFlag, Claims DEF CreateThread
  <2>2. CASE processors' = [c \in Cpu |-> [data |-> Null, status |-> FALSE]]
             /\ Goto(a, "alloc") /\ UNCHANGED task
    <3>1. StatusTrue(processors')
      BY <2>2 DEF StatusTrue
    <3>2. QED
      BY <1>2, <2>2, <3>1, Bystander, Claims DEF CreateThread
  <2>3. CASE Goto(a, "finish") /\ UNCHANGED <<processors, task>>
    BY <1>2, <2>3, Bystander, Claims DEF CreateThread
  <2>4. QED
    BY <1>2, <2>1, <2>2, <2>3 DEF CreateThread
<1>3. CASE AllocVmData(a)
  <2>0. task[a] \in Task /\ task[a].cpu \in Cpu
    BY DEF VirtualizationTypeOK, Task
  <2>1. CASE Crash
    BY <2>1 DEF Crash, FlagInv, StatusInv, OwnerInv, ClaimInv, StatusTrue, AllUp, OneGroup,
                DoomInv, Up, Doomed, Running
  <2>2. ASSUME processors # Null, NEW b \in Blocks,
               processors' = [processors EXCEPT ![task[a].cpu].data = b],
               NEW c \in Nat, NEW where \in {"alloc", "captured"},
               task' = [task EXCEPT ![a].cpu = c], pc' = [pc EXCEPT ![a] = where],
               UNCHANGED <<isVirtualized, machine>>
        PROVE  FlagInv'
    <3>1. \A d \in Cpu : processors'[d].status = processors[d].status
      BY <2>0, <2>2 DEF VirtualizationTypeOK, Processors
    <3>2. /\ task'[a].virtualized = task[a].virtualized /\ task'[a].result = task[a].result
          /\ \A d \in Actors \ {a} : task'[d] = task[d]
      BY <2>0, <2>2 DEF VirtualizationTypeOK, Task
    <3>3. ~task[a].virtualized
      BY <1>3, Claims DEF AllocVmData
    <3>4. Goto(a, where)
      BY <2>2 DEF Goto
    <3>5. StatusTrue(processors')
      BY <2>2, <3>1, Claims DEF StatusTrue
    <3>6. QED
      BY <1>3, <2>2, <3>2, <3>3, <3>4, <3>5, Bystander, Claims DEF AllocVmData
  <2>3. ASSUME processors' = Null, Goto(a, "finish"), UNCHANGED <<isVirtualized, machine, task>>
        PROVE  FlagInv'
    <3>1. StatusTrue(processors')
      BY <2>3 DEF StatusTrue
    <3>2. QED
      BY <1>3, <2>3, <3>1, Bystander, Claims DEF AllocVmData
  <2>4. QED
    <3>1. task[a].cpu + 1 \in Nat /\ 1 \in Nat
      BY <2>0 DEF Cpu
    <3>2. \/ Crash
          \/ /\ processors # Null
             /\ \E b \in Blocks : processors' = [processors EXCEPT ![task[a].cpu].data = b]
             /\ \/ /\ task' = [task EXCEPT ![a].cpu = task[a].cpu + 1]
                   /\ pc' = [pc EXCEPT ![a] = "alloc"]
                \/ task' = [task EXCEPT ![a].cpu = 1] /\ pc' = [pc EXCEPT ![a] = "captured"]
             /\ UNCHANGED <<isVirtualized, machine>>
          \/ processors' = Null /\ Goto(a, "finish") /\ UNCHANGED <<isVirtualized, machine, task>>
      <4>1. pc = [pc EXCEPT ![a] = "alloc"]
        BY <1>3 DEF AllocVmData, At, VirtualizationTypeOK
      <4>2. QED
        BY <1>3, <4>1 DEF AllocVmData, Goto
    <3>3. QED
      BY <2>1, <2>2, <2>3, <3>1, <3>2
<1>4. QED
  BY <1>1, <1>2, <1>3

\* ForEachCpu goes on or ends: what VirtualizeProcessor claimed is forgotten.
LEMMA CallbackFlag ==
    ASSUME VirtualizationTypeOK, FlagInv, UNCHANGED number, NEW a \in Actors, ~Owns(a), pc[a] # "broadcast",
           CallbackTrue(a) \/ (CallbackFalse(a) /\ ~task[a].virtualized),
           UNCHANGED <<isVirtualized, vmx, status>>,
           StatusTrue(processors')
    PROVE  FlagInv'
<1>1. CASE CallbackTrue(a) /\ task[a].cpu < Cpus
  <2>1. Goto(a, "captured") /\ \A b \in Actors \ {a} : task'[b] = task[b]
    BY <1>1 DEF CallbackTrue, VirtualizationTypeOK
  <2>2. ~task'[a].virtualized /\ ~task'[a].result
    BY <1>1 DEF CallbackTrue, NoTask, VirtualizationTypeOK
  <2>3. QED
    BY <2>1, <2>2, Bystander, Claims DEF Places
<1>2. CASE Goto(a, "status") /\ UNCHANGED task
  <2>1. task[a].virtualized => Up(task[a].cpu)
    BY Claims
  <2>2. QED
    BY <1>2, <2>1, Bystander, Claims DEF Places
<1>3. QED
  BY <1>1, <1>2 DEF CallbackTrue, CallbackFalse

LEMMA CapturedFlag ==
    ASSUME VirtualizationTypeOK, FlagInv, UNCHANGED number, NEW a \in Actors, Captured(a)
    PROVE  FlagInv'
<1> DEFINE c == task[a].cpu
<1>1. pc[a] = "captured" /\ c \in Cpu /\ task[a] \in Task
  BY DEF Captured, At, VirtualizationTypeOK, Task
<1>2. CASE ~task[a].virtualized /\ Goto(a, "vmxon") /\ UNCHANGED <<driver, machine, task>>
  BY <1>1, <1>2, Bystander, Claims DEF Owns, Places, driver, machine
<1>3. CASE task' = [task EXCEPT ![a].restored = TRUE] /\ UNCHANGED <<driver, machine, pc>>
  <2>1. /\ task'[a].virtualized = task[a].virtualized /\ task'[a].result = task[a].result
        /\ task'[a].cpu = c /\ \A b \in Actors \ {a} : task'[b] = task[b]
    BY <1>1, <1>3 DEF VirtualizationTypeOK, Task
  <2>2. Goto(a, "captured")
    BY <1>1, <1>3 DEF Goto, VirtualizationTypeOK
  <2>3. QED
    BY <1>1, <1>3, <2>1, <2>2, Bystander, Claims DEF Owns, Places, driver, machine
<1>4. CASE Crash
  BY <1>4 DEF Crash, FlagInv, StatusInv, OwnerInv, ClaimInv, StatusTrue, AllUp, OneGroup,
              DoomInv, Owns, Up, Doomed, Running, driver
<1>5. CASE /\ task[a].virtualized /\ processors # Null
           /\ processors' = [processors EXCEPT ![number[c]].status = TRUE]
           /\ CallbackTrue(a) /\ UNCHANGED <<isVirtualized, machine>>
  <2>1. \A d \in Cpu : processors'[d].status => d = number[c] \/ processors[d].status
    BY <1>1, <1>5 DEF VirtualizationTypeOK, Processors
  <2>2. StatusTrue(processors')
    BY <1>1, <1>5, <2>1, Claims DEF StatusTrue
  <2>3. QED
    BY <1>1, <1>5, <2>2, CallbackFlag DEF Owns, machine
<1>6. QED
  BY <1>2, <1>3, <1>4, <1>5 DEF Captured

\* An actor in VMX root operation enters and leaves it on a processor nobody
\* claims.
LEMMA UnclaimedChange ==
    ASSUME VirtualizationTypeOK, FlagInv, UNCHANGED number, NEW a \in Actors,
           NEW mode \in {"off", "root", "guest"}, NEW where \in Places \ {"broadcast"},
           pc[a] \in {"vmxon", "vmcs", "launch"}, Goto(a, where),
           vmx' = [vmx EXCEPT ![task[a].cpu] = mode],
           vmx[task[a].cpu] # "guest", ~Doomed(task[a].cpu), status[task[a].cpu] = "none",
           \A b \in Actors \ {a} : Owns(b) => task[b].cpu # task[a].cpu,
           where \in {"vmcs", "launch"} => mode = "root",
           UNCHANGED <<driver, status>>,
           \A b \in Actors \ {a} : task'[b] = task[b],
           task'[a].cpu = task[a].cpu, task'[a].result = task[a].result,
           task'[a].virtualized => mode = "guest" /\ where = "captured"
    PROVE  FlagInv'
<1> DEFINE c == task[a].cpu
<1> USE DEF Goto, VirtualizationTypeOK
<1>1. c \in Cpu /\ ~Up(c) /\ ~Doomed(c)'
  BY Claims DEF Up, Running, Doomed
<1>2. \A d \in Cpu \ {c} : Up(d)' = Up(d) /\ Doomed(d)' = Doomed(d)
  BY <1>1 DEF Up, Doomed, Running
<1>3. /\ \A d \in Cpu : Up(d) => Up(d)'
      /\ AllUp => AllUp'
  BY <1>1, <1>2 DEF AllUp, OneGroup
<1>4. StatusInv'
  BY <1>1 DEF FlagInv, StatusInv
<1>5. OwnerInv'
  <2>1. ASSUME NEW b \in Actors, Owns(b)'
        PROVE  /\ vmx'[task'[b].cpu] = "root" /\ status'[task'[b].cpu] = "none"
               /\ \A d \in Actors \ {b} : Owns(d)' => task'[d].cpu # task'[b].cpu
    <3>1. CASE b = a
      BY <1>1, <2>1, <3>1 DEF Owns
    <3>2. CASE b # a
      <4>1. Owns(b) /\ task'[b] = task[b] /\ task[b].cpu # c
        BY <2>1, <3>2 DEF Owns
      <4>2. task[b].cpu \in Cpu
        BY DEF Task
      <4>3. QED
        BY <1>1, <3>2, <4>1, <4>2 DEF FlagInv, OwnerInv, Owns
    <3>3. QED
      BY <3>1, <3>2
  <2>2. QED
    BY <2>1 DEF OwnerInv
<1>6. ClaimInv'
  <2>1. ASSUME NEW b \in Actors, task'[b].virtualized
        PROVE  /\ pc'[b] \in {"captured", "status", "finish", "broadcast", "unload"}
               /\ Up(task[b].cpu)'
    <3>1. CASE b = a
      BY <1>1, <2>1, <3>1 DEF Up, Running
    <3>2. CASE b # a
      BY <1>3, <2>1, <3>2, Claims DEF Up, Running, Doomed
    <3>3. QED
      BY <3>1, <3>2
  <2>2. \A b \in Actors : task'[b].result => AllUp'
    BY <1>3, Claims
  <2>3. StatusTrue(processors)' /\ (isVirtualized' => AllUp')
    BY <1>3, Claims DEF StatusTrue, driver
  <2>4. QED
    BY <2>1, <2>2, <2>3 DEF ClaimInv
<1>7. DoomInv'
  BY <1>1, <1>2 DEF FlagInv, DoomInv
<1>8. QED
  BY <1>4, <1>5, <1>6, <1>7 DEF FlagInv

LEMMA CrashFlag == FlagInv /\ Crash => FlagInv'
  BY DEF Crash, FlagInv, StatusInv, OwnerInv, ClaimInv, StatusTrue, AllUp, OneGroup, DoomInv,
         Owns, Up, Doomed, Running, driver

LEMMA VmxOnFlag ==
    ASSUME VirtualizationTypeOK, FlagInv, UNCHANGED number, NEW a \in Actors, VmxOn(a)
    PROVE  FlagInv'
<1> DEFINE c == task[a].cpu
<1>1. pc[a] = "vmxon" /\ c \in Cpu /\ task[a] \in Task /\ ~task[a].virtualized
  BY Claims DEF VmxOn, At, VirtualizationTypeOK
<1>2. CASE CallbackFalse(a) /\ UNCHANGED <<driver, machine>>
  BY <1>1, <1>2, CallbackFlag, Claims DEF Owns, driver, machine
<1>3. CASE /\ processors # Null /\ vmx[c] = "off" /\ status[c] = "none"
           /\ vmx' = [vmx EXCEPT ![c] = "root"]
           /\ task' = [task EXCEPT ![a].private = processors[number[c]].data]
           /\ Goto(a, "vmcs") /\ UNCHANGED <<driver, data, status, regs, crashed, number>>
  <2>1. /\ task'[a].virtualized = task[a].virtualized /\ task'[a].result = task[a].result
        /\ task'[a].cpu = c /\ \A b \in Actors \ {a} : task'[b] = task[b]
    BY <1>1, <1>3 DEF VirtualizationTypeOK, Task
  <2>2. \A b \in Actors : Owns(b) => task[b].cpu # c
    BY <1>3 DEF FlagInv, OwnerInv
  <2>3. ~Doomed(c)
    BY <1>3 DEF Doomed
  <2>4. QED
    BY <1>1, <1>3, <2>1, <2>2, <2>3, UnclaimedChange DEF Places
<1>4. QED
  BY <1>2, <1>3, CrashFlag DEF VmxOn

\* Leaving VMX operation after a failure.
LEMMA VmxOffFlag ==
    ASSUME VirtualizationTypeOK, FlagInv, UNCHANGED number, NEW a \in Actors, Owns(a), VmxOff(a)
    PROVE  FlagInv'
<1> DEFINE c == task[a].cpu
<1>1. /\ vmx[c] = "root" /\ status[c] = "none" /\ ~task[a].virtualized
      /\ \A b \in Actors \ {a} : Owns(b) => task[b].cpu # c
  BY Claims DEF FlagInv, OwnerInv, Owns
<1>2. ~Doomed(c)
  BY <1>1 DEF Doomed
<1>3. Goto(a, "status") /\ UNCHANGED task
  BY DEF VmxOff, CallbackFalse
<1>4. pc[a] \in {"vmxon", "vmcs", "launch"}
  BY DEF Owns
<1>5. QED
  BY <1>1, <1>2, <1>3, <1>4, UnclaimedChange DEF VmxOff, Places

LEMMA LaunchFlag ==
    ASSUME VirtualizationTypeOK, FlagInv, UNCHANGED number, NEW a \in Actors, LoadVmcs(a) \/ VmLaunch(a)
    PROVE  FlagInv'
<1> DEFINE c == task[a].cpu
<1>1. Owns(a) /\ c \in Cpu /\ task[a] \in Task
  BY Claims DEF LoadVmcs, VmLaunch, At, Owns, VirtualizationTypeOK
<1>2. /\ vmx[c] = "root" /\ status[c] = "none" /\ ~task[a].virtualized
      /\ \A b \in Actors \ {a} : Owns(b) => task[b].cpu # c
  BY <1>1, Claims DEF FlagInv, OwnerInv, Owns
<1>3. ~Doomed(c) /\ pc[a] \in {"vmxon", "vmcs", "launch"}
  BY <1>1, <1>2 DEF Doomed, Owns
<1>4. CASE VmxOff(a)
  BY <1>1, <1>4, VmxOffFlag
<1>5. CASE Goto(a, "launch") /\ UNCHANGED <<driver, machine, task>>
  <2>1. vmx' = [vmx EXCEPT ![c] = "root"]
    BY <1>2, <1>5 DEF machine, VirtualizationTypeOK
  <2>2. QED
    BY <1>2, <1>3, <1>5, <2>1, UnclaimedChange DEF machine, Places
<1>6. CASE /\ vmx' = [vmx EXCEPT ![c] = "guest"]
           /\ task' = [task EXCEPT ![a].virtualized = TRUE]
           /\ Goto(a, "captured") /\ UNCHANGED <<driver, status, regs, crashed, number>>
  <2>1. /\ task'[a].result = task[a].result /\ task'[a].cpu = c
        /\ \A b \in Actors \ {a} : task'[b] = task[b]
    BY <1>1, <1>6 DEF VirtualizationTypeOK, Task
  <2>2. QED
    BY <1>2, <1>3, <1>6, <2>1, UnclaimedChange DEF Places
<1>7. QED
  BY <1>4, <1>5, <1>6 DEF LoadVmcs, VmLaunch

\* When every number is that of a processor that is up, there is one processor
\* for each number.
LEMMA EveryNumber ==
    ASSUME VirtualizationTypeOK, \A i \in Cpu : \E c \in Cpu : number[c] = i /\ Up(c)
    PROVE  AllUp
<1>1. IsFiniteSet(Cpu)
  BY FS_Interval DEF Cpu
<1>2. number \in Surjection(Cpu, Cpu)
  BY DEF Surjection, VirtualizationTypeOK
<1>3. number \in Injection(Cpu, Cpu)
  BY <1>1, <1>2, FS_SurjSameCardinalityImpliesInj
<1>4. OneGroup
  BY <1>3 DEF Injection, IsInjective, OneGroup
<1>5. QED
  BY <1>4 DEF OneGroup, AllUp, VirtualizationTypeOK

\* The result of an enable: all processors are up when all say so.
LEMMA ResultFlag ==
    ASSUME VirtualizationTypeOK, FlagInv, UNCHANGED number, NEW a \in Actors, CheckStatus(a) \/ Finish(a)
    PROVE  FlagInv'
<1>0. task[a] \in Task /\ pc[a] \in {"status", "finish"}
  BY DEF CheckStatus, Finish, At, VirtualizationTypeOK
<1>1. ASSUME NEW where \in {"finish", "broadcast"}, Goto(a, where),
             \/ /\ task' = [task EXCEPT ![a].result = TRUE]
                /\ processors # Null /\ \A c \in Cpu : processors[c].status
             \/ task' = [task EXCEPT ![a].rollback = TRUE],
             UNCHANGED <<driver, machine>>
      PROVE  FlagInv'
  <2>1. /\ task'[a].virtualized = task[a].virtualized /\ task'[a].cpu = task[a].cpu
        /\ \A b \in Actors \ {a} : task'[b] = task[b]
    BY <1>0, <1>1 DEF VirtualizationTypeOK, Task
  <2>2. CASE processors # Null /\ \A c \in Cpu : processors[c].status
    <3>1. AllUp
      BY <2>2, Claims, EveryNumber DEF StatusTrue
    <3>2. QED
      BY <1>0, <1>1, <2>1, <2>2, <3>1, Bystander, Claims DEF Owns, Places, driver, machine
  <2>3. CASE task' = [task EXCEPT ![a].rollback = TRUE]
    <3>1. task'[a].result = task[a].result
      BY <1>0, <2>3 DEF VirtualizationTypeOK, Task
    <3>2. task'[a].result => AllUp
      BY <3>1, Claims
    <3>3. QED
      BY <1>0, <1>1, <2>1, <3>2, Bystander, Claims DEF Owns, Places, driver, machine
  <2>4. QED
    BY <1>1, <2>2, <2>3
<1>2. CASE CheckStatus(a)
  BY <1>1, <1>2, CrashFlag DEF CheckStatus
<1>3. CASE Finish(a)
  BY <1>0, <1>3, ReplyFlag, Claims DEF Finish, Owns
<1>4. QED
  BY <1>2, <1>3

\* Exits that leave the guest and go back to it: VmxRelatedHandler, and
\* VmxVmmRun on its way to vmresume.
LEMMA ExitFlag ==
    ASSUME VirtualizationTypeOK, FlagInv, UNCHANGED number, NEW c \in Cpu,
           \/ VmxVmmRun(c)
           \/ \E a \in Actors : VmxRelatedHandler(a) /\ task[a].cpu = c
    PROVE  FlagInv'
<1>1. CASE Crash
  BY <1>1, CrashFlag
<1>2. ASSUME Running(c) /\ (vmx[c] = "guest" \/ status[c] # "none"),
             \/ vmx' = [vmx EXCEPT ![c] = "guest"] /\ status' = [status EXCEPT ![c] = "none"]
             \/ vmx' = [vmx EXCEPT ![c] = "root"] /\ status' = [status EXCEPT ![c] = "continue"]
      PROVE  /\ StatusInv'
             /\ \A d \in Cpu : Up(d)' = Up(d) /\ Doomed(d)' = Doomed(d)
             /\ \A b \in Actors : Owns(b) => task[b].cpu # c
    <2>1. StatusInv'
      BY <1>2 DEF FlagInv, StatusInv, VirtualizationTypeOK
    <2>2. \A d \in Cpu : Up(d)' = Up(d) /\ Doomed(d)' = Doomed(d)
      BY <1>2 DEF Up, Doomed, Running, VirtualizationTypeOK
    <2>3. \A b \in Actors : Owns(b) => task[b].cpu # c
      BY <1>2 DEF FlagInv, OwnerInv, Running
    <2>4. QED
      BY <2>1, <2>2, <2>3
<1>3. CASE VmxVmmRun(c) /\ ~Crash
  <2>0. status[c] = "continue" /\ vmx[c] # "guest" /\ vmx[c] # "off"
    BY <1>3 DEF VmxVmmRun, FlagInv, StatusInv
  <2>1. status[c] = "continue" /\ vmx[c] = "root"
    BY <2>0 DEF VirtualizationTypeOK
  <2>2. vmx' = [vmx EXCEPT ![c] = "guest"] /\ status' = [status EXCEPT ![c] = "none"]
    BY <1>3, <2>1 DEF VmxVmmRun
  <2>3. Running(c)
    BY <2>1 DEF Running
  <2>4. /\ StatusInv'
        /\ \A d \in Cpu : Up(d)' = Up(d) /\ Doomed(d)' = Doomed(d)
        /\ \A b \in Actors : Owns(b) => task[b].cpu # c
    BY <1>2, <2>1, <2>2, <2>3
  <2>5. UNCHANGED <<driver, pc, task>>
    BY <1>3, <2>1 DEF VmxVmmRun
  <2>6. OwnerInv'
    BY <2>2, <2>4, <2>5 DEF FlagInv, OwnerInv, Owns, VirtualizationTypeOK, Task
  <2>7. ClaimInv' /\ DoomInv'
    BY <2>4, <2>5, Claims DEF FlagInv, ClaimInv, StatusTrue, AllUp, OneGroup, DoomInv, driver
  <2>8. QED
    BY <2>4, <2>6, <2>7 DEF FlagInv
<1>4. ASSUME NEW a \in Actors, VmxRelatedHandler(a), task[a].cpu = c PROVE FlagInv'
  <2>1. /\ pc[a] = "vmxon" /\ ~task[a].virtualized /\ Running(c) /\ vmx[c] = "guest"
        /\ vmx' = [vmx EXCEPT ![c] = "root"] /\ status' = [status EXCEPT ![c] = "continue"]
        /\ Goto(a, "status") /\ UNCHANGED <<driver, task>>
    BY <1>4, Claims DEF VmxRelatedHandler, CallbackFalse, At, Running
  <2>2. /\ StatusInv'
        /\ \A d \in Cpu : Up(d)' = Up(d) /\ Doomed(d)' = Doomed(d)
        /\ \A b \in Actors : Owns(b) => task[b].cpu # c
    BY <1>2, <2>1
  <2>3. OwnerInv'
    BY <2>1, <2>2 DEF FlagInv, OwnerInv, Owns, Goto, VirtualizationTypeOK, Task
  <2>4. DoomInv'
    BY <2>1, <2>2 DEF FlagInv, DoomInv, Goto, VirtualizationTypeOK
  <2>5. ClaimInv'
    <3>1. ASSUME NEW b \in Actors, task[b].virtualized
          PROVE  /\ pc'[b] \in {"captured", "status", "finish", "broadcast", "unload"}
                 /\ Up(task[b].cpu)'
      BY <2>1, <2>2, <3>1, Claims DEF Goto, VirtualizationTypeOK
    <3>2. QED
      BY <2>1, <2>2, <3>1, Claims DEF ClaimInv, StatusTrue, AllUp, OneGroup, driver
  <2>6. QED
    BY <2>2, <2>3, <2>4, <2>5 DEF FlagInv
<1>5. QED
  BY <1>1, <1>3, <1>4

LEMMA DisableFlag ==
    ASSUME VirtualizationTypeOK, FlagInv, UNCHANGED number, NEW a \in Actors,
           \/ Devirtualize(a)
           \/ \E c \in Cpu : DevirtualizeProcessor(a, c) \/ CpuidHandler(a, c)
           \/ FreeVmData(a)
    PROVE  FlagInv'
<1>0. task[a] \in Task
  BY DEF VirtualizationTypeOK
<1>1. CASE Devirtualize(a)
  <2>1. CASE Return(a)
    BY <1>1, <2>1, ReplyFlag, Claims DEF Devirtualize, At, Owns, driver
  <2>2. CASE Goto(a, "broadcast") /\ UNCHANGED task
    BY <1>1, <2>2, Bystander, Claims DEF Devirtualize, At, Owns, Places, driver, machine
  <2>3. QED
    BY <1>1, <2>1, <2>2 DEF Devirtualize
<1>2. ASSUME NEW c \in Cpu, DevirtualizeProcessor(a, c) PROVE FlagInv'
  <2>1. \A b \in Actors : /\ task'[b].virtualized = task[b].virtualized
                          /\ task'[b].result = task[b].result /\ task'[b].cpu = task[b].cpu
    BY <1>0, <1>2 DEF DevirtualizeProcessor, VirtualizationTypeOK, Task
  <2>2. \A b \in Actors, d \in Cpu \ {c} : d \notin task[b].done => d \notin task'[b].done
    BY <1>0, <1>2 DEF DevirtualizeProcessor, VirtualizationTypeOK, Task
  <2>3. ~Doomed(c) /\ UNCHANGED <<isVirtualized, processors, vmx, status, pc>>
    BY <1>2 DEF DevirtualizeProcessor, Doomed, driver
  <2>4. DoomInv'
    <3>1. ASSUME NEW d \in Cpu, Doomed(d)'
          PROVE  \E b \in Actors : pc'[b] = "broadcast" /\ d \notin task'[b].done
      <4>1. Doomed(d) /\ d # c
        BY <2>3, <3>1 DEF Doomed
      <4>2. PICK b \in Actors : pc[b] = "broadcast" /\ d \notin task[b].done
        BY <4>1 DEF FlagInv, DoomInv
      <4>3. QED
        BY <2>2, <2>3, <4>1, <4>2
    <3>2. QED
      BY <3>1 DEF DoomInv
  <2>5. StatusInv' /\ OwnerInv' /\ ClaimInv'
    BY <2>1, <2>3 DEF FlagInv, StatusInv, OwnerInv, ClaimInv, StatusTrue, AllUp, OneGroup,
                         Owns, Up, Doomed, Running
  <2>6. QED
    BY <2>4, <2>5 DEF FlagInv
<1>3. ASSUME NEW c \in Cpu, CpuidHandler(a, c) PROVE FlagInv'
  <2>1. /\ pc[a] = "broadcast" /\ c \notin task[a].done /\ vmx[c] = "guest" /\ status[c] = "none"
        /\ vmx' = [vmx EXCEPT ![c] = "off"] /\ status' = [status EXCEPT ![c] = "continue"]
        /\ UNCHANGED <<driver, pc, task>>
    BY <1>3 DEF CpuidHandler, Broadcasts, At
  <2>2. Doomed(c)' /\ Up(c) /\ \A d \in Cpu \ {c} : Up(d)' = Up(d) /\ Doomed(d)' = Doomed(d)
    BY <2>1 DEF Doomed, Up, Running, VirtualizationTypeOK
  <2>3. \A d \in Cpu : Up(d) => Up(d)'
    BY <2>2 DEF Up
  <2>4. StatusInv'
    BY <2>1 DEF FlagInv, StatusInv, VirtualizationTypeOK
  <2>5. OwnerInv'
    BY <2>1 DEF FlagInv, OwnerInv, Owns, VirtualizationTypeOK, Task
  <2>6. ClaimInv'
    BY <2>1, <2>3, Claims DEF ClaimInv, StatusTrue, AllUp, OneGroup, driver
  <2>7. DoomInv'
    BY <2>1, <2>2 DEF FlagInv, DoomInv
  <2>8. QED
    BY <2>4, <2>5, <2>6, <2>7 DEF FlagInv
<1>4. CASE FreeVmData(a)
  <2>1. /\ pc[a] = "broadcast" /\ task[a].done = Cpu /\ ~isVirtualized'
        /\ processors' = Null \/ processors' = processors
        /\ task' = [task EXCEPT ![a] = NoTask] /\ UNCHANGED machine
    BY <1>4 DEF FreeVmData, Broadcasts, At, Return
  <2>2. PICK where \in {"finish", "idle", "unload"} : Goto(a, where)
    BY <1>4 DEF FreeVmData, Return
  <2>3. /\ ~task'[a].virtualized /\ ~task'[a].result
        /\ \A b \in Actors \ {a} : task'[b] = task[b] /\ pc'[b] = pc[b]
    BY <2>1, <2>2 DEF NoTask, Goto, VirtualizationTypeOK
  <2>4. \A d \in Cpu : Up(d)' = Up(d) /\ Doomed(d)' = Doomed(d)
    BY <2>1 DEF Up, Doomed, Running, machine
  <2>5. DoomInv'
    BY <2>1, <2>3, <2>4 DEF FlagInv, DoomInv
  <2>6. StatusInv' /\ OwnerInv'
    BY <2>1, <2>2, <2>3 DEF FlagInv, StatusInv, OwnerInv, Owns, Goto, machine, VirtualizationTypeOK
  <2>7. ClaimInv'
    <3>1. ASSUME NEW b \in Actors, task'[b].virtualized
          PROVE  /\ pc'[b] \in {"captured", "status", "finish", "broadcast", "unload"}
                 /\ Up(task[b].cpu)' /\ task'[b] = task[b]
      BY <2>3, <2>4, <3>1, Claims
    <3>2. \A b \in Actors : task'[b].result => AllUp'
      BY <2>3, <2>4, Claims DEF AllUp, OneGroup
    <3>3. StatusTrue(processors)'
      BY <2>1, <2>4, Claims DEF StatusTrue
    <3>4. QED
      BY <2>1, <3>1, <3>2, <3>3 DEF ClaimInv
  <2>8. QED
    BY <2>5, <2>6, <2>7 DEF FlagInv
<1>5. QED
  BY <1>1, <1>2, <1>3, <1>4

\* The processors are numbered once and for all.
LEMMA NumberKept == [Next]_vars => UNCHANGED number
<1> SUFFICES ASSUME [Next]_vars PROVE UNCHANGED number
  OBVIOUS
<1> USE DEF machine
<1>1. Crash => UNCHANGED number
  BY DEF Crash
<1>2. CASE Request
  BY <1>2 DEF Request, Enable, Disable, OnSystemSleep, OnSystemWake, DriverUnload
<1>3. ASSUME NEW a \in Actors, Step(a) PROVE UNCHANGED number
  <2>1. CASE Virtualize(a) \/ CreateThread(a) \/ AllocVmData(a)
    BY <1>1, <2>1 DEF Virtualize, CreateThread, AllocVmData
  <2>2. CASE Captured(a) \/ VmxOn(a) \/ VmxRelatedHandler(a)
    BY <1>1, <2>2 DEF Captured, VmxOn, VmxRelatedHandler
  <2>3. CASE LoadVmcs(a) \/ VmLaunch(a)
    BY <2>3 DEF LoadVmcs, VmLaunch, VmxOff
  <2>4. CASE CheckStatus(a) \/ Finish(a)
    BY <1>1, <2>4 DEF CheckStatus, Finish
  <2>5. CASE Devirtualize(a) \/ FreeVmData(a)
    BY <2>5 DEF Devirtualize, FreeVmData
  <2>6. CASE \E c \in Cpu : DevirtualizeProcessor(a, c) \/ CpuidHandler(a, c)
    BY <2>6 DEF DevirtualizeProcessor, CpuidHandler
  <2>7. QED
    BY <1>3, <2>1, <2>2, <2>3, <2>4, <2>5, <2>6 DEF Step
<1>4. ASSUME NEW c \in Cpu, VmxVmmRun(c) PROVE UNCHANGED number
  BY <1>1, <1>4 DEF VmxVmmRun
<1>5. CASE StrayBlock \/ Unloaded
  BY <1>1, <1>5 DEF StrayBlock, Unloaded
<1>6. CASE UNCHANGED vars
  BY <1>6 DEF vars
<1>7. QED
  BY <1>2, <1>3, <1>4, <1>5, <1>6 DEF Next

LEMMA NextFlag == VirtualizationTypeOK /\ FlagInv /\ [Next]_vars => FlagInv'
<1> SUFFICES ASSUME VirtualizationTypeOK, FlagInv, [Next]_vars, UNCHANGED number PROVE FlagInv'
  BY NumberKept
<1>1. ASSUME NEW a \in Actors, Step(a) PROVE FlagInv'
  <2>1. CASE VmxRelatedHandler(a)
    BY <2>1, ExitFlag, Claims
  <2>2. QED
    BY <1>1, <2>1, EnableFlag, CapturedFlag, VmxOnFlag, LaunchFlag, ResultFlag, DisableFlag
    DEF Step
<1>2. ASSUME NEW c \in Cpu, VmxVmmRun(c) PROVE FlagInv'
  BY <1>2, ExitFlag
<1>3. CASE Unloaded
  <2>1. Unloader \in Actors
    BY DEF Actors
  <2>2. QED
    BY <1>3, <2>1, ReplyFlag, Claims DEF Unloaded, At, Owns
<1>4. CASE UNCHANGED vars
  BY <1>4 DEF vars, driver, machine, FlagInv, StatusInv, OwnerInv, ClaimInv, StatusTrue, AllUp,
              OneGroup, DoomInv, Owns, Up, Doomed, Running
<1>5. CASE StrayBlock
  BY <1>5, CrashFlag DEF StrayBlock
<1>6. QED
  BY <1>1, <1>2, <1>3, <1>4, <1>5, RequestFlag DEF Next

LEMMA FlagInvariance == Spec => [](VirtualizationTypeOK /\ FlagInv)
  BY NextFlag, InitFlag, VirtualizationTypes, PTL DEF Spec

\* Whatever requests race, however many there are, and wherever they fail, the
\* flag that clients see and InterceptPage relies on is set only while every
\* processor runs as a guest, but for the time of a broadcast.
THEOREM FlagTellsTheTruth == Spec => []FlagIsTrue
<1>1. FlagInv => FlagIsTrue
  BY DEF FlagInv, ClaimInv, AllUp, OneGroup, DoomInv, FlagIsTrue, Up
<1>2. QED
  BY <1>1, FlagInvariance, PTL
-----------------------------------------------------------------------------
(***************************************************************************)
(* One request at a time.                                                  *)
(*                                                                         *)
(* What the driver does when its requests do not overlap follows from one  *)
(* invariant: at most one actor is busy, and at each place of that actor   *)
(* it is known which processors may be in VMX operation, and on what data. *)
(***************************************************************************)
Serial == \A a, b \in Actors : pc[a] # "idle" /\ pc[b] # "idle" => a = b

\* What an actor may rely on at the places of an enable and of a broadcast.
Looping == {"alloc", "captured", "vmxon", "vmcs", "launch", "status"}
Enabling == Looping \union {"thread", "finish"}

WorkInv(a) ==
    /\ pc[a] \in Enabling => ~isVirtualized
    /\ pc[a] \in Looping => processors # Null
    /\ Owns(a) => /\ task[a].private = processors[number[task[a].cpu]].data
                  /\ task[a].private # Null
    /\ pc[a] = "broadcast" =>
          /\ task[a].rollback \/ isVirtualized
          /\ \A c \in task[a].done : vmx[c] = "off" /\ status[c] = "none"
    /\ pc[a] # "broadcast" => task[a].done = {}

\* VMX root operation without an exit in progress is that of a launch.
RootInv ==
    \A c \in Cpu : vmx[c] = "root" /\ status[c] = "none" =>
        \E a \in Actors : Owns(a) /\ task[a].cpu = c

\* Before the loop over the processors starts, and after it failed and what
\* it did was undone, no processor is in VMX operation.
AtRest(a) ==
    \/ pc[a] \in {"idle", "virtualize", "thread", "alloc", "devirtualize", "unload"}
    \/ pc[a] = "finish" /\ ~task[a].result

RestInv ==
    ~isVirtualized /\ (\A a \in Actors : AtRest(a)) =>
        \A c \in Cpu : vmx[c] = "off" /\ status[c] = "none"

\* A launched processor has the block recorded for it.
DataInv ==
    \A c \in Cpu :
        /\ Running(c) => data[c] # Null
        /\ data[c] # Null => /\ Up(c) /\ processors # Null
                           /\ data[c] = processors[number[c]].data

\* The blocks recorded in g_Shared are allocated, and one for each processor.
BlocksInv ==
    processors # Null =>
        \A c \in Cpu : processors[c].data # Null =>
            /\ processors[c].data \in allocated
            /\ \A d \in Cpu \ {c} : processors[d].data # processors[c].data

SerialInv ==
    /\ Serial
    /\ \A a \in Actors : WorkInv(a)
    /\ RootInv
    /\ RestInv
    /\ DataInv
    /\ BlocksInv
    /\ OnlyShutdownCrashes

LEMMA InitSerial == Init => SerialInv
  BY DEF Init, SerialInv, Serial, WorkInv, RootInv, RestInv, DataInv, BlocksInv,
         OnlyShutdownCrashes, Owns, Up, Running, NoTask, Enabling, Looping

\* The table of processors is not a NULL pointer.
LEMMA NullIsNoTable == \A t \in Processors : t # Null
  BY VirtualizationAssumption

\* The request that is accepted is the only one.
LEMMA AcceptsAlone ==
    ASSUME Concurrency = 1, Serial, NEW a \in Actors, Accepts(a)
    PROVE  \A b \in Actors : pc[b] = "idle"
<1>1. Cardinality(Busy) < 1
  BY DEF Accepts
<1>2. SUFFICES ASSUME NEW b \in Actors, pc[b] # "idle" PROVE FALSE
  OBVIOUS
<1>3. Busy = {b}
  BY <1>2 DEF Busy, Serial
<1>4. Cardinality(Busy) = 1
  BY <1>3, FS_Singleton
<1>5. QED
  BY <1>1, <1>4

\* While one actor is busy the others are idle, before and after its step.
LEMMA Alone ==
    ASSUME VirtualizationTypeOK, Serial, NEW a \in Actors, pc[a] # "idle",
           NEW where \in Places, Goto(a, where)
    PROVE  /\ Serial'
           /\ pc'[a] = where
           /\ \A b \in Actors \ {a} : pc[b] = "idle" /\ pc'[b] = "idle"
  BY DEF Goto, Serial, VirtualizationTypeOK

LEMMA Frame ==
    ASSUME VirtualizationTypeOK, SerialInv, NEW a \in Actors, pc[a] # "idle", ~crashed',
           NEW where \in Places, Goto(a, where), \A b \in Actors \ {a} : task'[b] = task[b],
           WorkInv(a)', RootInv', RestInv', DataInv', BlocksInv'
    PROVE  SerialInv'
<1>1. Serial' /\ \A b \in Actors \ {a} : pc[b] = "idle" /\ pc'[b] = "idle"
  BY Alone DEF SerialInv
<1>2. ASSUME NEW b \in Actors \ {a} PROVE WorkInv(b)'
  <2>1. task'[b].done = {}
    BY <1>1 DEF SerialInv, WorkInv
  <2>2. QED
    BY <1>1, <2>1 DEF WorkInv, Owns, Enabling, Looping
<1>3. \A b \in Actors : WorkInv(b)'
  BY <1>2
<1>4. OnlyShutdownCrashes'
  BY DEF OnlyShutdownCrashes
<1>5. QED
  BY <1>1, <1>3, <1>4 DEF SerialInv

\* A step that leaves the processors and their data alone.
LEMMA LocalStep ==
    ASSUME VirtualizationTypeOK, SerialInv, NEW a \in Actors, pc[a] # "idle", ~Owns(a),
           ~crashed, NEW where \in Places, Goto(a, where), where \notin {"vmcs", "launch"},
           UNCHANGED <<vmx, data, status, crashed, number, allocated>>,
           \/ processors' = processors
           \/ /\ processors # Null /\ processors' # Null
              /\ \A c \in Cpu : processors'[c].data = processors[c].data,
           \A b \in Actors \ {a} : task'[b] = task[b],
           WorkInv(a)',
           AtRest(a)' /\ ~isVirtualized' => \A c \in Cpu : vmx[c] = "off" /\ status[c] = "none"
    PROVE  SerialInv'
<1>1. /\ pc'[a] = where
      /\ \A b \in Actors \ {a} : pc[b] = "idle" /\ pc'[b] = "idle"
  BY Alone DEF SerialInv
<1>2. RootInv'
  BY <1>1 DEF SerialInv, RootInv, Owns
<1>3. RestInv'
  BY DEF RestInv
<1>4. DataInv'
  BY DEF SerialInv, DataInv, Up, Running, Doomed, VirtualizationTypeOK
<1>5. BlocksInv'
  BY DEF SerialInv, BlocksInv
<1>6. QED
  BY <1>2, <1>3, <1>4, <1>5, Frame

\* What is known while the only busy actor's place is one of rest.
LEMMA Resting ==
    ASSUME VirtualizationTypeOK, SerialInv, NEW a \in Actors, pc[a] # "idle",
           AtRest(a), ~isVirtualized
    PROVE  \A c \in Cpu : vmx[c] = "off" /\ status[c] = "none" /\ data[c] = Null
<1>1. \A b \in Actors : AtRest(b)
  BY DEF SerialInv, Serial, AtRest
<1>2. \A c \in Cpu : vmx[c] = "off" /\ status[c] = "none"
  BY <1>1 DEF SerialInv, RestInv
<1>3. QED
  BY <1>2 DEF SerialInv, DataInv, Up, Running, Doomed

LEMMA RequestSerial ==
    ASSUME Concurrency = 1, VirtualizationTypeOK, SerialInv, Request
    PROVE  SerialInv'
<1>1. PICK a \in Actors, where \in {"virtualize", "devirtualize"} :
          /\ Accepts(a)
          /\ Goto(a, where) \/ UNCHANGED pc
          /\ UNCHANGED <<isVirtualized, processors, allocated, machine, task>>
  BY DEF Request, Enable, Disable, OnSystemSleep, OnSystemWake, DriverUnload, Actors, driver
<1>2. \A b \in Actors : pc[b] = "idle"
  BY <1>1, AcceptsAlone DEF SerialInv
<1>3. \A b \in Actors : pc'[b] \in {"idle", where}
  BY <1>1, <1>2 DEF Goto, VirtualizationTypeOK
<1>4. Serial'
  BY <1>1, <1>2 DEF Serial, Goto, VirtualizationTypeOK
<1>5. ASSUME NEW b \in Actors PROVE WorkInv(b)'
  BY <1>1, <1>2, <1>3 DEF SerialInv, WorkInv, Owns, Enabling, Looping
<1>6. RootInv'
  BY <1>1, <1>2 DEF SerialInv, RootInv, Owns, machine
<1>7. RestInv'
  BY <1>1, <1>2 DEF SerialInv, RestInv, AtRest, machine
<1>8. DataInv' /\ BlocksInv'
  BY <1>1 DEF SerialInv, DataInv, BlocksInv, Up, Running, Doomed, machine
<1>9. OnlyShutdownCrashes'
  BY <1>1 DEF Accepts, At, OnlyShutdownCrashes, machine
<1>10. QED
  BY <1>4, <1>5, <1>6, <1>7, <1>8, <1>9 DEF SerialInv

\* Replies leave the actor without local variables.
LEMMA ReplySerial ==
    ASSUME VirtualizationTypeOK, SerialInv, NEW a \in Actors, pc[a] # "idle", ~Owns(a), ~crashed,
           Reply(a) \/ Return(a), UNCHANGED <<processors, allocated, machine>>,
           ~isVirtualized' => AtRest(a) /\ ~isVirtualized
    PROVE  SerialInv'
<1>1. PICK where \in {"idle", "unload"} : Goto(a, where)
  BY DEF Reply, Return
<1>2. task' = [task EXCEPT ![a] = NoTask]
  BY DEF Reply, Return
<1>3. task'[a].done = {} /\ \A b \in Actors \ {a} : task'[b] = task[b]
  BY <1>2 DEF VirtualizationTypeOK, NoTask
<1>4. pc'[a] = where
  BY <1>1 DEF Goto, VirtualizationTypeOK
<1>5. WorkInv(a)'
  BY <1>3, <1>4 DEF WorkInv, Owns, Enabling, Looping
<1>6. QED
  BY <1>1, <1>3, <1>5, Resting, LocalStep DEF Places, machine

LEMMA EnableSerial ==
    ASSUME VirtualizationTypeOK, SerialInv, NEW a \in Actors,
           Virtualize(a) \/ CreateThread(a) \/ AllocVmData(a)
    PROVE  SerialInv'
<1>0. /\ task[a] \in Task /\ task[a].cpu \in Cpu /\ task[a].done = {} /\ ~crashed
      /\ pc[a] \in {"virtualize", "thread", "alloc"} /\ ~Owns(a) /\ AtRest(a)
  BY DEF SerialInv, WorkInv, Virtualize, CreateThread, AllocVmData, At, Owns, AtRest,
         VirtualizationTypeOK, Task
<1>1. CASE Virtualize(a)
  <2>1. CASE isVirtualized
    BY <1>0, <1>1, <2>1, ReplySerial DEF Virtualize, driver, machine
  <2>2. CASE ~isVirtualized
    <3>1. Goto(a, "thread") /\ UNCHANGED <<task, driver, machine>>
      BY <1>1, <2>2 DEF Virtualize
    <3>2. pc'[a] = "thread"
      BY <3>1 DEF Goto, VirtualizationTypeOK
    <3>3. WorkInv(a)'
      BY <1>0, <2>2, <3>1, <3>2 DEF WorkInv, Owns, Enabling, Looping, driver
    <3>4. QED
      BY <1>0, <2>2, <3>1, <3>3, Resting, LocalStep DEF Places, driver, machine
  <2>3. QED
    BY <2>1, <2>2
<1>2. CASE CreateThread(a)
  <2>0. pc[a] = "thread" /\ ~isVirtualized
    BY <1>2 DEF CreateThread, At, SerialInv, WorkInv, Enabling, Looping
  <2>1. \A c \in Cpu : vmx[c] = "off" /\ status[c] = "none" /\ data[c] = Null
    BY <1>0, <2>0, Resting
  <2>2. CASE /\ processors' = [c \in Cpu |-> [data |-> Null, status |-> FALSE]]
             /\ Goto(a, "alloc") /\ UNCHANGED task
    <3>0. UNCHANGED <<isVirtualized, allocated, machine>>
      BY <1>2 DEF CreateThread
    <3>1. pc'[a] = "alloc" /\ processors' \in Processors
      BY <2>2 DEF Goto, VirtualizationTypeOK, Processors, Block
    <3>2. processors' # Null
      BY <2>2, <3>1, NullIsNoTable
    <3>3. WorkInv(a)'
      BY <1>0, <2>0, <2>2, <3>0, <3>1, <3>2 DEF WorkInv, Owns, Enabling, Looping
    <3>4. RootInv' /\ RestInv' /\ DataInv'
      BY <2>1, <3>0 DEF RootInv, RestInv, DataInv, Running, machine
    <3>5. BlocksInv'
      BY <2>2 DEF BlocksInv
    <3>6. QED
      BY <1>0, <2>2, <3>0, <3>3, <3>4, <3>5, Frame DEF Places, machine
  <2>3. CASE Goto(a, "finish") /\ UNCHANGED <<processors, task>>
    <3>0. UNCHANGED <<isVirtualized, allocated, machine>>
      BY <1>2 DEF CreateThread
    <3>1. pc'[a] = "finish"
      BY <2>3 DEF Goto, VirtualizationTypeOK
    <3>2. WorkInv(a)'
      BY <1>0, <2>0, <2>3, <3>0, <3>1 DEF WorkInv, Owns, Enabling, Looping
    <3>3. QED
      BY <1>0, <2>1, <2>3, <3>0, <3>2, LocalStep DEF Places, machine
  <2>4. QED
    BY <1>2, <2>0, <2>2, <2>3 DEF CreateThread
<1>3. CASE AllocVmData(a)
  <2> DEFINE c == task[a].cpu
  <2>0. pc[a] = "alloc" /\ ~isVirtualized /\ processors # Null /\ processors \in Processors
    BY <1>3 DEF AllocVmData, At, SerialInv, WorkInv, Enabling, Looping, VirtualizationTypeOK
  <2>1. \A d \in Cpu : vmx[d] = "off" /\ status[d] = "none" /\ data[d] = Null
    BY <1>0, <2>0, Resting
  <2>2. ASSUME NEW b \in Blocks \ allocated, NEW where \in {"alloc", "captured"}, NEW next,
               processors' = [processors EXCEPT ![c].data = b],
               allocated' = allocated \union {b},
               Goto(a, where), task' = [task EXCEPT ![a].cpu = next],
               UNCHANGED <<isVirtualized, machine>>
        PROVE  SerialInv'
    <3>1. pc'[a] = where
      BY <2>2 DEF Goto, VirtualizationTypeOK
    <3>2. processors' \in Processors
      BY <2>0, <2>2 DEF Processors, Block
    <3>3. processors' # Null
      BY <3>2, NullIsNoTable
    <3>4. task'[a].done = {} /\ \A d \in Actors \ {a} : task'[d] = task[d]
      BY <1>0, <2>2 DEF VirtualizationTypeOK, Task
    <3>5. WorkInv(a)'
      BY <2>0, <2>2, <3>1, <3>3, <3>4 DEF WorkInv, Owns, Enabling, Looping
    <3>6. RootInv' /\ RestInv' /\ DataInv'
      BY <2>1, <2>2 DEF RootInv, RestInv, DataInv, Running, machine
    <3>7. BlocksInv'
      <4>1. processors'[c].data = b /\ \A d \in Cpu \ {c} : processors'[d].data = processors[d].data
        BY <1>0, <2>0, <2>2 DEF Processors
      <4>2. \A d \in Cpu : processors[d].data # Null => processors[d].data \in allocated
        BY <2>0 DEF SerialInv, BlocksInv
      <4>3. \A d \in Cpu \ {c} : processors'[d].data # b
        BY <2>2, <4>1, <4>2
      <4>4. QED
        BY <2>0, <2>2, <4>1, <4>2, <4>3 DEF SerialInv, BlocksInv
    <3>8. QED
      BY <1>0, <2>2, <3>4, <3>5, <3>6, <3>7, Frame DEF Places, machine
  <2>3. CASE processors' = Null /\ Goto(a, "finish") /\ UNCHANGED <<isVirtualized, machine, task>>
    <3>1. pc'[a] = "finish"
      BY <2>3 DEF Goto, VirtualizationTypeOK
    <3>2. WorkInv(a)'
      BY <1>0, <2>0, <2>3, <3>1 DEF WorkInv, Owns, Enabling, Looping
    <3>3. RootInv' /\ RestInv' /\ DataInv' /\ BlocksInv'
      BY <2>1, <2>3 DEF RootInv, RestInv, DataInv, BlocksInv, Running, machine
    <3>4. QED
      BY <1>0, <2>3, <3>2, <3>3, Frame DEF Places, machine
  <2>4. ASSUME NEW b \in Blocks \ allocated,
               processors' = [processors EXCEPT ![c].data = b],
               allocated' = allocated \union {b}, c < Cpus,
               task' = [task EXCEPT ![a].cpu = c + 1], UNCHANGED pc,
               UNCHANGED <<isVirtualized, machine>>
        PROVE  SerialInv'
    <3>1. Goto(a, "alloc")
      BY <2>0, <2>4 DEF Goto, VirtualizationTypeOK
    <3>2. QED
      BY <2>2, <2>4, <3>1
  <2>5. QED
    BY <1>3, <2>0, <2>2, <2>3, <2>4 DEF AllocVmData
<1>4. QED
  BY <1>1, <1>2, <1>3

\* ForEachCpu goes on or ends.
LEMMA CallbackSerial ==
    ASSUME VirtualizationTypeOK, SerialInv, NEW a \in Actors,
           pc[a] \in {"captured", "vmxon"}, ~crashed, CallbackTrue(a) \/ CallbackFalse(a),
           UNCHANGED <<isVirtualized, allocated, machine>>,
           \/ processors' = processors
           \/ /\ processors # Null /\ processors' # Null
              /\ \A c \in Cpu : processors'[c].data = processors[c].data
    PROVE  SerialInv'
<1>0. /\ task[a] \in Task /\ task[a].cpu \in Cpu /\ task[a].done = {} /\ ~Owns(a)
      /\ ~isVirtualized /\ processors # Null
  BY DEF SerialInv, WorkInv, Owns, Enabling, Looping, VirtualizationTypeOK, Task
<1>1. PICK where \in {"captured", "status"} : Goto(a, where)
  BY DEF CallbackTrue, CallbackFalse
<1>2. /\ \A b \in Actors \ {a} : task'[b] = task[b]
      /\ task'[a].done = {}
  <2>1. CASE task' = [task EXCEPT ![a] = [NoTask EXCEPT !.cpu = task[a].cpu + 1]]
    BY <2>1 DEF NoTask, VirtualizationTypeOK
  <2>2. CASE UNCHANGED task
    BY <1>0, <2>2
  <2>3. QED
    BY <2>1, <2>2 DEF CallbackTrue, CallbackFalse
<1>3. pc'[a] = where
  BY <1>1 DEF Goto, VirtualizationTypeOK
<1>4. WorkInv(a)' /\ ~AtRest(a)'
  BY <1>0, <1>2, <1>3 DEF WorkInv, AtRest, Owns, Enabling, Looping
<1>5. QED
  BY <1>0, <1>1, <1>2, <1>4, LocalStep DEF Places, machine

LEMMA CapturedSerial ==
    ASSUME VirtualizationTypeOK, SerialInv, NEW a \in Actors, Captured(a)
    PROVE  SerialInv'
<1> DEFINE c == task[a].cpu
<1>0. /\ task[a] \in Task /\ c \in Cpu /\ task[a].done = {} /\ pc[a] = "captured" /\ ~Owns(a)
      /\ ~isVirtualized /\ processors # Null /\ processors \in Processors /\ ~crashed
  BY DEF Captured, At, SerialInv, WorkInv, Owns, Enabling, Looping, VirtualizationTypeOK, Task
<1>1. CASE Goto(a, "vmxon") /\ UNCHANGED <<driver, machine, task>>
  <2>1. pc'[a] = "vmxon"
    BY <1>1 DEF Goto, VirtualizationTypeOK
  <2>2. WorkInv(a)' /\ ~AtRest(a)'
    BY <1>0, <1>1, <2>1 DEF WorkInv, AtRest, Owns, Enabling, Looping, driver
  <2>3. QED
    BY <1>0, <1>1, <2>2, LocalStep DEF Places, driver, machine
<1>2. CASE task' = [task EXCEPT ![a].restored = TRUE] /\ UNCHANGED <<driver, machine, pc>>
  <2>1. Goto(a, "captured")
    BY <1>0, <1>2 DEF Goto, VirtualizationTypeOK
  <2>2. task'[a].done = {} /\ \A b \in Actors \ {a} : task'[b] = task[b]
    BY <1>0, <1>2 DEF VirtualizationTypeOK, Task
  <2>3. WorkInv(a)' /\ ~AtRest(a)'
    BY <1>0, <1>2, <2>2 DEF WorkInv, AtRest, Owns, Enabling, Looping, driver
  <2>4. QED
    BY <1>0, <1>2, <2>1, <2>2, <2>3, LocalStep DEF Places, driver, machine
<1>3. ASSUME processors' = [processors EXCEPT ![number[c]].status = TRUE], CallbackTrue(a),
             UNCHANGED <<isVirtualized, allocated, need, loaded, machine>>
      PROVE  SerialInv'
  <2>1. processors' \in Processors /\ \A d \in Cpu : processors'[d].data = processors[d].data
    <3>1. number[c] \in Cpu
      BY <1>0 DEF VirtualizationTypeOK
    <3>2. ASSUME NEW i \in Cpu, processors' = [processors EXCEPT ![i].status = TRUE]
          PROVE  /\ processors' \in Processors
                 /\ \A d \in Cpu : processors'[d].data = processors[d].data
      BY <1>0, <3>2 DEF Processors
    <3>3. QED
      BY <1>3, <3>1, <3>2
  <2>2. processors' # Null
    BY <2>1, NullIsNoTable
  <2>3. QED
    BY <1>0, <1>3, <2>1, <2>2, CallbackSerial
<1>4. QED
  BY <1>0, <1>1, <1>2, <1>3 DEF Captured

LEMMA VmxOnSerial ==
    ASSUME VirtualizationTypeOK, FlagInv, SerialInv, NEW a \in Actors,
           VmxOn(a) \/ VmxRelatedHandler(a)
    PROVE  SerialInv'
<1> DEFINE c == task[a].cpu
<1>0. /\ task[a] \in Task /\ c \in Cpu /\ task[a].done = {} /\ pc[a] = "vmxon" /\ ~Owns(a)
      /\ ~isVirtualized /\ processors # Null /\ processors \in Processors /\ ~crashed
      /\ status[c] = "none"
  BY DEF VmxOn, VmxRelatedHandler, At, SerialInv, WorkInv, Owns, Enabling, Looping,
         VirtualizationTypeOK, Task
<1>1. CASE CallbackFalse(a) /\ UNCHANGED <<driver, machine>>
  BY <1>0, <1>1, CallbackSerial DEF driver
<1>2. CASE /\ processors[number[c]].data # Null /\ vmx[c] = "off"
           /\ vmx' = [vmx EXCEPT ![c] = "root"]
           /\ task' = [task EXCEPT ![a].private = processors[number[c]].data]
           /\ Goto(a, "vmcs") /\ UNCHANGED <<driver, data, status, regs, crashed, number>>
  <2>1. /\ pc'[a] = "vmcs"
        /\ \A b \in Actors \ {a} : pc[b] = "idle" /\ pc'[b] = "idle"
    BY <1>0, <1>2, Alone DEF SerialInv, Places
  <2>2. /\ task'[a].done = {} /\ task'[a].cpu = c /\ task'[a].private = processors[number[c]].data
        /\ \A b \in Actors \ {a} : task'[b] = task[b]
    BY <1>0, <1>2 DEF VirtualizationTypeOK, Task
  <2>3. WorkInv(a)' /\ ~AtRest(a)'
    BY <1>0, <1>2, <2>1, <2>2 DEF WorkInv, AtRest, Owns, Enabling, Looping, driver
  <2>4. RootInv'
    <3>1. \A d \in Cpu \ {c} : ~(vmx[d] = "root" /\ status[d] = "none")
      BY <1>0, <2>1 DEF SerialInv, RootInv, Owns
    <3>2. QED
      BY <1>2, <2>1, <2>2, <3>1 DEF RootInv, Owns, VirtualizationTypeOK
  <2>5. RestInv'
    BY <2>3 DEF RestInv
  <2>6. DataInv'
    <3>1. data[c] = Null
      BY <1>0, <1>2 DEF SerialInv, DataInv, Up, Running, Doomed
    <3>2. ASSUME NEW d \in Cpu
          PROVE  /\ Running(d)' => data'[d] # Null
                 /\ data'[d] # Null => /\ Up(d)' /\ processors' # Null
                                       /\ data'[d] = processors'[number'[d]].data
      <4>1. CASE d = c
        BY <1>0, <1>2, <3>1, <4>1 DEF Running, VirtualizationTypeOK
      <4>2. CASE d # c
        BY <1>2, <4>2 DEF SerialInv, DataInv, Up, Running, Doomed, driver, VirtualizationTypeOK
      <4>3. QED
        BY <4>1, <4>2
    <3>3. QED
      BY <3>2 DEF DataInv
  <2>7. BlocksInv'
    BY <1>2 DEF SerialInv, BlocksInv, driver
  <2>8. QED
    BY <1>0, <1>2, <2>2, <2>3, <2>4, <2>5, <2>6, <2>7, Frame DEF Places
<1>3. CASE VmxRelatedHandler(a)
  <2>1. /\ vmx[c] = "guest" /\ vmx' = [vmx EXCEPT ![c] = "root"]
        /\ status' = [status EXCEPT ![c] = "continue"]
        /\ Goto(a, "status") /\ UNCHANGED <<driver, task, data, crashed, number>>
    BY <1>3 DEF VmxRelatedHandler, CallbackFalse
  <2>2. /\ pc'[a] = "status"
        /\ \A b \in Actors \ {a} : pc[b] = "idle" /\ pc'[b] = "idle"
    BY <1>0, <2>1, Alone DEF SerialInv, Places
  <2>3. WorkInv(a)' /\ ~AtRest(a)'
    BY <1>0, <2>1, <2>2 DEF WorkInv, AtRest, Owns, Enabling, Looping, driver
  <2>4. RootInv'
    BY <1>0, <2>1, <2>2 DEF SerialInv, RootInv, Owns, VirtualizationTypeOK
  <2>5. RestInv'
    BY <2>3 DEF RestInv
  <2>6. DataInv'
    <3>1. \A d \in Cpu : Running(d)' = Running(d) /\ Doomed(d)' = Doomed(d)
      BY <1>0, <2>1 DEF Running, Doomed, VirtualizationTypeOK
    <3>2. QED
      BY <2>1, <3>1 DEF SerialInv, DataInv, Up, driver
  <2>7. BlocksInv'
    BY <2>1 DEF SerialInv, BlocksInv, driver
  <2>8. QED
    BY <1>0, <2>1, <2>3, <2>4, <2>5, <2>6, <2>7, Frame DEF Places
<1>4. QED
  BY <1>0, <1>1, <1>2, <1>3 DEF VmxOn

\* The owner of a processor in VMX root operation launches it or gives it up.
LEMMA LaunchSerial ==
    ASSUME VirtualizationTypeOK, FlagInv, SerialInv, NEW a \in Actors,
           LoadVmcs(a) \/ VmLaunch(a)
    PROVE  SerialInv'
<1> DEFINE c == task[a].cpu
<1>0. /\ task[a] \in Task /\ c \in Cpu /\ task[a].done = {} /\ Owns(a)
      /\ pc[a] \in {"vmcs", "launch"} /\ ~isVirtualized /\ processors # Null /\ ~crashed
      /\ vmx[c] = "root" /\ status[c] = "none"
      /\ task[a].private = processors[number[c]].data /\ task[a].private # Null
  BY DEF LoadVmcs, VmLaunch, At, SerialInv, WorkInv, Owns, Enabling, Looping, FlagInv, OwnerInv,
         VirtualizationTypeOK, Task
<1>1. \A b \in Actors \ {a} : pc[b] = "idle"
  BY <1>0 DEF SerialInv, Serial
<1>2. \A d \in Cpu \ {c} : ~(vmx[d] = "root" /\ status[d] = "none")
  BY <1>1 DEF SerialInv, RootInv, Owns
<1>3. data[c] = Null
  BY <1>0 DEF SerialInv, DataInv, Up, Running, Doomed
<1>4. CASE VmxOff(a)
  <2>1. /\ vmx' = [vmx EXCEPT ![c] = "off"] /\ Goto(a, "status")
        /\ UNCHANGED <<driver, task, data, status, crashed, number>>
    BY <1>4 DEF VmxOff, CallbackFalse
  <2>2. pc'[a] = "status"
    BY <2>1 DEF Goto, VirtualizationTypeOK
  <2>3. WorkInv(a)' /\ ~AtRest(a)'
    BY <1>0, <2>1, <2>2 DEF WorkInv, AtRest, Owns, Enabling, Looping, driver
  <2>4. RootInv'
    BY <1>2, <2>1 DEF RootInv, VirtualizationTypeOK
  <2>5. RestInv'
    BY <2>3 DEF RestInv
  <2>6. DataInv'
    <3>1. ASSUME NEW d \in Cpu
          PROVE  /\ Running(d)' => data'[d] # Null
                 /\ data'[d] # Null => /\ Up(d)' /\ processors' # Null
                                       /\ data'[d] = processors'[number'[d]].data
      <4>1. CASE d = c
        BY <1>0, <1>3, <2>1, <4>1 DEF Running, VirtualizationTypeOK
      <4>2. CASE d # c
        BY <2>1, <4>2 DEF SerialInv, DataInv, Up, Running, Doomed, driver, VirtualizationTypeOK
      <4>3. QED
        BY <4>1, <4>2
    <3>2. QED
      BY <3>1 DEF DataInv
  <2>7. BlocksInv'
    BY <2>1 DEF SerialInv, BlocksInv, driver
  <2>8. QED
    BY <1>0, <2>1, <2>3, <2>4, <2>5, <2>6, <2>7, Frame DEF Places
<1>5. CASE Goto(a, "launch") /\ UNCHANGED <<driver, machine, task>>
  <2>1. pc'[a] = "launch"
    BY <1>5 DEF Goto, VirtualizationTypeOK
  <2>2. WorkInv(a)' /\ ~AtRest(a)'
    BY <1>0, <1>5, <2>1 DEF WorkInv, AtRest, Owns, Enabling, Looping, driver, machine
  <2>3. RootInv'
    BY <1>2, <1>5, <2>1 DEF RootInv, Owns, machine
  <2>4. RestInv'
    BY <2>2 DEF RestInv
  <2>5. DataInv' /\ BlocksInv'
    BY <1>5 DEF SerialInv, DataInv, BlocksInv, Up, Running, Doomed, driver, machine
  <2>6. QED
    BY <1>0, <1>5, <2>2, <2>3, <2>4, <2>5, Frame DEF Places, machine
<1>6. CASE /\ vmx' = [vmx EXCEPT ![c] = "guest"]
           /\ data' = [data EXCEPT ![c] = task[a].private]
           /\ task' = [task EXCEPT ![a].virtualized = TRUE]
           /\ Goto(a, "captured") /\ UNCHANGED <<driver, status, regs, crashed, number>>
  <2>1. pc'[a] = "captured"
    BY <1>6 DEF Goto, VirtualizationTypeOK
  <2>2. task'[a].done = {} /\ \A b \in Actors \ {a} : task'[b] = task[b]
    BY <1>0, <1>6 DEF VirtualizationTypeOK, Task
  <2>3. WorkInv(a)' /\ ~AtRest(a)'
    BY <1>0, <1>6, <2>1, <2>2 DEF WorkInv, AtRest, Owns, Enabling, Looping, driver
  <2>4. RootInv'
    BY <1>2, <1>6 DEF RootInv, VirtualizationTypeOK
  <2>5. RestInv'
    BY <2>3 DEF RestInv
  <2>6. DataInv'
    <3>1. ASSUME NEW d \in Cpu
          PROVE  /\ Running(d)' => data'[d] # Null
                 /\ data'[d] # Null => /\ Up(d)' /\ processors' # Null
                                       /\ data'[d] = processors'[number'[d]].data
      <4>1. CASE d = c
        BY <1>0, <1>6, <4>1 DEF Up, Running, driver, VirtualizationTypeOK
      <4>2. CASE d # c
        BY <1>6, <4>2 DEF SerialInv, DataInv, Up, Running, Doomed, driver, VirtualizationTypeOK
      <4>3. QED
        BY <4>1, <4>2
    <3>2. QED
      BY <3>1 DEF DataInv
  <2>7. BlocksInv'
    BY <1>6 DEF SerialInv, BlocksInv, driver
  <2>8. QED
    BY <1>0, <1>6, <2>2, <2>3, <2>4, <2>5, <2>6, <2>7, Frame DEF Places
<1>7. QED
  BY <1>4, <1>5, <1>6 DEF LoadVmcs, VmLaunch

LEMMA ResultSerial ==
    ASSUME VirtualizationTypeOK, SerialInv, NEW a \in Actors, CheckStatus(a) \/ Finish(a)
    PROVE  SerialInv'
<1>0. /\ task[a] \in Task /\ task[a].done = {} /\ pc[a] \in {"status", "finish"} /\ ~Owns(a)
      /\ ~isVirtualized /\ ~crashed
      /\ pc[a] = "status" => processors # Null
  BY DEF CheckStatus, Finish, At, SerialInv, WorkInv, Owns, Enabling, Looping,
         VirtualizationTypeOK
<1>1. CASE task' = [task EXCEPT ![a].result = TRUE] /\ Goto(a, "finish")
           /\ UNCHANGED <<driver, machine>>
  <2>1. pc'[a] = "finish"
    BY <1>1 DEF Goto, VirtualizationTypeOK
  <2>2. task'[a].done = {} /\ task'[a].result /\ \A b \in Actors \ {a} : task'[b] = task[b]
    BY <1>0, <1>1 DEF VirtualizationTypeOK, Task
  <2>3. WorkInv(a)' /\ ~AtRest(a)'
    BY <1>0, <1>1, <2>1, <2>2 DEF WorkInv, AtRest, Owns, Enabling, Looping, driver
  <2>4. QED
    BY <1>0, <1>1, <2>2, <2>3, LocalStep DEF Places, driver, machine
<1>2. CASE task' = [task EXCEPT ![a].rollback = TRUE] /\ Goto(a, "broadcast")
           /\ UNCHANGED <<driver, machine>>
  <2>1. pc'[a] = "broadcast"
    BY <1>2 DEF Goto, VirtualizationTypeOK
  <2>2. task'[a].done = {} /\ task'[a].rollback /\ \A b \in Actors \ {a} : task'[b] = task[b]
    BY <1>0, <1>2 DEF VirtualizationTypeOK, Task
  <2>3. WorkInv(a)' /\ ~AtRest(a)'
    BY <1>0, <1>2, <2>1, <2>2 DEF WorkInv, AtRest, Owns, Enabling, Looping, driver
  <2>4. QED
    BY <1>0, <1>2, <2>2, <2>3, LocalStep DEF Places, driver, machine
<1>3. CASE CheckStatus(a)
  BY <1>0, <1>1, <1>2, <1>3 DEF CheckStatus, At
<1>4. CASE Finish(a)
  <2>1. ~isVirtualized' => AtRest(a)
    BY <1>4 DEF Finish, At, AtRest
  <2>2. QED
    BY <1>0, <1>4, <2>1, ReplySerial DEF Finish
<1>5. QED
  BY <1>3, <1>4

LEMMA DisableSerial ==
    ASSUME VirtualizationTypeOK, FlagInv, SerialInv, NEW a \in Actors,
           \/ Devirtualize(a)
           \/ \E c \in Cpu : DevirtualizeProcessor(a, c) \/ CpuidHandler(a, c)
           \/ FreeVmData(a)
    PROVE  SerialInv'
<1>0. /\ task[a] \in Task /\ ~Owns(a) /\ ~crashed
      /\ pc[a] = "devirtualize" => task[a].done = {}
      /\ pc[a] \in {"devirtualize", "broadcast"}
  BY DEF Devirtualize, DevirtualizeProcessor, CpuidHandler, FreeVmData, Broadcasts, At,
         SerialInv, WorkInv, Owns, VirtualizationTypeOK
<1>1. \A b \in Actors : ~Owns(b)
  BY <1>0 DEF SerialInv, Serial, Owns
<1>2. \A c \in Cpu : ~(vmx[c] = "root" /\ status[c] = "none")
  BY <1>1 DEF SerialInv, RootInv
<1>3. CASE Devirtualize(a)
  <2>1. CASE isVirtualized
    <3>1. Goto(a, "broadcast") /\ UNCHANGED <<task, driver, machine>> /\ pc[a] = "devirtualize"
      BY <1>3, <2>1 DEF Devirtualize, At
    <3>2. pc'[a] = "broadcast"
      BY <3>1 DEF Goto, VirtualizationTypeOK
    <3>3. WorkInv(a)' /\ ~AtRest(a)'
      BY <1>0, <2>1, <3>1, <3>2 DEF WorkInv, AtRest, Owns, Enabling, Looping, driver
    <3>4. QED
      BY <1>0, <3>1, <3>3, LocalStep DEF Places, driver, machine
  <2>2. CASE ~isVirtualized
    BY <1>0, <1>3, <2>2, ReplySerial DEF Devirtualize, At, AtRest, driver
  <2>3. QED
    BY <2>1, <2>2
<1>4. ASSUME NEW c \in Cpu, DevirtualizeProcessor(a, c) PROVE SerialInv'
  <2>1. /\ pc[a] = "broadcast" /\ vmx[c] = "off" /\ status[c] = "none"
        /\ UNCHANGED <<driver, vmx, data, status, crashed, number, pc>>
    BY <1>2, <1>4 DEF DevirtualizeProcessor, Broadcasts, At, VirtualizationTypeOK
  <2>2. /\ task'[a].done = task[a].done \union {c} /\ task'[a].rollback = task[a].rollback
        /\ \A b \in Actors \ {a} : task'[b] = task[b]
    BY <1>0, <1>4 DEF DevirtualizeProcessor, VirtualizationTypeOK, Task
  <2>3. Goto(a, "broadcast")
    BY <2>1 DEF Goto, VirtualizationTypeOK
  <2>4. WorkInv(a)' /\ ~AtRest(a)'
    BY <2>1, <2>2 DEF SerialInv, WorkInv, AtRest, Owns, Enabling, Looping, driver
  <2>5. QED
    BY <1>0, <2>1, <2>2, <2>3, <2>4, LocalStep DEF Places, driver
<1>5. ASSUME NEW c \in Cpu, CpuidHandler(a, c) PROVE SerialInv'
  <2>1. /\ pc[a] = "broadcast" /\ c \notin task[a].done /\ vmx[c] = "guest" /\ status[c] = "none"
        /\ vmx' = [vmx EXCEPT ![c] = "off"] /\ status' = [status EXCEPT ![c] = "continue"]
        /\ UNCHANGED <<driver, data, crashed, number, pc, task>>
    BY <1>5 DEF CpuidHandler, Broadcasts, At
  <2>2. Goto(a, "broadcast")
    BY <2>1 DEF Goto, VirtualizationTypeOK
  <2>3. WorkInv(a)' /\ ~AtRest(a)'
    BY <2>1 DEF SerialInv, WorkInv, AtRest, Owns, Enabling, Looping, driver, VirtualizationTypeOK
  <2>4. RootInv'
    BY <1>2, <2>1 DEF RootInv, VirtualizationTypeOK
  <2>5. RestInv'
    BY <2>3 DEF RestInv
  <2>6. DataInv'
    <3>1. /\ Running(c) /\ ~Running(c)' /\ Up(c)'
          /\ \A d \in Cpu \ {c} : Running(d)' = Running(d) /\ Doomed(d)' = Doomed(d)
      BY <2>1 DEF Up, Running, Doomed, VirtualizationTypeOK
    <3>2. QED
      BY <2>1, <3>1 DEF SerialInv, DataInv, Up, driver
  <2>7. BlocksInv'
    BY <2>1 DEF SerialInv, BlocksInv, driver
  <2>8. QED
    BY <1>0, <2>1, <2>2, <2>3, <2>4, <2>5, <2>6, <2>7, Frame DEF Places
<1>6. CASE FreeVmData(a)
  <2>1. pc[a] = "broadcast" /\ task[a].done = Cpu
    BY <1>6 DEF FreeVmData, Broadcasts, At
  <2>2. \A c \in Cpu : vmx[c] = "off" /\ status[c] = "none"
    BY <2>1 DEF SerialInv, WorkInv
  <2>3. \A c \in Cpu : ~Up(c) /\ data[c] = Null
    BY <2>2 DEF SerialInv, DataInv, Up, Running, Doomed
  <2>4. task[a].rollback
    BY <2>1, <2>3, Claims, CpuFacts DEF SerialInv, WorkInv, AllUp
  <2>5. /\ processors' = Null /\ Goto(a, "finish") /\ task' = [task EXCEPT ![a] = NoTask]
        /\ ~isVirtualized' /\ UNCHANGED machine
    BY <1>6, <2>4 DEF FreeVmData
  <2>6. /\ pc'[a] = "finish" /\ task'[a].done = {}
        /\ \A b \in Actors \ {a} : task'[b] = task[b]
    BY <2>5 DEF Goto, NoTask, VirtualizationTypeOK
  <2>7. WorkInv(a)'
    BY <2>5, <2>6 DEF WorkInv, Owns, Enabling, Looping
  <2>8. RootInv' /\ RestInv' /\ DataInv' /\ BlocksInv'
    BY <2>2, <2>3, <2>5 DEF RootInv, RestInv, DataInv, BlocksInv, Running, machine
  <2>9. QED
    BY <1>0, <2>5, <2>6, <2>7, <2>8, Frame DEF Places, machine
<1>7. QED
  BY <1>3, <1>4, <1>5, <1>6

LEMMA VmmRunSerial ==
    ASSUME VirtualizationTypeOK, FlagInv, SerialInv, NEW c \in Cpu, VmxVmmRun(c)
    PROVE  SerialInv'
<1>1. ~crashed /\ status[c] = "continue" /\ vmx[c] # "guest"
  BY DEF VmxVmmRun, FlagInv, StatusInv
<1>2. CASE vmx[c] = "off"
  <2>1. Crash
    BY <1>1, <1>2 DEF VmxVmmRun
  <2>2. \E a \in Actors : pc[a] = "broadcast"
    BY <1>1, <1>2 DEF FlagInv, DoomInv, Doomed
  <2>3. QED
    BY <2>1, <2>2 DEF Crash, SerialInv, Serial, WorkInv, RootInv, RestInv, DataInv, BlocksInv,
       OnlyShutdownCrashes, Owns, AtRest, Up, Running, Doomed, driver
<1>3. CASE vmx[c] = "root"
  <2>1. /\ vmx' = [vmx EXCEPT ![c] = "guest"] /\ status' = [status EXCEPT ![c] = "none"]
        /\ UNCHANGED <<driver, data, regs, crashed, number, pc, task>>
    BY <1>1, <1>3 DEF VmxVmmRun
  <2>2. \A d \in Cpu : Running(d)' = Running(d) /\ Doomed(d)' = Doomed(d)
    BY <1>1, <1>3, <2>1 DEF Running, Doomed, VirtualizationTypeOK
  <2>3. ASSUME NEW a \in Actors PROVE WorkInv(a)'
    <3>1. pc[a] = "broadcast" => c \notin task[a].done
      BY <1>1 DEF SerialInv, WorkInv
    <3>2. QED
      BY <2>1, <3>1 DEF SerialInv, WorkInv, Owns, driver, VirtualizationTypeOK
  <2>4. RootInv'
    BY <2>1 DEF SerialInv, RootInv, Owns, VirtualizationTypeOK
  <2>5. RestInv'
    BY <1>1, <2>1 DEF SerialInv, RestInv, AtRest, driver
  <2>6. DataInv' /\ BlocksInv'
    BY <2>1, <2>2 DEF SerialInv, DataInv, BlocksInv, Up, driver
  <2>7. Serial' /\ OnlyShutdownCrashes'
    BY <2>1 DEF SerialInv, Serial, OnlyShutdownCrashes, OneGroup
  <2>8. QED
    BY <2>3, <2>4, <2>5, <2>6, <2>7 DEF SerialInv
<1>4. QED
  BY <1>1, <1>2, <1>3 DEF VirtualizationTypeOK

\* What a processor works on is allocated and, in one processor group, its own.
LEMMA StraySerial ==
    ASSUME VirtualizationTypeOK, FlagInv, SerialInv, StrayBlock
    PROVE  SerialInv'
<1>1. ~crashed /\ Crash
  BY DEF StrayBlock
<1>2. ASSUME NEW c \in Cpu, NEW b \in Blocks, WorksOn(c, b)
      PROVE  processors # Null /\ b = processors[number[c]].data /\ b \in allocated
  <2>1. b # Null
    BY VirtualizationAssumption
  <2>2. processors # Null /\ b = processors[number[c]].data
    <3>1. CASE data[c] = b
      BY <2>1, <3>1 DEF SerialInv, DataInv
    <3>2. ASSUME NEW a \in Actors, Owns(a), task[a].cpu = c, task[a].private = b
          PROVE  processors # Null /\ b = processors[number[c]].data
      BY <3>2 DEF SerialInv, WorkInv, Owns, Looping
    <3>3. QED
      BY <1>2, <3>1, <3>2 DEF WorksOn, Owns
  <2>3. number[c] \in Cpu
    BY DEF VirtualizationTypeOK
  <2>4. QED
    BY <2>1, <2>2, <2>3 DEF SerialInv, BlocksInv
<1>3. ~OneGroup
  <2> SUFFICES ASSUME OneGroup PROVE FALSE
    OBVIOUS
  <2>1. PICK c \in Cpu, b \in Blocks :
            /\ WorksOn(c, b)
            /\ b \notin allocated \/ \E d \in Cpu \ {c} : WorksOn(d, b)
    BY DEF StrayBlock
  <2>2. PICK d \in Cpu \ {c} : WorksOn(d, b)
    BY <1>2, <2>1
  <2>3. number[c] \in Cpu /\ number[d] \in Cpu /\ number[c] # number[d]
    BY DEF OneGroup, VirtualizationTypeOK
  <2>4. /\ processors # Null /\ b # Null
        /\ b = processors[number[c]].data /\ b = processors[number[d]].data
    <3>1. b # Null
      BY VirtualizationAssumption
    <3>2. processors # Null /\ b = processors[number[c]].data
      BY <1>2, <2>1
    <3>3. b = processors[number[d]].data
      BY <1>2, <2>2
    <3>4. QED
      BY <3>1, <3>2, <3>3
  <2>5. QED
    BY <2>3, <2>4 DEF SerialInv, BlocksInv
<1>4. QED
  BY <1>1, <1>3 DEF Crash, SerialInv, Serial, WorkInv, RootInv, RestInv, DataInv, BlocksInv,
     OnlyShutdownCrashes, OneGroup, Owns, AtRest, Up, Running, Doomed, driver

LEMMA NextSerial ==
    ASSUME Concurrency = 1, VirtualizationTypeOK, FlagInv, SerialInv, [Next]_vars
    PROVE  SerialInv'
<1>1. ASSUME NEW a \in Actors, Step(a) PROVE SerialInv'
  BY <1>1, EnableSerial, CapturedSerial, VmxOnSerial, LaunchSerial, ResultSerial, DisableSerial
  DEF Step
<1>2. ASSUME NEW c \in Cpu, VmxVmmRun(c) PROVE SerialInv'
  BY <1>2, VmmRunSerial
<1>3. CASE Unloaded
  <2>1. Unloader \in Actors
    BY DEF Actors
  <2>2. QED
    BY <1>3, <2>1, ReplySerial DEF Unloaded, At, Owns, AtRest
<1>4. CASE UNCHANGED vars
  BY <1>4 DEF vars, driver, machine, SerialInv, Serial, WorkInv, RootInv, RestInv, DataInv,
     BlocksInv, OnlyShutdownCrashes, OneGroup, Owns, AtRest, Up, Running, Doomed
<1>5. CASE StrayBlock
  BY <1>5, StraySerial
<1>6. QED
  BY <1>1, <1>2, <1>3, <1>4, <1>5, RequestSerial DEF Next

\* The invariant of the requests that do not overlap.
THEOREM SerialInvariance ==
    ASSUME Concurrency = 1
    PROVE  Spec => [](VirtualizationTypeOK /\ FlagInv /\ SerialInv)
<1>1. VirtualizationTypeOK /\ FlagInv /\ SerialInv /\ [Next]_vars => SerialInv'
  BY NextSerial
<1>2. QED
  BY <1>1, InitSerial, FlagInvariance, VirtualizationTypes, PTL DEF Spec

\* With one request at a time the flag is unset, when no request is in
\* progress, only while every processor is outside VMX operation: a failed
\* enable leaves none behind.
THEOREM FlagMissesNone ==
    ASSUME Concurrency = 1
    PROVE  Spec => []FlagIsComplete
<1>1. SerialInv => FlagIsComplete
  BY DEF SerialInv, RestInv, AtRest, FlagIsComplete, Busy
<1>2. QED
  BY <1>1, SerialInvariance, PTL

\* With one request at a time every processor that runs as a guest does so on
\* the allocated block that g_Shared records for its number, and on that of no
\* other number, however many processors and groups there are.
THEOREM GuestsOwnTheirData ==
    ASSUME Concurrency = 1
    PROVE  Spec => []RunningDataOwned
<1>1. ASSUME VirtualizationTypeOK, SerialInv PROVE RunningDataOwned
  <2> SUFFICES ASSUME NEW c \in Cpu, Running(c)
               PROVE  /\ processors # Null /\ data[c] = processors[number[c]].data
                      /\ data[c] \in allocated
                      /\ \A d \in Cpu : number[d] # number[c] => data[d] # data[c]
    BY DEF RunningDataOwned
  <2>1. data[c] # Null /\ processors # Null /\ data[c] = processors[number[c]].data
    BY <1>1 DEF SerialInv, DataInv
  <2>2. /\ data[c] \in allocated
        /\ \A i \in Cpu \ {number[c]} : processors[i].data # data[c]
    BY <1>1, <2>1 DEF SerialInv, BlocksInv, VirtualizationTypeOK
  <2>3. \A d \in Cpu : data[d] # Null => data[d] = processors[number[d]].data
    BY <1>1 DEF SerialInv, DataInv
  <2>4. QED
    BY <1>1, <2>1, <2>2, <2>3 DEF VirtualizationTypeOK
<1>2. QED
  BY <1>1, SerialInvariance, PTL

\* With one request at a time no NULL pointer is used and, in one processor
\* group, no block by two processors; the machine stops nowhere but at the
\* vmresume of a processor that left VMX operation.
THEOREM NoOtherCrash ==
    ASSUME Concurrency = 1
    PROVE  Spec => []OnlyShutdownCrashes
<1>1. SerialInv => OnlyShutdownCrashes
  BY DEF SerialInv
<1>2. QED
  BY <1>1, SerialInvariance, PTL
-----------------------------------------------------------------------------
(***************************************************************************)
(* Requests end.  StepsLeft bounds the steps a request may still take: the *)
(* passes of the loops that are to come, six steps for a processor that is *)
(* to be launched since RtlCaptureContext returns three times there.       *)
(***************************************************************************)
StepsOf(place, t) ==
    LET toLaunch == 6 * (Cpus - t.cpu) + Cpus + 3
    IN  CASE place = "idle" -> 0
          [] place \in {"unload", "finish"} -> 1
          [] place = "broadcast" -> Cpus - Cardinality(t.done) + 2
          [] place \in {"status", "devirtualize"} -> Cpus + 3
          [] place = "launch" -> toLaunch + 3
          [] place = "vmcs" -> toLaunch + 4
          [] place = "vmxon" -> toLaunch + 5
          [] place = "captured" ->
               toLaunch + (IF ~t.virtualized THEN 6 ELSE IF ~t.restored THEN 2 ELSE 1)
          [] place = "alloc" -> (Cpus - t.cpu) + 7 * Cpus + 4
          [] place = "thread" -> 8 * Cpus + 4
          [] place = "virtualize" -> 8 * Cpus + 5

StepsLeft(a) == StepsOf(pc[a], task[a])

LEMMA DoneCounted ==
    ASSUME NEW t \in Task
    PROVE  /\ Cardinality(t.done) \in 0..Cpus
           /\ \A c \in Cpu \ t.done : Cardinality(t.done \union {c}) = Cardinality(t.done) + 1
<1>1. IsFiniteSet(Cpu) /\ Cardinality(Cpu) = Cpus
  BY FS_Interval DEF Cpu
<1>2. t.done \in SUBSET Cpu
  BY DEF Task
<1>3. IsFiniteSet(t.done) /\ Cardinality(t.done) <= Cpus
  BY <1>1, <1>2, FS_Subset
<1>4. Cardinality(t.done) \in Nat
  BY <1>3, FS_CardinalityType
<1>5. \A c \in Cpu \ t.done : Cardinality(t.done \union {c}) = Cardinality(t.done) + 1
  BY <1>3, FS_AddElement
<1>6. QED
  BY <1>3, <1>4, <1>5

\* What StepsOf is at each place.
LEMMA StepsAre ==
    ASSUME NEW t \in Task
    PROVE  /\ t.cpu \in Nat /\ 1 <= t.cpu /\ t.cpu <= Cpus
           /\ StepsOf("idle", t) = 0
           /\ StepsOf("unload", t) = 1 /\ StepsOf("finish", t) = 1
           /\ StepsOf("broadcast", t) = Cpus - Cardinality(t.done) + 2
           /\ StepsOf("status", t) = Cpus + 3 /\ StepsOf("devirtualize", t) = Cpus + 3
           /\ StepsOf("launch", t) = 6 * (Cpus - t.cpu) + Cpus + 3 + 3
           /\ StepsOf("vmcs", t) = 6 * (Cpus - t.cpu) + Cpus + 3 + 4
           /\ StepsOf("vmxon", t) = 6 * (Cpus - t.cpu) + Cpus + 3 + 5
           /\ StepsOf("captured", t) = 6 * (Cpus - t.cpu) + Cpus + 3
                  + (IF ~t.virtualized THEN 6 ELSE IF ~t.restored THEN 2 ELSE 1)
           /\ StepsOf("alloc", t) = (Cpus - t.cpu) + 7 * Cpus + 4
           /\ StepsOf("thread", t) = 8 * Cpus + 4
           /\ StepsOf("virtualize", t) = 8 * Cpus + 5
<1>1. t.cpu \in Nat /\ 1 <= t.cpu /\ t.cpu <= Cpus
  BY DEF Task, Cpu
<1>2. /\ StepsOf("idle", t) = 0
      /\ StepsOf("unload", t) = 1 /\ StepsOf("finish", t) = 1
      /\ StepsOf("broadcast", t) = Cpus - Cardinality(t.done) + 2
      /\ StepsOf("status", t) = Cpus + 3 /\ StepsOf("devirtualize", t) = Cpus + 3
  BY DEF StepsOf
<1>3. /\ StepsOf("launch", t) = 6 * (Cpus - t.cpu) + Cpus + 3 + 3
      /\ StepsOf("vmcs", t) = 6 * (Cpus - t.cpu) + Cpus + 3 + 4
      /\ StepsOf("vmxon", t) = 6 * (Cpus - t.cpu) + Cpus + 3 + 5
  BY DEF StepsOf
<1>4. StepsOf("captured", t) = 6 * (Cpus - t.cpu) + Cpus + 3
          + (IF ~t.virtualized THEN 6 ELSE IF ~t.restored THEN 2 ELSE 1)
  BY DEF StepsOf
<1>5. /\ StepsOf("alloc", t) = (Cpus - t.cpu) + 7 * Cpus + 4
      /\ StepsOf("thread", t) = 8 * Cpus + 4
      /\ StepsOf("virtualize", t) = 8 * Cpus + 5
  BY DEF StepsOf
<1>6. QED
  BY <1>1, <1>2, <1>3, <1>4, <1>5

\* The bounds of the bound.
LEMMA StepsBounded ==
    ASSUME VirtualizationTypeOK, NEW a \in Actors
    PROVE  StepsLeft(a) \in 0..8 * Cpus + 5
<1> DEFINE t == task[a]
           n == Cardinality(t.done)
<1>1. t \in Task /\ pc[a] \in Places
  BY DEF VirtualizationTypeOK
<1> HIDE DEF t
<1>2. n \in 0..Cpus
  BY <1>1, DoneCounted
<1> HIDE DEF n
<1>3. /\ t.cpu \in Nat /\ 1 <= t.cpu /\ t.cpu <= Cpus
      /\ StepsOf("broadcast", t) = Cpus - n + 2
  BY <1>1, StepsAre DEF n
<1>4. \A p \in {"idle", "unload", "finish", "broadcast", "status", "devirtualize"} :
          StepsOf(p, t) \in 0..8 * Cpus + 5
  BY <1>1, <1>2, <1>3, StepsAre
<1>5. \A p \in {"launch", "vmcs", "vmxon", "captured"} : StepsOf(p, t) \in 0..8 * Cpus + 5
  BY <1>1, <1>3, StepsAre
<1>6. \A p \in {"alloc", "thread", "virtualize"} : StepsOf(p, t) \in 0..8 * Cpus + 5
  BY <1>1, <1>3, StepsAre
<1>7. StepsOf(pc[a], t) \in 0..8 * Cpus + 5
  BY <1>1, <1>4, <1>5, <1>6 DEF Places
<1>8. QED
  BY <1>7 DEF t, StepsLeft
\* Where an actor is after a step, and what the others are at.
LEMMA Arrives ==
    ASSUME VirtualizationTypeOK, NEW a \in Actors, NEW where, Goto(a, where)
    PROVE  pc'[a] = where /\ \A b \in Actors \ {a} : pc'[b] = pc[b]
  BY DEF Goto, VirtualizationTypeOK

LEMMA Keeps ==
    ASSUME VirtualizationTypeOK, NEW a \in Actors, NEW t, task' = [task EXCEPT ![a] = t]
    PROVE  task'[a] = t /\ \A b \in Actors \ {a} : task'[b] = task[b]
  BY DEF VirtualizationTypeOK

\* A request that is at one of its last places has few steps left.
LEMMA ShortAtTheEnd ==
    ASSUME NEW t \in Task, NEW u \in Task,
           NEW p \in Places \ {"idle", "unload", "finish"}
    PROVE  /\ StepsOf("idle", u) < StepsOf(p, t)
           /\ StepsOf("unload", u) < StepsOf(p, t)
           /\ StepsOf("finish", u) < StepsOf(p, t)
<1> DEFINE n == Cardinality(t.done)
<1>1. n \in 0..Cpus
  BY DoneCounted
<1> HIDE DEF n
<1>2. /\ t.cpu \in Nat /\ 1 <= t.cpu /\ t.cpu <= Cpus
      /\ StepsOf("broadcast", t) = Cpus - n + 2
  BY StepsAre DEF n
<1>3. CASE p \in {"broadcast", "status", "devirtualize"}
  BY <1>1, <1>2, <1>3, StepsAre
<1>4. CASE p \in {"launch", "vmcs", "vmxon", "captured"}
  BY <1>2, <1>4, StepsAre
<1>5. CASE p \in {"alloc", "thread", "virtualize"}
  BY <1>2, <1>5, StepsAre
<1>6. QED
  BY <1>3, <1>4, <1>5 DEF Places

\* The end of the callback takes a step off whatever it returns.
LEMMA CallbackShortens ==
    ASSUME VirtualizationTypeOK, NEW a \in Actors, CallbackTrue(a) \/ CallbackFalse(a),
           pc[a] \in {"captured", "vmxon", "vmcs", "launch"}
    PROVE  StepsLeft(a)' < StepsLeft(a)
<1> DEFINE t == task[a]
           u == task'[a]
<1>1. t \in Task /\ u \in Task
  BY CallbackTyped DEF VirtualizationTypeOK
<1>2. \/ pc'[a] = "captured" /\ u = [NoTask EXCEPT !.cpu = t.cpu + 1] /\ t.cpu < Cpus
      \/ pc'[a] = "status" /\ u = t
  <2>1. CASE t.cpu < Cpus /\ task' = [task EXCEPT ![a] = [NoTask EXCEPT !.cpu = t.cpu + 1]]
             /\ Goto(a, "captured")
    BY <2>1, Arrives, Keeps
  <2>2. CASE Goto(a, "status") /\ UNCHANGED task
    BY <2>2, Arrives
  <2>3. QED
    BY <2>1, <2>2 DEF CallbackTrue, CallbackFalse
<1> HIDE DEF t, u
<1>3. t.cpu \in Nat /\ t.cpu <= Cpus
  BY <1>1, StepsAre
<1>4. StepsOf(pc[a], t) >= 6 * (Cpus - t.cpu) + Cpus + 3 + 1
  BY <1>1, <1>3, StepsAre
<1>5. CASE pc'[a] = "captured" /\ u = [NoTask EXCEPT !.cpu = t.cpu + 1] /\ t.cpu < Cpus
  <2>1. u.cpu = t.cpu + 1 /\ ~u.virtualized
    BY <1>5 DEF NoTask
  <2>2. StepsOf(pc'[a], u) = 6 * (Cpus - (t.cpu + 1)) + Cpus + 3 + 6
    BY <1>1, <1>5, <2>1, StepsAre
  <2>3. StepsOf(pc[a], t) \in Int
    BY <1>1, StepsBounded DEF StepsLeft, t
  <2>4. QED
    BY <1>3, <1>4, <2>2, <2>3 DEF StepsLeft, t, u
<1>6. CASE pc'[a] = "status" /\ u = t
  <2>1. StepsOf(pc'[a], u) = Cpus + 3
    BY <1>1, <1>6, StepsAre
  <2>2. StepsOf(pc[a], t) \in Int
    BY <1>1, StepsBounded DEF StepsLeft, t
  <2>3. QED
    BY <1>3, <1>4, <2>1, <2>2 DEF StepsLeft, t, u
<1>7. QED
  BY <1>2, <1>5, <1>6

LEMMA LaunchShortens ==
    ASSUME VirtualizationTypeOK, NEW a \in Actors, ~crashed',
           \/ Captured(a) \/ VmxOn(a) \/ VmxRelatedHandler(a) \/ LoadVmcs(a) \/ VmLaunch(a)
    PROVE  StepsLeft(a)' < StepsLeft(a)
<1> DEFINE t == task[a]
           u == task'[a]
<1>1. t \in Task /\ u \in Task
  BY LaunchTyped DEF VirtualizationTypeOK
<1>2. t.cpu \in Nat /\ t.cpu <= Cpus
  BY <1>1, StepsAre
<1>3. ~Crash
  BY DEF Crash
<1>4. pc[a] \in {"captured", "vmxon", "vmcs", "launch"}
  BY DEF Captured, VmxOn, VmxRelatedHandler, LoadVmcs, VmLaunch, At
<1>5. CASE CallbackTrue(a) \/ CallbackFalse(a)
  BY <1>4, <1>5, CallbackShortens
<1>6. CASE pc[a] = "captured" /\ ~t.virtualized /\ Goto(a, "vmxon") /\ UNCHANGED task
  <2>1. pc'[a] = "vmxon" /\ u = t
    BY <1>6, Arrives
  <2> HIDE DEF t, u
  <2>2. StepsOf(pc'[a], u) < StepsOf(pc[a], t)
    BY <1>1, <1>2, <1>6, <2>1, StepsAre
  <2>3. QED
    BY <2>2 DEF t, u, StepsLeft
<1>7. CASE /\ pc[a] = "captured" /\ t.virtualized /\ ~t.restored
           /\ task' = [task EXCEPT ![a].restored = TRUE] /\ UNCHANGED pc
  <2>1. u = [t EXCEPT !.restored = TRUE]
    BY <1>7 DEF VirtualizationTypeOK
  <2>2. u.cpu = t.cpu /\ u.virtualized /\ u.restored
    BY <1>1, <1>7, <2>1 DEF Task
  <2> HIDE DEF t, u
  <2>3. StepsOf(pc'[a], u) < StepsOf(pc[a], t)
    BY <1>1, <1>2, <1>7, <2>2, StepsAre
  <2>4. QED
    BY <2>3 DEF t, u, StepsLeft
<1>8. ASSUME NEW b, pc[a] = "vmxon", task' = [task EXCEPT ![a].private = b], Goto(a, "vmcs")
      PROVE  StepsLeft(a)' < StepsLeft(a)
  <2>1. pc'[a] = "vmcs"
    BY <1>8, Arrives
  <2>2. u = [t EXCEPT !.private = b]
    BY <1>8 DEF VirtualizationTypeOK
  <2>3. u.cpu = t.cpu
    BY <1>1, <2>2 DEF Task
  <2> HIDE DEF t, u
  <2>4. StepsOf(pc'[a], u) < StepsOf(pc[a], t)
    BY <1>1, <1>2, <1>8, <2>1, <2>3, StepsAre
  <2>5. QED
    BY <2>4 DEF t, u, StepsLeft
<1>9. CASE pc[a] = "vmcs" /\ Goto(a, "launch") /\ UNCHANGED task
  <2>1. pc'[a] = "launch" /\ u = t
    BY <1>9, Arrives
  <2> HIDE DEF t, u
  <2>2. StepsOf(pc'[a], u) < StepsOf(pc[a], t)
    BY <1>1, <1>2, <1>9, <2>1, StepsAre
  <2>3. QED
    BY <2>2 DEF t, u, StepsLeft
<1>10. CASE pc[a] = "launch" /\ task' = [task EXCEPT ![a].virtualized = TRUE] /\ Goto(a, "captured")
  <2>1. pc'[a] = "captured"
    BY <1>10, Arrives
  <2>2. u = [t EXCEPT !.virtualized = TRUE]
    BY <1>10 DEF VirtualizationTypeOK
  <2>3. u.cpu = t.cpu /\ u.virtualized
    BY <1>1, <2>2 DEF Task
  <2> HIDE DEF t, u
  <2>4. StepsOf(pc'[a], u) < StepsOf(pc[a], t)
    BY <1>1, <1>2, <1>10, <2>1, <2>3, StepsAre
  <2>5. QED
    BY <2>4 DEF t, u, StepsLeft
<1> HIDE DEF u
<1>11. CASE Captured(a)
  BY <1>3, <1>5, <1>6, <1>7, <1>11 DEF Captured, At
<1>12. CASE VmxOn(a)
  BY <1>3, <1>5, <1>8, <1>12 DEF VmxOn, At
<1>13. CASE VmxRelatedHandler(a)
  BY <1>5, <1>13 DEF VmxRelatedHandler
<1>14. CASE LoadVmcs(a)
  BY <1>5, <1>9, <1>14 DEF LoadVmcs, At, VmxOff
<1>15. CASE VmLaunch(a)
  BY <1>5, <1>10, <1>15 DEF VmLaunch, At, VmxOff
<1>16. QED
  BY <1>11, <1>12, <1>13, <1>14, <1>15
LEMMA EnableShortens ==
    ASSUME VirtualizationTypeOK, NEW a \in Actors, ~crashed',
           Virtualize(a) \/ CreateThread(a) \/ AllocVmData(a)
    PROVE  StepsLeft(a)' < StepsLeft(a)
<1> DEFINE t == task[a]
           u == task'[a]
<1>1. t \in Task /\ u \in Task
  BY EnableTyped DEF VirtualizationTypeOK
<1>2. t.cpu \in Nat /\ 1 <= t.cpu /\ t.cpu <= Cpus
  BY <1>1, StepsAre
<1>3. ~Crash
  BY DEF Crash
<1>4. pc[a] \in {"virtualize", "thread", "alloc"}
  BY DEF Virtualize, CreateThread, AllocVmData, At
<1>5. CASE Reply(a) \/ Goto(a, "finish")
  <2>1. pc'[a] \in {"idle", "finish"}
    BY <1>5, Arrives DEF Reply
  <2> HIDE DEF t, u
  <2>2. pc[a] \in Places \ {"idle", "unload", "finish"}
    BY <1>4 DEF Places
  <2>3. StepsOf(pc'[a], u) < StepsOf(pc[a], t)
    BY <1>1, <2>1, <2>2, ShortAtTheEnd
  <2>4. QED
    BY <2>3 DEF t, u, StepsLeft
<1>6. CASE pc[a] = "virtualize" /\ Goto(a, "thread")
  <2>1. pc'[a] = "thread"
    BY <1>6, Arrives
  <2> HIDE DEF t, u
  <2>2. StepsOf(pc'[a], u) < StepsOf(pc[a], t)
    BY <1>1, <1>6, <2>1, StepsAre
  <2>3. QED
    BY <2>2 DEF t, u, StepsLeft
<1>7. CASE pc[a] = "thread" /\ Goto(a, "alloc") /\ UNCHANGED task
  <2>1. pc'[a] = "alloc" /\ u = t
    BY <1>7, Arrives
  <2> HIDE DEF t, u
  <2>2. StepsOf(pc'[a], u) < StepsOf(pc[a], t)
    BY <1>1, <1>2, <1>7, <2>1, StepsAre
  <2>3. QED
    BY <2>2 DEF t, u, StepsLeft
<1>8. CASE pc[a] = "alloc" /\ t.cpu < Cpus /\ task' = [task EXCEPT ![a].cpu = t.cpu + 1] /\ UNCHANGED pc
  <2>1. u = [t EXCEPT !.cpu = t.cpu + 1]
    BY <1>8 DEF VirtualizationTypeOK
  <2>2. u.cpu = t.cpu + 1
    BY <1>1, <2>1 DEF Task
  <2> HIDE DEF t, u
  <2>3. StepsOf(pc'[a], u) < StepsOf(pc[a], t)
    BY <1>1, <1>2, <1>8, <2>2, StepsAre
  <2>4. QED
    BY <2>3 DEF t, u, StepsLeft
<1>9. CASE pc[a] = "alloc" /\ task' = [task EXCEPT ![a].cpu = 1] /\ Goto(a, "captured")
  <2>1. pc'[a] = "captured"
    BY <1>9, Arrives
  <2>2. u = [t EXCEPT !.cpu = 1]
    BY <1>9 DEF VirtualizationTypeOK
  <2>3. u.cpu = 1
    BY <1>1, <2>2 DEF Task
  <2> HIDE DEF t, u
  <2>4. StepsOf(pc[a], t) >= 7 * Cpus + 4
    BY <1>1, <1>2, <1>9, StepsAre
  <2>5. StepsOf(pc'[a], u) <= 6 * (Cpus - 1) + Cpus + 3 + 6
    BY <1>1, <2>1, <2>3, StepsAre
  <2>6. StepsOf(pc'[a], u) \in Int /\ StepsOf(pc[a], t) \in Int
    BY <1>1, <1>2, <1>9, <2>1, <2>3, StepsAre
  <2>7. StepsOf(pc'[a], u) < StepsOf(pc[a], t)
    BY <2>4, <2>5, <2>6
  <2>8. QED
    BY <2>7 DEF t, u, StepsLeft
<1> HIDE DEF u
<1>10. CASE Virtualize(a)
  BY <1>5, <1>6, <1>10 DEF Virtualize, At
<1>11. CASE CreateThread(a)
  BY <1>5, <1>7, <1>11 DEF CreateThread, At
<1>12. CASE AllocVmData(a)
  BY <1>3, <1>5, <1>8, <1>9, <1>12 DEF AllocVmData, At
<1>13. QED
  BY <1>10, <1>11, <1>12

LEMMA ResultShortens ==
    ASSUME VirtualizationTypeOK, NEW a \in Actors, ~crashed', CheckStatus(a) \/ Finish(a)
    PROVE  StepsLeft(a)' < StepsLeft(a)
<1> DEFINE t == task[a]
           u == task'[a]
<1>1. t \in Task /\ u \in Task
  BY ResultTyped DEF VirtualizationTypeOK
<1>2. ~Crash
  BY DEF Crash
<1>3. Cardinality(u.done) \in 0..Cpus
  BY <1>1, DoneCounted
<1>4. CASE CheckStatus(a)
  <2>1. pc[a] = "status" /\ pc'[a] \in {"finish", "broadcast"}
    BY <1>2, <1>4, Arrives DEF CheckStatus, At
  <2> HIDE DEF t, u
  <2>2. StepsOf(pc[a], t) = Cpus + 3
    BY <1>1, <2>1, StepsAre
  <2>3. StepsOf("finish", u) = 1 /\ StepsOf("broadcast", u) = Cpus - Cardinality(u.done) + 2
    BY <1>1, StepsAre
  <2>4. StepsOf(pc'[a], u) < StepsOf(pc[a], t)
    BY <1>3, <2>1, <2>2, <2>3
  <2>5. QED
    BY <2>4 DEF t, u, StepsLeft
<1>5. CASE Finish(a)
  <2>1. pc[a] = "finish" /\ pc'[a] = "idle"
    BY <1>5, Arrives DEF Finish, At, Reply
  <2> HIDE DEF t, u
  <2>2. StepsOf(pc'[a], u) < StepsOf(pc[a], t)
    BY <1>1, <2>1, StepsAre
  <2>3. QED
    BY <2>2 DEF t, u, StepsLeft
<1>6. QED
  BY <1>4, <1>5

\* Of a broadcast, the CPUID of a processor that is a guest is the exception:
\* it takes that processor out of VMX operation with its exit still to end.
LEMMA DisableShortens ==
    ASSUME VirtualizationTypeOK, NEW a \in Actors, ~crashed',
           \/ Devirtualize(a)
           \/ \E c \in Cpu : DevirtualizeProcessor(a, c) \/ CpuidHandler(a, c)
           \/ FreeVmData(a)
    PROVE  \/ StepsLeft(a)' < StepsLeft(a)
           \/ UNCHANGED <<pc, task>> /\ \E c \in Cpu : Doomed(c)'
<1> DEFINE t == task[a]
           u == task'[a]
<1>1. t \in Task /\ u \in Task
  BY DisableTyped DEF VirtualizationTypeOK
<1>2. CASE Devirtualize(a)
  <2>1. Cardinality(u.done) \in 0..Cpus
    BY <1>1, DoneCounted
  <2>2. pc[a] = "devirtualize" /\ pc'[a] \in {"broadcast", "unload", "idle"}
    BY <1>2, Arrives DEF Devirtualize, At, Return
  <2> HIDE DEF t, u
  <2>3. StepsOf(pc[a], t) = Cpus + 3
    BY <1>1, <2>2, StepsAre
  <2>4. /\ StepsOf("idle", u) = 0 /\ StepsOf("unload", u) = 1
        /\ StepsOf("broadcast", u) = Cpus - Cardinality(u.done) + 2
    BY <1>1, StepsAre
  <2>5. StepsOf(pc'[a], u) < StepsOf(pc[a], t)
    BY <2>1, <2>2, <2>3, <2>4
  <2>6. QED
    BY <2>5 DEF t, u, StepsLeft
<1>3. ASSUME NEW c \in Cpu, DevirtualizeProcessor(a, c) PROVE StepsLeft(a)' < StepsLeft(a)
  <2>1. /\ pc[a] = "broadcast" /\ pc'[a] = pc[a] /\ c \in Cpu \ t.done
        /\ u.done = t.done \union {c}
    BY <1>1, <1>3 DEF DevirtualizeProcessor, Broadcasts, At, Task, VirtualizationTypeOK
  <2> HIDE DEF t, u
  <2>2. Cardinality(u.done) = Cardinality(t.done) + 1 /\ Cardinality(t.done) \in 0..Cpus
    BY <1>1, <2>1, DoneCounted
  <2>3. /\ StepsOf("broadcast", t) = Cpus - Cardinality(t.done) + 2
        /\ StepsOf("broadcast", u) = Cpus - Cardinality(u.done) + 2
    BY <1>1, StepsAre
  <2>4. StepsOf(pc'[a], u) < StepsOf(pc[a], t)
    BY <2>1, <2>2, <2>3
  <2>5. QED
    BY <2>4 DEF t, u, StepsLeft
<1>4. ASSUME NEW c \in Cpu, CpuidHandler(a, c) PROVE UNCHANGED <<pc, task>> /\ Doomed(c)'
  BY <1>4 DEF CpuidHandler, Doomed, VirtualizationTypeOK
<1>5. CASE FreeVmData(a)
  <2>1. pc[a] = "broadcast" /\ pc'[a] \in {"finish", "unload", "idle"}
    BY <1>5, Arrives DEF FreeVmData, Broadcasts, At, Return
  <2> HIDE DEF t, u
  <2>2. pc[a] \in Places \ {"idle", "unload", "finish"}
    BY <2>1 DEF Places
  <2>3. StepsOf(pc'[a], u) < StepsOf(pc[a], t)
    BY <1>1, <2>1, <2>2, ShortAtTheEnd
  <2>4. QED
    BY <2>3 DEF t, u, StepsLeft
<1> HIDE DEF u
<1>6. QED
  BY <1>2, <1>3, <1>4, <1>5

\* The machine stops in the middle of a step.
LEMMA CrashFreezes ==
    ASSUME NEW a \in Actors, Step(a), crashed'
    PROVE  UNCHANGED <<pc, task>>
<1>1. CASE Crash
  BY <1>1 DEF Crash
<1>2. CASE Virtualize(a) \/ CreateThread(a) \/ AllocVmData(a)
  BY <1>1, <1>2 DEF Virtualize, CreateThread, AllocVmData, At, machine
<1>3. CASE Captured(a) \/ VmxOn(a) \/ VmxRelatedHandler(a)
  BY <1>1, <1>3 DEF Captured, VmxOn, VmxRelatedHandler, At, machine
<1>4. CASE LoadVmcs(a) \/ VmLaunch(a)
  BY <1>4 DEF LoadVmcs, VmLaunch, VmxOff, At, machine
<1>5. CASE CheckStatus(a) \/ Finish(a)
  BY <1>1, <1>5 DEF CheckStatus, Finish, At, machine
<1>6. CASE Devirtualize(a) \/ FreeVmData(a)
  BY <1>6 DEF Devirtualize, FreeVmData, Broadcasts, At, machine
<1>7. CASE \E c \in Cpu : DevirtualizeProcessor(a, c) \/ CpuidHandler(a, c)
  BY <1>7 DEF DevirtualizeProcessor, CpuidHandler, Broadcasts, At
<1>8. QED
  BY <1>2, <1>3, <1>4, <1>5, <1>6, <1>7 DEF Step

\* Every step of a request leaves it fewer steps to take, or is one in which
\* the machine stops, or the CPUID that ends with vmresume outside VMX operation.
LEMMA StepShortens ==
    ASSUME VirtualizationTypeOK, NEW a \in Actors, Step(a)
    PROVE  \/ StepsLeft(a)' < StepsLeft(a)
           \/ UNCHANGED <<pc, task>> /\ (crashed' \/ \E c \in Cpu : Doomed(c)')
<1>0. CASE crashed'
  BY <1>0, CrashFreezes
<1>1. CASE ~crashed' /\ (Virtualize(a) \/ CreateThread(a) \/ AllocVmData(a))
  BY <1>1, EnableShortens
<1>2. CASE /\ ~crashed'
           /\ Captured(a) \/ VmxOn(a) \/ VmxRelatedHandler(a) \/ LoadVmcs(a) \/ VmLaunch(a)
  BY <1>2, LaunchShortens
<1>3. CASE ~crashed' /\ (CheckStatus(a) \/ Finish(a))
  BY <1>3, ResultShortens
<1>4. CASE /\ ~crashed'
           /\ \/ Devirtualize(a)
              \/ \E c \in Cpu : DevirtualizeProcessor(a, c) \/ CpuidHandler(a, c)
              \/ FreeVmData(a)
  BY <1>4, DisableShortens
<1>5. QED
  BY <1>0, <1>1, <1>2, <1>3, <1>4 DEF Step

\* A step of one actor is none of another's.
LEMMA OthersStay ==
    ASSUME VirtualizationTypeOK, NEW b \in Actors, Step(b), NEW a \in Actors \ {b}
    PROVE  pc'[a] = pc[a] /\ task'[a] = task[a]
<1>0. /\ \A where : Goto(b, where) => pc'[a] = pc[a]
      /\ \A t : task' = [task EXCEPT ![b] = t] => task'[a] = task[a]
  BY Arrives, Keeps
<1>1. CASE UNCHANGED <<pc, task>>
  BY <1>1
<1>2. CASE Reply(b) \/ Return(b)
  BY <1>0, <1>2 DEF Reply, Return
<1>3. CASE CallbackTrue(b) \/ CallbackFalse(b)
  BY <1>0, <1>3 DEF CallbackTrue, CallbackFalse
<1> USE DEF VirtualizationTypeOK
<1>4. CASE Virtualize(b) \/ CreateThread(b) \/ AllocVmData(b)
  <2>1. \A n : task' = [task EXCEPT ![b].cpu = n] => task'[a] = task[a]
    OBVIOUS
  <2>2. QED
    BY <1>0, <1>1, <1>2, <1>4, <2>1 DEF Virtualize, CreateThread, AllocVmData, Crash
<1>5. CASE Captured(b)
  <2>1. task' = [task EXCEPT ![b].restored = TRUE] => task'[a] = task[a]
    OBVIOUS
  <2>2. QED
    BY <1>0, <1>1, <1>3, <1>5, <2>1 DEF Captured, Crash
<1>6. CASE VmxOn(b)
  <2>1. \A n : task' = [task EXCEPT ![b].private = n] => task'[a] = task[a]
    OBVIOUS
  <2>2. QED
    BY <1>0, <1>1, <1>3, <1>6, <2>1 DEF VmxOn, Crash
<1>7. CASE VmxRelatedHandler(b) \/ LoadVmcs(b) \/ VmLaunch(b)
  <2>1. task' = [task EXCEPT ![b].virtualized = TRUE] => task'[a] = task[a]
    OBVIOUS
  <2>2. QED
    BY <1>0, <1>1, <1>3, <1>7, <2>1 DEF VmxRelatedHandler, LoadVmcs, VmLaunch, VmxOff
<1>8. CASE CheckStatus(b) \/ Finish(b)
  <2>1. /\ task' = [task EXCEPT ![b].result = TRUE] => task'[a] = task[a]
        /\ task' = [task EXCEPT ![b].rollback = TRUE] => task'[a] = task[a]
    OBVIOUS
  <2>2. QED
    BY <1>0, <1>1, <1>2, <1>8, <2>1 DEF CheckStatus, Finish, Crash
<1>9. CASE Devirtualize(b) \/ FreeVmData(b)
  BY <1>0, <1>2, <1>9 DEF Devirtualize, FreeVmData
<1>10. CASE \E c \in Cpu : DevirtualizeProcessor(b, c) \/ CpuidHandler(b, c)
  BY <1>10 DEF DevirtualizeProcessor, CpuidHandler
<1>11. QED
  BY <1>4, <1>5, <1>6, <1>7, <1>8, <1>9, <1>10 DEF Step

\* What is left of a request in progress, in one step of the system.
Shortens(a) ==
    pc[a] # "idle" =>
        \/ StepsLeft(a)' < StepsLeft(a)
        \/ /\ pc'[a] = pc[a] /\ task'[a] = task[a]
           /\ Step(a) => crashed' \/ \E c \in Cpu : Doomed(c)'

LEMMA NextShortens ==
    ASSUME VirtualizationTypeOK, [Next]_vars, NEW a \in Actors
    PROVE  Shortens(a)
<1>1. CASE Step(a)
  BY <1>1, StepShortens DEF Shortens
<1> SUFFICES ASSUME ~Step(a), pc[a] # "idle"
             PROVE  StepsLeft(a)' < StepsLeft(a) \/ (pc'[a] = pc[a] /\ task'[a] = task[a])
  BY <1>1 DEF Shortens
<1>2. ASSUME NEW b \in Actors, Step(b) PROVE pc'[a] = pc[a] /\ task'[a] = task[a]
  BY <1>2, OthersStay
<1>3. CASE Request
  <2>1. UNCHANGED task
    BY <1>3 DEF Request, Enable, Disable, OnSystemSleep, OnSystemWake, DriverUnload
  <2>2. \A b \in Actors : \A where : pc[b] = "idle" /\ Goto(b, where) => pc'[a] = pc[a]
    BY Arrives
  <2>3. Clients \subseteq Actors /\ Power \in Actors /\ Unloader \in Actors
    BY DEF Actors
  <2>4. pc'[a] = pc[a]
    BY <1>3, <2>2, <2>3
       DEF Request, Enable, Disable, OnSystemSleep, OnSystemWake, DriverUnload, Accepts, At
  <2>5. QED
    BY <2>1, <2>4
<1>4. ASSUME NEW c \in Cpu, VmxVmmRun(c) PROVE UNCHANGED <<pc, task>>
  BY <1>4 DEF VmxVmmRun, Crash
<1>5. CASE Unloaded
  <2>1. /\ Unloader \in Actors /\ pc[Unloader] = "unload"
        /\ Goto(Unloader, "idle") /\ task' = [task EXCEPT ![Unloader] = NoTask]
    BY <1>5 DEF Unloaded, Reply, At, Actors
  <2>2. /\ pc'[Unloader] = "idle" /\ \A b \in Actors \ {Unloader} : pc'[b] = pc[b]
        /\ task'[Unloader] = NoTask /\ \A b \in Actors \ {Unloader} : task'[b] = task[b]
    <3>1. pc'[Unloader] = "idle" /\ \A b \in Actors \ {Unloader} : pc'[b] = pc[b]
      BY <2>1, Arrives
    <3>2. task'[Unloader] = NoTask /\ \A b \in Actors \ {Unloader} : task'[b] = task[b]
      BY <2>1, Keeps
    <3>3. QED
      BY <3>1, <3>2
  <2>3. CASE a = Unloader
    <3>1. pc'[a] = "idle" /\ task'[a] = NoTask
      BY <2>2, <2>3
    <3>2. StepsOf("idle", NoTask) = 0
      BY NoTaskFacts, StepsAre
    <3>3. task[a] \in Task
      BY DEF VirtualizationTypeOK
    <3>4. StepsOf("unload", task[a]) = 1
      BY <3>3, StepsAre
    <3>5. QED
      BY <2>1, <2>3, <3>1, <3>2, <3>4 DEF StepsLeft
  <2>4. CASE a # Unloader
    BY <2>2, <2>4
  <2>5. QED
    BY <2>3, <2>4
<1>6. CASE UNCHANGED vars
  BY <1>6 DEF vars
<1>7. CASE StrayBlock
  BY <1>7 DEF StrayBlock, Crash
<1>8. QED
  BY <1>2, <1>3, <1>4, <1>5, <1>6, <1>7 DEF Next

\* A request ends within 8 * Cpus + 5 steps of its own, whatever the others do
\* and whatever fails: no step takes it back, and but for the steps that stop
\* the machine each one takes it on (RequestsReturn without the fairness).
THEOREM RequestsShorten ==
    Spec => [](\A a \in Actors : StepsLeft(a) \in 0..8 * Cpus + 5)
            /\ [][\A a \in Actors : Shortens(a)]_vars
<1>1. VirtualizationTypeOK => \A a \in Actors : StepsLeft(a) \in 0..8 * Cpus + 5
  BY StepsBounded
<1>2. VirtualizationTypeOK /\ [Next]_vars => [\A a \in Actors : Shortens(a)]_vars
  BY NextShortens
<1>3. QED
  BY <1>1, <1>2, VirtualizationTypes, PTL DEF Spec
=============================================================================
