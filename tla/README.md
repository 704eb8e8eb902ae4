# VMX-Hypervisor: a TLA+ development

This directory models the control of VMX-Hypervisor, a Windows kernel driver that
puts every logical processor of a running system under a thin Intel VMX hypervisor,
intercepts guest pages through the extended page tables (EPT), and traces a process
instruction by instruction with the monitor trap flag. The modules are translated
from the sources, and `PROJECT.json` names for every definition the lines it stands
for. Paths below are relative to the repository; `Hpv.cpp`, `IOCTLHandlers.cpp` and
`DrvMain.cpp` are those of `example/Simple example/Driver/Src`.

## 1. Inventory

| Component | Sources | State | Operations |
|---|---|---|---|
| EPT interceptor | `Ept.cpp`, `Ept.hpp` | `m_Ept` tables, `m_PageDescriptors`, `m_Handlers`, `m_PendingHandler`; one object per processor | `InterceptPage`, `DeinterceptPage`, `HandleRead/Write/Execute/ExecuteRead/ExecuteWrite`, `CompletePendingHandler`, destructor |
| VM-exit handlers | `Hpv.cpp` 19-751 | the VMCS of the processor (RIP, RFLAGS, monitor trap flag, injected event) | one handler per exit reason: EPT violation and misconfiguration, monitor trap, CPUID, VMCALL, MSR accesses, VMX instructions, exceptions |
| Life cycle | `HyperVisor.cpp`, `Hpv.cpp` 799-845, `VMXrun.asm` | `g_IsVirtualized`, `g_Shared.Processors[]` (VmData, Status), VMX state of each processor, physical memory | `Virtualize`, `Devirtualize`, `VirtualizeAllProcessors`, `VirtualizeProcessor`, `DevirtualizeAllProcessors`, `DevirtualizeProcessor` |
| EPT and MTRR initialisation | `Ept.cpp` 1-375, `HyperVisor.cpp` 194-239 | MTRR registers, EPT tables | `InitMtrr`, `GetMtrrMemoryType`, `MixMtrrTypes`, `InitializeEptTables` |
| Cross-processor calls | `CommonApi/Callable.cpp` | DPC queues, `STOP_PROCESSORS_DATA`, finished flags | `CallInSystemContext`, `ForEachCpu`, `DpcOnEachCpu`, `QueueDpc`, `QueueWaitDpc`, threaded variants, `StopMachine`, `ResumeMachine` |
| Trace hand-over | `Hpv.cpp` 6-17, 424-448, 890-919, `IOCTLHandlers.cpp` 104-160, `Trace.cpp` | `RepeatMtfExit`, `InMtfExit`, `EnabledMtfTrace`, `In`, `Out` | `InitTrace`, the report of a step in the exit handler, the request that fetches it |
| IOCTL layer | `IOCTLHandlers.cpp`, `DrvMain.cpp`, application's `SendIOCTLs.cpp`, `IOCTLRequests.cpp` | the request, `KbHandlesCount` | dispatch by index, size checks, handlers, create and close |
| Driver and power events | `DrvMain.cpp` | `NeedToRevirtualizeOnWake`, `PowerCallbackRegistration`, device and link | `DriverEntry`, `DriverUnload`, sleep, wake |
| Loader | application's `SelfLoader.cpp` | `hDriver`; the service and its handles | `MvLoadAsDriver`, `MvLoadAsFilter`, `MvUnload` |
| C++ run time support | `CppSupport/CppSupport.cpp` | the table of exit functions | `__crt_init`, `__crt_deinit`, `atexit`, operators new and delete |
| Page tables, memory, processes | `CommonApi/PteUtils.cpp`, `MemoryUtils.cpp`, `ProcessesUtils.cpp`, `Cr3Get.cpp` | guest page tables, MDLs, locked and secured ranges, attached process | translation of addresses by the system and by hand, presence of ranges, reading and writing another process |

How they interact. A client thread's IOCTL reaches `Virtualize`, which creates a system
thread (`CallInSystemContext`) that visits every processor (`ForEachCpu`) and launches
the guest there; from then on every exit of that processor runs `VmxVmExitHandler` in
VMX root operation, with the guest stopped. `InterceptPage` and `DeinterceptPage` queue a
DPC to every processor (`DpcOnEachCpu`), each of which executes a VMCALL whose handler
runs the interceptor of its own processor in root operation: the tables are never
touched by two processors. EPT violations call the interceptor's `Handle*`; the views
that allow one access are shown for one instruction with the monitor trap flag on, and
`MonitorTrapFlagHandler` puts the previous entry back. When a process is traced, the
same handler reports each step through plain shared variables and spins until the
client's IOCTL has fetched the report. Power callbacks and driver unload devirtualize
through the same functions as the IOCTL, with no lock between them. Several instances of
the application load, use and unload one driver through the service control manager, each
deciding from a count of open handles whether it is the last.

What is hard. Several client threads, power callbacks and unload share
`g_IsVirtualized` and `g_Shared.Processors` without a lock; half-done virtualization is
rolled back while processors run in the state that is released; one pending slot per
processor has to survive nested violations, events and taken branches; pointers into
layouts are kept while layouts are freed; a handler spins in root operation for a
client that may be on the same processor; memory types must agree between MTRRs and
every entry that replaces a large page; a loaded driver is taken away while others use it,
and processes end half-way through loading one; page tables change while they are walked
and pages are moved and freed while they are copied; what a guest can tell of its
instructions being carried out by a handler must be known.

What makes each component correct: section 4 states it as the properties of the runs,
and `PROJECT.json` lists under `hazards` each place where it could fail.

## 2. Plan

The order follows importance: first what intercepts pages, then what puts processors
under the hypervisor and takes them out, then what carries requests between processors
and clients, last the support code.

| Step | Modules | What they compose | State |
|---|---|---|---|
| 1 | `EptHandler`, `EptProofs` | the interceptor as an object | done |
| 2 | `EptGuest`, `EptProofs` | a processor, its exit handlers and `EptHandler`; shown to implement `EptSpec` | done |
| 3 | `Mtrr`, `MtrrProofs` | memory types of the entries `EptHandler` takes as `TypeOf` | done |
| 4 | `Virtualization`, `VirtualizationProofs` | clients, power callback, unload, processors | done |
| 5 | `PageHooks` (abstract), `InterceptAll`, `InterceptAllProofs` | page requests over all processors | done |
| 6 | `StepChannel` (abstract), `TraceHandshake`, `TraceProofs` | the traced thread with its exits, the request that fetches a report, `InitTrace` | done |
| 7 | `Ioctl`, `Driver`, `DriverProofs` | codes, sizes and dispatch; load and unload by several processes, `DriverEntry`, exit functions, power callback, open files | done |
| 8 | `PageTables`, `ProcessMemory`, `ProcessMemoryProofs` | both software walks against the processor's translation; secure, lock, map, copy and give back, beside a memory manager | done |
| 9 | `Processor` (abstract), `VmExits`, `VmExitsProofs` | a guest, the controls that decide what leaves it, the handlers; shown to implement the bare processor | done |
| 10 | `Callable` | `StopMachine`/`ResumeMachine`, `QueueWaitDpc`, the threaded variants, none of which the driver calls | open |

## 3. Modules and code

**`EptHandler`** is class `EptHandler` with the tables of `EPT_TABLES`. Guest-physical
memory is a set of large pages, each a set of 4 KB pages; addresses are page aligned, so
an address is a page and 0 is `Null`. `pde` and `tables` are the PDEs and the 4 KB tables
of one processor, `live` the tables `AllocPhys` gave and nobody freed, `descriptors` and
`handlers` the two hash maps (partial functions: `find` is membership in the domain,
`emplace` keeps an existing key, `erase` restricts the domain), `pending` the one pending
slot. There is one action per member function: `InterceptPage` is the disjunction of its
three paths (intercepted already; first page of a large page; another page of a split
one), `DeinterceptPage` puts back every large page when the last handler goes, the five
`Handle*` functions show a view, and `CompletePendingHandler` takes one back. Entries keep
their rights, frame and memory type. An entry that references a table is read as a large
entry exactly as the union in the source does (`Page2MbFrame`, `Page2MbType`).

**`EptGuest`** adds the processor. An instruction is the pages it is fetched from, reads and
writes, those it reads and writes in one access (`rmw`), and whether it may end elsewhere
than at the next address; it retires when the entries grant all of it and otherwise raises
one of the violations that apply, whichever the processor meets first. `EptViolation` asks
in the order of `EptViolationHandler`: `AccessedRead`, then `AccessedWrite`, then
`AccessedExecute`, and a denied access that reads and writes at once may have the first two
set (`ReadReported`, left to the processor). `ripPa` is the page
`GetPhysAddressFast4KbUnsafe` finds for the instruction: its own where code is mapped in 4
KB pages, any other in a large page. An exit with its handler is one step, since the guest
of the processor is stopped and only this processor touches its tables. `mtf` and `trap` are
the monitor trap control and a due exit, `interrupts` is `RFLAGS.IF`. Between two
instructions the client's VMCALLs intercept and deintercept pages. NMIs and exceptions cut
instructions short where `Diverts` allows it. `Traced` is the answer to "does CR3 belong to
the traced process", drawn at each monitor trap; the wait for the client in that branch is
`TraceHandshake`'s.

**`Mtrr`** is `GetMtrrMemoryType`, its helpers and the loops of `InitializeEptTables`, one
pass of a loop per step, with the early returns. What the base and the mask of a variable
MTRR select is a set of frames. The code of an entry's type is one of five names.

**`Virtualization`** has one step per loop pass, per function without a loop and per VMX
instruction, and one `pc` and `task` (locals) per actor: any client thread, the power
callback and the unloading thread. `VirtualizeProcessor` is `Captured` (the place
`RtlRestoreContext` returns to, three times on one stack), `VmxOn`, `LoadVmcs`, `VmLaunch`;
`VirtualizeAllProcessors` is `AllocVmData`, the loop of `ForEachCpu` (`CallbackTrue`,
`CallbackFalse`), `CheckStatus`, `Finish`; `DevirtualizeAllProcessors` is one
`DevirtualizeProcessor` per processor under `KeIpiGenericCall` and `FreeVmData`. On the
processor's side `CpuidHandler` and `VmxRelatedHandler` are the exits the driver causes
itself, and `VmxVmmRun` the loop of `VMXrun.asm`. `number` is what
`KeGetCurrentProcessorNumber` returns on each processor, its number within its processor
group: `ForEachCpu` visits the processors of all groups, `g_Shared.Processors` is indexed
by the number, so processors of two groups may share a block and a status (`VmxOn`,
`Captured`, `StrayBlock`). What the code would do with a NULL
pointer or an instruction that is invalid where it executes is `Crash`. Not modelled:
failures of `AllocArray` and of the small pool allocations (they are taken to succeed);
the `EptInterceptor` objects, which live and die with the `PRIVATE_VM_DATA` that points at
them; what `KdPrint` prints in a debug build. `KeIpiGenericCall` serialises its callers.

**`PageHooks`** is what a client is promised: one table of intercepted pages, and requests
that each take effect at one instant. **`InterceptAll`** is what the code does: each
request becomes a DPC on every processor (`KeGenericCallDpc`, for one caller at a time),
each processor runs the VMCALL when it gets there (`Callback`), waits for the others
(`Signal`: `KeSignalCallDpcSynchronize`, then `Done`), and the request returns when all are
done (`Answer`). The interceptor of a processor is reduced to the hook of each page, which
is what `EptHandler` makes its views from. All processors are guests: a page request on
one that is not stops the machine (hazard at `Hpv.cpp:778`). None waits in the trace
branch of the monitor trap, where it would never come to its DPC (hazard at `Hpv.cpp:435`).

**`StepChannel`** is what a client that traces is promised: steps and reports alternate.
**`TraceHandshake`** is how the code keeps it with shared variables: `ReportRip`,
`ReportOpcodes`, `Signal`, `Spin` and `ResumeGuest` are the stores of the trace branch of
`MonitorTrapFlagHandler` in their order, `Fetch`, `LetGo` and `ClearSignal` those of the
request, `InitTrace` and `InitTraceOut` the two stores of `InitTrace`. The traced thread is
dispatched to any processor, preempted by threads of other processes (`Preempt`, which
takes the processor's monitor trap flag away, as the exit does for a CR3 that is not the
traced one), and asks for the flag by a VMCALL (`MtfEnable`). The flags `overtaken`,
`swapped` and `failed` are history: they name the one thing that went wrong, and the
properties hold unless it did. The steps of the thread, not of the process, are counted;
there is one traced process and one client, which makes its requests one by one.

**`Ioctl`** has no state: `CtlCode`, `ExtractCtlCode` and `Index` with the width of
`USHORT`, the table of handlers, the sizes each asks for and those each wrapper of the
application sends. **`Driver`** is the driver and the processes around it. A client's call
is `todo`, the sequence of the steps it has still to make, so that the early returns of
`SelfLoader.cpp` are what replaces the rest of it: `DeleteDriver` is `openService`, `stop`,
`deleteService`, and what its failure means is up to its caller (`DeleteFails`).
`DriverEntry` is one step with each of its outcomes, `OnDriverUnload` to `DeleteDevice` one
step per call of `DriverUnload`, `CrtDeinit` one per destructor. `Open`, `OnDriverCreate`,
`OnDriverCleanup` and `OnDriverClose` are the requests behind `CreateFile` and
`CloseHandle`; `KbHandlesCount` changes in them. `Exit` ends a process outside the driver,
wherever its call is. External are the rules of the I/O manager (a stopped driver stays
until its files are closed and lets no one in, unload runs once) and of the service control
manager (a service marked for deletion goes when it has stopped and no handle is left). A
request is one step with any answer its handler can give, but for those that enable and
disable the hypervisor: these, sleep, wake and `DriverUnload` are operations (`op`) that
check `g_IsVirtualized` as they begin (`Virtualize`, `Devirtualize`) and write it as they
end (`VirtualizeAllProcessors`, `DevirtualizeAllProcessors`), with every other actor free to
move in between. `guests` says whether processors run as guests, which the flag may have
lost. Where within an operation the processors change, and when that stops the machine, is
`Virtualization`'s. `raced` is history: an enable met another operation, or the callback met
`DriverUnload`, and since then there has been no moment with nothing under way at which the
flag had the guests.

**`PageTables`** translates an address, four table indices, as the processor does
(`Translation`) and as the code does: `WalkStep`, one entry of `NativeGetPhysicalAddress`,
and `IsPagePresent` of `PteUtils.cpp`. `Misread` names the entries the code takes for
something else. `Level` is the level of each table, which only the assumptions and the proofs
use. **`ProcessMemory`** has one thread that makes one call after another, each
again a sequence of steps with an `Undo` for each place where it may fail, in the order of
the returns of `OperateProcessMemory`; between any two of them the memory manager
trims, writes out, faults in, copies on write, frees, allocates a large page or reuses the
frame of a table (`Others`). The memory manager is external: it reuses no locked frame and
frees no secured page. `seen` is history: what was true at some moment of the call.

**`Processor`** is a processor without a hypervisor, one instruction that the hypervisor
may have to carry out per step; a 64-bit register is a pair of halves, a half a set of
bits. What the processor does not have or does not take faults there: MSRs that are absent
or refuse the value, VMX instructions, instructions that are not among `features`, VMCALL
where no hypervisor runs. **`VmExits`** is the same processor as a guest: `Interceptions`
computes the execution controls as `VirtualizeProcessor` does from what the platform forces
on or off, `Exits` says which instructions leave the guest under them, `Exit` is the exit
itself with the pushes of `VmxVmmRun`, `Handle` is `VmxVmExitHandler` with one handler per
reason, and `Enter` the way back. While the guest is out, `system` is the host's and `saved`
the guest area of the VMCS; an exit also replaces the MSRs the VMCS has fields for
(`HeldMsrs`: bases of FS and GS, SYSENTER, DEBUGCTL) by those of the host area, and an entry
brings `savedMsrs` back, so that a handler that accesses one of them accesses the host's.
`Launch` leaves `SysenterCs` with what the field held, since nothing writes it. A fault in a
handler and the breakpoint of a reason without handler end the machine. A handler is one
step: it runs with interrupts off on data of its processor. That the hypervisor is not
seen is more than the code keeps: `Deviation` lists, each as an action with its own
conditions, the eight things by which a guest can tell.

The MC modules hold the small instances. Definitions introduced by "Mutant:" are
plausible bugs; none is used by a specification. They are there to be put in place of the
definition they follow, to see that a property notices.

## 4. Runs

| Run | Instance | What it shows |
|---|---|---|
| `ept_operations` | 3 large pages of 2 pages, 3 intercepted pages, one of them in the first large page, 2 hooks, one of them like `Trace::EnableOn`'s; 190 000 states | under any sequence of operations: a large page is split exactly while it has a descriptor holding its pristine entry (`SplitMatchesDescriptors`), no layout leaks or is freed twice (`LayoutsAreOwned`), no handler's raw pointer dangles (`HandlerPteLive`), and a view loses the memory type of what it replaces only in the two ways the code has for it (`CacheTypeKept`) |
| `guest_any` | 2 intercepted pages, 2 hooks, one without a page to read; instructions that read and write several pages, or one at once, branch, straddle pages, lie in large pages and are cut short, no trace; 511 000 states | what an entry shows is always a view of its present handler (`ShownIsAView`), what is restored belongs to a page still intercepted (`RestoreHitsAHandler`), other pages are left alone (`UnhookedStable`) |
| `guest_straight` | straight-line instructions with accesses to one intercepted page, reading and writing at once included, traced or not; 82 000 states | views meant for one step are gone after it (`StepViewsAreGone`), every access gets the frame its client chose (`AccessesSeeTheirFrames`) |
| `guest_progress` | instructions that need several intercepted pages at once, or read and write one at once, with code in 4 KB and in large pages, and processor fairness; 166 000 states | each violation gives its page the access it was raised for and leaves the other pages what they have (`ViolationsComeNearer`), and instructions end (`InstructionsEnd`), but for those that access a page for which no view is right (`Contended`): one read and written at once whose view for reading cannot be written, which `Hpv.cpp:323` shows again and again, or a page of the instruction's own bytes that is not found to be one. The run has both, and they do repeat for ever |
| `mtrr_scan` | 8 frames in 6 entries, one fixed and two variable MTRRs, 2081 settings; 67 000 states | every entry gets the most cacheable type no MTRR touching it forbids (`EntriesAreDue`) |
| `virt_serial` | 3 processors in one or in two groups, 4 blocks, one request at a time; 6 300 states | the flag misses no processor (`FlagIsComplete`), each guest runs on the recorded block of its number, its own within one group (`RunningDataOwned`), only a shutdown stops the machine of one group (`OnlyShutdownCrashes`), every request is answered otherwise (`RequestsReturn`) |
| `virt_concurrent` | 2 processors in one or in two groups, 4 blocks, two requests at a time; 85 000 states | the flag claims no processor that is not a guest, however requests race, and is never set where two processors share a number (`FlagIsTrue`) |
| `intercept_all` | 3 processors, 2 clients, 2 pages, 2 hooks; 7 700 states | running processors agree on every page (`RunningProcessorsAgree`), requests take effect at one instant each (`RequestsTakeEffectAtOnce`, the refinement of `PageHooks`) |
| `trace` | 2 processors, 4 steps, 3 buffers, one address the host does not map; 255 000 states | reports arrive whole, in order, once (`DeliveredIsReported`, `LockStep`, the refinement of `StepChannel`), an announced step stays announced (`SignalStands`), only an unchecked `InitTrace` or an unmapped address stops the machine (`OnlyFailedInitCrashes`), a waiting processor is let go (`StepsAreReleased`) |
| `driver` | 2 processes, 3 global objects for 2 exit slots, 2 codes no wrapper sends; 246 000 states | a handle a client holds is usable (`HandleIsUsable`), nothing refers to an image that has gone or to objects that are destroyed, but guests and the power callback after a race of operations (`CodeOutlivesItsCallers`), destructors run in reverse (`DestroyedInReverse`), only who came after the count is stopped (`OnlyNewcomersAreStopped`), what a process that ended left behind does not stop the next (`LoneCallsSucceed`), wrappers reach their handlers (`RequestsReachTheirHandlers`), calls return (`CallsReturn`) |
| `memory` | tables of 2 entries, 8 layouts of the tables, 5 ranges, 2 changes by others during a call; 250 000 states | nothing is kept after a call, whatever failed (`NothingKept`), a view shows the frames of its pages while it is used (`ViewsShowTheirPages`), the stops are those of stale ranges and missing views (`OnlyStaleRangesStop`), answers were true during the call (`AnswersWereTrue`), calls end (`CallsEnd`) |
| `exits` | halves of 2 bits, 2 instruction addresses, a platform of today under an outer hypervisor and an early one that forces exits and has no MSR bitmap; registers of every shape, MSRs that are absent, known, held in the VMCS or of Hyper-V; 760 000 states | the guest sees what the bare processor would show, but for eight named deviations (`BehavesAsTheProcessor`), and the machine stops at the instructions nobody handles, at faults of the processor's own and at mixed operands only (`OnlyUnhandledStops`) |

All runs pass. What the code does otherwise than one would wish is the exception a
property names, in an instance where it happens, or else is kept out of the instance, which
is said here; what can do harm is a hazard in `PROJECT.json` with its line:

* The first 2 MB are described by a table from the start; intercepting one of their pages
  reads the table reference as a large entry, takes a wrong memory type from it
  (`CacheTypeKept` names that) and maps the neighbours into the wrong large page. The
  guest runs intercept no page there.
* Without a page to read, which `Hook` allows and `Trace::EnableOn` uses, the read view is
  no entry: the fetch that should show the execute view gets #GP before the interceptor is
  asked (`guest_any` has such a hook), and an interception of the same page after it takes
  its memory type from the missing entry (`CacheTypeKept`).
* `AccessedRead` is looked at before `AccessedWrite`: an access that reads and writes at once
  a page whose read view cannot be written gets that view again for ever (`Contended`). So
  do an instruction's accesses to its own bytes that the handler does not find to be its
  own (`Contended`).
* With equal pages for writing and executing and another one for reading,
  `BuildPageHandler` makes a view that is writable and not readable, a misconfiguration;
  `ConfiguredHooks` states the condition on the hooks that excludes it.
* A call, a taken branch or an event ends a step elsewhere than at the saved address, and
  the view shown for the step stays: `StepViewsAreGone` is checked for straight-line
  instructions.
* `CpuidHandler` executes `vmxoff` and returns the status that makes `VmxVmmRun` execute
  `vmresume`: taking a processor out of VMX operation stops the machine
  (`OnlyShutdownCrashes`, `OnlyUnhandledStops`).
* On a machine with more than one processor group two processors share a number, hence a
  block and a status: an enable fails or stops the machine, and guests may run on one block
  until it does (`FlagIsTrue`, `RunningDataOwned`, `OneGroup` in `OnlyShutdownCrashes`).
* When two enables race, the second fails and unsets the flag the first one set; unload
  then leaves the processors virtualized, and they exit into an image that has gone
  (`raced` in `CodeOutlivesItsCallers`). `FlagIsComplete` is checked for one request at a
  time.
* A wake that comes behind `DriverUnload` virtualizes again, or runs in destroyed objects
  (`raced` again).
* A request that lets a step go clears `InMtfExit` after that, and with it the next
  announcement if the step is quick: both sides then wait for ever (`overtaken`).
* `InitTrace` may replace the buffers of a report under way (`swapped`); the client of
  `Trace.cpp:205-213` calls it in every round.
* A guest can tell that it is one (`Deviation` in `BehavesAsTheProcessor`): MSRs the handlers
  do not know read as zero and take anything (`UnknownMsr`); RDX has the sign of what RDMSR
  read (`SignedMsr`); bits of RAX above EAX get into what WRMSR and XSETBV write
  (`MixedOperand`); without an MSR bitmap the host's MSRs are read, and writes to those the
  VMCS holds are lost (`HostsMsr`); IA32_SYSENTER_CS changes at the launch (`UnsetMsr`);
  VMCALL is answered where nobody is there to answer (`AnsweredCall`); the driver's own calls
  work (`OwnCall`); VMX instructions set CF where they should fault (`FailedVmx`). Taking any
  of the eight out of `Deviation` makes the run fail.
* RDMSR, WRMSR and XSETBV that should fault in the guest, known MSRs that are absent or
  refuse the value, fault in the host and stop the machine (`OnlyUnhandledStops`).
* `MvGetEProcess` sends the code of `MvGetProcessCr3`, with sizes that handler refuses.
* A range of the kernel half may go between check and lock; a view may be NULL and is
  copied through all the same; a page shared copy-on-write is written in place.

*Bounds.* Two indices per large page suffice for "the intercepted page and a neighbour",
three large pages for the first one (special), one split twice and one apart. The code has
one pending slot and handlers meet only there and in their large page, so the guest runs
need one intercepted page in each of two large pages. Two hooks are enough to reintercept
with other rights. In `Virtualization` two processors are the smallest half-done state and
the serial run has three, so that a failure may have launched processors before it and none
after it; four blocks hold the launched and the next array of two processors when two
requests race, and in the serial run one more than an enable needs, so that a block a failed
enable leaves behind does not keep the next from succeeding; an allocation may fail whatever
is free. `Concurrency` bounds the requests in progress. In `trace` four steps let one be
announced too early and the one after it be waited for, with another before and after; three
buffers allow `InitTrace` to be called twice more. In `driver` two processes are the one
that counts and the one that comes in between; one object more than exit slots shows the
table at its limit. In `memory` `MaxChanges` bounds the changes by others in one call: two
are a page trimmed and then written out, or a table freed and then reused; tables of two
entries have a neighbour for each. In `exits` two bits per half are a low and a sign bit;
`Loads` are registers a compiler makes of a 64-bit value, two plain halves, and an upper
half of RAX that gets into the operand and changes it or has it fault; the two platforms
differ in every feature the controls depend on. Of the numberings of processors,
`OneOrTwoGroups` are the identity and the smallest in which two of them share a number.
`CHECK_DEADLOCK` is off where the machine may stop, the driver be gone or a bound be reached
(`virt_*`, `trace`, `driver`, `memory`, `exits`), and in `mtrr_scan`, which ends; everywhere
else deadlock is checked. Free blocks, clients and memory blocks are symmetric in the runs
without liveness or refinement.

*Fairness.* `EptGuest` has `WF_vars(Processor)`: a processor does not stop in the middle
of an instruction or an exit, and nothing is assumed of the guest, of events or of
clients. `Virtualization` has weak fairness of the step of each actor, of `VmxVmmRun` on
each processor and of the end of unload: threads that can run do run, since the Windows
scheduler preempts and the driver takes no lock, and no request need ever be sent.
`TraceHandshake` has it of the request once it has found a report and of the exit handler:
neither waits for anything but the other, and the client need not ask at all. `Driver` has
it of the steps of a call and of the operations on the hypervisor within it, of
`DriverUnload` and of a running callback, `ProcessMemory` of
the thread's steps; nothing is assumed of processes that make no call, of the memory
manager or of power events. `Mtrr`, `InterceptAll`, `EptHandler` and `VmExits` assume none.

## 5. Proofs

TLAPS proves the following for every value of the constants that meets the named assumptions
(`EptAssumption`, `GuestAssumption`, `MtrrAssumption`, `VirtualizationAssumption`,
`InterceptAllAssumption`, `TraceAssumption`, `ProcessorAssumption`, `VmExitsAssumption`,
`DriverAssumption`, `PageTablesAssumption`, `ProcessMemoryAssumption`, `LevelsAssumption`):
`Null` is none of the values it stands in for, functions have the declared domains, there is
a processor, `Mtrr` has at most ten variable MTRRs, the number `InitMtrr` has room for, the
clients of `Driver` are finitely many and `RawCodes` are codes no handler has, a range of
`ProcessMemory` is a non-empty list of different pages of one address space, and entries are
entries. `LevelsAssumption` says what the page tables of Windows are like where the calls
look: the tables are in levels, each entry that maps no page leads one level down, frame 0
holds no page, both spaces share the kernel half, and the user pages of a space lie under
one last table. A top table that maps itself, which Windows has one of, is left out: the
pages of the calls are not reached through it. Where a theorem needs more, it says so in its
`ASSUME`, and the hypothesis is what the code does not guarantee.

* `EptProofs`, for `EptHandler` and `EptGuest`. `EptInv`, the conjunction of `EptTypeOK`,
  `SplitMatchesDescriptors`, `LayoutsAreOwned` and `HandlerPteLive`, is inductive; none of
  the parts is alone, since what comes back pristine is what the descriptors hold, and
  pointers are live because no layout is freed while any handler exists. Hence
  `TypeCorrect`, `SplitIsReversible`, `NoLayoutLost`, `NoDanglingHandler`. `ConfiguredHooks`
  proves `NoMisconfiguredView` under the condition on the hooks it states, which the code
  does not enforce. `CacheTypeCarried` (`CacheTypeKept`) is for any hooks: the types of a
  page's views go from right to wrong only in the two ways the property names.
  `GuestImplementsInterceptor`: each step of the processor is an operation of the
  interceptor or leaves it alone, so `Spec => EptSpec` and the theorems above hold on a
  running processor. `RestoreIsSafe`: without tracing, the pointer used by
  `MonitorTrapFlagHandler` belongs to a handler, because a step ends before the client can
  deintercept. With tracing the step goes on over VMCALLs and the argument fails, so this
  theorem and the next two ask that no thread is traced. `OnlyViewsAreShown` strengthens
  `ShownIsAView` by what is pending: a restore that is due puts back a view of the handler
  it belongs to. `OthersAreLeftAlone` (`UnhookedStable`) needs besides that no page of the
  first large page is intercepted, where the saved entry is a table reference.
  `StepViewsDoNotStay` and `FramesAreRight` are for straight-line instructions that nothing
  cuts short: an instruction goes on at the next address, its code lies in one page, mapped
  as a 4 KB page, it accesses at most one page, and does not both read and write its own;
  with or without tracing. Their invariant, `StraightInv`, says which view may be shown at
  each place of such an instruction, and that a view shown for one access is due back before
  the next instruction. Without these conditions a view shown once does stay (section 4).
  `ViolationsProgress` (`ViolationsComeNearer`) is the half of `InstructionsEnd` that is not
  temporal: of the accesses to a page that are denied, taken in the order fetch, read,
  write, the first that changes with a violation is one that is granted, and what other
  pages grant stays. `ViolationShows` says which view each violation shows and that it has
  the access it was raised for, whatever the frames of the hooks; `DeniedThen` what is
  denied under it. There is no hypothesis: hooks, pages and instructions are any, and the
  pages for which no view is right are the exception the property itself names
  (`Contended`).
* `MtrrProofs`. The invariant relates `memType` and the type of the current fixed MTRR to
  the MTRRs scanned so far: the greatest type below all of theirs. Mixing with the next
  keeps it, and "uncacheable" is below everything, which justifies each early return.
  Hence `MtrrCorrect`, and `MtrrTypes`: no index leaves its array.
* `VirtualizationProofs`. The flag is the last of a chain of claims: a local variable of
  `VirtualizeProcessor` on the captured stack, `Status` of each number, the result of the
  system thread, the flag. `ClaimInv` says that each of them speaks only of processors that
  are up, whoever wrote it and however late it is read. It is inductive because once a
  processor is up no request takes it down but a broadcast, and that one never gets past it:
  `CpuidHandler` leaves it `Doomed`, out of VMX operation with `vmresume` to come
  (`DoomInv`). `OwnerInv` adds that a processor on which `__vmx_on` succeeded and nothing
  was launched yet belongs to one actor, so that the `vmxoff` of a failure meets no other
  one's guest. A `Status` speaks of some processor with its number; when all are set every
  number is that of a processor, so that no two share one (`EveryNumber`), which is why the
  flag is never set on a machine of several groups. Hence `FlagTellsTheTruth` for any number
  of racing requests, where the run has two. It rests on `CpuidHandler` returning the wrong
  status (hazard at `Hpv.cpp:289`): once that is corrected a processor can be taken down
  while another request still holds a claim about it, and the theorem has to be proved anew.
  With `Concurrency = 1`, `SerialInvariance` says of the one busy actor what it may rely on
  at each place of an enable or a broadcast (`WorkInv`), that a processor in root operation
  outside an exit is being launched by it, that none is in VMX operation before the loop of
  `ForEachCpu` and after a failure was undone (`RestInv`), and that a launched processor has
  the block recorded for its number, a different one for each number (`DataInv`,
  `BlocksInv`). From it `FlagMissesNone`, `GuestsOwnTheirData` and `NoOtherCrash`. The
  hypothesis is needed: with two requests at a time TLC shows the second one's failure unset
  the flag of the first. `RequestsShorten` is the half of `RequestsReturn` that is not
  temporal, for any number of requests at a time: `StepsLeft` counts the steps an actor can
  still take from its place and its index, never more than `8 * Cpus + 5`; each of its own
  steps lowers it or stops the machine, and no step of another raises it. The exception is
  the broadcast that left a processor doomed, whose next step is the crash. It needs the
  types only.
* `InterceptAllProofs`. `InterceptAllInv`: processors that ran the routine have the
  request of `owner` applied to the table the others still have, and none leaves the
  routine before all entered it. `ProcessorsAgree` follows. `RequestsAtOnce` is the
  refinement of `PageHooks`: the shared table is that of the processors still queued, or
  of any when none is, and the last `Callback` is the instant a request takes effect;
  all other steps of the DPCs stutter.

* `TraceProofs`. The hand-over is correct because the two sides are never in their
  critical stretches together: `HandshakeInv` says, for each place of the handler and of
  the client, which of `sent = received` and `sent = received + 1` holds, that
  `RepeatMtfExit` is set only between `LetGo` and `ResumeGuest`, and that `InMtfExit` is
  set while a report is due unless the next step overtook the request. None of
  the three flags alone decides who may move, hence the invariant is about places. From it
  `SignalsStand` and `HandshakeImplementsChannel`, the refinement: `Signal` is `Send`,
  `Fetch` is `Receive`, all else stutters. `ReportsArrive` adds what the buffer holds at
  each place of the handler, unless `InitTrace` swapped it; `OnlyFailedInitStops` that
  `Out` and `In` are set when the thread first runs unless an allocation failed.
* `VmExitsProofs`. `VmExitsInv` is the type invariant with what the controls are once
  launched and what `op` can be while the guest is out. `GuestSeesTheProcessor` is the
  refinement of `Processor` up to the deviations: an entry stutters, an exit is a fetch, a
  handler is the instruction or the deviation that is named for it, a launch is `UnsetMsr`,
  and a handler that ends the machine is its `Stop`. It holds for every platform, all tables
  of the constants and all contents of the registers, where the run has two platforms and
  two bits per half. `StopsAreUnhandled` lists the instructions at which the machine may end.
* `DriverProofs`. `DriverInv` has eight parts. `PlanInv`: what is left of a client's call
  is one of the rests the loader can be at with the file and the handle it has then.
  `ImageInv`: what is registered, who refers to the image and how far `DriverUnload` is.
  `OperationInv`: who works on the hypervisor, and that, unless enables have raced, the
  flag has the guests and an enable is alone.
  `ExitInv`: the table of exit functions and the objects that live. `CountInv`:
  `KbHandlesCount` is the number of files whose create has come and whose close has not.
  `NewcomersInv`, `ServiceInv` and `LoneInv`: who opened the device since a client asked,
  the record of the service and its handles, and the place of a call no one disturbed.
  The parts use each other: no unload begins while a file is open (`ImageInv`) is about
  files that `PlanInv` relates to plans, and an undisturbed call finds the service and the
  image as `ServiceInv` and `ImageInv` say. Hence `NothingOutlivesTheImage`,
  `HandlesStayUsable`, `ObjectsDieInReverse`, `LoneCallsReturnTrue`, the action property
  `LateComersAreStopped`, `DriverTypes`, and `RequestsAreDispatched`, which is about the
  index arithmetic with the width of `USHORT` for every code a client may send.
* `ProcessMemoryProofs`. `MemoryInv` has five parts. `PlanInv`: the thread is at one of the
  places of its plan, with what is secured, mapped and attached there, whatever failed
  before; every `Undo` leads to such a place again. `MdlInv`: a list with frames has one for
  each page of its range. `LockInv`: the locks of a frame are as many as lists hold it.
  `HomeInv`: each frame of a list is where the memory manager has its page. `MachineInv`:
  the tables, and why the machine has stopped. The last two rest on the others, since it is
  the locks and the secured ranges that bind the memory manager. Hence `NothingIsKept`,
  `ViewsAreOfThePages`, `OnlyThoseStop` and `MemoryTypes`, for ranges of any length and any
  number of changes by others, where the run has two. `AnswersAreTrue` is about calls that
  answer. The tables stay in levels whoever writes to them (`TreeInv`), so a table's level
  says how many entries are left to read from it, and `Onward` is what an address is
  translated to from there. `NativeInv` says what the walk of `NativeGetPhysicalAddress` has
  at each level: what is left leads to a translation the address had at some moment of the
  call, and before the first change the processor's own walk comes to the same table.
  `OneChange` is the reason this survives a change: the table the walk is at, or one below
  it, leaves the way there as it was, so that what the walk will find is the new
  translation; one above it leaves what it will find as it was, which is the old one. A
  second change breaks the argument, and the property does not claim it. `TranslateInv`,
  `PresentInv` and `PteInv` say the like of the other three calls; for the check in `Pte` a
  change by others never makes an upper entry present that was not.

Every type invariant is a theorem (`TypeCorrect`, `GuestTypeCorrect`, `MtrrTypes`,
`VirtualizationTypes`, `InterceptAllTypes`, `TraceTypeCorrect`, `VmExitsTypes`, `DriverTypes`,
`MemoryTypes`); of them only those of `Driver` and `ProcessMemory` are still run.

Only model-checked: the liveness properties (`InstructionsEnd`, `RequestsReturn`,
`StepsAreReleased`, `CallsReturn`, `CallsEnd`), which are out of the prover's reach. For the
first two the measure that falls is proved (`ViolationsProgress`, `RequestsShorten`), and
what the runs add is that fairness makes it fall. Every other property that a run checks is
a theorem, some under the hypotheses named above.

## 6. Not modelled

* `AllocPhys` succeeds in `EptHandler`; the code does not check it (hazard at
  `Ept.cpp:565`).
* `ExceptionOrNmiHandler` and `EptMisconfigurationHandler`: the exception bitmap is zero,
  so the first is never reached, and the second stops the machine. An NMI during a handler
  and the debug registers, FS and LDTR, which a shutdown does not bring back (nor does the
  machine survive it).
* VMCALL in VMX root operation with no hypervisor below fails (VMfail, no fault): the guest
  gets what RAX held in the host, which `VmExits` leaves open (`AnsweredCall`).
* Page requests on processors that are not virtualized: `InterceptPage` does not ask, and
  the VMCALL is an invalid opcode there (hazard at `Hpv.cpp:778`).
* `EnableGuestInterrupts` (`Hpv.cpp:446`) sets IF after a step whatever it was before. The
  model has it, but no critical sections of the guest that it could break.
* `StopMachine`, `ResumeMachine`, `QueueWaitDpc` and the threaded variants of
  `Callable.cpp`: nothing in the driver calls them. Read by themselves, `StopMachine`
  waits for its own processor too and queues one DPC less.
* `TriggerCopyOnWrite`, the setters of single PTE bits and the branches for 32-bit
  systems in `PteUtils.cpp`; APCs, threads and process enumeration in `ProcessesUtils.cpp`;
  plain wrappers of pool and physical mappings. `GetEPROCESS` takes a reference to the
  process object that the requests never release: references are not among what
  `NothingKept` counts (hazard at `IOCTLHandlers.cpp:55`).
* What `InitTrace` replaces is never freed: buffers are not counted as owned.
* A device request that queues a DPC to a processor that spins in the trace branch
  (hazard at `Hpv.cpp:435`): `InterceptAll` and `TraceHandshake` are not composed.
* The saving of SSE and AVX registers in `VMXrun.asm`, which is switched off.
* Left out for good: the bit layouts of `CommonTypes` (the fields the models use are named
  where they are used), the queries of `SystemMemory.cpp`, which keep no state, the
  console of the application.
