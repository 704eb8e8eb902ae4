----------------------------- MODULE ProcessMemory -----------------------------
(***************************************************************************)
(* The functions that look into the memory of a process: translation of an *)
(* address by its tables or by the system, the checks that a range is      *)
(* present, and ReadProcessMemory and WriteProcessMemory, which secure,    *)
(* lock, map, copy and give back (IOCTLHandlers.cpp, Cr3Get.cpp,           *)
(* MemoryUtils.cpp, PteUtils.cpp, ProcessesUtils.cpp).                     *)
(*                                                                         *)
(* One thread of the caller makes one call after another; a call is the    *)
(* sequence of the steps it still has to make.  Between any two steps the  *)
(* memory manager and other threads change the tables.  The memory manager *)
(* is external: it reuses no frame that is locked, frees no page that is   *)
(* secured, and knows the home of a page whatever the page's entry says.   *)
(***************************************************************************)
EXTENDS PageTables, Sequences

CONSTANTS
    Layouts,    \* tables to start with: records of mem and home
    Root,       \* the top table of each address space
    LastTable,  \* the last table of each space's user half, and of the kernel half
    Pages,      \* the pages the calls are about: their half's space and address
    Ranges,     \* ranges of pages of one space
    Frames,     \* the frames that hold pages
    Shared,     \* of them: those that processes share copy-on-write
    LargeFrame, \* the first of the frames kept for a large page
    MaxChanges  \* bound: changes by others in a behaviour

Spaces == {"caller", "target"}
Sides == {"process", "buffer"}
Nowhere == -2 \* not allocated
OnDisk == -1  \* allocated, without a frame

LargeFrames == LargeFrame..LargeFrame + Slots * Slots - 1

OneKernelHalf(m) ==
    \A i \in Index : 2 * i >= Slots => m[Root["target"]][i] = m[Root["caller"]][i]

ASSUME ProcessMemoryAssumption ==
    /\ \A l \in Layouts : /\ l.mem \in [Tables -> [Index -> Entries]]
                          /\ l.home \in [Pages -> Frames \union {OnDisk, Nowhere}]
    /\ \A s \in Spaces : Root[s] \in Tables
    /\ Pages \subseteq {"caller", "target", "kernel"} \X Address
    /\ \A page \in Pages : IsKernelAddress(page[2]) = (page[1] = "kernel")
    /\ \A r \in Ranges : /\ r \in Seq(Pages) /\ r # <<>>
                         /\ \A i, j \in 1..Len(r) : r[i][1] = r[j][1] /\ (r[i] = r[j] => i = j)
    /\ Shared \subseteq Frames /\ Frames \subseteq Nat
    /\ LargeFrame \in Nat /\ LargeFrames \subseteq Frames
    /\ MaxChanges \in Nat

\* The tables are in levels: no top table maps itself.  The user pages of a
\* space lie under one last table, both top tables have the same kernel half,
\* and frame 0, which the functions take for no address, holds no page.
ASSUME LevelsAssumption ==
    /\ \A s \in Spaces : Level[Root[s]] = 4
    /\ \A h \in Spaces \union {"kernel"} : LastTable[h] \in Tables /\ Level[LastTable[h]] = 1
    /\ \A page \in Pages : page[1] \in Spaces => \A k \in 1..3 : page[2][k] = 0
    /\ \A l \in Layouts : InLevels(l.mem) /\ OneKernelHalf(l.mem)
    /\ 0 \notin Frames /\ \A e \in Junk : e.p => e.pfn # 0

VARIABLES
    mem,     \* the tables
    home,    \* where the memory manager has each page
    locks,   \* how often each frame is locked
    secured, \* the ranges that are secured, by the side they stand on
    call,    \* what the thread was asked to do
    todo,    \* the steps it has still to make
    inside,  \* the address space it runs in
    mdl,     \* the descriptor list of each side
    cursor,  \* where a walk or a check has got to
    answer,  \* what the call returned
    stopped, \* why the machine has stopped
    changes, \* changes by others so far
    seen     \* what was true at some moment of the call, for the properties

osVars == <<mem, home>>
lockVars == <<locks, secured, mdl>>
vars == <<mem, home, locks, secured, call, todo, inside, mdl, cursor, answer, stopped,
          changes, seen>>

IsKernelRange(range) == IsKernelAddress(range[1][2])
PagesOf(range) == {range[i] : i \in 1..Len(range)}

-----------------------------------------------------------------------------
(* The memory manager and the other threads.                               *)

Leaf(page) == mem[LastTable[page[1]]][page[2][4]]

\* The page's own entry is in use: no large page lies over it.
HasLeaf(page) ==
    LET e4 == mem[Root[IF page[1] = "kernel" THEN "caller" ELSE page[1]]][page[2][1]]
        e3 == mem[e4.pfn][page[2][2]]
        e2 == mem[e3.pfn][page[2][3]]
    IN  e4.p /\ e3.p /\ ~e3.ps /\ e2.p /\ ~e2.ps

SetLeaf(page, e) == mem' = [mem EXCEPT ![LastTable[page[1]]][page[2][4]] = e]
Free == {f \in Frames \ LargeFrames : locks[f] = 0 /\ \A page \in Pages : home[page] # f}
Resident(page) == home[page] \in Frames

\* A page is removed from the working set: its frame stays its home.
Trim(page) ==
    /\ HasLeaf(page) /\ Leaf(page).p /\ Resident(page)
    /\ SetLeaf(page, Entry(FALSE, FALSE, FALSE, Leaf(page).pfn))
    /\ UNCHANGED home

\* Its frame is needed for something else: the entry says where in the page
\* file the page is.
WriteOut(page) ==
    /\ HasLeaf(page) /\ ~Leaf(page).p /\ Resident(page) /\ locks[home[page]] = 0
    /\ home' = [home EXCEPT ![page] = OnDisk]
    /\ \E e \in {z \in Junk : ~z.p} : SetLeaf(page, e)

\* A thread touches a page.
FaultIn(page) ==
    /\ HasLeaf(page) /\ ~Leaf(page).p /\ home[page] # Nowhere
    /\ \E f \in IF Resident(page) THEN {home[page]} ELSE Free :
          /\ home' = [home EXCEPT ![page] = f]
          /\ SetLeaf(page, Present(f))

\* The process writes to a page it shares: it gets one of its own.
CopyOnWrite(page) ==
    /\ HasLeaf(page) /\ Leaf(page).p /\ home[page] \in Shared
    /\ \E f \in Free \ Shared :
          /\ home' = [home EXCEPT ![page] = f]
          /\ SetLeaf(page, Present(f))

\* A page is freed, unless its range is secured; nothing secures a page of the
\* kernel half.
Release(page) ==
    /\ HasLeaf(page) /\ home[page] # Nowhere
    /\ \A s \in secured : page \notin PagesOf(call[s])
    /\ home' = [home EXCEPT ![page] = Nowhere]
    /\ SetLeaf(page, Zero)

\* A large page is allocated where a last table mapped nothing.
AllocateLarge(space) ==
    LET region == {page \in Pages : page[1] = space}
        e4 == mem[Root[space]][0]
        e3 == mem[e4.pfn][0]
    IN  /\ \A page \in region : home[page] = Nowhere /\ HasLeaf(page)
        /\ \E pat \in BOOLEAN :
              mem' = [mem EXCEPT ![e3.pfn][0] = Entry(TRUE, TRUE, pat, LargeFrame)]
        /\ home' = [page \in Pages |-> IF page \in region THEN LargeFrame + page[2][4]
                                       ELSE home[page]]

\* The frame of a table that is no longer used is given to somebody else.
ReuseTable(space) ==
    /\ \A page \in {q \in Pages : q[1] = space} : ~HasLeaf(page)
    /\ \E e \in Junk : mem' = [mem EXCEPT ![LastTable[space]] = [i \in Index |-> e]]
    /\ mem' # mem
    /\ UNCHANGED home

\* What happens to the pages the call is not about, and between calls, makes no
\* difference to it.
Others ==
    /\ stopped = "no" /\ todo # <<>> /\ changes < MaxChanges
    /\ \/ \E page \in PagesOf(call.process) \union PagesOf(call.buffer) :
            \/ Trim(page) \/ WriteOut(page) \/ FaultIn(page)
            \/ CopyOnWrite(page) \/ Release(page)
       \/ \E space \in {call.process[1][1]} \intersect Spaces :
            AllocateLarge(space) \/ ReuseTable(space)
    /\ changes' = changes + 1
    /\ UNCHANGED <<lockVars, call, todo, inside, cursor, answer, stopped>>

-----------------------------------------------------------------------------
(* Calls.                                                                  *)

Ops == {"translate", "native", "cr3", "present", "ptePresent", "operate"}
NoCall == [op |-> "none", space |-> "caller", process |-> <<>>, buffer |-> <<>>]
NoMdl == [frames |-> <<>>, base |-> "none"]

\* GetEPROCESS: NULL for an unknown process, and with it the functions that
\* take a process work on the caller's.
Where(space) == IF space = "target" THEN "target" ELSE "caller"
Va == call.process[1][2]

\* KeStackAttachProcess and KeUnstackDetachProcess around the steps, for
\* another process than the caller's.
Attached(space, steps) ==
    IF space = "target" THEN <<<<"attach">>>> \o steps \o <<<<"detach">>>> ELSE steps

\* IsMemoryRangePresent looks at every page of the range.
Checks(side, range) == [i \in 1..Len(range) |-> <<"check", side, i>>]

\* What a user range needs is not needed for a range of the kernel half, and
\* the other way round.
ForKernel(range, steps) == IF IsKernelRange(range) THEN steps ELSE <<>>
ForUser(range, steps) == IF IsKernelRange(range) THEN <<>> ELSE steps

MapMemory(side) == <<<<"allocate", side>>, <<"lock", side>>, <<"map", side>>>>
UnmapMemory(side) == <<<<"unmap", side>>, <<"unlock", side>>, <<"free", side>>>>
Unsecure(side, c) == ForUser(c[side], <<<<"unsecure", side>>>>)
UnsecureBoth(c) == Unsecure("process", c) \o Unsecure("buffer", c)

GiveBack(c) == UnmapMemory("buffer") \o UnmapMemory("process") \o UnsecureBoth(c)

\* Mutant: no range of the kernel half is checked.
OperateUnchecked(c) ==
    ForUser(c.process, <<<<"secure", "process">>>>)
        \o ForUser(c.buffer, <<<<"secure", "buffer">>>>)
        \o MapMemory("process") \o MapMemory("buffer") \o <<<<"copy">>>> \o GiveBack(c)

\* OperateProcessMemory, when nothing fails; which of the two sides it reads
\* and which it writes is left out.
OperateProcessMemory(c) ==
    ForKernel(c.process, Checks("process", c.process))
        \o ForKernel(c.buffer, Checks("buffer", c.buffer))
        \o ForUser(c.process, <<<<"secure", "process">>>>)
        \o ForUser(c.buffer, <<<<"secure", "buffer">>>>)
        \o MapMemory("process") \o MapMemory("buffer") \o <<<<"copy">>>> \o GiveBack(c)

\* Mutant: a buffer that cannot be mapped leaves the process's range secured.
UndoForgets(step, c) ==
    CASE step[1] = "check" \/ step[1] = "secure" -> <<>>
      [] step[1] = "lock" -> <<<<"free", step[2]>>>>
      [] OTHER -> UnsecureBoth(c)

\* What is left to do when a step of it fails.
Undo(step, c) ==
    LET rest == IF step[2] = "process" THEN UnsecureBoth(c)
                ELSE UnmapMemory("process") \o UnsecureBoth(c)
    IN  CASE step[1] = "check" -> <<>>
          [] step[1] = "secure" -> IF step[2] = "process" THEN <<>> ELSE Unsecure("process", c)
          [] step[1] = "allocate" -> rest
          [] step[1] = "lock" -> <<<<"free", step[2]>>>> \o rest

Steps(c) ==
    CASE c.op = "translate" -> Attached(c.space, <<<<"valid">>, <<"get">>>>)
      [] c.op = "native" -> <<<<"entry", 4>>, <<"entry", 3>>, <<"entry", 2>>, <<"entry", 1>>>>
      [] c.op = "cr3" -> Attached(c.space, <<<<"cr3">>>>)
      [] c.op = "present" -> Checks("process", c.process)
      [] c.op = "ptePresent" -> Attached(c.space, <<<<"pte">>>>)
      [] OTHER -> OperateProcessMemory(c)

\* A process is named by its id for a translation, which may be unknown, and by
\* its object otherwise.  IsMemoryRangePresent works on the running process.
Allowed(c) ==
    /\ c.space = "unknown" => c.op = "translate"
    /\ c.op = "present" => c.space = "caller"
    /\ c.op \in {"translate", "native", "cr3"} => Len(c.process) = 1
    /\ c.process[1][1] \in {c.space, "kernel"}
           \/ (c.space = "unknown" /\ c.process[1][1] = "target")
    /\ IF c.op = "operate"
       THEN c.buffer # <<>> /\ c.buffer[1][1] # "target" /\ Len(c.buffer) = Len(c.process)
       ELSE c.buffer = <<>>

\* Bound: a call begins in one of the layouts, so that the changes of a
\* behaviour are those of one call, its last.
Begin ==
    /\ call = NoCall /\ stopped = "no" /\ changes = 0
    /\ \E op \in Ops, space \in Spaces \union {"unknown"}, r \in Ranges,
          b \in Ranges \union {<<>>} :
          LET c == [op |-> op, space |-> space, process |-> r, buffer |-> b]
          IN  /\ Allowed(c)
              /\ call' = c
              /\ todo' = Steps(c)
              /\ cursor' = [at |-> IF op = "native" THEN Root[space] ELSE InHuge(r[1][2]),
                            misread |-> FALSE]
    /\ answer' = 0
    /\ UNCHANGED <<osVars, lockVars, inside, stopped, changes>>

Return ==
    /\ call # NoCall /\ todo = <<>> /\ stopped = "no"
    /\ call' = NoCall
    /\ cursor' = [at |-> 0, misread |-> FALSE]
    /\ answer' = 0
    /\ UNCHANGED <<osVars, lockVars, todo, inside, stopped, changes>>

\* The next step of the call, and what is left when it succeeds.
Step(name) ==
    /\ stopped = "no" /\ todo # <<>> /\ Head(todo)[1] = name
    /\ UNCHANGED <<call, changes>>
Side == Head(todo)[2]
\* Mutant: MmProbeAndLockPages on the caller's pages at the process's addresses.
RangeOfCaller ==
    LET own == [i \in 1..Len(call[Side]) |-> <<"caller", call[Side][i][2]>>]
    IN  IF own \in Ranges THEN own ELSE call[Side]

OwnRange == call[Side]
Succeed == todo' = Tail(todo)
Fail == todo' = Undo(Head(todo), call) /\ answer' = 0

-----------------------------------------------------------------------------
(* Translation.                                                            *)

Attach ==
    /\ Step("attach") /\ Succeed
    /\ inside' = call.space
    /\ UNCHANGED <<osVars, lockVars, cursor, answer, stopped>>

Detach ==
    /\ Step("detach") /\ Succeed
    /\ inside' = "caller"
    /\ UNCHANGED <<osVars, lockVars, cursor, answer, stopped>>

Now == Translation(mem, Root[inside], Va)

\* GetPhysicalAddress asks MmIsAddressValid, then MmGetPhysicalAddress, which
\* answers 0 for a page that is no longer there.
IsAddressValid ==
    /\ Step("valid")
    /\ todo' = IF Now = None THEN Tail(Tail(todo)) ELSE Tail(todo)
    /\ UNCHANGED <<osVars, lockVars, inside, cursor, answer, stopped>>

GetPhysicalAddress ==
    /\ Step("get") /\ Succeed
    /\ answer' = IF Now = None THEN 0 ELSE Now
    /\ UNCHANGED <<osVars, lockVars, inside, cursor, stopped>>

\* Cr3Getter::GetProcessCr3: from the processor, or from the process object.
GetProcessCr3 ==
    /\ Step("cr3") /\ Succeed
    /\ answer' = Root[inside]
    /\ UNCHANGED <<osVars, lockVars, inside, cursor, stopped>>

\* NativeGetPhysicalAddress reads the entry of one level.
NativeGetPhysicalAddress ==
    /\ Step("entry")
    /\ LET level == Head(todo)[2]
       IN  \E e \in ReadPhysical(mem, cursor.at, Va[5 - level]) :
              LET r == WalkStep(level, e, Va)
              IN  /\ cursor' = [at |-> IF r.done THEN 0 ELSE r.frame,
                                misread |-> cursor.misread \/ Misread(level, e)]
                  /\ IF r.done THEN todo' = <<>> /\ answer' = r.frame
                     ELSE Succeed /\ UNCHANGED answer
    /\ UNCHANGED <<osVars, lockVars, inside, stopped>>

-----------------------------------------------------------------------------
(* Checks that a range is present.                                         *)

\* VirtualMemory::IsPagePresent in the loop of IsMemoryRangePresent: TRUE after
\* the last page, FALSE at the first that is not there.
CheckPage ==
    /\ Step("check")
    /\ IF Translation(mem, Root[inside], OwnRange[Head(todo)[3]][2]) = None THEN Fail
       ELSE /\ Succeed
            /\ answer' = IF call.op = "present" /\ Tail(todo) = <<>> THEN 1 ELSE answer
    /\ UNCHANGED <<osVars, lockVars, inside, cursor, stopped>>

\* Mutant: the loop does not go to the next page.
PteStaysOnPage ==
    /\ Step("pte")
    /\ \E found \in IsPagePresent(mem, Root[inside], Va) :
          IF ~found.present \/ found.pages = 0 \/ Len(call.process) = 1
          THEN Succeed /\ answer' = (IF found.present THEN 1 ELSE 0)
          ELSE UNCHANGED <<todo, answer>>
    /\ UNCHANGED <<osVars, lockVars, inside, cursor, stopped>>

\* One turn of the loop of Pte::IsMemoryRangePresent: it asks for the first
\* address again, whatever page it has got to.
PteIsMemoryRangePresent ==
    /\ Step("pte")
    /\ \E found \in IsPagePresent(mem, Root[inside], Va) :
          LET next == (cursor.at \div found.pages) * found.pages + found.pages
              more == next < InHuge(Va) + Len(call.process)
          IN  IF ~found.present \/ found.pages = 0
              THEN Succeed /\ answer' = 0 /\ UNCHANGED cursor
              ELSE /\ cursor' = [cursor EXCEPT !.at = next]
                   /\ IF more THEN UNCHANGED <<todo, answer>> ELSE Succeed /\ answer' = 1
    /\ UNCHANGED <<osVars, lockVars, inside, stopped>>

-----------------------------------------------------------------------------
(* Reading and writing the memory of a process.                            *)

\* SecureProcessMemory and SecureMemory: MmSecureVirtualMemory in the process
\* of the range.
SecureMemory ==
    /\ Step("secure")
    /\ \/ /\ \A page \in PagesOf(OwnRange) : home[page] # Nowhere
          /\ secured' = secured \union {Side}
          /\ Succeed /\ UNCHANGED answer
       \/ Fail /\ UNCHANGED secured
    /\ UNCHANGED <<osVars, locks, inside, mdl, cursor, stopped>>

UnsecureMemory ==
    /\ Step("unsecure") /\ Succeed
    /\ secured' = secured \ {Side}
    /\ UNCHANGED <<osVars, locks, inside, mdl, cursor, answer, stopped>>

SetMdl(side, frames, base) == mdl' = [mdl EXCEPT ![side] = [frames |-> frames, base |-> base]]

AllocateMdl ==
    /\ Step("allocate")
    /\ \/ SetMdl(Side, <<>>, "allocated") /\ Succeed /\ UNCHANGED answer
       \/ Fail /\ UNCHANGED mdl
    /\ UNCHANGED <<osVars, locks, secured, inside, cursor, stopped>>

FreeMdl ==
    /\ Step("free") /\ Succeed
    /\ SetMdl(Side, <<>>, "none")
    /\ UNCHANGED <<osVars, locks, secured, inside, cursor, answer, stopped>>

\* MmProbeAndLockPages and MmProbeAndLockProcessPages, for IoReadAccess: every
\* page gets a frame and its entry, and the frames are locked.  A copy-on-write
\* page keeps the frame it shares.
ProbeAndLock ==
    \E h \in [PagesOf(OwnRange) -> Frames] :
       /\ \A page \in PagesOf(OwnRange) :
             IF Resident(page) THEN h[page] = home[page]
             ELSE h[page] \in Free /\ \A q \in PagesOf(OwnRange) \ {page} : h[q] # h[page]
       /\ home' = [page \in Pages |-> IF page \in PagesOf(OwnRange) THEN h[page] ELSE home[page]]
       /\ mem' = [t \in Tables |-> [i \in Index |->
             IF \E page \in PagesOf(OwnRange) :
                   HasLeaf(page) /\ LastTable[page[1]] = t /\ page[2][4] = i
             THEN Present((CHOOSE page \in {<<q, h[q]>> : q \in PagesOf(OwnRange)} :
                              LastTable[page[1][1]] = t /\ page[1][2][4] = i)[2])
             ELSE mem[t][i]]]
       /\ locks' = [f \in Frames |-> locks[f] +
                        Cardinality({page \in PagesOf(OwnRange) : h[page] = f})]
       /\ SetMdl(Side, [i \in 1..Len(OwnRange) |-> h[OwnRange[i]]], "locked")

\* A range that is not allocated raises an exception in the user half and may
\* stop the machine in the kernel half.
LockPages ==
    /\ Step("lock")
    /\ \/ /\ \A page \in PagesOf(OwnRange) : home[page] # Nowhere
          /\ ProbeAndLock /\ Succeed
          /\ UNCHANGED <<answer, stopped>>
       \/ Fail /\ UNCHANGED <<osVars, locks, mdl, stopped>>
       \/ /\ IsKernelRange(OwnRange) /\ \E page \in PagesOf(OwnRange) : home[page] = Nowhere
          /\ stopped' = "fault"
          /\ UNCHANGED <<osVars, locks, mdl, todo, answer>>
    /\ UNCHANGED <<secured, inside, cursor>>

\* Mutant: unlocked by UnmapMdl, and once more.
UnlockPagesTwice ==
    /\ Step("unlock") /\ Succeed
    /\ locks' = [f \in Frames |-> locks[f] -
                  2 * Cardinality({i \in DOMAIN mdl[Side].frames : mdl[Side].frames[i] = f})]
    /\ SetMdl(Side, <<>>, "allocated")
    /\ UNCHANGED <<osVars, secured, inside, cursor, answer, stopped>>

UnlockPages ==
    /\ Step("unlock") /\ Succeed
    /\ locks' = [f \in Frames |-> locks[f] -
                     Cardinality({i \in DOMAIN mdl[Side].frames : mdl[Side].frames[i] = f})]
    /\ SetMdl(Side, <<>>, "allocated")
    /\ UNCHANGED <<osVars, secured, inside, cursor, answer, stopped>>

\* MmMapLockedPagesSpecifyCache may return NULL, which MapMdl passes on with
\* STATUS_SUCCESS.
MapPages ==
    /\ Step("map") /\ Succeed
    /\ \E base \in {"mapped", "null"} : SetMdl(Side, mdl[Side].frames, base)
    /\ UNCHANGED <<osVars, locks, secured, inside, cursor, answer, stopped>>

UnmapPages ==
    /\ Step("unmap")
    /\ IF mdl[Side].base = "null"
       THEN stopped' = "null" /\ UNCHANGED <<todo, mdl>>
       ELSE /\ Succeed /\ SetMdl(Side, mdl[Side].frames, "locked")
            /\ UNCHANGED stopped
    /\ UNCHANGED <<osVars, locks, secured, inside, cursor, answer>>

\* CopyMemory through NULL is an access violation nobody here handles.
CopyMemory ==
    /\ Step("copy")
    /\ IF \E side \in Sides : mdl[side].base = "null"
       THEN stopped' = "null" /\ UNCHANGED <<todo, answer>>
       ELSE Succeed /\ answer' = 1 /\ UNCHANGED stopped
    /\ UNCHANGED <<osVars, lockVars, inside, cursor>>

-----------------------------------------------------------------------------
Thread ==
    \/ Begin \/ Return \/ Attach \/ Detach \/ IsAddressValid \/ GetPhysicalAddress
    \/ GetProcessCr3 \/ NativeGetPhysicalAddress \/ CheckPage \/ PteIsMemoryRangePresent
    \/ SecureMemory \/ UnsecureMemory \/ AllocateMdl \/ FreeMdl \/ LockPages \/ UnlockPages
    \/ MapPages \/ UnmapPages \/ CopyMemory

\* The translations the call's address had in the space it is about, and the
\* pages of a checked range that were present.
Nothing == [frames |-> {}, present |-> {}]
Watched(c) ==
    IF c.op = "operate"
    THEN {page \in PagesOf(c.process) \union PagesOf(c.buffer) : IsKernelAddress(page[2])}
    ELSE PagesOf(c.process)
Observe ==
    LET space == Where(call'.space)
        Is(page) == Translation(mem', Root[IF page[1] = "target" THEN page[1] ELSE "caller"],
                                page[2])
    IN  seen' = IF call' = NoCall THEN Nothing
                ELSE IF call'.op \in {"translate", "native"}
                THEN [seen EXCEPT !.frames =
                        @ \union {Translation(mem', Root[space], call'.process[1][2])}]
                ELSE [seen EXCEPT !.present =
                        @ \union {page \in Watched(call') : Is(page) # None}]

Init ==
    /\ \E l \in Layouts : mem = l.mem /\ home = l.home
    /\ locks = [f \in Frames |-> 0] /\ secured = {}
    /\ call = NoCall /\ todo = <<>> /\ inside = "caller"
    /\ mdl = [side \in Sides |-> NoMdl]
    /\ cursor = [at |-> 0, misread |-> FALSE]
    /\ answer = 0 /\ stopped = "no" /\ changes = 0
    /\ seen = Nothing

Next == (Thread \/ Others) /\ Observe
Spec == Init /\ [][Next]_vars

\* The thread makes its steps; nothing is asked of the others.
LiveSpec == Spec /\ WF_vars(Thread /\ Observe)

-----------------------------------------------------------------------------
(* Properties.                                                             *)

\* Every variable has its type: what the tables hold are entries, no frame is
\* unlocked more often than it was locked, and a descriptor list has frames
\* exactly while they are locked.
ProcessMemoryTypeOK ==
    /\ mem \in [Tables -> [Index -> Entries]]
    /\ home \in [Pages -> Frames \union {OnDisk, Nowhere}]
    /\ locks \in [Frames -> Nat]
    /\ secured \subseteq Sides
    /\ call.op \in Ops \union {"none"} /\ inside \in Spaces
    /\ \A s \in Sides :
          /\ mdl[s].base \in {"none", "allocated", "locked", "mapped", "null"}
          /\ (mdl[s].frames # <<>>) = (mdl[s].base \in {"locked", "mapped", "null"})
    /\ stopped \in {"no", "fault", "null"}
    /\ changes \in 0..MaxChanges

\* Whatever fails, a call that has returned keeps no lock, no secured range, no
\* descriptor list and no attachment (every return of OperateProcessMemory,
\* and of the functions that attach).  References to process objects, which
\* the requests never release, are not counted.
NothingKept ==
    (todo = <<>> /\ stopped = "no") =>
        /\ secured = {} /\ inside = "caller"
        /\ \A f \in Frames : locks[f] = 0
        /\ \A s \in Sides : mdl[s] = NoMdl

\* A view of a range is there only while its frames are locked, and a user
\* range is locked only while it is secured: what is taken last goes first.
\* So each frame is still the one of its page when the bytes are copied,
\* whatever was trimmed, written out or freed meanwhile; only a page of the
\* kernel half may have been freed, and only a page that was shared
\* copy-on-write when it was locked may have moved to another frame.
ViewsShowTheirPages ==
    \A s \in Sides : \A i \in DOMAIN mdl[s].frames :
       LET page == call[s][i]
           frame == mdl[s].frames[i]
       IN  /\ locks[frame] > 0
           /\ IsKernelRange(call[s]) \/ s \in secured
           /\ (todo # <<>> /\ Head(todo)[1] = "copy") =>
                 \/ home[page] = frame
                 \/ frame \in Shared
                 \/ IsKernelRange(call[s]) /\ home[page] = Nowhere

\* A call stops the machine only through a view the system could not make, or
\* through a page of the kernel half that was there when it was checked and
\* has been freed since.
OnlyStaleRangesStop ==
    /\ stopped = "null" => \E s \in Sides : mdl[s].base = "null"
    /\ stopped = "fault" =>
          \A page \in PagesOf(OwnRange) : home[page] = Nowhere => page \in seen.present

\* What a call says of memory was so at some moment of the call.  The system
\* translates in the space of the process, or of the caller when the process
\* is unknown.  The walk reads four entries one after the other: its result is
\* a translation the address had, when at most one entry of the tables changes
\* meanwhile and it meets no entry that it reads otherwise than the processor.
\* A range said to be present has had each of its pages present; of the check
\* in Pte this holds for the first page only, and only when the tables above
\* it are present.
AnswersWereTrue ==
    todo = <<>> =>
        /\ call.op = "translate" \/ (call.op = "native" /\ ~cursor.misread /\ changes <= 1) =>
              IF answer = 0 THEN None \in seen.frames ELSE answer \in seen.frames
        /\ answer = 1 =>
              /\ call.op = "present" => PagesOf(call.process) \subseteq seen.present
              /\ (call.op = "ptePresent" /\ UpperPresent(mem, Root[call.space], Va)) =>
                    call.process[1] \in seen.present

\* Every call returns or stops the machine.
CallsEnd == (call # NoCall) ~> (call = NoCall \/ stopped # "no")
=============================================================================
