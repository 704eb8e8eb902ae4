----------------------------- MODULE EptHandler -----------------------------
(***************************************************************************)
(* The EPT page interceptor of one logical processor: class EptHandler of  *)
(* include/HyperVisor/Ept.hpp and Ept.cpp, with the EPT tables it edits.   *)
(*                                                                         *)
(* Guest-physical memory is a set of 2 MB large pages, each made of the    *)
(* 4 KB pages <<large page, index>>.  The tables map it to itself; the     *)
(* first large page is described by a table of 4 KB entries from the start *)
(* (EPT_TABLES::PteForFirstLargePage), the others by one large entry.      *)
(* Addresses are page aligned, so an address is its page frame and 0 (the  *)
(* "no such handler" argument) is Null.                                    *)
(***************************************************************************)
EXTENDS Functions

CONSTANTS
    LargePages,      \* the 2 MB pages of guest-physical memory
    Index,           \* positions of the 4 KB pages inside a large page
    FirstLargePage,  \* the large page at physical address 0
    Tables,          \* blocks of memory that can hold a LARGE_PAGE_LAYOUT
    FirstTable,      \* the block EPT_TABLES::PteForFirstLargePage
    HolderOf,        \* the large page in which each block of memory lies
    Types,           \* MTRR memory types
    Uncacheable,     \* the memory type whose code is 0
    TypeOf,          \* the MTRR memory type of each large page
    Rips,            \* guest instruction addresses
    HookPages,       \* the pages the driver's clients intercept
    Hooks,           \* the argument tuples they intercept them with
    Null             \* address 0, NULL pointers

Page == LargePages \X Index
Frame == Page \union {Null}

\* The page addresses InterceptPage takes besides the intercepted page.
Hook == [read: Frame, write: Frame, execute: Frame,
         executeRead: Frame, executeWrite: Frame]

ASSUME EptAssumption ==
    /\ FirstLargePage \in LargePages
    /\ FirstTable \in Tables
    /\ HolderOf \in [Tables -> LargePages]
    /\ Uncacheable \in Types
    /\ TypeOf \in [LargePages -> Types]
    /\ HookPages \subseteq Page
    /\ Hooks \subseteq Hook
    /\ Null \notin Page
    /\ Null \notin Rips
-----------------------------------------------------------------------------
(***************************************************************************)
(* Entries and views.                                                      *)
(***************************************************************************)

\* VMX::EPT_PTE, reduced to the fields the code reads or writes.
Pte == [read: BOOLEAN, write: BOOLEAN, execute: BOOLEAN,
        frame: Frame, type: Types]

\* The entry whose Value is 0.
NotPresent == [read |-> FALSE, write |-> FALSE, execute |-> FALSE,
               frame |-> Null, type |-> Uncacheable]

\* VMX::EPT_PDE: a 2 MB entry, or a reference to a table of 4 KB entries.
Pde == [large: {TRUE}, frame: LargePages, type: Types]
           \union [large: {FALSE}, table: Tables]

LargePde(l) == [large |-> TRUE, frame |-> l, type |-> TypeOf[l]]
TablePde(t) == [large |-> FALSE, table |-> t]

\* The entries Ept::InitializeEptTables builds.
InitialPde == [l \in LargePages |->
                  IF l = FirstLargePage THEN TablePde(FirstTable) ELSE LargePde(l)]

\* What the fields Page2Mb.PagePhysicalPfn and Page2Mb.Type of an entry hold.
\* Read from an entry that references a table they are the large page the
\* table lies in, and the reserved bits that InitializeEptTables left zero.
Page2MbFrame(e) == IF e.large THEN e.frame ELSE HolderOf[e.table]
Page2MbType(e) == IF e.large THEN e.type ELSE Uncacheable

\* Ept::BuildPtesForPde
BuildPtesForPde(e) ==
    [i \in Index |-> [read |-> TRUE, write |-> TRUE, execute |-> TRUE,
                      frame |-> <<Page2MbFrame(e), i>>, type |-> Page2MbType(e)]]

\* An entry for the given frame and rights, or no entry for a zero address.
View(pa, r, w, x, t) ==
    IF pa = Null
    THEN NotPresent
    ELSE [read |-> r, write |-> w, execute |-> x, frame |-> pa, type |-> t]

\* VMX::PAGE_HANDLER and Ept::BuildPageHandler
Views == [OnRead: Pte, OnWrite: Pte, OnExecute: Pte,
          OnExecuteRead: Pte, OnExecuteWrite: Pte]

BuildPageHandler(t, h) ==
    [OnRead |-> View(h.read, TRUE, h.read = h.write, h.read = h.execute, t),
     OnWrite |-> View(h.write, TRUE, TRUE, h.write = h.execute, t),
     OnExecute |-> View(h.execute, h.read = h.execute, h.write = h.execute, TRUE, t),
     OnExecuteRead |-> View(h.executeRead, TRUE, h.executeRead = h.executeWrite, TRUE, t),
     OnExecuteWrite |-> View(h.executeWrite, TRUE, TRUE, TRUE, t)]
-----------------------------------------------------------------------------
(***************************************************************************)
(* State.                                                                  *)
(***************************************************************************)
VARIABLES
    pde,          \* m_Ept->Pde
    tables,       \* the contents of the blocks that can hold 4 KB entries
    live,         \* the blocks that are allocated
    descriptors,  \* m_PageDescriptors: large page -> LARGE_PAGE_DESCRIPTOR
    handlers,     \* m_Handlers: page -> EPT_PTE_HANDLER
    pending       \* m_PendingHandler

eptVars == <<pde, tables, live, descriptors, handlers, pending>>

Slot == Tables \X Index   \* what a pointer to a 4 KB entry can point at
Descriptor == [original: Pde, layout: Tables]
Handler == [pte: Slot, views: Views]
Pending == [rip: Rips, pte: Slot, prev: Pte]
               \union [rip: {Null}, pte: Slot \union {Null}, prev: Pte]

EmptyMap == [x \in {} |-> x]
NoPending == [rip |-> Null, pte |-> Null, prev |-> NotPresent]

EptInit ==
    /\ pde = InitialPde
    /\ tables = [t \in Tables |->
                    IF t = FirstTable
                    THEN BuildPtesForPde(LargePde(FirstLargePage))
                    ELSE [i \in Index |-> NotPresent]]
    /\ live = {FirstTable}
    /\ descriptors = EmptyMap
    /\ handlers = EmptyMap
    /\ pending = NoPending

\* std::map::emplace, which leaves the value of a key that is there alone.
Emplace(map, key, value) ==
    [x \in DOMAIN map \union {key} |-> IF x \in DOMAIN map THEN map[x] ELSE value]

WritePte(slot, e) == [tables EXCEPT ![slot[1]][slot[2]] = e]
-----------------------------------------------------------------------------
(***************************************************************************)
(* The public operations.                                                  *)
(***************************************************************************)

\* Mutant: the entry is left for the next EPT violation to change.
InterceptAgainLazily(p, h) ==
    LET views == BuildPageHandler(handlers[p].views.OnRead.type, h)
    IN  /\ p \in DOMAIN handlers
        /\ handlers' = [handlers EXCEPT ![p].views = views]
        /\ UNCHANGED <<pde, tables, live, descriptors, pending>>

\* InterceptPage of a page that already has a handler.  The cache type is
\* the one found in the old read view.
InterceptAgain(p, h) ==
    LET views == BuildPageHandler(handlers[p].views.OnRead.type, h)
    IN  /\ p \in DOMAIN handlers
        /\ handlers' = [handlers EXCEPT ![p].views = views]
        /\ tables' = WritePte(handlers[p].pte, views.OnRead)
        /\ UNCHANGED <<pde, live, descriptors, pending>>

\* Mutant: the new layout is not filled by BuildPtesForPde.
InterceptWholeUnbuilt(p, h, t) ==
    LET original == pde[p[1]]
        views == BuildPageHandler(Page2MbType(original), h)
    IN  /\ p \notin DOMAIN handlers
        /\ p[1] \notin DOMAIN descriptors
        /\ t \notin live
        /\ live' = live \union {t}
        /\ descriptors' = Emplace(descriptors, p[1], [original |-> original, layout |-> t])
        /\ pde' = [pde EXCEPT ![p[1]] = TablePde(t)]
        /\ handlers' = Emplace(handlers, p, [pte |-> <<t, p[2]>>, views |-> views])
        /\ tables' = WritePte(<<t, p[2]>>, views.OnRead)
        /\ UNCHANGED pending

\* InterceptPage of a page whose large page needs a new layout, for which
\* AllocPhys returns block t.
InterceptWhole(p, h, t) ==
    LET original == pde[p[1]]
        views == BuildPageHandler(Page2MbType(original), h)
    IN  /\ p \notin DOMAIN handlers
        /\ p[1] \notin DOMAIN descriptors
        /\ t \notin live
        /\ live' = live \union {t}
        /\ descriptors' = Emplace(descriptors, p[1], [original |-> original, layout |-> t])
        /\ pde' = [pde EXCEPT ![p[1]] = TablePde(t)]
        /\ handlers' = Emplace(handlers, p, [pte |-> <<t, p[2]>>, views |-> views])
        /\ tables' = [tables EXCEPT ![t] =
                         [BuildPtesForPde(original) EXCEPT ![p[2]] = views.OnRead]]
        /\ UNCHANGED pending

\* Mutant: the cache type is taken from the entry that refers to the layout.
InterceptSplitAsTable(p, h) ==
    LET desc == descriptors[p[1]]
        views == BuildPageHandler(Page2MbType(pde[p[1]]), h)
        slot == <<desc.layout, p[2]>>
    IN  /\ p \notin DOMAIN handlers
        /\ p[1] \in DOMAIN descriptors
        /\ pde' = [pde EXCEPT ![p[1]] = TablePde(desc.layout)]
        /\ handlers' = Emplace(handlers, p, [pte |-> slot, views |-> views])
        /\ tables' = WritePte(slot, views.OnRead)
        /\ UNCHANGED <<live, descriptors, pending>>

\* InterceptPage of another page of a large page that is already split.
InterceptSplit(p, h) ==
    LET desc == descriptors[p[1]]
        views == BuildPageHandler(Page2MbType(desc.original), h)
        slot == <<desc.layout, p[2]>>
    IN  /\ p \notin DOMAIN handlers
        /\ p[1] \in DOMAIN descriptors
        /\ pde' = [pde EXCEPT ![p[1]] = TablePde(desc.layout)]
        /\ handlers' = Emplace(handlers, p, [pte |-> slot, views |-> views])
        /\ tables' = WritePte(slot, views.OnRead)
        /\ UNCHANGED <<live, descriptors, pending>>

InterceptPage(p, h) ==
    \/ InterceptAgain(p, h)
    \/ \E t \in Tables : InterceptWhole(p, h, t)
    \/ InterceptSplit(p, h)

\* Mutant: the large page still refers to the released layout.
DeinterceptKeepsSplit(p) ==
    /\ handlers' = Restrict(handlers, DOMAIN handlers \ {p})
    /\ IF DOMAIN handlers \subseteq {p} /\ p[1] \in DOMAIN descriptors
       THEN /\ live' = live \ {descriptors[p[1]].layout}
            /\ descriptors' = Restrict(descriptors, DOMAIN descriptors \ {p[1]})
       ELSE UNCHANGED <<live, descriptors>>
    /\ UNCHANGED <<pde, tables, pending>>

\* Mutant: the layout is released though neighbours still have handlers.
DeinterceptIgnoresOthers(p) ==
    /\ handlers' = Restrict(handlers, DOMAIN handlers \ {p})
    /\ IF p[1] \in DOMAIN descriptors
       THEN /\ pde' = [pde EXCEPT ![p[1]] = descriptors[p[1]].original]
            /\ live' = live \ {descriptors[p[1]].layout}
            /\ descriptors' = Restrict(descriptors, DOMAIN descriptors \ {p[1]})
       ELSE UNCHANGED <<pde, live, descriptors>>
    /\ UNCHANGED <<tables, pending>>

\* DeinterceptPage: the entry itself is left as it is; the large page of p is
\* put back together only when no page at all has a handler any more.
DeinterceptPage(p) ==
    /\ handlers' = Restrict(handlers, DOMAIN handlers \ {p})
    /\ IF DOMAIN handlers \subseteq {p} /\ p[1] \in DOMAIN descriptors
       THEN /\ pde' = [pde EXCEPT ![p[1]] = descriptors[p[1]].original]
            /\ live' = live \ {descriptors[p[1]].layout}
            /\ descriptors' = Restrict(descriptors, DOMAIN descriptors \ {p[1]})
       ELSE UNCHANGED <<pde, live, descriptors>>
    /\ UNCHANGED <<tables, pending>>

\* HandleRead, HandleExecute: the view stays until another access changes it.
ShowView(p, view) ==
    /\ tables' = WritePte(handlers[p].pte, view)
    /\ UNCHANGED <<pde, live, descriptors, handlers, pending>>

\* HandleWrite, HandleExecuteRead, HandleExecuteWrite: the view is meant for
\* one instruction, and the entry it replaces is saved.
ShowViewOnce(p, view, next) ==
    /\ pending' = [rip |-> next, pte |-> handlers[p].pte,
                   prev |-> tables[handlers[p].pte[1]][handlers[p].pte[2]]]
    /\ tables' = WritePte(handlers[p].pte, view)
    /\ UNCHANGED <<pde, live, descriptors, handlers>>

\* The condition under which the Handle* functions return true.
Handles(p, view) == p \in DOMAIN handlers /\ view # NotPresent

HandleRead(p) ==
    /\ Handles(p, handlers[p].views.OnRead)
    /\ ShowView(p, handlers[p].views.OnRead)

HandleExecute(p) ==
    /\ Handles(p, handlers[p].views.OnExecute)
    /\ ShowView(p, handlers[p].views.OnExecute)

HandleWrite(p, next) ==
    /\ Handles(p, handlers[p].views.OnWrite)
    /\ ShowViewOnce(p, handlers[p].views.OnWrite, next)

\* Mutant: the instruction's own page gets the plain read view.
HandleExecuteReadAsRead(p, next) ==
    /\ Handles(p, handlers[p].views.OnExecuteRead)
    /\ ShowViewOnce(p, handlers[p].views.OnRead, next)

HandleExecuteRead(p, next) ==
    /\ Handles(p, handlers[p].views.OnExecuteRead)
    /\ ShowViewOnce(p, handlers[p].views.OnExecuteRead, next)

HandleExecuteWrite(p, next) ==
    /\ Handles(p, handlers[p].views.OnExecuteWrite)
    /\ ShowViewOnce(p, handlers[p].views.OnExecuteWrite, next)

\* Mutant: the saved entry is not put back.
CompleteWithoutRestore(rip) ==
    /\ pending.rip = rip
    /\ pending' = [pending EXCEPT !.rip = Null]
    /\ UNCHANGED <<pde, tables, live, descriptors, handlers>>

\* CompletePendingHandler(Rip) when it returns true.
CompletePendingHandler(rip) ==
    /\ pending.rip = rip
    /\ tables' = WritePte(pending.pte, pending.prev)
    /\ pending' = [pending EXCEPT !.rip = Null]
    /\ UNCHANGED <<pde, live, descriptors, handlers>>

\* Mutant: the layouts are not freed.
DestroyLeaks ==
    /\ pde' = [l \in LargePages |->
                  IF l \in DOMAIN descriptors THEN descriptors[l].original ELSE pde[l]]
    /\ descriptors' = EmptyMap
    /\ handlers' = EmptyMap
    /\ pending' = NoPending
    /\ UNCHANGED <<tables, live>>

\* ~EptHandler, and the empty maps of the object that replaces it when the
\* processor is virtualized again.
Destroy ==
    /\ pde' = [l \in LargePages |->
                  IF l \in DOMAIN descriptors THEN descriptors[l].original ELSE pde[l]]
    /\ live' = live \ {descriptors[l].layout : l \in DOMAIN descriptors}
    /\ descriptors' = EmptyMap
    /\ handlers' = EmptyMap
    /\ pending' = NoPending
    /\ UNCHANGED tables
-----------------------------------------------------------------------------
(***************************************************************************)
(* The interceptor used as an object: any operation, in any order, with    *)
(* any of the arguments its callers pass.                                  *)
(***************************************************************************)
EptNext ==
    \/ \E p \in HookPages :
          \/ \E h \in Hooks : InterceptPage(p, h)
          \/ DeinterceptPage(p)
          \/ HandleRead(p)
          \/ HandleExecute(p)
          \/ \E next \in Rips : \/ HandleWrite(p, next)
                                \/ HandleExecuteRead(p, next)
                                \/ HandleExecuteWrite(p, next)
    \/ \E rip \in Rips : CompletePendingHandler(rip)
    \/ Destroy

EptSpec == EptInit /\ [][EptNext]_eptVars
-----------------------------------------------------------------------------
(***************************************************************************)
(* Properties.                                                             *)
(***************************************************************************)

\* The values of the variables have the types their declarations give them.
EptTypeOK ==
    /\ pde \in [LargePages -> Pde]
    /\ tables \in [Tables -> [Index -> Pte]]
    /\ live \subseteq Tables
    /\ DOMAIN descriptors \subseteq LargePages
    /\ descriptors \in [DOMAIN descriptors -> Descriptor]
    /\ DOMAIN handlers \subseteq HookPages
    /\ handlers \in [DOMAIN handlers -> Handler]
    /\ pending \in Pending

\* A large page is split exactly while it has a descriptor, it then refers to
\* the descriptor's layout, and the descriptor holds the entry that
\* InitializeEptTables built: however often pages are intercepted and
\* deintercepted, what DeinterceptPage and ~EptHandler put back is pristine.
SplitMatchesDescriptors ==
    /\ \A l \in DOMAIN descriptors :
          /\ pde[l] = TablePde(descriptors[l].layout)
          /\ descriptors[l].original = InitialPde[l]
    /\ \A l \in LargePages \ DOMAIN descriptors : pde[l] = InitialPde[l]

\* The layouts of the descriptors are the only memory the interceptor holds,
\* and no two large pages share one: nothing leaks, nothing is freed twice.
LayoutsAreOwned ==
    /\ live = {FirstTable} \union {descriptors[l].layout : l \in DOMAIN descriptors}
    /\ \A l, m \in DOMAIN descriptors :
          descriptors[l].layout = descriptors[m].layout => l = m
    /\ \A l \in DOMAIN descriptors : descriptors[l].layout # FirstTable

\* The raw pointer EPT_PTE_HANDLER::Pte of every handler points at the entry
\* that translates the handler's page, in a layout that is still allocated.
HandlerPteLive ==
    \A p \in DOMAIN handlers :
        /\ p[1] \in DOMAIN descriptors
        /\ handlers[p].pte = <<descriptors[p[1]].layout, p[2]>>

\* Every view of page p that is an entry has the MTRR type of the memory it
\* replaces.
TypesAreRight(p) ==
    \A name \in DOMAIN handlers[p].views :
        LET view == handlers[p].views[name]
        IN  view # NotPresent => view.type = TypeOf[p[1]]

\* The memory type of a page's views goes wrong in two ways only: the page lies
\* in the first large page, whose own type is read from an entry that refers to
\* a table; or it is intercepted again while its read view is no entry, as with
\* the hooks of Trace::EnableOn, so that the type is taken from a zero entry
\* (InterceptPage carries it from the old read view to the new views).
CacheTypeKept ==
    [][\A p \in DOMAIN handlers' :
          p[1] # FirstLargePage /\ ~TypesAreRight(p)' =>
              /\ p \in DOMAIN handlers
              /\ TypesAreRight(p) => handlers[p].views.OnRead = NotPresent]_eptVars

\* Ept.cpp, BuildPageHandler: "We're unable to make a write-only page", an
\* entry that is writable and not readable is an EPT misconfiguration.
NoMisconfiguredView ==
    \A p \in DOMAIN handlers :
        \A name \in DOMAIN handlers[p].views :
            handlers[p].views[name].write => handlers[p].views[name].read
=============================================================================
