------------------------------ MODULE EptProofs ------------------------------
(***************************************************************************)
(* Theorems about EptHandler and EptGuest, for any memory size, any number *)
(* of blocks and any hooks.                                                *)
(*                                                                         *)
(* The interceptor first, whose public operations may be called in any     *)
(* order.  None of its four invariants is inductive alone.  That the       *)
(* pristine entry comes back needs the descriptors to hold it, that a      *)
(* handler's pointer is live needs the rule that no layout is freed while  *)
(* any handler exists, and both need the variables' types.  EptInv is      *)
(* their conjunction, and each operation is shown to keep it.              *)
(*                                                                         *)
(* Then the processor with its guest.  The exit handlers use the           *)
(* interceptor through its operations only, with arguments of the right    *)
(* types; hence whatever is proved of the interceptor holds of the         *)
(* processor.  What an intercepted page shows during a single step, and    *)
(* which frame an access sees, need more: what is pending, and for the     *)
(* two after that an instruction runs straight on to the next one.  The    *)
(* last theorem is why instructions end: a violation gives a page what it  *)
(* was raised for and takes back nothing granted for an earlier access.    *)
(***************************************************************************)
EXTENDS EptGuest, TLAPS


\* The inductive invariant.
EptInv == EptTypeOK /\ SplitMatchesDescriptors /\ LayoutsAreOwned /\ HandlerPteLive

-----------------------------------------------------------------------------
(***************************************************************************)
(* The views BuildPageHandler makes.                                       *)
(***************************************************************************)

\* BuildPageHandler makes five well-formed entries of whatever addresses its
\* caller passes.
LEMMA ViewsTyped ==
    ASSUME NEW t \in Types, NEW h \in Hook
    PROVE  BuildPageHandler(t, h) \in Views
<1>1. NotPresent \in Pte
    BY EptAssumption DEF NotPresent, Pte, Frame
<1>2. ASSUME NEW pa \in Frame, NEW r \in BOOLEAN, NEW w \in BOOLEAN, NEW x \in BOOLEAN
      PROVE  View(pa, r, w, x, t) \in Pte
    BY <1>1 DEF View, Pte
<1>3. /\ h.read \in Frame
      /\ h.write \in Frame
      /\ h.execute \in Frame
      /\ h.executeRead \in Frame
      /\ h.executeWrite \in Frame
    BY DEF Hook
<1> DEFINE v == BuildPageHandler(t, h)
<1>4. v.OnRead \in Pte
    BY <1>2, <1>3 DEF BuildPageHandler
<1>5. v.OnWrite \in Pte
    BY <1>2, <1>3 DEF BuildPageHandler
<1>6. v.OnExecute \in Pte
    BY <1>2, <1>3 DEF BuildPageHandler
<1>7. v.OnExecuteRead \in Pte
    BY <1>2, <1>3 DEF BuildPageHandler
<1>8. v.OnExecuteWrite \in Pte
    BY <1>2, <1>3 DEF BuildPageHandler
<1> QED
    BY <1>4, <1>5, <1>6, <1>7, <1>8 DEF BuildPageHandler, Views

\* EPT entries must be readable to be writable.  BuildPageHandler keeps to this
\* for hooks that do not write and execute one frame while reading another.
LEMMA ViewsConfigured ==
    ASSUME NEW t \in Types, NEW h \in Hook,
           h.execute # Null /\ h.write = h.execute => h.read = h.execute,
           NEW name \in {"OnRead", "OnWrite", "OnExecute",
                         "OnExecuteRead", "OnExecuteWrite"}
    PROVE  BuildPageHandler(t, h)[name].write => BuildPageHandler(t, h)[name].read
<1> DEFINE v == BuildPageHandler(t, h)
<1>1. ASSUME NEW pa, NEW r \in BOOLEAN, NEW w \in BOOLEAN, NEW x \in BOOLEAN,
             pa # Null /\ w => r
      PROVE  View(pa, r, w, x, t).write => View(pa, r, w, x, t).read
    <2>1. CASE pa = Null
        BY <2>1 DEF View, NotPresent
    <2>2. CASE pa # Null
        BY <1>1, <2>2 DEF View
    <2> QED
        BY <2>1, <2>2
<1>2. v.OnRead.write => v.OnRead.read
    BY <1>1 DEF BuildPageHandler
<1>3. v.OnWrite.write => v.OnWrite.read
    BY <1>1 DEF BuildPageHandler
<1>4. v.OnExecute.write => v.OnExecute.read
    BY <1>1 DEF BuildPageHandler
<1>5. v.OnExecuteRead.write => v.OnExecuteRead.read
    BY <1>1 DEF BuildPageHandler
<1>6. v.OnExecuteWrite.write => v.OnExecuteWrite.read
    BY <1>1 DEF BuildPageHandler
<1> QED
    BY <1>2, <1>3, <1>4, <1>5, <1>6

\* What BuildPtesForPde fills a layout with is 512 well-formed entries.
LEMMA LayoutTyped ==
    ASSUME NEW e \in Pde
    PROVE  BuildPtesForPde(e) \in [Index -> Pte] /\ Page2MbType(e) \in Types
<1>1. Page2MbFrame(e) \in LargePages /\ Page2MbType(e) \in Types
    BY EptAssumption DEF Page2MbFrame, Page2MbType, Pde
<1> QED
    BY <1>1 DEF BuildPtesForPde, Pte, Frame, Page

\* What the entries InitializeEptTables builds are.
LEMMA InitialPdeTyped == InitialPde \in [LargePages -> Pde]
    BY EptAssumption DEF InitialPde, Pde, LargePde, TablePde

\* Writing an entry keeps the blocks' contents well-formed.
LEMMA WriteTyped ==
    ASSUME tables \in [Tables -> [Index -> Pte]], NEW slot \in Slot, NEW e \in Pte
    PROVE  WritePte(slot, e) \in [Tables -> [Index -> Pte]]
    BY DEF WritePte, Slot

\* A handler's pointer and views are what their types say.
LEMMA HandlerTyped ==
    ASSUME EptTypeOK, NEW p \in DOMAIN handlers
    PROVE  /\ handlers[p] \in Handler
           /\ handlers[p].pte \in Slot
           /\ handlers[p].views \in Views
           /\ \A name \in {"OnRead", "OnWrite", "OnExecute",
                            "OnExecuteRead", "OnExecuteWrite"} :
                  handlers[p].views[name] \in Pte
           /\ p \in Page /\ p[1] \in LargePages /\ p[2] \in Index
<1>1. handlers[p] \in Handler
    BY DEF EptTypeOK
<1>2. p \in Page
    BY EptAssumption DEF EptTypeOK
<1> QED
    BY <1>1, <1>2 DEF Handler, Views, Page

-----------------------------------------------------------------------------
(***************************************************************************)
(* The invariant holds initially and is kept by every operation.           *)
(***************************************************************************)

LEMMA InitInv == EptInit => EptInv
<1> SUFFICES ASSUME EptInit
             PROVE  EptInv
    OBVIOUS
<1> USE DEF EptInit
<1>1. LargePde(FirstLargePage) \in Pde
    BY EptAssumption DEF LargePde, Pde
<1>2. NotPresent \in Pte
    BY EptAssumption DEF NotPresent, Pte, Frame
<1>3. tables \in [Tables -> [Index -> Pte]]
    BY <1>1, <1>2, LayoutTyped
<1>4. pending \in Pending
    BY <1>2 DEF Pending, NoPending
<1>5. EptTypeOK
    BY <1>3, <1>4, InitialPdeTyped, EptAssumption DEF EptTypeOK, EmptyMap
<1>6. SplitMatchesDescriptors /\ LayoutsAreOwned /\ HandlerPteLive
    BY DEF SplitMatchesDescriptors, LayoutsAreOwned, HandlerPteLive, EmptyMap
<1> QED
    BY <1>5, <1>6 DEF EptInv

\* An operation that only writes entries, or the pending slot, keeps it.
LEMMA EntriesOnly ==
    ASSUME EptInv, tables' \in [Tables -> [Index -> Pte]], pending' \in Pending,
           UNCHANGED <<pde, live, descriptors, handlers>>
    PROVE  EptInv'
    BY DEF EptInv, EptTypeOK, SplitMatchesDescriptors, LayoutsAreOwned, HandlerPteLive

LEMMA ShowViewInv ==
    ASSUME EptInv, NEW p \in DOMAIN handlers, NEW view \in Pte, ShowView(p, view)
    PROVE  EptInv'
<1>1. tables' \in [Tables -> [Index -> Pte]]
    BY HandlerTyped, WriteTyped DEF EptInv, EptTypeOK, ShowView
<1>2. pending' \in Pending
    BY DEF EptInv, EptTypeOK, ShowView
<1> QED
    BY <1>1, <1>2, EntriesOnly DEF ShowView

LEMMA ShowViewOnceInv ==
    ASSUME EptInv, NEW p \in DOMAIN handlers, NEW view \in Pte, NEW next \in Rips,
           ShowViewOnce(p, view, next)
    PROVE  EptInv'
<1>1. handlers[p].pte \in Slot
    BY HandlerTyped DEF EptInv
<1>2. tables' \in [Tables -> [Index -> Pte]]
    BY <1>1, WriteTyped DEF EptInv, EptTypeOK, ShowViewOnce
<1>3. tables[handlers[p].pte[1]][handlers[p].pte[2]] \in Pte
    BY <1>1 DEF EptInv, EptTypeOK, Slot
<1>4. pending' \in Pending
    BY <1>1, <1>3 DEF ShowViewOnce, Pending
<1> QED
    BY <1>2, <1>4, EntriesOnly DEF ShowViewOnce

LEMMA CompleteInv ==
    ASSUME EptInv, NEW r \in Rips, CompletePendingHandler(r)
    PROVE  EptInv'
<1>1. pending.pte \in Slot /\ pending.prev \in Pte
    BY EptAssumption DEF EptInv, EptTypeOK, Pending, CompletePendingHandler
<1>2. tables' \in [Tables -> [Index -> Pte]]
    BY <1>1, WriteTyped DEF EptInv, EptTypeOK, CompletePendingHandler
<1>3. pending' = [rip |-> Null, pte |-> pending.pte, prev |-> pending.prev]
    BY DEF EptInv, EptTypeOK, CompletePendingHandler, Pending
<1>4. pending' \in Pending
    BY <1>1, <1>3 DEF Pending
<1> QED
    BY <1>2, <1>4, EntriesOnly DEF CompletePendingHandler

\* A page that is intercepted again keeps its entry; only the views change.
LEMMA InterceptAgainInv ==
    ASSUME EptInv, NEW p \in HookPages, NEW h \in Hooks, InterceptAgain(p, h)
    PROVE  EptInv'
<1> DEFINE views == BuildPageHandler(handlers[p].views.OnRead.type, h)
<1>1. p \in DOMAIN handlers /\ h \in Hook
    BY EptAssumption DEF InterceptAgain
<1>2. handlers[p].views.OnRead.type \in Types
    BY <1>1, HandlerTyped DEF EptInv, Pte
<1>3. views \in Views
    BY <1>1, <1>2, ViewsTyped
<1>4. views.OnRead \in Pte
    BY <1>3 DEF Views
<1> HIDE DEF views
<1>5. handlers' = [handlers EXCEPT ![p].views = views]
    BY DEF InterceptAgain, views
<1>6. tables' = WritePte(handlers[p].pte, views.OnRead)
    BY DEF InterceptAgain, views
<1>7. UNCHANGED <<pde, live, descriptors, pending>>
    BY DEF InterceptAgain
<1>8. tables' \in [Tables -> [Index -> Pte]]
    BY <1>1, <1>4, <1>6, HandlerTyped, WriteTyped DEF EptInv, EptTypeOK
<1>9. DOMAIN handlers' = DOMAIN handlers
    BY <1>5
<1>10. ASSUME NEW q \in DOMAIN handlers
       PROVE  handlers'[q] \in Handler /\ handlers'[q].pte = handlers[q].pte
    <2>1. handlers[q] \in Handler
        BY HandlerTyped DEF EptInv
    <2>2. CASE q = p
        BY <1>1, <1>3, <1>5, <2>1, <2>2 DEF Handler
    <2>3. CASE q # p
        BY <1>5, <2>1, <2>3
    <2> QED
        BY <2>2, <2>3
<1>11. handlers' \in [DOMAIN handlers' -> Handler]
    BY <1>5, <1>9, <1>10 DEF EptInv, EptTypeOK
<1>12. EptTypeOK'
    BY <1>7, <1>8, <1>9, <1>11 DEF EptInv, EptTypeOK
<1>13. HandlerPteLive'
    BY <1>7, <1>9, <1>10 DEF EptInv, HandlerPteLive
<1>14. SplitMatchesDescriptors' /\ LayoutsAreOwned'
    BY <1>7 DEF EptInv, SplitMatchesDescriptors, LayoutsAreOwned
<1> QED
    BY <1>12, <1>13, <1>14 DEF EptInv

\* The first interception in a large page splits it: the block is new, so no
\* other descriptor has it, and the entry it saves was pristine.
LEMMA InterceptWholeInv ==
    ASSUME EptInv, NEW p \in HookPages, NEW h \in Hooks, NEW t \in Tables,
           InterceptWhole(p, h, t)
    PROVE  EptInv'
<1> DEFINE l == p[1]
           original == pde[l]
           views == BuildPageHandler(Page2MbType(original), h)
           desc == [original |-> original, layout |-> t]
           handler == [pte |-> <<t, p[2]>>, views |-> views]
<1>1. p \in Page /\ l \in LargePages /\ p[2] \in Index /\ h \in Hook
    BY EptAssumption DEF Page
<1>2. p \notin DOMAIN handlers /\ l \notin DOMAIN descriptors /\ t \notin live
    BY DEF InterceptWhole
<1>3. original \in Pde /\ original = InitialPde[l]
    BY <1>1, <1>2 DEF EptInv, EptTypeOK, SplitMatchesDescriptors
<1>4. views \in Views /\ views.OnRead \in Pte
    BY <1>1, <1>3, LayoutTyped, ViewsTyped DEF Views
<1> HIDE DEF views
<1>5. /\ live' = live \union {t}
      /\ descriptors' = Emplace(descriptors, l, desc)
      /\ pde' = [pde EXCEPT ![l] = TablePde(t)]
      /\ handlers' = Emplace(handlers, p, handler)
      /\ tables' = [tables EXCEPT ![t] =
                       [BuildPtesForPde(original) EXCEPT ![p[2]] = views.OnRead]]
      /\ UNCHANGED pending
    BY DEF InterceptWhole, views
<1>6. desc \in Descriptor /\ handler \in Handler
    BY <1>1, <1>3, <1>4 DEF Descriptor, Handler, Slot
<1> HIDE DEF original
<1>7. /\ DOMAIN descriptors' = DOMAIN descriptors \union {l}
      /\ descriptors'[l] = desc
      /\ \A m \in DOMAIN descriptors : descriptors'[m] = descriptors[m]
      /\ descriptors' \in [DOMAIN descriptors' -> Descriptor]
    <2> HIDE DEF desc
    <2>1. descriptors \in [DOMAIN descriptors -> Descriptor]
        BY DEF EptInv, EptTypeOK
    <2> QED
        BY <1>2, <1>5, <1>6, <2>1 DEF Emplace
<1>8. /\ DOMAIN handlers' = DOMAIN handlers \union {p}
      /\ handlers'[p] = handler
      /\ \A q \in DOMAIN handlers : handlers'[q] = handlers[q]
      /\ handlers' \in [DOMAIN handlers' -> Handler]
    <2> HIDE DEF handler
    <2>1. handlers \in [DOMAIN handlers -> Handler]
        BY DEF EptInv, EptTypeOK
    <2> QED
        BY <1>2, <1>5, <1>6, <2>1 DEF Emplace
<1>9. TablePde(t) \in Pde
    BY DEF TablePde, Pde
<1>10. EptTypeOK'
    <2>1. pde' \in [LargePages -> Pde]
        BY <1>5, <1>9 DEF EptInv, EptTypeOK
    <2>2. tables' \in [Tables -> [Index -> Pte]]
        BY <1>3, <1>4, <1>5, LayoutTyped DEF EptInv, EptTypeOK
    <2>3. DOMAIN descriptors' \subseteq LargePages /\ DOMAIN handlers' \subseteq HookPages
        BY <1>1, <1>7, <1>8 DEF EptInv, EptTypeOK
    <2>4. live' \subseteq Tables /\ pending' \in Pending
        BY <1>5 DEF EptInv, EptTypeOK
    <2> QED
        BY <1>7, <1>8, <2>1, <2>2, <2>3, <2>4 DEF EptTypeOK
<1>11. pde'[l] = TablePde(t) /\ \A m \in LargePages \ {l} : pde'[m] = pde[m]
    BY <1>1, <1>5 DEF EptInv, EptTypeOK
<1>12. SplitMatchesDescriptors'
    <2>1. ASSUME NEW m \in DOMAIN descriptors'
          PROVE  /\ pde'[m] = TablePde(descriptors'[m].layout)
                 /\ descriptors'[m].original = InitialPde[m]
        <3>1. CASE m = l
            BY <1>3, <1>7, <1>11, <3>1
        <3>2. CASE m # l
            BY <1>7, <1>11, <3>2 DEF EptInv, EptTypeOK, SplitMatchesDescriptors
        <3> QED
            BY <3>1, <3>2
    <2>2. ASSUME NEW m \in LargePages \ DOMAIN descriptors'
          PROVE  pde'[m] = InitialPde[m]
        BY <1>7, <1>11 DEF EptInv, SplitMatchesDescriptors
    <2> QED
        BY <2>1, <2>2 DEF SplitMatchesDescriptors
<1>13. LayoutsAreOwned'
    <2>1. live' = {FirstTable} \union {descriptors'[m].layout : m \in DOMAIN descriptors'}
        BY <1>5, <1>7 DEF EptInv, LayoutsAreOwned
    <2>2. \A m \in DOMAIN descriptors : descriptors[m].layout # t /\ t # FirstTable
        BY <1>2 DEF EptInv, LayoutsAreOwned
    <2>3. t # FirstTable
        BY <1>2 DEF EptInv, LayoutsAreOwned
    <2>4. \A m, n \in DOMAIN descriptors' :
              descriptors'[m].layout = descriptors'[n].layout => m = n
        BY <1>7, <2>2 DEF EptInv, LayoutsAreOwned
    <2>5. \A m \in DOMAIN descriptors' : descriptors'[m].layout # FirstTable
        BY <1>7, <2>3 DEF EptInv, LayoutsAreOwned
    <2> QED
        BY <2>1, <2>4, <2>5 DEF LayoutsAreOwned
<1>14. HandlerPteLive'
    BY <1>7, <1>8 DEF EptInv, HandlerPteLive
<1> QED
    BY <1>10, <1>12, <1>13, <1>14 DEF EptInv

\* A further interception in a split large page shares its layout; writing
\* the reference to the layout once more changes nothing.
LEMMA InterceptSplitInv ==
    ASSUME EptInv, NEW p \in HookPages, NEW h \in Hooks, InterceptSplit(p, h)
    PROVE  EptInv'
<1> DEFINE l == p[1]
           desc == descriptors[l]
           views == BuildPageHandler(Page2MbType(desc.original), h)
           handler == [pte |-> <<desc.layout, p[2]>>, views |-> views]
<1>1. p \in Page /\ l \in LargePages /\ p[2] \in Index /\ h \in Hook
    BY EptAssumption DEF Page
<1>2. p \notin DOMAIN handlers /\ l \in DOMAIN descriptors
    BY DEF InterceptSplit
<1>3. desc.original \in Pde /\ desc.layout \in Tables
    BY <1>2 DEF EptInv, EptTypeOK, Descriptor
<1>4. views \in Views /\ views.OnRead \in Pte
    BY <1>1, <1>3, LayoutTyped, ViewsTyped DEF Views
<1> HIDE DEF views
<1>5. /\ pde' = [pde EXCEPT ![l] = TablePde(desc.layout)]
      /\ handlers' = Emplace(handlers, p, handler)
      /\ tables' = WritePte(<<desc.layout, p[2]>>, views.OnRead)
      /\ UNCHANGED <<live, descriptors, pending>>
    BY DEF InterceptSplit, views
<1>6. handler \in Handler /\ <<desc.layout, p[2]>> \in Slot
    BY <1>1, <1>3, <1>4 DEF Handler, Slot
<1>7. /\ DOMAIN handlers' = DOMAIN handlers \union {p}
      /\ handlers'[p] = handler
      /\ \A q \in DOMAIN handlers : handlers'[q] = handlers[q]
      /\ handlers' \in [DOMAIN handlers' -> Handler]
    <2> HIDE DEF handler
    <2>1. handlers \in [DOMAIN handlers -> Handler]
        BY DEF EptInv, EptTypeOK
    <2> QED
        BY <1>2, <1>5, <1>6, <2>1 DEF Emplace
<1>8. pde' = pde
    BY <1>1, <1>2, <1>5 DEF EptInv, EptTypeOK, SplitMatchesDescriptors
<1>9. EptTypeOK'
    <2>1. tables' \in [Tables -> [Index -> Pte]]
        BY <1>4, <1>5, <1>6, WriteTyped DEF EptInv, EptTypeOK
    <2> QED
        BY <1>5, <1>7, <1>8, <2>1 DEF EptInv, EptTypeOK
<1>10. SplitMatchesDescriptors' /\ LayoutsAreOwned'
    BY <1>5, <1>8 DEF EptInv, SplitMatchesDescriptors, LayoutsAreOwned
<1>11. HandlerPteLive'
    BY <1>2, <1>5, <1>7 DEF EptInv, HandlerPteLive
<1> QED
    BY <1>9, <1>10, <1>11 DEF EptInv

\* Deinterception forgets the handler; it releases a layout only when no page
\* has a handler, so no handler's pointer is left dangling.
LEMMA DeinterceptInv ==
    ASSUME EptInv, NEW p \in HookPages, DeinterceptPage(p)
    PROVE  EptInv'
<1> DEFINE l == p[1]
<1>1. l \in LargePages
    BY EptAssumption DEF Page
<1>2. /\ handlers' = [q \in DOMAIN handlers \ {p} |-> handlers[q]]
      /\ UNCHANGED <<tables, pending>>
    BY DEF DeinterceptPage, Restrict
<1>3. DOMAIN handlers' \subseteq HookPages /\ handlers' \in [DOMAIN handlers' -> Handler]
    BY <1>2 DEF EptInv, EptTypeOK
<1>4. CASE UNCHANGED <<pde, live, descriptors>>
    <2>1. EptTypeOK'
        BY <1>2, <1>3, <1>4 DEF EptInv, EptTypeOK
    <2>2. SplitMatchesDescriptors' /\ LayoutsAreOwned'
        BY <1>4 DEF EptInv, SplitMatchesDescriptors, LayoutsAreOwned
    <2>3. HandlerPteLive'
        BY <1>2, <1>4 DEF EptInv, HandlerPteLive
    <2> QED
        BY <2>1, <2>2, <2>3 DEF EptInv
<1>5. CASE /\ DOMAIN handlers \subseteq {p}
           /\ l \in DOMAIN descriptors
           /\ pde' = [pde EXCEPT ![l] = descriptors[l].original]
           /\ live' = live \ {descriptors[l].layout}
           /\ descriptors' = Restrict(descriptors, DOMAIN descriptors \ {l})
    <2>1. /\ descriptors' = [m \in DOMAIN descriptors \ {l} |-> descriptors[m]]
          /\ DOMAIN handlers' = {}
        BY <1>2, <1>5 DEF Restrict
    <2>2. descriptors[l] \in Descriptor /\ descriptors[l].original = InitialPde[l]
        BY <1>5 DEF EptInv, EptTypeOK, SplitMatchesDescriptors
    <2>3. EptTypeOK'
        <3>1. pde' \in [LargePages -> Pde]
            BY <1>5, <2>2 DEF EptInv, EptTypeOK, Descriptor
        <3>2. /\ DOMAIN descriptors' \subseteq LargePages
              /\ descriptors' \in [DOMAIN descriptors' -> Descriptor]
            BY <2>1 DEF EptInv, EptTypeOK
        <3> QED
            BY <1>2, <1>3, <1>5, <3>1, <3>2 DEF EptInv, EptTypeOK
    <2>4. SplitMatchesDescriptors'
        <3>1. ASSUME NEW m \in DOMAIN descriptors \ {l}
              PROVE  /\ pde'[m] = TablePde(descriptors'[m].layout)
                     /\ descriptors'[m].original = InitialPde[m]
            <4>1. descriptors'[m] = descriptors[m] /\ m \in LargePages
                BY <2>1 DEF EptInv, EptTypeOK
            <4> QED
                BY <1>5, <4>1 DEF EptInv, EptTypeOK, SplitMatchesDescriptors
        <3>2. ASSUME NEW m \in LargePages \ (DOMAIN descriptors \ {l})
              PROVE  pde'[m] = InitialPde[m]
            <4>1. CASE m = l
                BY <1>1, <1>5, <2>2, <4>1 DEF EptInv, EptTypeOK
            <4>2. CASE m # l
                BY <1>5, <4>2 DEF EptInv, EptTypeOK, SplitMatchesDescriptors
            <4> QED
                BY <4>1, <4>2
        <3>3. DOMAIN descriptors' = DOMAIN descriptors \ {l}
            BY <2>1
        <3> QED
            BY <3>1, <3>2, <3>3 DEF SplitMatchesDescriptors
    <2>5. LayoutsAreOwned'
        <3>1. /\ descriptors[l].layout # FirstTable
              /\ \A m \in DOMAIN descriptors \ {l} :
                     descriptors[m].layout # descriptors[l].layout
            BY <1>5 DEF EptInv, LayoutsAreOwned
        <3>2. {descriptors'[m].layout : m \in DOMAIN descriptors'} =
                  {descriptors[m].layout : m \in DOMAIN descriptors \ {l}}
            BY <2>1
        <3>3. live = {FirstTable} \union {descriptors[m].layout : m \in DOMAIN descriptors}
            BY DEF EptInv, LayoutsAreOwned
        <3>4. live' = {FirstTable}
                         \union {descriptors[m].layout : m \in DOMAIN descriptors \ {l}}
            BY <1>5, <3>1, <3>3
        <3>5. live' = {FirstTable} \union {descriptors'[m].layout : m \in DOMAIN descriptors'}
            BY <3>2, <3>4
        <3> QED
            BY <2>1, <3>5 DEF EptInv, LayoutsAreOwned
    <2>6. HandlerPteLive'
        BY <2>1 DEF HandlerPteLive
    <2> QED
        BY <2>3, <2>4, <2>5, <2>6 DEF EptInv
<1> QED
    BY <1>4, <1>5 DEF DeinterceptPage

\* The destructor puts every large page back together and frees every layout.
LEMMA DestroyInv ==
    ASSUME EptInv, Destroy
    PROVE  EptInv'
<1>1. pde' = InitialPde
    BY InitialPdeTyped DEF Destroy, EptInv, EptTypeOK, SplitMatchesDescriptors
<1>2. live' = {FirstTable}
    BY DEF Destroy, EptInv, LayoutsAreOwned
<1>3. descriptors' = EmptyMap /\ handlers' = EmptyMap /\ tables' = tables
    BY DEF Destroy
<1>4. pending' \in Pending
    <2>1. NotPresent \in Pte
        BY EptAssumption DEF NotPresent, Pte, Frame
    <2> QED
        BY <2>1 DEF Destroy, Pending, NoPending
<1>5. EptTypeOK'
    BY <1>1, <1>2, <1>3, <1>4, InitialPdeTyped, EptAssumption
       DEF EptInv, EptTypeOK, EmptyMap
<1>6. SplitMatchesDescriptors' /\ LayoutsAreOwned' /\ HandlerPteLive'
    BY <1>1, <1>2, <1>3
       DEF SplitMatchesDescriptors, LayoutsAreOwned, HandlerPteLive, EmptyMap
<1> QED
    BY <1>5, <1>6 DEF EptInv

LEMMA NextInv ==
    ASSUME EptInv, [EptNext]_eptVars
    PROVE  EptInv'
<1>1. CASE UNCHANGED eptVars
    BY <1>1 DEF eptVars, EptInv, EptTypeOK, SplitMatchesDescriptors, LayoutsAreOwned,
                HandlerPteLive
<1>2. ASSUME NEW p \in HookPages, NEW h \in Hooks, InterceptPage(p, h)
      PROVE  EptInv'
    BY <1>2, InterceptAgainInv, InterceptWholeInv, InterceptSplitInv DEF InterceptPage
<1>3. ASSUME NEW p \in HookPages, DeinterceptPage(p)
      PROVE  EptInv'
    BY <1>3, DeinterceptInv
<1>4. ASSUME NEW p \in HookPages, HandleRead(p) \/ HandleExecute(p)
      PROVE  EptInv'
    <2>1. p \in DOMAIN handlers
        BY <1>4 DEF HandleRead, HandleExecute, Handles
    <2>2. handlers[p].views.OnRead \in Pte /\ handlers[p].views.OnExecute \in Pte
        BY <2>1, HandlerTyped DEF EptInv
    <2> QED
        BY <1>4, <2>1, <2>2, ShowViewInv DEF HandleRead, HandleExecute
<1>5. ASSUME NEW p \in HookPages, NEW next \in Rips,
             \/ HandleWrite(p, next)
             \/ HandleExecuteRead(p, next)
             \/ HandleExecuteWrite(p, next)
      PROVE  EptInv'
    <2>1. p \in DOMAIN handlers
        BY <1>5 DEF HandleWrite, HandleExecuteRead, HandleExecuteWrite, Handles
    <2>2. /\ handlers[p].views.OnWrite \in Pte
          /\ handlers[p].views.OnExecuteRead \in Pte
          /\ handlers[p].views.OnExecuteWrite \in Pte
        BY <2>1, HandlerTyped DEF EptInv
    <2> QED
        BY <1>5, <2>1, <2>2, ShowViewOnceInv
           DEF HandleWrite, HandleExecuteRead, HandleExecuteWrite
<1>6. ASSUME NEW r \in Rips, CompletePendingHandler(r)
      PROVE  EptInv'
    BY <1>6, CompleteInv
<1>7. CASE Destroy
    BY <1>7, DestroyInv
<1> QED
    BY <1>1, <1>2, <1>3, <1>4, <1>5, <1>6, <1>7 DEF EptNext
-----------------------------------------------------------------------------
(***************************************************************************)
(* The theorems.                                                           *)
(***************************************************************************)

\* The parts of EptInv keep each other under every operation of the interceptor.
THEOREM Invariance == EptSpec => []EptInv
<1>1. EptInv /\ [EptNext]_eptVars => EptInv'
    BY NextInv
<1> QED
    BY <1>1, InitInv, PTL DEF EptSpec

\* The values of the interceptor's variables always have their types.
THEOREM TypeCorrect == EptSpec => []EptTypeOK
<1>1. EptInv => EptTypeOK
    BY DEF EptInv
<1> QED
    BY <1>1, Invariance, PTL

\* Whatever was intercepted and deintercepted before, a large page without a
\* descriptor has the entry InitializeEptTables gave it, and one with a
\* descriptor will get it back.
THEOREM SplitIsReversible == EptSpec => []SplitMatchesDescriptors
<1>1. EptInv => SplitMatchesDescriptors
    BY DEF EptInv
<1> QED
    BY <1>1, Invariance, PTL

\* No layout is lost, shared by two large pages, or freed twice.
THEOREM NoLayoutLost == EptSpec => []LayoutsAreOwned
<1>1. EptInv => LayoutsAreOwned
    BY DEF EptInv
<1> QED
    BY <1>1, Invariance, PTL

\* No handler ever writes through a pointer into a released layout, or into
\* the entry of another page.
THEOREM NoDanglingHandler == EptSpec => []HandlerPteLive
<1>1. EptInv => HandlerPteLive
    BY DEF EptInv
<1> QED
    BY <1>1, Invariance, PTL
-----------------------------------------------------------------------------
(***************************************************************************)
(* Theorems about the views, for hooks that avoid what BuildPageHandler    *)
(* cannot express.  Both rest on where the views of a handler come from.   *)
(***************************************************************************)

\* After a step the views of a handler are its old ones, or were made by
\* BuildPageHandler with the old read view's type or the original entry's.
LEMMA OriginOfViews ==
    ASSUME EptInv, [EptNext]_eptVars, NEW p \in DOMAIN handlers'
    PROVE  \/ p \in DOMAIN handlers /\ handlers'[p].views = handlers[p].views
           \/ /\ p \in DOMAIN handlers
              /\ \E h \in Hooks : handlers'[p].views =
                     BuildPageHandler(handlers[p].views.OnRead.type, h)
           \/ /\ p \in HookPages
              /\ \E h \in Hooks : handlers'[p].views =
                     BuildPageHandler(Page2MbType(InitialPde[p[1]]), h)
<1> DEFINE Same == p \in DOMAIN handlers /\ handlers'[p].views = handlers[p].views
           Again == /\ p \in DOMAIN handlers
                    /\ \E h \in Hooks : handlers'[p].views =
                           BuildPageHandler(handlers[p].views.OnRead.type, h)
           New == /\ p \in HookPages
                  /\ \E h \in Hooks : handlers'[p].views =
                         BuildPageHandler(Page2MbType(InitialPde[p[1]]), h)
<1> SUFFICES Same \/ Again \/ New
    OBVIOUS
<1>1. ASSUME NEW q \in HookPages, NEW h \in Hooks, InterceptAgain(q, h)
      PROVE  Same \/ Again
    <2>1. handlers[q] \in Handler /\ q \in DOMAIN handlers
        BY <1>1, HandlerTyped DEF EptInv, InterceptAgain
    <2>2. handlers' = [handlers EXCEPT ![q].views =
                          BuildPageHandler(handlers[q].views.OnRead.type, h)]
        BY <1>1 DEF InterceptAgain
    <2>3. CASE q = p
        <3>1. handlers'[p].views = BuildPageHandler(handlers[p].views.OnRead.type, h)
            BY <2>1, <2>2, <2>3 DEF Handler
        <3> QED
            BY <2>1, <2>3, <3>1
    <2>4. CASE q # p
        BY <2>2, <2>4
    <2> QED
        BY <2>3, <2>4
<1>2. ASSUME NEW q \in HookPages, NEW h \in Hooks, NEW t \in Tables,
             InterceptWhole(q, h, t)
      PROVE  Same \/ New
    <2> DEFINE views == BuildPageHandler(Page2MbType(pde[q[1]]), h)
    <2>1. pde[q[1]] = InitialPde[q[1]]
        BY <1>2, EptAssumption DEF EptInv, SplitMatchesDescriptors, InterceptWhole, Page
    <2>2. q \notin DOMAIN handlers
        BY <1>2 DEF InterceptWhole
    <2> HIDE DEF views
    <2>3. handlers' = Emplace(handlers, q, [pte |-> <<t, q[2]>>, views |-> views])
        BY <1>2 DEF InterceptWhole, views
    <2>4. CASE q = p
        BY <2>1, <2>2, <2>3, <2>4 DEF Emplace, views
    <2>5. CASE q # p
        BY <2>3, <2>5 DEF Emplace
    <2> QED
        BY <2>4, <2>5
<1>3. ASSUME NEW q \in HookPages, NEW h \in Hooks, InterceptSplit(q, h)
      PROVE  Same \/ New
    <2> DEFINE views == BuildPageHandler(Page2MbType(descriptors[q[1]].original), h)
               pte == <<descriptors[q[1]].layout, q[2]>>
    <2>1. descriptors[q[1]].original = InitialPde[q[1]]
        BY <1>3 DEF EptInv, SplitMatchesDescriptors, InterceptSplit
    <2>2. q \notin DOMAIN handlers
        BY <1>3 DEF InterceptSplit
    <2> HIDE DEF views, pte
    <2>3. handlers' = Emplace(handlers, q, [pte |-> pte, views |-> views])
        BY <1>3 DEF InterceptSplit, views, pte
    <2>4. CASE q = p
        BY <2>1, <2>2, <2>3, <2>4 DEF Emplace, views
    <2>5. CASE q # p
        BY <2>3, <2>5 DEF Emplace
    <2> QED
        BY <2>4, <2>5
<1>4. ASSUME NEW q \in HookPages, DeinterceptPage(q)
      PROVE  Same
    BY <1>4 DEF DeinterceptPage, Restrict
<1>5. CASE UNCHANGED handlers
    BY <1>5
<1>6. CASE Destroy
    BY <1>6 DEF Destroy, EmptyMap
<1> QED
    BY <1>1, <1>2, <1>3, <1>4, <1>5, <1>6
       DEF EptNext, eptVars, InterceptPage, HandleRead, HandleExecute, HandleWrite,
           HandleExecuteRead, HandleExecuteWrite, ShowView, ShowViewOnce,
           CompletePendingHandler

\* EPT misconfigurations come only from hooks that write and execute one frame
\* while reading another: the execute view they get cannot be read.
THEOREM ConfiguredHooks ==
    ASSUME \A h \in Hooks :
               h.execute # Null /\ h.write = h.execute => h.read = h.execute
    PROVE  EptSpec => []NoMisconfiguredView
<1> DEFINE names == {"OnRead", "OnWrite", "OnExecute", "OnExecuteRead", "OnExecuteWrite"}
           Configured(views) == \A name \in names : views[name].write => views[name].read
           Inv == \A p \in DOMAIN handlers : Configured(handlers[p].views)
<1>1. EptInit => Inv
    BY DEF EptInit, EmptyMap
<1>2. ASSUME EptInv, Inv, [EptNext]_eptVars
      PROVE  Inv'
    <2>1. \A t \in Types : \A h \in Hooks : Configured(BuildPageHandler(t, h))
        BY ViewsConfigured, EptAssumption
    <2>2. \A p \in DOMAIN handlers : handlers[p].views.OnRead.type \in Types
        BY <1>2, HandlerTyped DEF EptInv, Pte
    <2>3. \A p \in HookPages : Page2MbType(InitialPde[p[1]]) \in Types
        BY InitialPdeTyped, LayoutTyped, EptAssumption DEF Page
    <2> HIDE DEF Configured
    <2>4. ASSUME NEW p \in DOMAIN handlers'
          PROVE  Configured(handlers'[p].views)
        BY <1>2, <2>1, <2>2, <2>3, OriginOfViews
    <2> QED
        BY <2>4 DEF Configured
<1>3. EptInv /\ Inv => NoMisconfiguredView
    <2> SUFFICES ASSUME EptInv, Inv, NEW p \in DOMAIN handlers,
                        NEW name \in DOMAIN handlers[p].views
                 PROVE  handlers[p].views[name].write => handlers[p].views[name].read
        BY DEF NoMisconfiguredView
    <2>1. DOMAIN handlers[p].views = names
        BY HandlerTyped DEF EptInv, Views
    <2> QED
        BY <2>1
<1> QED
    BY <1>1, <1>2, <1>3, Invariance, PTL DEF EptSpec

\* The memory type of a page's views is wrong only for a page of the first
\* large page, or since the page was intercepted again without a read view,
\* for any hooks, Trace::EnableOn's included.
THEOREM CacheTypeCarried == EptSpec => CacheTypeKept
<1> DEFINE names == {"OnRead", "OnWrite", "OnExecute", "OnExecuteRead", "OnExecuteWrite"}
           Right(views, t) == \A name \in names :
                                  views[name] # NotPresent => views[name].type = t
           Kept(p) == p[1] # FirstLargePage /\ ~TypesAreRight(p)' =>
                          /\ p \in DOMAIN handlers
                          /\ TypesAreRight(p) => handlers[p].views.OnRead = NotPresent
<1>1. ASSUME NEW t \in Types, NEW h \in Hooks
      PROVE  Right(BuildPageHandler(t, h), t)
    <2>1. ASSUME NEW pa, NEW r \in BOOLEAN, NEW w \in BOOLEAN, NEW x \in BOOLEAN
          PROVE  View(pa, r, w, x, t) # NotPresent => View(pa, r, w, x, t).type = t
        BY DEF View
    <2> DEFINE v == BuildPageHandler(t, h)
    <2>2. v.OnRead # NotPresent => v.OnRead.type = t
        BY <2>1 DEF BuildPageHandler
    <2>3. v.OnWrite # NotPresent => v.OnWrite.type = t
        BY <2>1 DEF BuildPageHandler
    <2>4. v.OnExecute # NotPresent => v.OnExecute.type = t
        BY <2>1 DEF BuildPageHandler
    <2>5. v.OnExecuteRead # NotPresent => v.OnExecuteRead.type = t
        BY <2>1 DEF BuildPageHandler
    <2>6. v.OnExecuteWrite # NotPresent => v.OnExecuteWrite.type = t
        BY <2>1 DEF BuildPageHandler
    <2> QED
        BY <2>2, <2>3, <2>4, <2>5, <2>6
<1>2. ASSUME EptInv, NEW p \in DOMAIN handlers
      PROVE  /\ TypesAreRight(p) <=> Right(handlers[p].views, TypeOf[p[1]])
             /\ handlers[p].views.OnRead.type \in Types
             /\ TypesAreRight(p) /\ handlers[p].views.OnRead # NotPresent =>
                    handlers[p].views.OnRead.type = TypeOf[p[1]]
    <2>1. DOMAIN handlers[p].views = names
        BY <1>2, HandlerTyped DEF EptInv, Views
    <2>2. handlers[p].views.OnRead.type \in Types
        BY <1>2, HandlerTyped DEF EptInv, Pte
    <2> QED
        BY <2>1, <2>2 DEF TypesAreRight
<1> HIDE DEF Right
<1>3. ASSUME EptInv, [EptNext]_eptVars, NEW p \in DOMAIN handlers'
      PROVE  Kept(p)
    <2> SUFFICES ASSUME p[1] # FirstLargePage, ~TypesAreRight(p)'
                 PROVE  /\ p \in DOMAIN handlers
                        /\ TypesAreRight(p) => handlers[p].views.OnRead = NotPresent
        OBVIOUS
    <2>1. EptInv'
        BY <1>3, NextInv
    <2>2. ~Right(handlers'[p].views, TypeOf[p[1]])
        <3>1. TypesAreRight(p)' <=> \A name \in DOMAIN handlers'[p].views :
                  handlers'[p].views[name] # NotPresent =>
                      handlers'[p].views[name].type = TypeOf[p[1]]
            BY DEF TypesAreRight
        <3>2. DOMAIN handlers'[p].views = names
            <4>1. handlers' \in [DOMAIN handlers' -> Handler]
                BY <2>1 DEF EptInv, EptTypeOK
            <4>2. handlers'[p].views \in Views
                BY <4>1, <1>3 DEF Handler
            <4> QED
                BY <4>2 DEF Views
        <3> QED
            BY <3>1, <3>2 DEF Right
    <2>3. CASE p \in DOMAIN handlers /\ handlers'[p].views = handlers[p].views
        BY <1>2, <1>3, <2>2, <2>3
    <2>4. CASE /\ p \in DOMAIN handlers
               /\ \E h \in Hooks : handlers'[p].views =
                      BuildPageHandler(handlers[p].views.OnRead.type, h)
        BY <1>1, <1>2, <1>3, <2>2, <2>4
    <2>5. CASE /\ p \in HookPages
               /\ \E h \in Hooks : handlers'[p].views =
                      BuildPageHandler(Page2MbType(InitialPde[p[1]]), h)
        <3>1. /\ Page2MbType(InitialPde[p[1]]) = TypeOf[p[1]]
              /\ Page2MbType(InitialPde[p[1]]) \in Types
            BY <2>5, EptAssumption DEF Page, InitialPde, LargePde, Page2MbType
        <3> QED
            BY <1>1, <2>2, <2>5, <3>1
    <2> QED
        BY <1>3, <2>3, <2>4, <2>5, OriginOfViews
<1>4. ASSUME EptInv, [EptNext]_eptVars
      PROVE  [\A p \in DOMAIN handlers' : Kept(p)]_eptVars
    BY <1>3, <1>4
<1> QED
    BY <1>4, Invariance, PTL DEF EptSpec, CacheTypeKept

-----------------------------------------------------------------------------
(***************************************************************************)
(* The processor with its guest.                                           *)
(***************************************************************************)
\* The inductive invariant: the types of the guest's variables, and what the
\* interceptor's operations need to know of its own state.
GuestInv == EptInv /\ GuestTypeOK

-----------------------------------------------------------------------------
LEMMA DeliverEventType ==
    ASSUME GuestTypeOK, DeliverEvent
    PROVE  GuestTypeOK' /\ UNCHANGED eptVars
    BY DEF GuestTypeOK, DeliverEvent

\* What EptViolationHandler does, whichever access failed: one operation of
\* the interceptor and perhaps a single step, or a #GP.
LEMMA EptViolationStep ==
    ASSUME GuestInv, NEW p \in Page, EptViolation(p)
    PROVE  GuestTypeOK' /\ [EptNext]_eptVars
<1>1. NextRip[rip] \in Rips /\ DOMAIN handlers \subseteq HookPages
    BY GuestAssumption DEF GuestInv, GuestTypeOK, EptInv, EptTypeOK
<1>2. CASE InjectGeneralProtection
    BY <1>2, DeliverEventType DEF InjectGeneralProtection, GuestInv
<1>3. SingleStep \/ UNCHANGED guestVars => GuestTypeOK'
    BY DEF SingleStep, guestVars, GuestInv, GuestTypeOK
<1>4. CASE HandleExecute(p) /\ UNCHANGED guestVars
    BY <1>1, <1>3, <1>4 DEF HandleExecute, Handles, EptNext
<1>5. CASE HandleExecuteRead(p, NextRip[rip]) /\ SingleStep
    BY <1>1, <1>3, <1>5 DEF HandleExecuteRead, Handles, EptNext
<1>6. CASE HandleRead(p) /\ UNCHANGED guestVars
    BY <1>1, <1>3, <1>6 DEF HandleRead, Handles, EptNext
<1>7. CASE HandleExecuteWrite(p, NextRip[rip]) /\ SingleStep
    BY <1>1, <1>3, <1>7 DEF HandleExecuteWrite, Handles, EptNext
<1>8. CASE HandleWrite(p, NextRip[rip]) /\ SingleStep
    BY <1>1, <1>3, <1>8 DEF HandleWrite, Handles, EptNext
<1> QED
    BY <1>2, <1>4, <1>5, <1>6, <1>7, <1>8
       DEF EptViolation, FetchViolation, OwnReadViolation, ReadViolation,
           OwnWriteViolation, WriteViolation

\* Every step of the processor is a step of the interceptor, or leaves it alone.
LEMMA StepUsesInterceptor ==
    ASSUME GuestInv, [Next]_vars
    PROVE  GuestTypeOK' /\ [EptNext]_eptVars
<1> USE DEF GuestInv
<1>1. ASSUME NEW i \in Instructions, Start(i)
      PROVE  GuestTypeOK' /\ UNCHANGED eptVars
    BY <1>1 DEF Start, GuestTypeOK
<1>2. CASE Retire
    <2>1. rip' \in Rips
        BY <1>2, GuestAssumption DEF Retire, GuestTypeOK
    <2> QED
        BY <1>2, <2>1 DEF Retire, GuestTypeOK
<1>3. ASSUME NEW p \in Page, EptViolation(p)
      PROVE  GuestTypeOK' /\ [EptNext]_eptVars
    BY <1>3, EptViolationStep
<1>4. CASE MonitorTrap
    <2>1. GuestTypeOK'
        BY <1>4 DEF MonitorTrap, GuestTypeOK
    <2>2. CompletePendingHandler(rip) => EptNext
        BY DEF EptNext, GuestTypeOK
    <2> QED
        BY <1>4, <2>1, <2>2 DEF MonitorTrap
<1>5. CASE Interrupt \/ Divert
    BY <1>5, DeliverEventType DEF Interrupt, Divert
<1>6. CASE MtfEnable
    BY <1>6 DEF MtfEnable, GuestTypeOK
<1>7. CASE Vmcall
    <2>1. GuestTypeOK'
        BY <1>7 DEF Vmcall, guestVars, GuestTypeOK
    <2>2. EptNext
        BY <1>7 DEF Vmcall, EptNext
    <2> QED
        BY <2>1, <2>2
<1>8. CASE UNCHANGED vars
    BY <1>8 DEF vars, guestVars, GuestTypeOK
<1> QED
    BY <1>1, <1>2, <1>3, <1>4, <1>5, <1>6, <1>7, <1>8 DEF Next, Processor

LEMMA GuestInitInv == GuestInit => GuestInv
    BY InitInv DEF GuestInit, GuestInv, GuestTypeOK

LEMMA GuestNextInv == GuestInv /\ [Next]_vars => GuestInv'
    BY StepUsesInterceptor, NextInv DEF GuestInv

-----------------------------------------------------------------------------
\* And on a processor, whose exit handlers perform only those operations.
THEOREM GuestInvariance == Spec => []GuestInv
    BY GuestInitInv, GuestNextInv, PTL DEF Spec

\* The values of the guest's variables always have their types.
THEOREM GuestTypeCorrect == Spec => []GuestTypeOK
<1>1. GuestInv => GuestTypeOK
    BY DEF GuestInv
<1> QED
    BY <1>1, GuestInvariance, PTL

\* The processor implements the interceptor's specification: EptViolationHandler,
\* MonitorTrapFlagHandler and the VMCALLs drive it through its operations, and
\* the guest's own steps do not touch it.
THEOREM GuestImplementsInterceptor == Spec => EptSpec
<1>1. GuestInit => EptInit
    BY DEF GuestInit
<1>2. GuestInv /\ [Next]_vars => [EptNext]_eptVars
    BY StepUsesInterceptor
<1> QED
    BY <1>1, <1>2, GuestInvariance, PTL DEF Spec, EptSpec

\* On a running processor, too, no handler's pointer leaves its page's entry.
THEOREM GuestNoDanglingHandler == Spec => []HandlerPteLive
    BY GuestImplementsInterceptor, NoDanglingHandler, PTL
-----------------------------------------------------------------------------
(***************************************************************************)
(* The raw pointer MonitorTrapFlagHandler writes through.                  *)
(*                                                                         *)
(* A single step lies between two instructions the client could use to     *)
(* deintercept: while it is in progress the saved pointer is that of a     *)
(* handler that still exists.  Tracing breaks this, since its steps go on  *)
(* across VMCALLs.                                                         *)
(***************************************************************************)
PendingPteLive == \E p \in DOMAIN handlers : handlers[p].pte = pending.pte

StepInv ==
    /\ trap => mtf
    /\ mtf => (current # Null \/ trap) /\ PendingPteLive

LEMMA EptViolationStepInv ==
    ASSUME GuestInv, StepInv, NEW p \in Page, EptViolation(p)
    PROVE  StepInv'
<1> USE DEF StepInv
<1>1. current # Null
    BY DEF EptViolation
<1>2. CASE InjectGeneralProtection
    BY <1>1, <1>2 DEF InjectGeneralProtection, DeliverEvent, eptVars, PendingPteLive
<1>3. ASSUME NEW view, ShowView(p, view), UNCHANGED guestVars
      PROVE  StepInv'
    BY <1>3 DEF ShowView, guestVars, PendingPteLive
<1>4. ASSUME NEW view, NEW next, p \in DOMAIN handlers,
             ShowViewOnce(p, view, next), SingleStep
      PROVE  StepInv'
    <2>1. handlers' = handlers /\ pending'.pte = handlers[p].pte
        BY <1>4 DEF ShowViewOnce
    <2>2. PendingPteLive'
        BY <1>4, <2>1 DEF PendingPteLive
    <2> QED
        BY <1>1, <1>4, <2>2 DEF SingleStep
<1> QED
    BY <1>2, <1>3, <1>4
       DEF EptViolation, FetchViolation, OwnReadViolation, ReadViolation,
           OwnWriteViolation, WriteViolation, HandleRead, HandleExecute, HandleWrite,
           HandleExecuteRead, HandleExecuteWrite, Handles

LEMMA StepInvKept ==
    ASSUME TRUE \notin Traced, GuestInv, StepInv, [Next]_vars
    PROVE  StepInv'
<1> USE DEF StepInv
<1>1. ASSUME NEW i \in Instructions, Start(i)
      PROVE  StepInv'
    BY <1>1 DEF Start, Boundary, eptVars, PendingPteLive
<1>2. CASE Retire
    BY <1>2 DEF Retire, eptVars, PendingPteLive
<1>3. ASSUME NEW p \in Page, EptViolation(p)
      PROVE  StepInv'
    BY <1>3, EptViolationStepInv
<1>4. CASE MonitorTrap
    BY <1>4, GuestAssumption DEF MonitorTrap
<1>5. CASE Interrupt \/ Divert
    BY <1>5 DEF Interrupt, Divert, DeliverEvent, eptVars, PendingPteLive
<1>6. ~MtfEnable
    BY DEF MtfEnable
<1>7. CASE Vmcall
    BY <1>7 DEF Vmcall, Boundary, guestVars
<1>8. CASE UNCHANGED vars
    BY <1>8 DEF vars, guestVars, eptVars, PendingPteLive
<1> QED
    BY <1>1, <1>2, <1>3, <1>4, <1>5, <1>6, <1>7, <1>8 DEF Next, Processor

\* Without tracing, a restore writes into the entry of an intercepted page,
\* never into a released layout or the entry of a page given back.
THEOREM RestoreIsSafe ==
    ASSUME TRUE \notin Traced
    PROVE  Spec => []RestoreHitsAHandler
<1>1. GuestInit => StepInv
    BY DEF GuestInit, StepInv
<1>2. GuestInv /\ StepInv /\ [Next]_vars => StepInv'
    BY StepInvKept
<1>3. StepInv => RestoreHitsAHandler
    BY DEF StepInv, RestoreHitsAHandler, PendingPteLive
<1> QED
    BY <1>1, <1>2, <1>3, GuestInvariance, PTL DEF Spec
-----------------------------------------------------------------------------
(***************************************************************************)
(* What the entries of the intercepted pages show.                         *)
(***************************************************************************)

\* The pointers of two handlers are never the same.
LEMMA SlotsApart ==
    ASSUME EptInv, NEW p \in DOMAIN handlers, NEW q \in DOMAIN handlers, p # q
    PROVE  handlers[p].pte # handlers[q].pte
<1>1. p \in Page /\ q \in Page
    BY HandlerTyped DEF EptInv
<1>2. p[1] # q[1] \/ p[2] # q[2]
    BY <1>1 DEF Page
<1> QED
    BY <1>2 DEF EptInv, HandlerPteLive, LayoutsAreOwned

\* The entry of an intercepted page is the one that translates it.
LEMMA ShownTranslates ==
    ASSUME EptInv, NEW p \in DOMAIN handlers
    PROVE  Translate(p) = Shown(p)
<1>1. /\ pde[p[1]] = TablePde(descriptors[p[1]].layout)
      /\ handlers[p].pte = <<descriptors[p[1]].layout, p[2]>>
    BY DEF EptInv, HandlerPteLive, SplitMatchesDescriptors
<1>2. pde[p[1]].large = FALSE /\ pde[p[1]].table = descriptors[p[1]].layout
    BY <1>1 DEF TablePde
<1> QED
    BY <1>1, <1>2 DEF Translate, Shown

\* A write through a handler's pointer changes what its page shows and
\* nothing that another page shows.
LEMMA EntryWritten ==
    ASSUME EptInv, NEW p \in DOMAIN handlers, NEW e \in Pte,
           tables' = WritePte(handlers[p].pte, e), handlers' = handlers
    PROVE  /\ Shown(p)' = e
           /\ \A q \in DOMAIN handlers \ {p} : Shown(q)' = Shown(q)
<1>1. \A q \in DOMAIN handlers : handlers[q].pte \in Slot
    BY HandlerTyped DEF EptInv
<1>2. tables \in [Tables -> [Index -> Pte]]
    BY DEF EptInv, EptTypeOK
<1>3. Shown(p)' = e
    BY <1>1, <1>2 DEF WritePte, Slot, Shown
<1>4. ASSUME NEW q \in DOMAIN handlers \ {p}
      PROVE  Shown(q)' = Shown(q)
    <2>1. handlers[p].pte[1] # handlers[q].pte[1] \/ handlers[p].pte[2] # handlers[q].pte[2]
        BY <1>1, SlotsApart DEF Slot
    <2> QED
        BY <1>1, <1>2, <2>1 DEF WritePte, Slot, Shown
<1> QED
    BY <1>3, <1>4

\* After a request of the client an intercepted page shows what it showed, or
\* its read view.
LEMMA RequestShows ==
    ASSUME EptInv, NEW p \in HookPages,
           DeinterceptPage(p) \/ \E h \in Hooks : InterceptPage(p, h),
           NEW q \in DOMAIN handlers'
    PROVE  \/ q \in DOMAIN handlers /\ handlers'[q] = handlers[q] /\ Shown(q)' = Shown(q)
           \/ Shown(q)' = handlers'[q].views.OnRead
<1> DEFINE Same == q \in DOMAIN handlers /\ handlers'[q] = handlers[q] /\ Shown(q)' = Shown(q)
           Fresh == Shown(q)' = handlers'[q].views.OnRead
<1> SUFFICES Same \/ Fresh
    OBVIOUS
<1>1. tables \in [Tables -> [Index -> Pte]]
    BY DEF EptInv, EptTypeOK
<1>2. p \in Page /\ p[1] \in LargePages /\ p[2] \in Index
    BY EptAssumption DEF Page
<1>3. \A r \in DOMAIN handlers : handlers[r].pte \in Slot /\ handlers[r] \in Handler
    BY HandlerTyped DEF EptInv
<1>4. CASE DeinterceptPage(p)
    BY <1>4 DEF DeinterceptPage, Restrict, Shown
<1>5. ASSUME NEW h \in Hooks, InterceptAgain(p, h)
      PROVE  Same \/ Fresh
    <2> DEFINE views == BuildPageHandler(handlers[p].views.OnRead.type, h)
    <2>1. p \in DOMAIN handlers
        BY <1>5 DEF InterceptAgain
    <2> HIDE DEF views
    <2>2. /\ handlers' = [handlers EXCEPT ![p].views = views]
          /\ tables' = WritePte(handlers[p].pte, views.OnRead)
        BY <1>5 DEF InterceptAgain, views
    <2>3. handlers'[p].pte = handlers[p].pte /\ handlers'[p].views = views
        BY <1>3, <2>1, <2>2 DEF Handler
    <2>4. CASE q = p
        BY <1>1, <1>3, <2>1, <2>2, <2>3, <2>4 DEF WritePte, Slot, Shown
    <2>5. CASE q # p
        <3>1. q \in DOMAIN handlers /\ handlers'[q] = handlers[q]
            BY <2>2, <2>5
        <3>2. handlers[p].pte[1] # handlers[q].pte[1] \/ handlers[p].pte[2] # handlers[q].pte[2]
            BY <1>3, <2>1, <2>5, <3>1, SlotsApart DEF Slot
        <3> QED
            BY <1>1, <1>3, <2>1, <2>2, <3>1, <3>2 DEF WritePte, Slot, Shown
    <2> QED
        BY <2>4, <2>5
<1>6. ASSUME NEW h \in Hooks, NEW t \in Tables, InterceptWhole(p, h, t)
      PROVE  Same \/ Fresh
    <2> DEFINE views == BuildPageHandler(Page2MbType(pde[p[1]]), h)
               layout == BuildPtesForPde(pde[p[1]])
    <2>1. DOMAIN layout = Index
        BY DEF BuildPtesForPde
    <2> HIDE DEF views, layout
    <2>2. /\ t \notin live /\ p \notin DOMAIN handlers
          /\ handlers' = Emplace(handlers, p, [pte |-> <<t, p[2]>>, views |-> views])
          /\ tables' = [tables EXCEPT ![t] = [layout EXCEPT ![p[2]] = views.OnRead]]
        BY <1>6 DEF InterceptWhole, views, layout
    <2>3. CASE q = p
        BY <1>1, <1>2, <2>1, <2>2, <2>3 DEF Emplace, Shown
    <2>4. CASE q # p
        <3>1. q \in DOMAIN handlers /\ handlers'[q] = handlers[q]
            BY <2>2, <2>4 DEF Emplace
        <3>2. handlers[q].pte[1] # t
            BY <2>2, <3>1 DEF EptInv, HandlerPteLive, LayoutsAreOwned
        <3> QED
            BY <1>1, <2>2, <3>1, <3>2 DEF Shown
    <2> QED
        BY <2>3, <2>4
<1>7. ASSUME NEW h \in Hooks, InterceptSplit(p, h)
      PROVE  Same \/ Fresh
    <2> DEFINE slot == <<descriptors[p[1]].layout, p[2]>>
               views == BuildPageHandler(Page2MbType(descriptors[p[1]].original), h)
    <2>1. slot \in Slot
        BY <1>2, <1>7 DEF InterceptSplit, EptInv, EptTypeOK, Descriptor, Slot
    <2>2. \A r \in DOMAIN handlers : r # p => handlers[r].pte # slot
        <3> SUFFICES ASSUME NEW r \in DOMAIN handlers, r # p
                     PROVE  handlers[r].pte # slot
            OBVIOUS
        <3>1. r[1] # p[1] \/ r[2] # p[2]
            BY <1>2, HandlerTyped DEF EptInv, Page
        <3> QED
            BY <1>7, <3>1 DEF InterceptSplit, EptInv, HandlerPteLive, LayoutsAreOwned
    <2> HIDE DEF slot, views
    <2>3. /\ p \notin DOMAIN handlers
          /\ handlers' = Emplace(handlers, p, [pte |-> slot, views |-> views])
          /\ tables' = WritePte(slot, views.OnRead)
        BY <1>7 DEF InterceptSplit, slot, views
    <2>4. CASE q = p
        BY <1>1, <2>1, <2>3, <2>4 DEF Emplace, WritePte, Slot, Shown
    <2>5. CASE q # p
        <3>1. q \in DOMAIN handlers /\ handlers'[q] = handlers[q]
            BY <2>3, <2>5 DEF Emplace
        <3>2. handlers[q].pte[1] # slot[1] \/ handlers[q].pte[2] # slot[2]
            BY <1>3, <2>1, <2>2, <2>5, <3>1 DEF Slot
        <3> QED
            BY <1>1, <1>3, <2>1, <2>3, <3>1, <3>2 DEF WritePte, Slot, Shown
    <2> QED
        BY <2>4, <2>5
<1> QED
    BY <1>4, <1>5, <1>6, <1>7 DEF InterceptPage

-----------------------------------------------------------------------------
\* Without tracing nothing is stepped over a request, so that the entry the
\* single step saved is a view of the handler it was saved from.
SavedIsAView ==
    \E p \in DOMAIN handlers :
        /\ handlers[p].pte = pending.pte
        /\ \E name \in DOMAIN handlers[p].views : pending.prev = handlers[p].views[name]

ViewInv == StepInv /\ ShownIsAView /\ (mtf => SavedIsAView)

\* The five views of a handler.
LEMMA ViewNames ==
    ASSUME EptInv, NEW p \in DOMAIN handlers
    PROVE  DOMAIN handlers[p].views =
               {"OnRead", "OnWrite", "OnExecute", "OnExecuteRead", "OnExecuteWrite"}
    BY HandlerTyped DEF EptInv, Views

\* Writing a view of a page into the page's entry.
LEMMA ViewWritten ==
    ASSUME EptInv, ShownIsAView, NEW p \in DOMAIN handlers,
           NEW name \in DOMAIN handlers[p].views,
           tables' = WritePte(handlers[p].pte, handlers[p].views[name]),
           handlers' = handlers
    PROVE  ShownIsAView'
<1>1. handlers[p].views[name] \in Pte
    BY HandlerTyped, ViewNames DEF EptInv
<1>2. /\ Shown(p)' = handlers[p].views[name]
      /\ \A q \in DOMAIN handlers \ {p} : Shown(q)' = Shown(q)
    BY <1>1, EntryWritten
<1>3. ASSUME NEW q \in DOMAIN handlers
      PROVE  \E n \in DOMAIN handlers[q].views : Shown(q)' = handlers[q].views[n]
    BY <1>2 DEF ShownIsAView
<1> QED
    BY <1>3 DEF ShownIsAView

LEMMA EptViolationViewInv ==
    ASSUME GuestInv, ViewInv, NEW p \in Page, EptViolation(p)
    PROVE  ShownIsAView' /\ (mtf' => SavedIsAView')
<1> USE DEF ViewInv, GuestInv
<1> DEFINE names == {"OnRead", "OnWrite", "OnExecute", "OnExecuteRead", "OnExecuteWrite"}
<1>1. CASE InjectGeneralProtection
    <2>1. UNCHANGED eptVars /\ mtf' = mtf
        BY <1>1 DEF InjectGeneralProtection, DeliverEvent
    <2> QED
        BY <2>1 DEF eptVars, ShownIsAView, SavedIsAView, Shown
<1>2. ASSUME NEW name \in names, p \in DOMAIN handlers,
             ShowView(p, handlers[p].views[name]), UNCHANGED guestVars
      PROVE  ShownIsAView' /\ (mtf' => SavedIsAView')
    <2>1. /\ tables' = WritePte(handlers[p].pte, handlers[p].views[name])
          /\ handlers' = handlers /\ pending' = pending /\ mtf' = mtf
        BY <1>2 DEF ShowView, guestVars
    <2>2. ShownIsAView'
        BY <1>2, <2>1, ViewWritten, ViewNames
    <2>3. mtf' => SavedIsAView'
        BY <2>1 DEF SavedIsAView
    <2> QED
        BY <2>2, <2>3
<1>3. ASSUME NEW name \in names, p \in DOMAIN handlers, NEW next,
             ShowViewOnce(p, handlers[p].views[name], next)
      PROVE  ShownIsAView' /\ (mtf' => SavedIsAView')
    <2>1. /\ tables' = WritePte(handlers[p].pte, handlers[p].views[name])
          /\ handlers' = handlers
          /\ pending'.pte = handlers[p].pte /\ pending'.prev = Shown(p)
        BY <1>3 DEF ShowViewOnce, Shown
    <2>2. ShownIsAView'
        BY <1>3, <2>1, ViewWritten, ViewNames
    <2>3. PICK n \in DOMAIN handlers[p].views : Shown(p) = handlers[p].views[n]
        BY <1>3 DEF ShownIsAView
    <2>4. SavedIsAView'
        BY <1>3, <2>1, <2>3 DEF SavedIsAView
    <2> QED
        BY <2>2, <2>4
<1> QED
    BY <1>1, <1>2, <1>3
       DEF EptViolation, FetchViolation, OwnReadViolation, ReadViolation,
           OwnWriteViolation, WriteViolation, HandleRead, HandleExecute, HandleWrite,
           HandleExecuteRead, HandleExecuteWrite, Handles

LEMMA MonitorTrapViewInv ==
    ASSUME GuestInv, ViewInv, TRUE \notin Traced, MonitorTrap
    PROVE  ShownIsAView' /\ ~mtf'
<1>1. ~mtf'
    BY GuestAssumption DEF MonitorTrap
<1>2. CASE UNCHANGED eptVars
    <2>1. tables' = tables /\ handlers' = handlers
        BY <1>2 DEF eptVars
    <2>2. ShownIsAView
        BY DEF ViewInv
    <2>3. ShownIsAView'
        BY <2>1, <2>2 DEF ShownIsAView, Shown
    <2> QED
        BY <1>1, <2>3
<1>3. CASE CompletePendingHandler(rip)
    <2>1. SavedIsAView
        BY DEF MonitorTrap, ViewInv, StepInv
    <2>2. PICK p \in DOMAIN handlers :
              /\ handlers[p].pte = pending.pte
              /\ \E name \in DOMAIN handlers[p].views : pending.prev = handlers[p].views[name]
        BY <2>1 DEF SavedIsAView
    <2>3. PICK name \in DOMAIN handlers[p].views : pending.prev = handlers[p].views[name]
        BY <2>2
    <2>4. /\ tables' = WritePte(handlers[p].pte, handlers[p].views[name])
          /\ handlers' = handlers
        BY <1>3, <2>2, <2>3 DEF CompletePendingHandler
    <2> QED
        BY <1>1, <2>4, ViewWritten DEF GuestInv, ViewInv
<1> QED
    BY <1>1, <1>2, <1>3 DEF MonitorTrap

\* Without tracing, whatever the guest executes and the client asks, the entry
\* of an intercepted page is one of the five views the client asked for.
THEOREM OnlyViewsAreShown ==
    ASSUME TRUE \notin Traced
    PROVE  Spec => []ShownIsAView
<1>1. GuestInit => ViewInv
    BY DEF GuestInit, EptInit, EmptyMap, ViewInv, StepInv, ShownIsAView
<1>2. ASSUME GuestInv, ViewInv, [Next]_vars
      PROVE  ViewInv'
    <2>1. StepInv'
        BY <1>2, StepInvKept DEF ViewInv
    <2>2. CASE UNCHANGED eptVars /\ mtf' = mtf
        BY <1>2, <2>1, <2>2 DEF eptVars, ViewInv, ShownIsAView, SavedIsAView, Shown
    <2>3. ASSUME NEW p \in Page, EptViolation(p)
          PROVE  ViewInv'
        BY <1>2, <2>1, <2>3, EptViolationViewInv DEF ViewInv
    <2>4. CASE MonitorTrap
        BY <1>2, <2>1, <2>4, MonitorTrapViewInv DEF ViewInv
    <2>5. ~MtfEnable
        BY DEF MtfEnable
    <2>6. CASE Vmcall
        <3>1. ~mtf'
            BY <1>2, <2>6 DEF Vmcall, Boundary, ViewInv, StepInv, guestVars
        <3>2. PICK p \in HookPages :
                  DeinterceptPage(p) \/ \E h \in Hooks : InterceptPage(p, h)
            BY <2>6 DEF Vmcall
        <3>3. ASSUME NEW q \in DOMAIN handlers'
              PROVE  \E name \in DOMAIN handlers'[q].views :
                         Shown(q)' = handlers'[q].views[name]
            <4>1. GuestInv'
                BY <1>2, GuestNextInv
            <4>2. "OnRead" \in DOMAIN handlers'[q].views
                BY <4>1 DEF GuestInv, EptInv, EptTypeOK, Handler, Views
            <4> QED
                BY <1>2, <3>2, <4>2, RequestShows DEF GuestInv, ViewInv, ShownIsAView
        <3> QED
            BY <2>1, <3>1, <3>3 DEF ViewInv, ShownIsAView
    <2> QED
        BY <1>2, <2>2, <2>3, <2>4, <2>5, <2>6
           DEF Next, Processor, Start, Retire, Interrupt, Divert, DeliverEvent, vars, guestVars
<1>3. ViewInv => ShownIsAView
    BY DEF ViewInv
<1> QED
    BY <1>1, <1>2, <1>3, GuestInvariance, PTL DEF Spec
-----------------------------------------------------------------------------
(***************************************************************************)
(* The pages nobody intercepts.                                            *)
(***************************************************************************)

\* The block of 4 KB entries a large page refers to.
LEMMA TableOf ==
    ASSUME EptInv, NEW l \in LargePages, ~pde[l].large
    PROVE  /\ l \in DOMAIN descriptors => pde[l].table = descriptors[l].layout
           /\ l \notin DOMAIN descriptors => pde[l].table = FirstTable
           /\ pde[l].table \in live
<1>1. CASE l \in DOMAIN descriptors
    <2>1. pde[l] = TablePde(descriptors[l].layout)
        BY <1>1 DEF EptInv, SplitMatchesDescriptors
    <2>2. pde[l].table = descriptors[l].layout
        BY <2>1 DEF TablePde
    <2> QED
        BY <1>1, <2>2 DEF EptInv, LayoutsAreOwned
<1>2. CASE l \notin DOMAIN descriptors
    <2>1. pde[l] = InitialPde[l]
        BY <1>2 DEF EptInv, SplitMatchesDescriptors
    <2>2. l = FirstLargePage
        BY <2>1 DEF InitialPde, LargePde
    <2>3. pde[l] = TablePde(FirstTable)
        BY <2>1, <2>2 DEF InitialPde
    <2>4. pde[l].table = FirstTable
        BY <2>3 DEF TablePde
    <2> QED
        BY <1>2, <2>4 DEF EptInv, LayoutsAreOwned
<1> QED
    BY <1>1, <1>2

\* A write into the entry of page q leaves the translation of the others alone.
LEMMA WriteKeepsOthers ==
    ASSUME EptInv, NEW p \in Page, NEW q \in Page, p # q,
           q[1] \in DOMAIN descriptors, NEW e,
           tables' = WritePte(<<descriptors[q[1]].layout, q[2]>>, e),
           pde' = pde
    PROVE  Translate(p)' = Translate(p)
<1>1. /\ p[1] \in LargePages /\ p[2] \in Index
      /\ q[1] \in LargePages /\ q[2] \in Index
      /\ p[1] # q[1] \/ p[2] # q[2]
    BY DEF Page
<1>2. CASE pde[p[1]].large
    BY <1>2 DEF Translate
<1>3. CASE ~pde[p[1]].large
    <2>1. tables \in [Tables -> [Index -> Pte]]
        BY DEF EptInv, EptTypeOK
    <2>2. descriptors[q[1]].layout \in Tables /\ pde[p[1]].table \in Tables
        BY <1>1, <1>3 DEF EptInv, EptTypeOK, Descriptor, Pde
    <2>3. pde[p[1]].table # descriptors[q[1]].layout \/ p[2] # q[2]
        BY <1>1, <1>3, TableOf DEF EptInv, LayoutsAreOwned
    <2>4. tables'[pde[p[1]].table][p[2]] = tables[pde[p[1]].table][p[2]]
        BY <1>1, <2>1, <2>2, <2>3 DEF WritePte
    <2> QED
        BY <1>3, <2>4 DEF Translate
<1> QED
    BY <1>2, <1>3

LEMMA HandlerWriteKeepsOthers ==
    ASSUME EptInv, NEW p \in Page, p \notin DOMAIN handlers, NEW q \in DOMAIN handlers,
           NEW e, tables' = WritePte(handlers[q].pte, e), pde' = pde
    PROVE  Translate(p)' = Translate(p)
<1>1. /\ q \in Page /\ q[1] \in DOMAIN descriptors
      /\ handlers[q].pte = <<descriptors[q[1]].layout, q[2]>>
    BY HandlerTyped DEF EptInv, HandlerPteLive
<1> QED
    BY <1>1, WriteKeepsOthers

\* The translation of a page that no request is about.
LEMMA RequestKeepsOthers ==
    ASSUME EptInv, NEW q \in HookPages, q[1] # FirstLargePage,
           DeinterceptPage(q) \/ \E h \in Hooks : InterceptPage(q, h),
           NEW p \in Page, p \notin DOMAIN handlers, p \notin DOMAIN handlers'
    PROVE  \/ Translate(p)' = Translate(p)
           \/ Translate(p)' = BuildPtesForPde(LargePde(p[1]))[p[2]]
<1>1. /\ p[1] \in LargePages /\ p[2] \in Index
      /\ q \in Page /\ q[1] \in LargePages /\ q[2] \in Index
      /\ p # q => p[1] # q[1] \/ p[2] # q[2]
    BY EptAssumption DEF Page
<1>2. tables \in [Tables -> [Index -> Pte]] /\ pde \in [LargePages -> Pde]
    BY DEF EptInv, EptTypeOK
<1>3. InitialPde[q[1]] = LargePde(q[1])
    BY <1>1 DEF InitialPde
<1>4. CASE DeinterceptPage(q)
    <2>1. tables' = tables
        BY <1>4 DEF DeinterceptPage
    <2>2. CASE pde' = pde
        BY <2>1, <2>2 DEF Translate
    <2>3. CASE q[1] \in DOMAIN descriptors /\ pde' = [pde EXCEPT ![q[1]] = descriptors[q[1]].original]
        <3>1. pde' = [pde EXCEPT ![q[1]] = LargePde(q[1])]
            BY <1>3, <2>3 DEF EptInv, SplitMatchesDescriptors
        <3>2. CASE p[1] = q[1]
            <4>1. pde'[p[1]] = LargePde(p[1]) /\ pde'[p[1]].large
                BY <1>1, <1>2, <3>1, <3>2 DEF LargePde
            <4> QED
                BY <4>1 DEF Translate
        <3>3. CASE p[1] # q[1]
            <4>1. pde'[p[1]] = pde[p[1]]
                BY <1>1, <1>2, <3>1, <3>3
            <4> QED
                BY <2>1, <4>1 DEF Translate
        <3> QED
            BY <3>2, <3>3
    <2> QED
        BY <1>4, <2>2, <2>3 DEF DeinterceptPage
<1>5. ASSUME NEW h \in Hooks, InterceptAgain(q, h)
      PROVE  Translate(p)' = Translate(p)
    <2>1. q \in DOMAIN handlers /\ pde' = pde
          /\ tables' = WritePte(handlers[q].pte,
                 BuildPageHandler(handlers[q].views.OnRead.type, h).OnRead)
        BY <1>5 DEF InterceptAgain
    <2> QED
        BY <2>1, HandlerWriteKeepsOthers
<1>6. ASSUME NEW h \in Hooks, NEW t \in Tables, InterceptWhole(q, h, t)
      PROVE  Translate(p)' = Translate(p)
    <2> DEFINE layout == BuildPtesForPde(pde[q[1]])
               views == BuildPageHandler(Page2MbType(pde[q[1]]), h)
    <2>1. DOMAIN layout = Index
        BY DEF BuildPtesForPde
    <2>2. layout = BuildPtesForPde(pde[q[1]])
        OBVIOUS
    <2> HIDE DEF layout, views
    <2>3. /\ t \notin live /\ p # q /\ q[1] \notin DOMAIN descriptors
          /\ pde' = [pde EXCEPT ![q[1]] = TablePde(t)]
          /\ tables' = [tables EXCEPT ![t] = [layout EXCEPT ![q[2]] = views.OnRead]]
        BY <1>6 DEF InterceptWhole, views, layout, Emplace
    <2>4. CASE p[1] = q[1]
        <3>1. pde'[p[1]].large = FALSE /\ pde'[p[1]].table = t
            BY <1>1, <1>2, <2>3, <2>4 DEF TablePde
        <3>2. tables'[t][p[2]] = layout[p[2]]
            BY <1>1, <1>2, <2>1, <2>3, <2>4
        <3>3. pde[p[1]].large
            BY <1>1, <1>3, <2>3, <2>4 DEF EptInv, SplitMatchesDescriptors, LargePde
        <3> QED
            BY <2>2, <2>4, <3>1, <3>2, <3>3 DEF Translate
    <2>5. CASE p[1] # q[1]
        <3>1. pde'[p[1]] = pde[p[1]]
            BY <1>1, <1>2, <2>3, <2>5
        <3>2. ~pde[p[1]].large => pde[p[1]].table \in live
            BY <1>1, TableOf
        <3>3. ~pde[p[1]].large => tables'[pde[p[1]].table] = tables[pde[p[1]].table]
            BY <1>2, <2>3, <3>2
        <3> QED
            BY <3>1, <3>3 DEF Translate
    <2> QED
        BY <2>4, <2>5
<1>7. ASSUME NEW h \in Hooks, InterceptSplit(q, h)
      PROVE  Translate(p)' = Translate(p)
    <2>1. /\ p # q /\ q[1] \in DOMAIN descriptors
          /\ pde' = [pde EXCEPT ![q[1]] = TablePde(descriptors[q[1]].layout)]
          /\ tables' = WritePte(<<descriptors[q[1]].layout, q[2]>>,
                 BuildPageHandler(Page2MbType(descriptors[q[1]].original), h).OnRead)
        BY <1>7 DEF InterceptSplit, Emplace
    <2>2. pde' = pde
        BY <1>2, <2>1 DEF EptInv, SplitMatchesDescriptors
    <2> QED
        BY <1>1, <2>1, <2>2, WriteKeepsOthers
<1> QED
    BY <1>4, <1>5, <1>6, <1>7 DEF InterceptPage

\* Without tracing, and with no interception in the large page at address 0
\* (whose saved entry is not a large one), a page nobody intercepts keeps its
\* translation or gets back the one to itself, whatever is done to others.
THEOREM OthersAreLeftAlone ==
    ASSUME TRUE \notin Traced,
           \A q \in HookPages : q[1] # FirstLargePage
    PROVE  Spec => UnhookedStable
<1> DEFINE Stable(p) == \/ Translate(p)' = Translate(p)
                        \/ Translate(p)' = BuildPtesForPde(LargePde(p[1]))[p[2]]
<1>1. GuestInit => StepInv
    BY DEF GuestInit, StepInv
<1>2. GuestInv /\ StepInv /\ [Next]_vars => StepInv'
    BY StepInvKept
<1>3. ASSUME GuestInv, StepInv, [Next]_vars
      PROVE  [\A p \in Page :
                  p \notin DOMAIN handlers /\ p \notin DOMAIN handlers' => Stable(p)]_vars
    <2> SUFFICES ASSUME NEW p \in Page, p \notin DOMAIN handlers, p \notin DOMAIN handlers'
                 PROVE  Stable(p)
        OBVIOUS
    <2> USE <1>3 DEF GuestInv
    <2>1. CASE UNCHANGED eptVars
        BY <2>1 DEF eptVars, Translate
    <2>2. ASSUME NEW q \in Page, EptViolation(q)
          PROVE  Stable(p)
        <3>1. CASE InjectGeneralProtection
            BY <2>1, <3>1 DEF InjectGeneralProtection, DeliverEvent
        <3>2. ASSUME q \in DOMAIN handlers, NEW view, ShowView(q, view)
              PROVE  Stable(p)
            BY <3>2, HandlerWriteKeepsOthers DEF ShowView
        <3>3. ASSUME q \in DOMAIN handlers, NEW view, NEW next, ShowViewOnce(q, view, next)
              PROVE  Stable(p)
            BY <3>3, HandlerWriteKeepsOthers DEF ShowViewOnce
        <3> QED
            BY <2>2, <3>1, <3>2, <3>3
               DEF EptViolation, FetchViolation, OwnReadViolation, ReadViolation,
                   OwnWriteViolation, WriteViolation, HandleRead, HandleExecute,
                   HandleWrite, HandleExecuteRead, HandleExecuteWrite, Handles
    <2>3. CASE MonitorTrap /\ CompletePendingHandler(rip)
        <3>1. PICK q \in DOMAIN handlers : handlers[q].pte = pending.pte
            BY <2>3 DEF MonitorTrap, StepInv, PendingPteLive
        <3> QED
            BY <2>3, <3>1, HandlerWriteKeepsOthers DEF CompletePendingHandler
    <2>4. CASE Vmcall
        BY <2>4, RequestKeepsOthers DEF Vmcall
    <2> QED
        BY <2>1, <2>2, <2>3, <2>4
           DEF Next, Processor, Start, Retire, Interrupt, Divert, DeliverEvent, MtfEnable,
               MonitorTrap, vars
<1> QED
    BY <1>1, <1>2, <1>3, GuestInvariance, PTL DEF Spec, UnhookedStable
-----------------------------------------------------------------------------
(***************************************************************************)
(* What the accesses of an instruction see.                                *)
(*                                                                         *)
(* The views of one access live for one instruction only if that           *)
(* instruction is stepped over and nothing cuts it short: it goes on to    *)
(* the next one, makes one access at most, and no event is delivered in    *)
(* between.  It lies in one page, mapped as a 4 KB page.  Tracing is       *)
(* allowed, and so are any hooks.                                          *)
(***************************************************************************)
StraightLine ==
    \A i \in Instructions :
        /\ ~i.branches
        /\ i.code = {i.page}
        /\ i.ripPa = i.page
        /\ \E q \in Page : /\ i.reads \union i.writes \subseteq {q}
                           /\ ~(q = i.page /\ q \in i.reads \intersect i.writes)

\* The entry of page p is one that lasts: HandleRead's or HandleExecute's.
Plain(p) == Shown(p) \in {handlers[p].views.OnRead, handlers[p].views.OnExecute}

NothingDenied == FetchDenied \union ReadDenied \union WriteDenied = {}

\* The view that HandleWrite, HandleExecuteRead or HandleExecuteWrite has put
\* into the entry of page q for the current instruction.
StepView(q) ==
    LET v == handlers[q].views
    IN  \/ /\ q # current.page /\ q \in current.writes
           /\ Shown(q) = v.OnWrite
        \/ /\ q = current.page /\ q \in current.reads /\ q \notin current.writes
           /\ Shown(q) = v.OnExecuteRead /\ ~v.OnExecute.read
        \/ /\ q = current.page /\ q \in current.writes /\ q \notin current.reads
           /\ Shown(q) = v.OnExecuteWrite /\ ~v.OnExecute.write

\* A single step for page q is in progress: its instruction can only complete
\* (first case), or has, and the monitor trap flag's exit is due (second).
Stepping(q) ==
    /\ pending.pte = handlers[q].pte
    /\ pending.prev \in {handlers[q].views.OnRead, handlers[q].views.OnExecute}
    /\ \A p \in DOMAIN handlers \ {q} : Plain(p)
    /\ \/ /\ current # Null /\ mtf /\ ~interrupts
          /\ pending.rip = NextRip[rip]
          /\ NothingDenied
          /\ StepView(q)
       \/ current = Null /\ trap /\ pending.rip = rip

ViewsBuilt ==
    \A p \in DOMAIN handlers :
        \E t \in Types, h \in Hooks : handlers[p].views = BuildPageHandler(t, h)

StraightInv ==
    /\ ViewsBuilt
    /\ trap => current = Null
    /\ pending.rip = Null => \A p \in DOMAIN handlers : Plain(p)
    /\ pending.rip # Null => \E q \in DOMAIN handlers : Stepping(q)

\* What the entries that last permit, and which frame they permit it in.
LEMMA PlainViews ==
    ASSUME NEW t \in Types, NEW h \in Hooks, NEW v, v = BuildPageHandler(t, h),
           NEW s \in {v.OnRead, v.OnExecute}
    PROVE  /\ s.write => s.frame = v.OnWrite.frame
           /\ s.read => s.frame = v.OnRead.frame
           /\ s.execute => s.frame = v.OnExecute.frame
           /\ s.execute => (s.read <=> v.OnExecute.read)
           /\ s.execute => (s.write <=> v.OnExecute.write)
<1>1. /\ v.OnRead = View(h.read, TRUE, h.read = h.write, h.read = h.execute, t)
      /\ v.OnWrite = View(h.write, TRUE, TRUE, h.write = h.execute, t)
      /\ v.OnExecute = View(h.execute, h.read = h.execute, h.write = h.execute, TRUE, t)
    BY DEF BuildPageHandler
<1>2. /\ v.OnRead.read <=> h.read # Null
      /\ v.OnRead.write <=> h.read # Null /\ h.read = h.write
      /\ v.OnRead.execute <=> h.read # Null /\ h.read = h.execute
      /\ v.OnRead.frame = h.read
    <2>1. CASE h.read = Null
        BY <1>1, <2>1 DEF View, NotPresent
    <2>2. CASE h.read # Null
        <3>1. v.OnRead = [read |-> TRUE, write |-> h.read = h.write,
                          execute |-> h.read = h.execute, frame |-> h.read, type |-> t]
            BY <1>1, <2>2 DEF View
        <3>2. v.OnRead.write = (h.read = h.write) /\ v.OnRead.execute = (h.read = h.execute)
            BY <3>1
        <3>3. v.OnRead.read = TRUE /\ v.OnRead.frame = h.read
            BY <3>1
        <3> QED
            BY <2>2, <3>2, <3>3
    <2> QED
        BY <2>1, <2>2
<1>3. v.OnWrite.frame = h.write
    BY <1>1 DEF View, NotPresent
<1>4. /\ v.OnExecute.read <=> h.execute # Null /\ h.read = h.execute
      /\ v.OnExecute.write <=> h.execute # Null /\ h.write = h.execute
      /\ v.OnExecute.frame = h.execute
    <2>1. CASE h.execute = Null
        BY <1>1, <2>1 DEF View, NotPresent
    <2>2. CASE h.execute # Null
        <3>1. v.OnExecute = [read |-> h.read = h.execute, write |-> h.write = h.execute,
                             execute |-> TRUE, frame |-> h.execute, type |-> t]
            BY <1>1, <2>2 DEF View
        <3>2. v.OnExecute.read = (h.read = h.execute) /\ v.OnExecute.write = (h.write = h.execute)
            BY <3>1
        <3>3. v.OnExecute.frame = h.execute
            BY <3>1
        <3> QED
            BY <2>2, <3>2, <3>3
    <2> QED
        BY <2>1, <2>2
<1>5. CASE s = v.OnRead
    BY <1>2, <1>3, <1>4, <1>5
<1>6. CASE s = v.OnExecute
    BY <1>2, <1>3, <1>4, <1>6
<1> QED
    BY <1>5, <1>6

\* What the entries made for one access permit.
LEMMA StepViews ==
    ASSUME NEW t \in Types, NEW h \in Hooks, NEW v, v = BuildPageHandler(t, h)
    PROVE  /\ v.OnWrite # NotPresent => v.OnWrite.read /\ v.OnWrite.write
           /\ v.OnExecuteRead # NotPresent => v.OnExecuteRead.read /\ v.OnExecuteRead.execute
           /\ v.OnExecuteWrite # NotPresent =>
                  v.OnExecuteWrite.read /\ v.OnExecuteWrite.write /\ v.OnExecuteWrite.execute
<1>1. /\ v.OnWrite = View(h.write, TRUE, TRUE, h.write = h.execute, t)
      /\ v.OnExecuteRead = View(h.executeRead, TRUE, h.executeRead = h.executeWrite, TRUE, t)
      /\ v.OnExecuteWrite = View(h.executeWrite, TRUE, TRUE, TRUE, t)
    BY DEF BuildPageHandler
<1>2. v.OnWrite # NotPresent => v.OnWrite.read /\ v.OnWrite.write
    BY <1>1 DEF View, NotPresent
<1>3. v.OnExecuteRead # NotPresent => v.OnExecuteRead.read /\ v.OnExecuteRead.execute
    BY <1>1 DEF View, NotPresent
<1>4. v.OnExecuteWrite # NotPresent =>
          v.OnExecuteWrite.read /\ v.OnExecuteWrite.write /\ v.OnExecuteWrite.execute
    BY <1>1 DEF View, NotPresent
<1> QED
    BY <1>2, <1>3, <1>4

\* A view written for page p decides the accesses to p and no others.
LEMMA ViewDecides ==
    ASSUME EptInv, NEW p \in DOMAIN handlers, NEW view \in Pte,
           tables' = WritePte(handlers[p].pte, view), UNCHANGED <<pde, handlers>>
    PROVE  /\ Translate(p)' = view
           /\ Shown(p)' = view
           /\ \A x \in Page \ {p} : Translate(x)' = Translate(x)
           /\ \A x \in DOMAIN handlers \ {p} : Shown(x)' = Shown(x)
<1>1. /\ Shown(p)' = view
      /\ \A x \in DOMAIN handlers \ {p} : Shown(x)' = Shown(x)
    BY EntryWritten
<1>2. /\ p \in Page /\ p[1] \in DOMAIN descriptors
      /\ handlers[p].pte = <<descriptors[p[1]].layout, p[2]>>
      /\ pde[p[1]] = TablePde(descriptors[p[1]].layout)
    BY HandlerTyped DEF EptInv, HandlerPteLive, SplitMatchesDescriptors
<1>3. \A x \in Page \ {p} : Translate(x)' = Translate(x)
    BY <1>2, WriteKeepsOthers
<1>4. pde[p[1]].large = FALSE /\ pde[p[1]].table = descriptors[p[1]].layout
    BY <1>2 DEF TablePde
<1>5. Translate(p)' = Shown(p)'
    BY <1>2, <1>4 DEF Translate, Shown
<1> QED
    BY <1>1, <1>3, <1>5

LEMMA BoundaryPlain ==
    ASSUME StraightInv, Boundary
    PROVE  pending.rip = Null
    BY DEF StraightInv, Stepping, Boundary

LEMMA ViewsBuiltKept ==
    ASSUME GuestInv, ViewsBuilt, [Next]_vars
    PROVE  ViewsBuilt'
<1> SUFFICES ASSUME NEW p \in DOMAIN handlers'
             PROVE  \E t \in Types, h \in Hooks : handlers'[p].views = BuildPageHandler(t, h)
    BY DEF ViewsBuilt
<1>1. EptInv /\ [EptNext]_eptVars
    BY StepUsesInterceptor DEF GuestInv
<1>2. CASE p \in DOMAIN handlers /\ handlers'[p].views = handlers[p].views
    BY <1>2 DEF ViewsBuilt
<1>3. ASSUME p \in DOMAIN handlers, NEW h \in Hooks,
             handlers'[p].views = BuildPageHandler(handlers[p].views.OnRead.type, h)
      PROVE  \E t \in Types, k \in Hooks : handlers'[p].views = BuildPageHandler(t, k)
    <2>1. handlers[p].views.OnRead.type \in Types
        BY <1>1, <1>3, HandlerTyped DEF EptInv, Pte
    <2> QED
        BY <1>3, <2>1
<1>4. ASSUME p \in HookPages, NEW h \in Hooks,
             handlers'[p].views = BuildPageHandler(Page2MbType(InitialPde[p[1]]), h)
      PROVE  \E t \in Types, k \in Hooks : handlers'[p].views = BuildPageHandler(t, k)
    <2>1. p[1] \in LargePages
        BY <1>4, EptAssumption DEF Page
    <2>2. Page2MbType(InitialPde[p[1]]) \in Types
        BY <2>1, InitialPdeTyped, LayoutTyped
    <2> QED
        BY <1>4, <2>2
<1> QED
    BY <1>1, <1>2, <1>3, <1>4, OriginOfViews

-----------------------------------------------------------------------------
\* Every part of StraightInv but the first, which ViewsBuiltKept is about.
Lasting == \A p \in DOMAIN handlers : Plain(p)

StepState ==
    /\ trap => current = Null
    /\ pending.rip = Null => Lasting
    /\ pending.rip # Null => \E q \in DOMAIN handlers : Stepping(q)

\* A view for one access, once it is in place, leaves the instruction nothing
\* that is denied: it makes that access only.
LEMMA AccessGranted ==
    ASSUME StraightLine, GuestInv, current # Null, current' = current,
           FetchDenied = {}, NEW p \in DOMAIN handlers, NEW view \in Pte,
           tables' = WritePte(handlers[p].pte, view), UNCHANGED <<pde, handlers>>,
           p \in current.reads \union current.writes,
           p = current.page => view.execute,
           p \in current.reads => view.read,
           p \in current.writes => view.write
    PROVE  NothingDenied'
<1>1. current \in Instructions /\ current \in Instruction
    BY GuestAssumption DEF GuestInv, GuestTypeOK
<1>2. /\ current.code = {current.page} /\ current.page \in Page
      /\ current.reads \subseteq {p} /\ current.writes \subseteq {p}
    BY <1>1 DEF StraightLine, Instruction
<1>3. /\ Translate(p)' = view
      /\ \A x \in Page \ {p} : Translate(x)' = Translate(x)
    BY ViewDecides DEF GuestInv
<1>4. FetchDenied' = {}
    BY <1>2, <1>3 DEF FetchDenied
<1>5. ReadDenied' = {} /\ WriteDenied' = {}
    BY <1>2, <1>3 DEF ReadDenied, WriteDenied
<1> QED
    BY <1>4, <1>5 DEF NothingDenied

\* EptViolationHandler's single step begins.
LEMMA StepBegins ==
    ASSUME GuestInv, Lasting, current # Null, ~trap, NEW p \in DOMAIN handlers,
           NEW name \in {"OnWrite", "OnExecuteRead", "OnExecuteWrite"},
           ShowViewOnce(p, handlers[p].views[name], NextRip[rip]), SingleStep,
           NothingDenied', StepView(p)'
    PROVE  StepState'
<1>1. /\ tables' = WritePte(handlers[p].pte, handlers[p].views[name])
      /\ handlers' = handlers /\ pde' = pde
      /\ pending' = [rip |-> NextRip[rip], pte |-> handlers[p].pte, prev |-> Shown(p)]
    BY DEF ShowViewOnce, Shown
<1>2. handlers[p].views[name] \in Pte
    BY HandlerTyped DEF GuestInv, EptInv
<1>3. \A x \in DOMAIN handlers \ {p} : Shown(x)' = Shown(x)
    BY <1>1, <1>2, ViewDecides DEF GuestInv
<1>4. mtf' /\ ~interrupts' /\ rip' = rip /\ current' = current /\ trap' = trap
    BY DEF SingleStep
<1>5. pending'.rip = NextRip'[rip'] /\ pending'.rip # Null
    BY <1>1, <1>4, EptAssumption, GuestAssumption DEF GuestInv, GuestTypeOK
<1>6. \A x \in DOMAIN handlers' \ {p} : Plain(x)'
    BY <1>1, <1>3 DEF Lasting, Plain
<1>7. /\ pending'.pte = handlers'[p].pte
      /\ pending'.prev \in {handlers'[p].views.OnRead, handlers'[p].views.OnExecute}
    BY <1>1 DEF Lasting, Plain
<1>8. Stepping(p)'
    BY <1>4, <1>5, <1>6, <1>7 DEF Stepping
<1> QED
    BY <1>1, <1>4, <1>5, <1>8 DEF StepState

\* Which accesses a violation is raised for: those that are denied, and a
\* write that is part of a read-modify-write also when it is reported as a read.
LEMMA DeniedAccess ==
    ASSUME current \in Instructions, NEW p
    PROVE  /\ p \in AccessedRead =>
                  \/ p \in ReadDenied
                  \/ p \in WriteDenied /\ p \in current.rmw /\ TRUE \in ReadReported
           /\ p \in AccessedWrite =>
                  \/ p \in WriteDenied
                  \/ p \in ReadDenied /\ p \in current.rmw
           /\ p \in ReadDenied => p \in current.reads
           /\ p \in WriteDenied => p \in current.writes
           /\ p \in current.rmw => p \in current.reads /\ p \in current.writes
    BY GuestAssumption DEF AccessedRead, AccessedWrite, UpdateDenied, ReadDenied, WriteDenied

LEMMA EptViolationStepState ==
    ASSUME StraightLine, GuestInv, StraightInv, NEW p \in Page, EptViolation(p)
    PROVE  StepState'
<1>1. current # Null /\ ~trap
    BY DEF EptViolation, StraightInv
<1>0. /\ current \in Instructions
      /\ current.ripPa = current.page
    BY <1>1 DEF GuestInv, GuestTypeOK, StraightLine
<1>2. ~NothingDenied
    BY <1>0, DeniedAccess
       DEF EptViolation, FetchViolation, OwnReadViolation, ReadViolation,
           OwnWriteViolation, WriteViolation, NothingDenied
<1>3. pending.rip = Null /\ Lasting
    BY <1>1, <1>2 DEF StraightInv, Stepping, Lasting
<1>4. CASE InjectGeneralProtection
    <2>1. UNCHANGED eptVars /\ current' = Null
        BY <1>4 DEF InjectGeneralProtection, DeliverEvent
    <2>2. Lasting'
        BY <1>3, <2>1 DEF eptVars, Lasting, Plain, Shown
    <2> QED
        BY <1>3, <2>1, <2>2 DEF eptVars, StepState
<1>5. ASSUME p \in DOMAIN handlers, NEW name \in {"OnRead", "OnExecute"},
             ShowView(p, handlers[p].views[name]), UNCHANGED guestVars
      PROVE  StepState'
    <2>1. handlers[p].views[name] \in Pte
        BY <1>5, HandlerTyped DEF GuestInv, EptInv
    <2>2. /\ Shown(p)' = handlers[p].views[name]
          /\ \A x \in DOMAIN handlers \ {p} : Shown(x)' = Shown(x)
        BY <1>5, <2>1, ViewDecides DEF GuestInv, ShowView
    <2>3. handlers' = handlers /\ pending' = pending /\ trap' = trap /\ current' = current
        BY <1>5 DEF ShowView, guestVars
    <2>4. Lasting'
        BY <1>3, <1>5, <2>2, <2>3 DEF Lasting, Plain
    <2> QED
        BY <1>1, <1>3, <2>3, <2>4 DEF StepState
<1>6. ASSUME p \in DOMAIN handlers
      PROVE  \E t \in Types, h \in Hooks : handlers[p].views = BuildPageHandler(t, h)
    BY <1>6 DEF StraightInv, ViewsBuilt
<1>7. current \in Instructions /\ current \in Instruction
    BY <1>1, GuestAssumption DEF GuestInv, GuestTypeOK
<1>8. \A x \in current.reads \intersect current.writes : x # current.page
    BY <1>7 DEF StraightLine
<1>9. ASSUME p \in DOMAIN handlers, FetchDenied = {}, p \in current.writes, p # current.page,
             handlers[p].views.OnWrite # NotPresent,
             ShowViewOnce(p, handlers[p].views.OnWrite, NextRip[rip]), SingleStep
      PROVE  StepState'
    <2> DEFINE view == handlers[p].views.OnWrite
    <2>1. p \in current.writes /\ view \in Pte /\ view.read /\ view.write
        BY <1>6, <1>9, StepViews, HandlerTyped DEF GuestInv, EptInv
    <2>2. /\ tables' = WritePte(handlers[p].pte, view) /\ UNCHANGED <<pde, handlers>>
          /\ current' = current
        BY <1>9 DEF ShowViewOnce, SingleStep
    <2>3. NothingDenied'
        BY <1>1, <1>9, <2>1, <2>2, AccessGranted
    <2>4. Shown(p)' = view
        BY <1>9, <2>1, <2>2, ViewDecides DEF GuestInv
    <2>5. StepView(p)'
        BY <1>9, <2>1, <2>2, <2>4 DEF StepView
    <2> QED
        BY <1>1, <1>3, <1>9, <2>3, <2>5, StepBegins
<1>10. ASSUME p \in DOMAIN handlers, FetchDenied = {}, p \in ReadDenied, p = current.page,
              handlers[p].views.OnExecuteRead # NotPresent,
              ShowViewOnce(p, handlers[p].views.OnExecuteRead, NextRip[rip]), SingleStep
       PROVE  StepState'
    <2> DEFINE view == handlers[p].views.OnExecuteRead
    <2>1. /\ p \in current.reads /\ p \notin current.writes
          /\ view \in Pte /\ view.read /\ view.execute
        BY <1>6, <1>8, <1>10, StepViews, HandlerTyped DEF ReadDenied, GuestInv, EptInv
    <2>2. /\ tables' = WritePte(handlers[p].pte, view) /\ UNCHANGED <<pde, handlers>>
          /\ current' = current
        BY <1>10 DEF ShowViewOnce, SingleStep
    <2>3. NothingDenied'
        BY <1>1, <1>10, <2>1, <2>2, AccessGranted
    <2>4. Shown(p)' = view
        BY <1>10, <2>1, <2>2, ViewDecides DEF GuestInv
    <2>5. ~Shown(p).read /\ Shown(p).execute
        <3>1. Translate(p) = Shown(p)
            BY <1>10, ShownTranslates DEF GuestInv
        <3>2. current.code = {p}
            BY <1>7, <1>10 DEF StraightLine
        <3> QED
            BY <1>10, <3>1, <3>2 DEF ReadDenied, FetchDenied
    <2>6. ~handlers[p].views.OnExecute.read
        BY <1>3, <1>6, <1>10, <2>5, PlainViews DEF Lasting, Plain
    <2>7. StepView(p)'
        BY <1>10, <2>1, <2>2, <2>4, <2>6 DEF StepView
    <2> QED
        BY <1>1, <1>3, <1>10, <2>3, <2>7, StepBegins
<1>11. ASSUME p \in DOMAIN handlers, FetchDenied = {}, p \in WriteDenied, p = current.page,
              handlers[p].views.OnExecuteWrite # NotPresent,
              ShowViewOnce(p, handlers[p].views.OnExecuteWrite, NextRip[rip]), SingleStep
       PROVE  StepState'
    <2> DEFINE view == handlers[p].views.OnExecuteWrite
    <2>1. /\ p \in current.writes /\ p \notin current.reads
          /\ view \in Pte /\ view.write /\ view.execute
        BY <1>6, <1>8, <1>11, StepViews, HandlerTyped DEF WriteDenied, GuestInv, EptInv
    <2>2. /\ tables' = WritePte(handlers[p].pte, view) /\ UNCHANGED <<pde, handlers>>
          /\ current' = current
        BY <1>11 DEF ShowViewOnce, SingleStep
    <2>3. NothingDenied'
        BY <1>1, <1>11, <2>1, <2>2, AccessGranted
    <2>4. Shown(p)' = view
        BY <1>11, <2>1, <2>2, ViewDecides DEF GuestInv
    <2>5. ~Shown(p).write /\ Shown(p).execute
        <3>1. Translate(p) = Shown(p)
            BY <1>11, ShownTranslates DEF GuestInv
        <3>2. current.code = {p}
            BY <1>7, <1>11 DEF StraightLine
        <3> QED
            BY <1>11, <3>1, <3>2 DEF WriteDenied, FetchDenied
    <2>6. ~handlers[p].views.OnExecute.write
        BY <1>3, <1>6, <1>11, <2>5, PlainViews DEF Lasting, Plain
    <2>7. StepView(p)'
        BY <1>11, <2>1, <2>2, <2>4, <2>6 DEF StepView
    <2> QED
        BY <1>1, <1>3, <1>11, <2>3, <2>7, StepBegins
<1>12. CASE FetchViolation(p)
    BY <1>4, <1>5, <1>12 DEF FetchViolation, HandleExecute, Handles
<1>13. CASE OwnReadViolation(p)
    <2>1. p \in ReadDenied /\ p = current.page
        BY <1>0, <1>8, <1>13, DeniedAccess DEF OwnReadViolation
    <2> QED
        BY <1>4, <1>10, <1>13, <2>1 DEF OwnReadViolation, HandleExecuteRead, Handles
<1>14. CASE ReadViolation(p)
    BY <1>4, <1>5, <1>14 DEF ReadViolation, HandleRead, Handles
<1>15. CASE OwnWriteViolation(p)
    <2>1. p \in WriteDenied /\ p = current.page
        BY <1>0, <1>8, <1>15, DeniedAccess DEF OwnWriteViolation
    <2> QED
        BY <1>4, <1>11, <1>15, <2>1 DEF OwnWriteViolation, HandleExecuteWrite, Handles
<1>16. CASE WriteViolation(p)
    <2>1. p \in current.writes /\ p # current.page
        BY <1>0, <1>16, DeniedAccess DEF WriteViolation
    <2> QED
        BY <1>4, <1>9, <1>16, <2>1 DEF WriteViolation, HandleWrite, Handles
<1> QED
    BY <1>12, <1>13, <1>14, <1>15, <1>16 DEF EptViolation

LEMMA MonitorTrapStepState ==
    ASSUME GuestInv, StraightInv, MonitorTrap
    PROVE  StepState'
<1>1. trap /\ current = Null /\ ~trap' /\ rip \in Rips
    BY DEF MonitorTrap, StraightInv, GuestInv, GuestTypeOK
<1>2. CASE pending.rip = Null
    <2>1. UNCHANGED eptVars
        BY <1>1, <1>2, EptAssumption DEF MonitorTrap, CompletePendingHandler
    <2>2. Lasting'
        BY <1>2, <2>1 DEF eptVars, StraightInv, Lasting, Plain, Shown
    <2> QED
        BY <1>1, <1>2, <2>1, <2>2 DEF eptVars, StepState
<1>3. CASE pending.rip # Null
    <2>1. PICK q \in DOMAIN handlers : Stepping(q)
        BY <1>3 DEF StraightInv
    <2>2. pending.rip = rip
        BY <1>1, <2>1 DEF Stepping
    <2>3. /\ tables' = WritePte(handlers[q].pte, pending.prev)
          /\ UNCHANGED <<pde, handlers>>
          /\ pending' = [pending EXCEPT !.rip = Null]
        BY <2>1, <2>2 DEF MonitorTrap, CompletePendingHandler, Stepping
    <2>4. pending.prev \in Pte
        BY DEF GuestInv, EptInv, EptTypeOK, Pending
    <2>5. pending'.rip = Null
        BY <2>3 DEF GuestInv, EptInv, EptTypeOK, Pending
    <2>6. /\ Shown(q)' = pending.prev
          /\ \A x \in DOMAIN handlers \ {q} : Shown(x)' = Shown(x)
        BY <2>3, <2>4, ViewDecides DEF GuestInv
    <2>7. Lasting'
        BY <2>1, <2>3, <2>6 DEF Stepping, Lasting, Plain
    <2> QED
        BY <1>1, <2>5, <2>7 DEF StepState
<1> QED
    BY <1>2, <1>3

LEMMA RetireStepState ==
    ASSUME StraightLine, GuestInv, StraightInv, Retire
    PROVE  StepState'
<1>1. /\ current # Null /\ current \in Instructions /\ current' = Null
      /\ trap' = mtf /\ rip' = NextRip[rip] /\ UNCHANGED eptVars
    BY DEF Retire, StraightLine, GuestInv, GuestTypeOK
<1>2. /\ tables' = tables /\ handlers' = handlers /\ pending' = pending
    BY <1>1 DEF eptVars
<1>3. CASE pending.rip = Null
    <2>1. Lasting'
        BY <1>2, <1>3 DEF StraightInv, Lasting, Plain, Shown
    <2> QED
        BY <1>1, <1>2, <1>3, <2>1 DEF StepState
<1>4. CASE pending.rip # Null
    <2>1. PICK q \in DOMAIN handlers : Stepping(q)
        BY <1>4 DEF StraightInv
    <2>2. trap' /\ pending'.rip = rip'
        BY <1>1, <1>2, <2>1 DEF Stepping
    <2>3. \A x \in DOMAIN handlers \ {q} : Plain(x)'
        BY <1>2, <2>1 DEF Stepping, Plain, Shown
    <2>4. Stepping(q)'
        BY <1>1, <1>2, <2>1, <2>2, <2>3 DEF Stepping
    <2> QED
        BY <1>1, <1>2, <1>4, <2>4 DEF StepState
<1> QED
    BY <1>3, <1>4

LEMMA VmcallStepState ==
    ASSUME GuestInv, StraightInv, Vmcall
    PROVE  StepState'
<1>1. pending.rip = Null /\ current' = Null
    BY BoundaryPlain DEF Vmcall, Boundary, guestVars
<1>2. PICK p \in HookPages : DeinterceptPage(p) \/ \E h \in Hooks : InterceptPage(p, h)
    BY DEF Vmcall
<1>3. pending' = pending
    BY <1>2 DEF DeinterceptPage, InterceptPage, InterceptAgain, InterceptWhole, InterceptSplit
<1>4. ASSUME NEW q \in DOMAIN handlers'
      PROVE  Plain(q)'
    BY <1>1, <1>2, RequestShows DEF GuestInv, StraightInv, Plain
<1> QED
    BY <1>1, <1>3, <1>4 DEF StepState, Lasting

LEMMA StraightKept ==
    ASSUME Diverts = FALSE, StraightLine, GuestInv, StraightInv, [Next]_vars
    PROVE  StraightInv'
<1>1. ViewsBuilt'
    BY ViewsBuiltKept DEF StraightInv
<1> SUFFICES StepState'
    BY <1>1 DEF StepState, StraightInv, Lasting
<1>2. ASSUME pending.rip = Null, UNCHANGED eptVars, trap' => current' = Null
      PROVE  StepState'
    <2>1. Lasting'
        BY <1>2 DEF eptVars, StraightInv, Lasting, Plain, Shown
    <2> QED
        BY <1>2, <2>1 DEF eptVars, StepState
<1>3. ASSUME NEW i \in Instructions, Start(i)
      PROVE  StepState'
    BY <1>2, <1>3, BoundaryPlain DEF Start, Boundary
<1>4. CASE Interrupt
    <2>1. pending.rip = Null
        BY <1>4 DEF Interrupt, StraightInv, Stepping
    <2>2. UNCHANGED eptVars /\ current' = Null
        BY <1>4 DEF Interrupt, DeliverEvent
    <2> QED
        BY <1>2, <2>1, <2>2
<1>5. CASE MtfEnable
    <2>1. pending.rip = Null
        BY <1>5, BoundaryPlain DEF MtfEnable
    <2>2. UNCHANGED eptVars /\ current' = Null
        BY <1>5 DEF MtfEnable, Boundary
    <2> QED
        BY <1>2, <2>1, <2>2
<1>6. CASE UNCHANGED vars
    <2>1. CASE pending.rip = Null
        <3>1. UNCHANGED <<eptVars, current, trap>>
            BY <1>6 DEF vars, guestVars
        <3> QED
            BY <1>2, <2>1, <3>1 DEF StraightInv
    <2>2. CASE pending.rip # Null
        <3>1. PICK q \in DOMAIN handlers : Stepping(q)
            BY <2>2 DEF StraightInv
        <3>2. UNCHANGED <<pde, tables, handlers, pending, rip, current, mtf, trap, interrupts>>
            BY <1>6 DEF vars, eptVars, guestVars
        <3>3. Stepping(q)'
            <4>1. \A x \in DOMAIN handlers \ {q} : Plain(x)'
                BY <3>1, <3>2 DEF Stepping, Plain, Shown
            <4>2. NothingDenied => NothingDenied'
                BY <3>2 DEF NothingDenied, FetchDenied, ReadDenied, WriteDenied, Translate
            <4>3. StepView(q) => StepView(q)'
                BY <3>2 DEF StepView, Shown
            <4> QED
                BY <3>1, <3>2, <4>1, <4>2, <4>3 DEF Stepping
        <3>4. pending'.rip # Null /\ (trap' => current' = Null)
            BY <2>2, <3>2 DEF StraightInv
        <3>5. q \in DOMAIN handlers'
            BY <3>2
        <3> QED
            BY <3>3, <3>4, <3>5 DEF StepState
    <2> QED
        BY <2>1, <2>2
<1>7. ~Divert
    BY DEF Divert
<1>8. ASSUME NEW p \in Page, EptViolation(p)
      PROVE  StepState'
    BY <1>8, EptViolationStepState
<1>9. CASE Retire \/ MonitorTrap \/ Vmcall
    BY <1>9, MonitorTrapStepState, RetireStepState, VmcallStepState
<1> QED
    BY <1>3, <1>4, <1>5, <1>6, <1>7, <1>8, <1>9 DEF Next, Processor

LEMMA StraightInitially == GuestInit => StraightInv
    BY DEF GuestInit, EptInit, EmptyMap, NoPending, StraightInv, ViewsBuilt

\* The views meant for one access are gone when the instruction has ended.
THEOREM StepViewsDoNotStay ==
    ASSUME Diverts = FALSE, StraightLine
    PROVE  Spec => []StepViewsAreGone
<1>1. GuestInv /\ StraightInv /\ [Next]_vars => StraightInv'
    BY StraightKept
<1>2. ASSUME StraightInv
      PROVE  StepViewsAreGone
    BY <1>2, BoundaryPlain DEF StepViewsAreGone, StraightInv, Plain
<1> QED
    BY <1>1, <1>2, StraightInitially, GuestInvariance, PTL DEF Spec

LEMMA FramesSeen ==
    ASSUME StraightLine, GuestInv, StraightInv
    PROVE  AccessesSeeTheirFrames
<1> SUFFICES ASSUME current # Null, NothingDenied, NEW p \in DOMAIN handlers
             PROVE  LET v == handlers[p].views
                        reads == p \in current.reads
                        writes == p \in current.writes
                        own == p = current.page
                    IN  /\ ~own /\ writes => Shown(p).frame = v.OnWrite.frame
                        /\ ~own /\ reads /\ ~writes => Shown(p).frame = v.OnRead.frame
                        /\ own /\ ~reads /\ ~writes => Shown(p).frame = v.OnExecute.frame
                        /\ own /\ reads /\ ~writes =>
                              Shown(p).frame = IF v.OnExecute.read THEN v.OnExecute.frame
                                               ELSE v.OnExecuteRead.frame
                        /\ own /\ writes /\ ~reads =>
                              Shown(p).frame = IF v.OnExecute.write THEN v.OnExecute.frame
                                               ELSE v.OnExecuteWrite.frame
    BY DEF AccessesSeeTheirFrames, NothingDenied
<1> DEFINE v == handlers[p].views
<1>1. current \in Instructions
    BY DEF GuestInv, GuestTypeOK
<1>2. /\ current.code = {current.page}
      /\ \E q \in Page : current.reads \union current.writes \subseteq {q}
    BY <1>1 DEF StraightLine
<1>3. Translate(p) = Shown(p)
    BY ShownTranslates DEF GuestInv
<1>4. /\ p = current.page => Shown(p).execute
      /\ p \in current.reads => Shown(p).read
      /\ p \in current.writes => Shown(p).write
    BY <1>2, <1>3 DEF NothingDenied, FetchDenied, ReadDenied, WriteDenied
<1>5. CASE Plain(p)
    <2>1. PICK t \in Types, h \in Hooks : v = BuildPageHandler(t, h)
        BY DEF StraightInv, ViewsBuilt
    <2>2. /\ Shown(p).write => Shown(p).frame = v.OnWrite.frame
          /\ Shown(p).read => Shown(p).frame = v.OnRead.frame
          /\ Shown(p).execute => Shown(p).frame = v.OnExecute.frame
          /\ Shown(p).execute => (Shown(p).read <=> v.OnExecute.read)
          /\ Shown(p).execute => (Shown(p).write <=> v.OnExecute.write)
        BY <1>5, <2>1, PlainViews DEF Plain
    <2> QED
        BY <1>4, <2>2
<1>6. CASE ~Plain(p)
    <2>1. pending.rip # Null
        BY <1>6 DEF StraightInv
    <2>2. Stepping(p)
        BY <1>6, <2>1 DEF StraightInv, Stepping
    <2>3. StepView(p)
        BY <2>2 DEF Stepping
    <2> QED
        BY <2>3 DEF StepView
<1> QED
    BY <1>5, <1>6

\* What interception is for: whatever an instruction reads, writes or executes
\* in an intercepted page comes from the frame chosen for that access.
THEOREM FramesAreRight ==
    ASSUME Diverts = FALSE, StraightLine
    PROVE  Spec => []AccessesSeeTheirFrames
<1>1. GuestInv /\ StraightInv /\ [Next]_vars => StraightInv'
    BY StraightKept
<1>2. GuestInv /\ StraightInv => AccessesSeeTheirFrames
    BY FramesSeen
<1> QED
    BY <1>1, <1>2, StraightInitially, GuestInvariance, PTL DEF Spec
-----------------------------------------------------------------------------
(***************************************************************************)
(* Violations end.  Every view grants the access it is shown for, and the  *)
(* views of the instruction's own page can be executed: unless a page is   *)
(* contended, a violation never denies what an earlier one of the          *)
(* instruction had granted in a fetch, nor a read that preceded a write.   *)
(***************************************************************************)

\* What the entries that last grant.
LEMMA LastingViews ==
    ASSUME NEW t \in Types, NEW h \in Hooks, NEW v, v = BuildPageHandler(t, h)
    PROVE  /\ v.OnRead # NotPresent => v.OnRead.read
           /\ v.OnExecute # NotPresent => v.OnExecute.execute
<1>1. /\ v.OnRead = View(h.read, TRUE, h.read = h.write, h.read = h.execute, t)
      /\ v.OnExecute = View(h.execute, h.read = h.execute, h.write = h.execute, TRUE, t)
    BY DEF BuildPageHandler
<1>2. v.OnRead # NotPresent => v.OnRead.read
    BY <1>1 DEF View, NotPresent
<1>3. v.OnExecute # NotPresent => v.OnExecute.execute
    BY <1>1 DEF View, NotPresent
<1> QED
    BY <1>2, <1>3

\* Which accesses to a page are denied once a view of it is shown.
LEMMA DeniedThen ==
    ASSUME EptInv, NEW p \in DOMAIN handlers, NEW view \in Pte,
           tables' = WritePte(handlers[p].pte, view), UNCHANGED <<pde, handlers, current>>
    PROVE  /\ p \in FetchDenied' <=> p \in current.code /\ ~view.execute
           /\ p \in ReadDenied' <=> p \in current.reads /\ ~view.read
           /\ p \in WriteDenied' <=> p \in current.writes /\ ~view.write
           /\ \A q \in Page \ {p} : Translate(q)' = Translate(q)
<1>1. /\ Translate(p)' = view
      /\ \A q \in Page \ {p} : Translate(q)' = Translate(q)
    BY ViewDecides
<1>2. p \in FetchDenied' <=> p \in current.code /\ ~view.execute
    BY <1>1 DEF FetchDenied
<1>3. p \in ReadDenied' <=> p \in current.reads /\ ~view.read
    BY <1>1 DEF ReadDenied
<1>4. p \in WriteDenied' <=> p \in current.writes /\ ~view.write
    BY <1>1 DEF WriteDenied
<1> QED
    BY <1>1, <1>2, <1>3, <1>4

\* What every violation that is not turned into an exception does.
LEMMA ViolationShows ==
    ASSUME GuestInv, ViewsBuilt, NEW p \in Page, EptViolation(p), current' = current
    PROVE  /\ p \in DOMAIN handlers
           /\ UNCHANGED <<pde, handlers>>
           /\ \E view \in Pte :
                 /\ tables' = WritePte(handlers[p].pte, view)
                 /\ \/ p \in FetchDenied /\ view.execute
                    \/ /\ FetchDenied = {} /\ p \in AccessedRead /\ view = ReadView(p)
                       /\ view.read /\ (p = current.ripPa => view.execute)
                    \/ /\ FetchDenied = {} /\ p \in AccessedWrite /\ view = WriteView(p)
                       /\ view.read /\ view.write /\ (p = current.ripPa => view.execute)
<1>1. ~InjectGeneralProtection
    BY DEF EptViolation, InjectGeneralProtection, DeliverEvent
<1>2. p \in DOMAIN handlers
    BY <1>1 DEF EptViolation, FetchViolation, OwnReadViolation, ReadViolation,
                OwnWriteViolation, WriteViolation, Unhandled, Handles
<1> DEFINE v == handlers[p].views
<1>3. PICK t \in Types, h \in Hooks : v = BuildPageHandler(t, h)
    BY <1>2 DEF ViewsBuilt
<1>4. /\ v.OnRead \in Pte /\ v.OnWrite \in Pte /\ v.OnExecute \in Pte
      /\ v.OnExecuteRead \in Pte /\ v.OnExecuteWrite \in Pte
    BY <1>2, HandlerTyped DEF GuestInv, EptInv
<1>5. /\ p = current.ripPa => ReadView(p) = v.OnExecuteRead /\ WriteView(p) = v.OnExecuteWrite
      /\ p # current.ripPa => ReadView(p) = v.OnRead /\ WriteView(p) = v.OnWrite
    BY DEF ReadView, WriteView
<1> HIDE DEF v
<1>6. /\ v.OnRead # NotPresent => v.OnRead.read
      /\ v.OnExecute # NotPresent => v.OnExecute.execute
      /\ v.OnWrite # NotPresent => v.OnWrite.read /\ v.OnWrite.write
      /\ v.OnExecuteRead # NotPresent => v.OnExecuteRead.read /\ v.OnExecuteRead.execute
      /\ v.OnExecuteWrite # NotPresent =>
             v.OnExecuteWrite.read /\ v.OnExecuteWrite.write /\ v.OnExecuteWrite.execute
    BY <1>3, LastingViews, StepViews
<1>7. CASE FetchViolation(p)
    <2>1. /\ p \in FetchDenied /\ v.OnExecute # NotPresent
          /\ tables' = WritePte(handlers[p].pte, v.OnExecute) /\ UNCHANGED <<pde, handlers>>
        BY <1>1, <1>7 DEF v, FetchViolation, Unhandled, HandleExecute, Handles, ShowView
    <2> QED
        BY <1>2, <1>4, <1>6, <2>1
<1>8. CASE OwnReadViolation(p)
    <2>1. /\ FetchDenied = {} /\ p \in AccessedRead /\ v.OnExecuteRead # NotPresent
          /\ p = current.ripPa
          /\ tables' = WritePte(handlers[p].pte, v.OnExecuteRead) /\ UNCHANGED <<pde, handlers>>
        BY <1>1, <1>8 DEF v, OwnReadViolation, HandleExecuteRead, Handles, ShowViewOnce
    <2> QED
        BY <1>2, <1>4, <1>5, <1>6, <2>1
<1>9. CASE ReadViolation(p)
    <2>1. /\ FetchDenied = {} /\ p \in AccessedRead /\ v.OnRead # NotPresent
          /\ p # current.ripPa
          /\ tables' = WritePte(handlers[p].pte, v.OnRead) /\ UNCHANGED <<pde, handlers>>
        BY <1>1, <1>9 DEF v, ReadViolation, HandleRead, Handles, ShowView
    <2> QED
        BY <1>2, <1>4, <1>5, <1>6, <2>1
<1>10. CASE OwnWriteViolation(p)
    <2>1. /\ FetchDenied = {} /\ p \in AccessedWrite /\ v.OnExecuteWrite # NotPresent
          /\ p = current.ripPa
          /\ tables' = WritePte(handlers[p].pte, v.OnExecuteWrite) /\ UNCHANGED <<pde, handlers>>
        BY <1>1, <1>10 DEF v, OwnWriteViolation, HandleExecuteWrite, Handles, ShowViewOnce
    <2> QED
        BY <1>2, <1>4, <1>5, <1>6, <2>1
<1>11. CASE WriteViolation(p)
    <2>1. /\ FetchDenied = {} /\ p \in AccessedWrite /\ v.OnWrite # NotPresent
          /\ p # current.ripPa
          /\ tables' = WritePte(handlers[p].pte, v.OnWrite) /\ UNCHANGED <<pde, handlers>>
        BY <1>1, <1>11 DEF v, WriteViolation, HandleWrite, Handles, ShowViewOnce
    <2> QED
        BY <1>2, <1>4, <1>5, <1>6, <2>1
<1> QED
    BY <1>7, <1>8, <1>9, <1>10, <1>11 DEF EptViolation

LEMMA ViolationNearer ==
    ASSUME GuestInv, ViewsBuilt, NEW p \in Page, EptViolation(p), current' = current
    PROVE  /\ p \in FetchDenied \/ ~Contended(p) => Nearer(p)
           /\ \A q \in Page \ {p} : Translate(q)' = Translate(q)
<1>0. current \in Instructions
    BY DEF EptViolation, GuestInv, GuestTypeOK
<1>1. PICK view \in Pte :
          /\ tables' = WritePte(handlers[p].pte, view)
          /\ \/ p \in FetchDenied /\ view.execute
             \/ /\ FetchDenied = {} /\ p \in AccessedRead /\ view = ReadView(p)
                /\ view.read /\ (p = current.ripPa => view.execute)
             \/ /\ FetchDenied = {} /\ p \in AccessedWrite /\ view = WriteView(p)
                /\ view.read /\ view.write /\ (p = current.ripPa => view.execute)
    BY ViolationShows
<1>2. p \in DOMAIN handlers /\ UNCHANGED <<pde, handlers>>
    BY ViolationShows
<1>3. /\ p \in FetchDenied' <=> p \in current.code /\ ~view.execute
      /\ p \in ReadDenied' <=> p \in current.reads /\ ~view.read
      /\ p \in WriteDenied' <=> p \in current.writes /\ ~view.write
      /\ \A q \in Page \ {p} : Translate(q)' = Translate(q)
    BY <1>1, <1>2, DeniedThen DEF GuestInv
<1> SUFFICES ASSUME p \in FetchDenied \/ ~Contended(p)
             PROVE  Nearer(p)
    BY <1>3
<1>4. CASE p \in FetchDenied /\ view.execute
    BY <1>3, <1>4 DEF Nearer
<1>5. CASE /\ FetchDenied = {} /\ p \in AccessedRead /\ view = ReadView(p)
           /\ view.read /\ (p = current.ripPa => view.execute)
    <2>1. ~Contended(p)
        BY <1>5
    <2>2. p \notin FetchDenied /\ p \notin FetchDenied' /\ p \notin ReadDenied'
        BY <1>2, <1>3, <1>5, <2>1 DEF Contended
    <2>3. CASE p \in ReadDenied
        BY <2>2, <2>3 DEF Nearer
    <2>4. CASE p \notin ReadDenied
        <3>1. p \in WriteDenied /\ p \in current.rmw /\ TRUE \in ReadReported
            BY <1>0, <1>5, <2>4, DeniedAccess
        <3>2. p \notin WriteDenied'
            BY <1>2, <1>3, <1>5, <2>1, <3>1 DEF Contended
        <3> QED
            BY <2>2, <2>4, <3>1, <3>2 DEF Nearer
    <2> QED
        BY <2>3, <2>4
<1>6. CASE /\ FetchDenied = {} /\ p \in AccessedWrite /\ view = WriteView(p)
           /\ view.read /\ view.write /\ (p = current.ripPa => view.execute)
    <2>1. ~Contended(p)
        BY <1>6
    <2>2. p \notin FetchDenied /\ p \notin FetchDenied' /\ p \notin ReadDenied' /\ p \notin WriteDenied'
        BY <1>2, <1>3, <1>6, <2>1 DEF Contended
    <2>3. p \in ReadDenied \/ p \in WriteDenied
        BY <1>0, <1>6, DeniedAccess
    <2> QED
        BY <2>2, <2>3 DEF Nearer
<1> QED
    BY <1>1, <1>4, <1>5, <1>6

\* Whatever pages are intercepted with whatever frames, and whatever the
\* instruction accesses, each violation brings it nearer to its end, unless the
\* page is a contended one: updated in one access through a read-only view, or
\* code and data of the instruction in views that are not both.
THEOREM ViolationsProgress == Spec => ViolationsComeNearer
<1>1. GuestInit => ViewsBuilt
    BY DEF GuestInit, EptInit, EmptyMap, ViewsBuilt
<1>2. GuestInv /\ ViewsBuilt /\ [Next]_vars => ViewsBuilt'
    BY ViewsBuiltKept
<1>3. ASSUME GuestInv, ViewsBuilt, [Next]_vars
      PROVE  [\A p \in Page :
                  EptViolation(p) /\ current' = current =>
                      /\ p \in FetchDenied \/ ~Contended(p) => Nearer(p)
                      /\ \A q \in Page \ {p} : Translate(q)' = Translate(q)]_vars
    BY <1>3, ViolationNearer
<1> QED
    BY <1>1, <1>2, <1>3, GuestInvariance, PTL DEF Spec, ViolationsComeNearer
=============================================================================
