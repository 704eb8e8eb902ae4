------------------------- MODULE InterceptAllProofs -------------------------
(***************************************************************************)
(* Theorems about InterceptAll: for every set of processors and clients,   *)
(* the processors that may run threads agree on the intercepted pages, and *)
(* a request takes effect on all of them at once.                          *)
(***************************************************************************)
EXTENDS InterceptAll, TLAPS

LEMMA HookAfterType ==
    ASSUME NEW table \in HookTable, NEW info \in Info
    PROVE  HookAfter(table, info) \in HookTable
    BY DEF HookAfter, HookTable, Info

LEMMA InitInv == Init => InterceptAllInv
<1> SUFFICES ASSUME Init PROVE InterceptAllInv
    OBVIOUS
<1>1. InterceptAllTypeOK
    BY DEF Init, InterceptAllTypeOK, HookTable, Stage
<1>2. StageMatchesOwner /\ NoneSignalsEarly /\ EqualTables /\ OneRequestAhead
    BY DEF Init, StageMatchesOwner, NoneSignalsEarly, EqualTables, OneRequestAhead
<1> QED
    BY <1>1, <1>2 DEF InterceptAllInv

-----------------------------------------------------------------------------
(***************************************************************************)
(* The inductive step, one lemma per action that moves processors.         *)
(***************************************************************************)

\* A client that adds its call is not the owner, whose call is pending.
LEMMA RequestInv ==
    ASSUME InterceptAllInv, NEW cl \in Clients, NEW info \in Info,
           calls[cl] = Null,
           calls' = [calls EXCEPT ![cl] = info],
           UNCHANGED <<installed, owner, stage>>
    PROVE  InterceptAllInv'
<1> USE DEF InterceptAllInv
<1>1. InterceptAllTypeOK'
    BY DEF InterceptAllTypeOK
<1>2. owner # Null => owner # cl /\ calls'[owner] = calls[owner]
    BY DEF InterceptAllTypeOK, StageMatchesOwner
<1>3. StageMatchesOwner'
    BY <1>2 DEF StageMatchesOwner
<1>4. NoneSignalsEarly' /\ EqualTables'
    BY DEF NoneSignalsEarly, EqualTables
<1>5. OneRequestAhead'
    BY <1>2 DEF OneRequestAhead, StageMatchesOwner
<1> QED
    BY <1>1, <1>3, <1>4, <1>5

LEMMA BroadcastInv ==
    ASSUME InterceptAllInv, NEW cl \in Clients, KeGenericCallDpc(cl)
    PROVE  InterceptAllInv'
<1> USE DEF InterceptAllInv, KeGenericCallDpc
<1>1. InterceptAllTypeOK'
    BY DEF InterceptAllTypeOK, Stage
<1>2. StageMatchesOwner' /\ NoneSignalsEarly'
    BY InterceptAllAssumption DEF StageMatchesOwner, NoneSignalsEarly
<1>3. \A c, d \in Cpus : installed[c] = installed[d]
    BY DEF StageMatchesOwner, EqualTables
<1>4. EqualTables' /\ OneRequestAhead'
    BY <1>3 DEF EqualTables, OneRequestAhead
<1> QED
    BY <1>1, <1>2, <1>4

\* The facts a callback finds: its owner waits, with a call of the right type.
LEMMA CallbackFacts ==
    ASSUME InterceptAllInv, NEW c \in Cpus, Callback(c)
    PROVE  /\ owner \in Clients
           /\ calls[owner] \in Info
           /\ installed'[c] = HookAfter(installed[c], calls[owner])
           /\ stage'[c] = "called"
           /\ \A d \in Cpus \ {c} : installed'[d] = installed[d] /\ stage'[d] = stage[d]
    BY DEF InterceptAllInv, InterceptAllTypeOK, StageMatchesOwner, Callback

LEMMA CallbackInv ==
    ASSUME InterceptAllInv, NEW c \in Cpus, Callback(c)
    PROVE  InterceptAllInv'
<1> USE DEF InterceptAllInv
<1> stage[c] = "queued" /\ UNCHANGED <<calls, owner>>
    BY DEF Callback
<1>1. InterceptAllTypeOK'
    <2>1. HookAfter(installed[c], calls[owner]) \in HookTable
        BY CallbackFacts, HookAfterType DEF InterceptAllTypeOK
    <2> QED
        BY <2>1 DEF InterceptAllTypeOK, Callback, Stage
<1>2. StageMatchesOwner' /\ NoneSignalsEarly'
    BY CallbackFacts DEF StageMatchesOwner, NoneSignalsEarly
<1>3. EqualTables'
    BY CallbackFacts DEF EqualTables, OneRequestAhead
<1>4. OneRequestAhead'
    BY CallbackFacts DEF EqualTables, OneRequestAhead
<1> QED
    BY <1>1, <1>2, <1>3, <1>4

LEMMA SignalInv ==
    ASSUME InterceptAllInv, NEW c \in Cpus, Signal(c)
    PROVE  InterceptAllInv'
<1> USE DEF InterceptAllInv, Signal
<1>1. InterceptAllTypeOK'
    BY DEF InterceptAllTypeOK, Stage
<1>2. /\ stage'[c] = "signaled"
      /\ \A d \in Cpus \ {c} : stage'[d] = stage[d]
    BY DEF InterceptAllTypeOK
<1>3. StageMatchesOwner' /\ NoneSignalsEarly'
    BY <1>2 DEF StageMatchesOwner, NoneSignalsEarly
<1>4. EqualTables' /\ OneRequestAhead'
    BY <1>2 DEF EqualTables, OneRequestAhead
<1> QED
    BY <1>1, <1>3, <1>4

LEMMA AnswerInv ==
    ASSUME InterceptAllInv, NEW cl \in Clients, Answer(cl)
    PROVE  InterceptAllInv'
<1> USE DEF InterceptAllInv, Answer
<1>1. InterceptAllTypeOK'
    BY DEF InterceptAllTypeOK, Stage
<1>2. StageMatchesOwner' /\ NoneSignalsEarly'
    BY InterceptAllAssumption DEF StageMatchesOwner, NoneSignalsEarly
<1>3. EqualTables' /\ OneRequestAhead'
    BY DEF EqualTables, OneRequestAhead
<1> QED
    BY <1>1, <1>2, <1>3

LEMMA NextInv ==
    ASSUME InterceptAllInv, [Next]_vars
    PROVE  InterceptAllInv'
<1>1. ASSUME NEW cl \in Clients, NEW p \in Pages, NEW h \in Hooks, InterceptPage(cl, p, h)
      PROVE  InterceptAllInv'
    <2>1. [page |-> p, hook |-> h] \in Info
        BY DEF Info
    <2> QED
        BY <1>1, <2>1, RequestInv DEF InterceptPage
<1>2. ASSUME NEW cl \in Clients, NEW p \in Pages, DeinterceptPage(cl, p)
      PROVE  InterceptAllInv'
    <2>1. [page |-> p, hook |-> Null] \in Info
        BY DEF Info
    <2> QED
        BY <1>2, <2>1, RequestInv DEF DeinterceptPage
<1>3. CASE UNCHANGED vars
    BY <1>3 DEF vars, InterceptAllInv, InterceptAllTypeOK, StageMatchesOwner,
                NoneSignalsEarly, EqualTables, OneRequestAhead
<1> QED
    BY <1>1, <1>2, <1>3, BroadcastInv, CallbackInv, SignalInv, AnswerInv DEF Next

LEMMA InvAlways == Spec => []InterceptAllInv
    BY InitInv, NextInv, PTL DEF Spec

-----------------------------------------------------------------------------
\* Type correctness of the requests, the DPCs and the interceptors.
THEOREM InterceptAllTypes == Spec => []InterceptAllTypeOK
<1>1. InterceptAllInv => InterceptAllTypeOK
    BY DEF InterceptAllInv
<1> QED
    BY <1>1, InvAlways, PTL

LEMMA InvAgree == InterceptAllInv => RunningProcessorsAgree
<1> SUFFICES ASSUME InterceptAllInv,
                    NEW c \in Cpus, NEW d \in Cpus, MayRunThreads(c), MayRunThreads(d)
             PROVE  installed[c] = installed[d]
    BY DEF RunningProcessorsAgree
<1> USE DEF InterceptAllInv
<1>1. CASE owner = Null
    BY <1>1 DEF StageMatchesOwner, EqualTables
<1>2. CASE owner # Null
    <2>1. stage[c] \in {"queued", "signaled"} /\ stage[d] \in {"queued", "signaled"}
        BY <1>2 DEF StageMatchesOwner, MayRunThreads, InterceptAllTypeOK, Stage
    <2> QED
        BY <2>1 DEF NoneSignalsEarly, EqualTables
<1> QED
    BY <1>1, <1>2

\* DpcOnEachCpu with its barrier: whatever the number of processors and
\* clients, two processors that may run threads of the guest at the same time
\* intercept the same pages in the same way.
THEOREM ProcessorsAgree == Spec => []RunningProcessorsAgree
    BY InvAlways, InvAgree, PTL

-----------------------------------------------------------------------------
(***************************************************************************)
(* InterceptAll implements PageHooks: the last processor to run the        *)
(* routine makes the request take effect; the other steps of the DPCs are  *)
(* stuttering steps.                                                       *)
(***************************************************************************)

\* What the table of the clients is, whichever processor CHOOSE picks.
LEMMA CurrentTableIs ==
    InterceptAllInv =>
        \A c \in Cpus : stage[c] = "queued" \/ Queued = {} => CurrentTable = installed[c]
<1> SUFFICES ASSUME InterceptAllInv,
                    NEW c \in Cpus, stage[c] = "queued" \/ Queued = {}
             PROVE  CurrentTable = installed[c]
    OBVIOUS
<1> DEFINE d == CHOOSE x \in Cpus : Queued # {} => x \in Queued
<1>1. d \in Cpus /\ (Queued # {} => d \in Queued)
    BY DEF Queued
<1>2. stage[c] = "queued" <=> stage[d] = "queued"
    BY <1>1 DEF Queued
<1>3. CurrentTable = installed[d]
    BY DEF CurrentTable
<1> HIDE DEF d
<1> QED
    BY <1>1, <1>2, <1>3 DEF InterceptAllInv, EqualTables

LEMMA CurrentTableIsNext ==
    (InterceptAllInv =>
        \A c \in Cpus : stage[c] = "queued" \/ Queued = {} => CurrentTable = installed[c])'
    BY CurrentTableIs, PTL

LEMMA RequestsAreNotNull ==
    ASSUME NEW info \in Info, NEW b \in BOOLEAN
    PROVE  /\ info # Null
           /\ [page |-> info.page, hook |-> info.hook, done |-> b] # Null
<1>1. info.page \in Pages /\ info.hook \in Hooks \union {Null}
    BY DEF Info
<1>2. [page |-> info.page, hook |-> info.hook, done |-> b]
        \in [page : Pages, hook : Hooks \union {Null}, done : BOOLEAN]
    BY <1>1
<1> QED
    BY <1>2, InterceptAllAssumption DEF Info

LEMMA RequestImplements ==
    ASSUME InterceptAllInv, NEW cl \in Clients, NEW p \in Pages,
           NEW h \in Hooks \union {Null},
           calls[cl] = Null,
           calls' = [calls EXCEPT ![cl] = [page |-> p, hook |-> h]],
           UNCHANGED <<installed, owner, stage>>
    PROVE  Abstract!Call(cl, p, h)
<1>1. owner # cl
    BY InterceptAllAssumption DEF InterceptAllInv, StageMatchesOwner
<1>2. UNCHANGED CurrentTable /\ UNCHANGED Queued
    BY DEF CurrentTable, Queued
<1>3. [page |-> p, hook |-> h] # Null
    BY RequestsAreNotNull DEF Info
<1>4. Requests[cl] = Null
    BY DEF Requests
<1>5. /\ calls'[cl] = [page |-> p, hook |-> h]
      /\ \A x \in Clients \ {cl} : calls'[x] = calls[x]
    BY DEF InterceptAllInv, InterceptAllTypeOK
<1>6. Requests'[cl] = [page |-> p, hook |-> h, done |-> FALSE]
    <2>1. (owner' = cl /\ Queued' = {}) = FALSE
        BY <1>1
    <2>2. Requests'[cl] = [page |-> calls'[cl].page, hook |-> calls'[cl].hook,
                           done |-> owner' = cl /\ Queued' = {}]
        <3>1. calls'[cl] # Null
            BY <1>3, <1>5, Zenon
        <3>2. Requests'[cl] = IF calls'[cl] = Null THEN Null
                              ELSE [page |-> calls'[cl].page, hook |-> calls'[cl].hook,
                                    done |-> owner' = cl /\ Queued' = {}]
            BY Zenon DEF Requests
        <3> QED
            BY <3>1, <3>2, Zenon
    <2>3. calls'[cl].page = p /\ calls'[cl].hook = h
        BY <1>5
    <2> QED
        BY <2>1, <2>2, <2>3, Zenon
<1>7. \A x \in Clients \ {cl} : Requests'[x] = Requests[x]
    BY <1>2, <1>5 DEF Requests
<1>8. Requests' = [Requests EXCEPT ![cl] = [page |-> p, hook |-> h, done |-> FALSE]]
    <2> DEFINE old == Requests
               new == Requests'
    <2>1. old = [x \in Clients |-> old[x]] /\ new = [x \in Clients |-> new[x]]
        BY DEF Requests
    <2>2. /\ new[cl] = [page |-> p, hook |-> h, done |-> FALSE]
          /\ \A x \in Clients \ {cl} : new[x] = old[x]
        BY <1>6, <1>7
    <2> HIDE DEF old, new
    <2>3. new = [old EXCEPT ![cl] = [page |-> p, hook |-> h, done |-> FALSE]]
        BY <2>1, <2>2
    <2> QED
        BY <2>3 DEF old, new
<1> QED
    BY <1>2, <1>4, <1>8 DEF Abstract!Call

LEMMA BroadcastStutters ==
    ASSUME InterceptAllInv, InterceptAllInv', NEW cl \in Clients, KeGenericCallDpc(cl)
    PROVE  UNCHANGED <<CurrentTable, Requests>>
<1> USE DEF KeGenericCallDpc
<1>1. PICK c \in Cpus : TRUE
    BY InterceptAllAssumption
<1>2. Queued = {} /\ Queued' # {} /\ stage'[c] = "queued"
    BY <1>1 DEF InterceptAllInv, StageMatchesOwner, Queued
<1>3. UNCHANGED CurrentTable
    BY <1>1, <1>2, CurrentTableIs, CurrentTableIsNext
<1>4. UNCHANGED Requests
    BY <1>2, InterceptAllAssumption DEF Requests
<1> QED
    BY <1>3, <1>4

LEMMA CallbackImplements ==
    ASSUME InterceptAllInv, InterceptAllInv', NEW c \in Cpus, Callback(c)
    PROVE  \/ Abstract!TakeEffect(owner)
           \/ UNCHANGED <<CurrentTable, Requests>>
<1> stage[c] = "queued" /\ UNCHANGED <<calls, owner>>
    BY DEF Callback
<1> DEFINE info == calls[owner]
<1>1. /\ owner \in Clients
      /\ info # Null
      /\ Queued # {}
      /\ Queued' = Queued \ {c}
    BY CallbackFacts DEF InterceptAllInv, StageMatchesOwner, Queued
<1>2. CASE Queued = {c}
    <2>1. Queued' = {}
        BY <1>1, <1>2
    <2>2. CurrentTable = installed[c] /\ CurrentTable' = installed'[c]
        BY <2>1, CurrentTableIs, CurrentTableIsNext
    <2>3. CurrentTable' = [CurrentTable EXCEPT ![info.page] = info.hook]
        BY <2>2, CallbackFacts DEF HookAfter
    <2>4. Requests[owner] = [page |-> info.page, hook |-> info.hook, done |-> FALSE]
        BY <1>1 DEF Requests
    <2>5. Requests[owner] # Null
        BY <2>4, CallbackFacts, RequestsAreNotNull
    <2>6. Requests' = [Requests EXCEPT ![owner] = [@ EXCEPT !.done = TRUE]]
        BY <1>1, <2>1, <2>4 DEF Requests
    <2> QED
        BY <2>3, <2>4, <2>5, <2>6 DEF Abstract!TakeEffect
<1>3. CASE Queued # {c}
    <2>1. PICK d \in Cpus \ {c} : stage[d] = "queued"
        BY <1>1, <1>3 DEF Queued
    <2>2. stage'[d] = "queued" /\ installed'[d] = installed[d]
        BY <2>1, CallbackFacts
    <2>3. UNCHANGED CurrentTable
        BY <2>1, <2>2, CurrentTableIs, CurrentTableIsNext
    <2>4. Queued' # {}
        BY <2>1, <2>2 DEF Queued
    <2>5. UNCHANGED Requests
        BY <1>1, <2>4 DEF Requests
    <2> QED
        BY <2>3, <2>5
<1> QED
    BY <1>2, <1>3

LEMMA SignalStutters ==
    ASSUME InterceptAllInv, NEW c \in Cpus, Signal(c)
    PROVE  UNCHANGED <<CurrentTable, Requests>>
<1>1. UNCHANGED Queued
    BY DEF Signal, Queued, InterceptAllInv, InterceptAllTypeOK
<1> QED
    BY <1>1 DEF Signal, CurrentTable, Requests

LEMMA AnswerImplements ==
    ASSUME InterceptAllInv, NEW cl \in Clients, Answer(cl)
    PROVE  Abstract!Return(cl)
<1> USE DEF Answer
<1>1. Queued = {} /\ Queued' = {}
    BY DEF Queued
<1>2. UNCHANGED CurrentTable
    BY <1>1 DEF CurrentTable
<1>3. calls[cl] \in Info
    BY InterceptAllAssumption DEF InterceptAllInv, StageMatchesOwner, InterceptAllTypeOK
<1>4. Requests[cl] = [page |-> calls[cl].page, hook |-> calls[cl].hook, done |-> TRUE]
    BY <1>1, InterceptAllAssumption DEF Requests, InterceptAllInv, StageMatchesOwner
<1>5. Requests[cl] # Null
    BY <1>3, <1>4, RequestsAreNotNull
<1>6. Requests' = [Requests EXCEPT ![cl] = Null]
    BY <1>1, InterceptAllAssumption DEF Requests, InterceptAllInv, InterceptAllTypeOK
<1> QED
    BY <1>2, <1>4, <1>5, <1>6 DEF Abstract!Return

LEMMA InitImplements == Init => Abstract!AbstractInit
<1> SUFFICES ASSUME Init PROVE Abstract!AbstractInit
    OBVIOUS
<1>1. PICK c \in Cpus : CurrentTable = installed[c]
    BY InterceptAllAssumption, InitInv, CurrentTableIs DEF Init, Queued
<1> QED
    BY <1>1 DEF Init, Requests, Abstract!AbstractInit

LEMMA NextImplements ==
    ASSUME InterceptAllInv, InterceptAllInv', [Next]_vars
    PROVE  [Abstract!AbstractNext]_(Abstract!absVars)
<1> USE DEF Abstract!AbstractNext, Abstract!absVars
<1>1. ASSUME NEW cl \in Clients, NEW p \in Pages, NEW h \in Hooks, InterceptPage(cl, p, h)
      PROVE  Abstract!Call(cl, p, h)
    BY <1>1, RequestImplements DEF InterceptPage
<1>2. ASSUME NEW cl \in Clients, NEW p \in Pages, DeinterceptPage(cl, p)
      PROVE  Abstract!Call(cl, p, Null)
    BY <1>2, RequestImplements DEF DeinterceptPage
<1>3. ASSUME NEW c \in Cpus, Callback(c)
      PROVE  [Abstract!AbstractNext]_(Abstract!absVars)
    BY <1>3, CallbackImplements, CallbackFacts
<1>4. CASE UNCHANGED vars
    BY <1>4 DEF vars, CurrentTable, Queued, Requests
<1> QED
    BY <1>1, <1>2, <1>3, <1>4, BroadcastStutters, SignalStutters, AnswerImplements DEF Next

\* The broadcast of DpcOnEachCpu: whatever the number of processors and
\* clients, the requests behave as if there were one table of intercepted
\* pages and each request changed it at one instant before it returns.
THEOREM RequestsAtOnce == Spec => RequestsTakeEffectAtOnce
<1>1. InterceptAllInv /\ InterceptAllInv' /\ [Next]_vars
        => [Abstract!AbstractNext]_(Abstract!absVars)
    BY NextImplements
<1> QED
    BY <1>1, InvAlways, InitImplements, PTL
       DEF Spec, RequestsTakeEffectAtOnce, Abstract!AbstractSpec
=============================================================================
