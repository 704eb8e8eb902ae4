------------------------------ MODULE EptGuest ------------------------------
(***************************************************************************)
(* One virtualized processor: the guest's instructions, the EPT violations *)
(* they raise, and the exit handlers of example/Simple example/Driver/Src/ *)
(* Hpv.cpp that drive the interceptor (EptViolationHandler,                *)
(* MonitorTrapFlagHandler, and the VMCALLs that intercept, deintercept and *)
(* start a trace).  A VM exit and its handler are one step: the guest of   *)
(* this processor does not run in between, and no other processor touches  *)
(* these tables.                                                           *)
(***************************************************************************)
EXTENDS EptHandler

CONSTANTS
    Instructions,   \* the instructions the guest may execute
    NextRip,        \* Rip + instruction length
    ReadReported,   \* is a denied read-modify-write access reported as a read
                    \* too, besides as a write?  (left to the processor)
    Diverts,        \* may an NMI or an exception cut an instruction short?
    Traced,         \* the answers to "is the current process TraceProcess::In's?"
    AddrEnd         \* TraceProcess::In->AddrEnd

\* An instruction: the page of its first byte, the page that
\* GetPhysAddressFast4KbUnsafe finds for its address (the same for code that is
\* mapped in 4 KB pages, any other for code in large pages), the pages of all
\* its bytes, the pages it reads and writes, those of them it reads and writes
\* in one access, and whether it may go elsewhere than to the next instruction
\* (a call, a return, a repeated string instruction).
Instruction == [page: Page, ripPa: Frame, code: SUBSET Page, reads: SUBSET Page,
                writes: SUBSET Page, rmw: SUBSET Page, branches: BOOLEAN]

ASSUME GuestAssumption ==
    /\ Instructions \subseteq Instruction
    /\ \A i \in Instructions : i.rmw \subseteq i.reads \intersect i.writes
    /\ Null \notin Instruction
    /\ NextRip \in [Rips -> Rips]
    /\ ReadReported \subseteq BOOLEAN
    /\ Diverts \in BOOLEAN
    /\ Traced \subseteq BOOLEAN
    /\ AddrEnd \in Rips

VARIABLES
    rip,       \* GUEST_RIP: the instruction to execute, or being executed
    current,   \* the instruction being executed, or Null between two
    mtf,       \* the "monitor trap flag" VM-execution control
    trap,      \* a monitor-trap-flag VM exit is due
    interrupts \* RFLAGS.IF

guestVars == <<rip, current, mtf, trap, interrupts>>
vars == <<eptVars, guestVars>>

GuestInit ==
    /\ EptInit
    /\ rip \in Rips
    /\ current = Null
    /\ mtf = FALSE
    /\ trap = FALSE
    /\ interrupts = TRUE

\* The entry that translates page p.
Translate(p) ==
    IF pde[p[1]].large
    THEN BuildPtesForPde(pde[p[1]])[p[2]]
    ELSE tables[pde[p[1]].table][p[2]]

FetchDenied == {p \in current.code : ~Translate(p).execute}
ReadDenied == {p \in current.reads : ~Translate(p).read}
WriteDenied == {p \in current.writes : ~Translate(p).write}

\* The pages an EPT violation of the instruction's data may be raised for,
\* with AccessedRead set in its exit qualification, and with AccessedWrite
\* alone.
UpdateDenied == current.rmw \intersect (ReadDenied \union WriteDenied)
AccessedRead == (ReadDenied \ current.rmw)
                    \union {p \in UpdateDenied : TRUE \in ReadReported}
AccessedWrite == (WriteDenied \ current.rmw)
                     \union {p \in UpdateDenied : FALSE \in ReadReported}

Boundary == current = Null /\ ~trap
-----------------------------------------------------------------------------
(***************************************************************************)
(* The guest.                                                              *)
(***************************************************************************)

\* The next instruction.  What ran before it may have been CLI, STI or IRET.
Start(i) ==
    /\ Boundary
    /\ current' = i
    /\ interrupts' \in BOOLEAN
    /\ UNCHANGED <<rip, mtf, trap, eptVars>>

\* The instruction has every access it needs and completes.
Retire ==
    /\ current # Null
    /\ FetchDenied \union ReadDenied \union WriteDenied = {}
    /\ rip' = NextRip[rip] \/ (current.branches /\ rip' \in Rips)
    /\ current' = Null
    /\ trap' = mtf
    /\ UNCHANGED <<mtf, interrupts, eptVars>>

\* The processor enters a handler of the guest instead of completing the
\* instruction: an interrupt, or an event IF does not hold back.
DeliverEvent ==
    /\ current' = Null
    /\ rip' \in Rips
    /\ interrupts' = FALSE
    /\ trap' = mtf
    /\ UNCHANGED <<mtf, eptVars>>

Interrupt == current # Null /\ interrupts /\ DeliverEvent

Divert == Diverts /\ current # Null /\ DeliverEvent
-----------------------------------------------------------------------------
(***************************************************************************)
(* EptViolationHandler.                                                    *)
(***************************************************************************)

\* The page acts as not present, or the interceptor has no such view of it.
Unhandled(p, view) ==
    \/ ~Translate(p).read /\ ~Translate(p).execute
    \/ ~Handles(p, view)

\* InjectEvent(#GP): the guest goes to its handler, past the instruction.
InjectGeneralProtection == DeliverEvent

\* Mutant: interrupts are not held off during the step.
SingleStepInterruptible ==
    /\ mtf' = TRUE
    /\ UNCHANGED <<rip, current, trap, interrupts>>

\* EnableMonitorTrapFlag, DisableGuestInterrupts, and the instruction repeats.
SingleStep ==
    /\ mtf' = TRUE
    /\ interrupts' = FALSE
    /\ UNCHANGED <<rip, current, trap>>

FetchViolation(p) ==
    /\ p \in FetchDenied
    /\ IF Unhandled(p, handlers[p].views.OnExecute)
       THEN InjectGeneralProtection
       ELSE HandleExecute(p) /\ UNCHANGED guestVars

\* A read of the instruction's own page is for this instruction only.  An access
\* that reads and writes is a read here.
OwnReadViolation(p) ==
    /\ FetchDenied = {}
    /\ p \in AccessedRead
    /\ p = current.ripPa
    /\ IF Unhandled(p, handlers[p].views.OnExecuteRead)
       THEN InjectGeneralProtection
       ELSE HandleExecuteRead(p, NextRip[rip]) /\ SingleStep

ReadViolation(p) ==
    /\ FetchDenied = {}
    /\ p \in AccessedRead
    /\ p # current.ripPa
    /\ IF Unhandled(p, handlers[p].views.OnRead)
       THEN InjectGeneralProtection
       ELSE HandleRead(p) /\ UNCHANGED guestVars

OwnWriteViolation(p) ==
    /\ FetchDenied = {}
    /\ p \in AccessedWrite
    /\ p = current.ripPa
    /\ IF Unhandled(p, handlers[p].views.OnExecuteWrite)
       THEN InjectGeneralProtection
       ELSE HandleExecuteWrite(p, NextRip[rip]) /\ SingleStep

WriteViolation(p) ==
    /\ FetchDenied = {}
    /\ p \in AccessedWrite
    /\ p # current.ripPa
    /\ IF Unhandled(p, handlers[p].views.OnWrite)
       THEN InjectGeneralProtection
       ELSE HandleWrite(p, NextRip[rip]) /\ SingleStep

EptViolation(p) ==
    /\ current # Null
    /\ \/ FetchViolation(p)
       \/ OwnReadViolation(p)
       \/ ReadViolation(p)
       \/ OwnWriteViolation(p)
       \/ WriteViolation(p)
-----------------------------------------------------------------------------
(***************************************************************************)
(* MonitorTrapFlagHandler, and the VMCALLs.                                *)
(***************************************************************************)

\* Mutant: the monitor trap flag is never disabled.
MonitorTrapStaysOn ==
    /\ trap
    /\ \/ CompletePendingHandler(rip)
       \/ pending.rip # rip /\ UNCHANGED eptVars
    /\ interrupts' = TRUE
    /\ trap' = FALSE
    /\ UNCHANGED <<rip, current, mtf>>

\* In the traced process stepping goes on until AddrEnd, in any other it stops
\* (the wait for the driver's client is not modelled here).
MonitorTrap ==
    /\ trap
    /\ \/ CompletePendingHandler(rip)
       \/ pending.rip # rip /\ UNCHANGED eptVars
    /\ \E traced \in Traced : mtf' = (traced /\ rip # AddrEnd)
    /\ interrupts' = TRUE
    /\ trap' = FALSE
    /\ UNCHANGED <<rip, current>>

\* VmcallHandler, MtfEnable.
MtfEnable ==
    /\ Boundary
    /\ TRUE \in Traced
    /\ mtf' = TRUE
    /\ UNCHANGED <<rip, current, trap, interrupts, eptVars>>

\* InternalInterceptPage and InternalDeinterceptPage on this processor.
Vmcall ==
    /\ Boundary
    /\ \E p \in HookPages : DeinterceptPage(p) \/ \E h \in Hooks : InterceptPage(p, h)
    /\ UNCHANGED guestVars
-----------------------------------------------------------------------------
Processor == Retire \/ (\E p \in Page : EptViolation(p)) \/ MonitorTrap

Next ==
    \/ \E i \in Instructions : Start(i)
    \/ Processor
    \/ Interrupt
    \/ Divert
    \/ MtfEnable
    \/ Vmcall

Spec == GuestInit /\ [][Next]_vars

\* The processor does not stop in the middle of an instruction or of an exit.
FairSpec == Spec /\ WF_vars(Processor)
-----------------------------------------------------------------------------
(***************************************************************************)
(* Properties.                                                             *)
(***************************************************************************)

\* The values of the guest's variables have their types.
GuestTypeOK ==
    /\ rip \in Rips
    /\ current \in Instructions \union {Null}
    /\ mtf \in BOOLEAN
    /\ trap \in BOOLEAN
    /\ interrupts \in BOOLEAN

Shown(p) == tables[handlers[p].pte[1]][handlers[p].pte[2]]

\* The entry of an intercepted page is always one of the views its client
\* asked for: no saved entry of an earlier interception, of another page or of
\* a released layout is ever put back into it.
ShownIsAView ==
    \A p \in DOMAIN handlers :
        \E name \in DOMAIN handlers[p].views : Shown(p) = handlers[p].views[name]

\* When MonitorTrapFlagHandler puts the saved entry back, the pointer it was
\* saved with still points at the entry of an intercepted page.
RestoreHitsAHandler ==
    trap /\ pending.rip = rip =>
        \E p \in DOMAIN handlers : handlers[p].pte = pending.pte

\* A page nobody intercepts is not touched on behalf of others: while it has no
\* handler its translation stays, or goes back to the page itself.
UnhookedStable ==
    [][\A p \in Page :
          p \notin DOMAIN handlers /\ p \notin DOMAIN handlers' =>
              \/ Translate(p)' = Translate(p)
              \/ Translate(p)' = BuildPtesForPde(LargePde(p[1]))[p[2]]]_vars

\* Hpv.cpp, EptViolationHandler: "Perform a single step".  Between two
\* instructions an intercepted page shows its read view or its execute view;
\* the views that allow one write, or one read of the instruction's own page,
\* are gone.
StepViewsAreGone ==
    Boundary => \A p \in DOMAIN handlers :
        Shown(p) \in {handlers[p].views.OnRead, handlers[p].views.OnExecute}

\* What interception is for: whatever an instruction that can complete reads,
\* writes or executes in an intercepted page comes from the frame its client
\* chose for that kind of access, whatever was accessed before.
AccessesSeeTheirFrames ==
    current # Null /\ FetchDenied \union ReadDenied \union WriteDenied = {} =>
        \A p \in DOMAIN handlers :
            LET v == handlers[p].views
                reads == p \in current.reads
                writes == p \in current.writes
                own == p = current.page
            IN  /\ ~own /\ writes => Shown(p).frame = v.OnWrite.frame
                /\ ~own /\ reads /\ ~writes => Shown(p).frame = v.OnRead.frame
                /\ own /\ ~reads /\ ~writes => Shown(p).frame = v.OnExecute.frame
                /\ own /\ reads /\ ~writes =>
                      Shown(p).frame = IF v.OnExecute.read THEN v.OnExecute.frame
                                       ELSE v.OnExecuteRead.frame
                /\ own /\ writes /\ ~reads =>
                      Shown(p).frame = IF v.OnExecute.write THEN v.OnExecute.frame
                                       ELSE v.OnExecuteWrite.frame

\* A view shown for an access to page p gives it that access, and takes from
\* it no access that a violation of this one could be raised for again: the
\* first of fetch, read and write whose denial changes is granted.
Nearer(p) ==
    \/ p \in FetchDenied /\ p \notin FetchDenied'
    \/ /\ p \in FetchDenied <=> p \in FetchDenied'
       /\ \/ p \in ReadDenied /\ p \notin ReadDenied'
          \/ /\ p \in ReadDenied <=> p \in ReadDenied'
             /\ p \in WriteDenied /\ p \notin WriteDenied'

\* The views EptViolationHandler shows when page p is read, and when it is
\* written.
ReadView(p) == IF p = current.ripPa THEN handlers[p].views.OnExecuteRead
               ELSE handlers[p].views.OnRead
WriteView(p) == IF p = current.ripPa THEN handlers[p].views.OnExecuteWrite
                ELSE handlers[p].views.OnWrite

\* The accesses for which no view is right.  A page the instruction reads and
\* writes in one access is shown as for a read (AccessedRead is looked at before
\* AccessedWrite), in a view that cannot be written.  A page of the
\* instruction's bytes is accessed as data, and not found to be one of its
\* own: it is the second of two, or in a large page.
Contended(p) ==
    /\ p \in DOMAIN handlers
    /\ \/ p \in current.rmw /\ TRUE \in ReadReported /\ ~ReadView(p).write
       \/ /\ p \in current.code /\ p # current.ripPa
          /\ ~(ReadView(p).execute /\ WriteView(p).execute)

\* Each EPT violation brings its instruction nearer to its end, or injects an
\* exception: the page gets the access, and no other page loses one
\* (EptViolationHandler).  Only data accesses to contended pages do not.
ViolationsComeNearer ==
    [][\A p \in Page :
          EptViolation(p) /\ current' = current =>
              /\ p \in FetchDenied \/ ~Contended(p) => Nearer(p)
              /\ \A q \in Page \ {p} : Translate(q)' = Translate(q)]_vars

\* Every instruction ends, by completing or with an exception, unless it reads
\* or writes a contended page: the views of one access never keep taking away
\* the rights another one needs.
InstructionsEnd ==
    (current # Null) ~>
        \/ current = Null
        \/ \E p \in current.reads \union current.writes : Contended(p)
=============================================================================
