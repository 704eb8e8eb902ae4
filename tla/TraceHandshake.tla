--------------------------- MODULE TraceHandshake ---------------------------
(***************************************************************************)
(* The hand-over of a traced thread's steps: the monitor trap exit writes  *)
(* a report and spins in VMX root operation until the device request of a  *)
(* client has fetched it (Hpv.cpp, IOCTLHandlers.cpp, Trace.cpp).          *)
(*                                                                         *)
(* The two sides share plain variables.  Each store to one of them is a    *)
(* step here, in the order of the source, which x86 keeps; every pass of a *)
(* waiting loop reads the variable again.                                  *)
(***************************************************************************)
EXTENDS Naturals, Sequences, FiniteSets

CONSTANTS
    Cpus,      \* logical processors
    Buffers,   \* pool memory that can hold a report; bounds the calls of InitTrace
    MaxSteps,  \* bound: instructions of the traced thread
    AddrEnd,   \* the instruction that ends the trace
    Mapped,    \* the instructions whose address the host page tables map
    Null, Garbage, Zeroed

Steps == 1..MaxSteps

ASSUME TraceAssumption ==
    /\ MaxSteps \in Nat
    /\ Null \notin Cpus \union Buffers
    /\ Garbage \notin Steps /\ Zeroed \notin Steps

VARIABLES
    enabled,    \* TraceProcess::EnabledMtfTrace
    repeat,     \* TraceProcess::RepeatMtfExit
    inExit,     \* TraceProcess::InMtfExit
    in,         \* TraceProcess::In is not NULL
    out,        \* TraceProcess::Out
    reports,    \* what the allocated reports hold
    mtf,        \* the processors with the monitor trap flag
    thread,     \* the processor on which the traced thread runs
    step,       \* how many instructions it has executed
    handler,    \* where the exit handler of that processor is
    client,     \* where the client's request is
    resumed,    \* the client has let the suspended process start
    crashed,    \* the machine has stopped
    \* History:
    reported,   \* the steps announced by InMtfExit
    delivered,  \* the reports the client has got
    overtaken,  \* a step was announced before the request of the last one ended
    swapped,    \* InitTrace replaced Out while a report was in the making or due
    failed      \* an allocation of InitTrace failed

flags == <<enabled, repeat, inExit>>
guest == <<mtf, thread, step, handler>>
history == <<reported, delivered, overtaken, swapped, failed>>
vars == <<flags, in, out, reports, guest, client, resumed, crashed, history>>

Report == [rip: Steps \union {Garbage, Zeroed}, opcodes: Steps \union {Garbage, Zeroed}]
Of(s) == [rip |-> s, opcodes |-> s]

Init ==
    /\ enabled = FALSE /\ repeat = FALSE /\ inExit = FALSE
    /\ in = FALSE /\ out = Null
    /\ reports = [b \in {} |-> Of(Garbage)]
    /\ mtf = {} /\ thread = Null /\ step = 0 /\ handler = "guest"
    /\ client = "idle" /\ resumed = FALSE /\ crashed = FALSE
    /\ reported = << >> /\ delivered = << >>
    /\ overtaken = FALSE /\ swapped = FALSE /\ failed = FALSE

ClientAt(where) == ~crashed /\ client = where
HandlerAt(where) == ~crashed /\ handler = where

\* A NULL pointer or an unmapped address is used in VMX root operation.
Crash == crashed' = TRUE /\ UNCHANGED <<flags, in, out, reports, guest, client, resumed, history>>

\* A report is being written, or written and not fetched.
ReportDue == handler \in {"opcodes", "signal"} \/ Len(delivered) < Len(reported)
-----------------------------------------------------------------------------
(***************************************************************************)
(* The client: requests one after the other.                               *)
(***************************************************************************)

\* InitTrace publishes In ...
InitTrace ==
    /\ ClientAt("idle")
    /\ enabled' = TRUE
    /\ \/ in' = TRUE /\ client' = "init" /\ UNCHANGED failed
       \/ failed' = TRUE /\ client' = "ready" /\ UNCHANGED in
    /\ UNCHANGED <<repeat, inExit, out, reports, guest, resumed, crashed,
                   reported, delivered, overtaken, swapped>>

\* Mutant: Out is not set.
InitTraceOutUnset ==
    /\ ClientAt("init")
    /\ client' = "ready"
    /\ \E b \in Buffers \ DOMAIN reports :
           reports' = [a \in DOMAIN reports \union {b} |->
                          IF a = b THEN Of(Garbage) ELSE reports[a]]
    /\ UNCHANGED <<flags, in, out, guest, resumed, crashed, history>>

\* ... and then Out; the old ones are not freed.
InitTraceOut ==
    /\ ClientAt("init")
    /\ client' = "ready"
    /\ \/ \E b \in Buffers \ DOMAIN reports :
             /\ out' = b
             /\ reports' = [a \in DOMAIN reports \union {b} |->
                               IF a = b THEN Of(Garbage) ELSE reports[a]]
             /\ swapped' = (swapped \/ ReportDue)
             /\ UNCHANGED failed
       \/ failed' = TRUE /\ UNCHANGED <<out, reports, swapped>>
    /\ UNCHANGED <<flags, in, guest, resumed, crashed, reported, delivered, overtaken>>

\* The client looks at no result of InitTrace before it resumes the process.
ResumeThread ==
    /\ ClientAt("ready")
    /\ client' = "idle"
    /\ resumed' = TRUE
    /\ UNCHANGED <<flags, in, out, reports, guest, crashed, history>>

\* Mutant: an announcement made before the request is dropped.
TraceProcessAnew ==
    /\ ClientAt("idle") /\ resumed
    /\ client' = "wait"
    /\ inExit' = FALSE
    /\ UNCHANGED <<enabled, repeat, in, out, reports, guest, resumed, crashed, history>>

\* MvVmmTraceProcess is called.
TraceProcess ==
    /\ ClientAt("idle") /\ resumed
    /\ client' = "wait"
    /\ UNCHANGED <<flags, in, out, reports, guest, resumed, crashed, history>>

\* Mutant: the report is cleared before it is copied.
FetchZeroed ==
    /\ ClientAt("wait") /\ inExit
    /\ delivered' = Append(delivered, Of(Zeroed))
    /\ reports' = [reports EXCEPT ![out] = Of(Zeroed)]
    /\ client' = "letgo"
    /\ UNCHANGED <<flags, in, out, guest, resumed, crashed,
                   reported, overtaken, swapped, failed>>

\* The report is copied and cleared.
Fetch ==
    /\ ClientAt("wait") /\ inExit
    /\ delivered' = Append(delivered, reports[out])
    /\ reports' = [reports EXCEPT ![out] = Of(Zeroed)]
    /\ client' = "letgo"
    /\ UNCHANGED <<flags, in, out, guest, resumed, crashed,
                   reported, overtaken, swapped, failed>>

\* Mutant: RepeatMtfExit is not set.
LetGoForgotten ==
    /\ ClientAt("letgo")
    /\ client' = "clear"
    /\ UNCHANGED <<flags, in, out, reports, guest, resumed, crashed, history>>

LetGo ==
    /\ ClientAt("letgo")
    /\ repeat' = TRUE
    /\ client' = "clear"
    /\ UNCHANGED <<enabled, inExit, in, out, reports, guest, resumed, crashed, history>>

\* InMtfExit is taken back and the request completed.
ClearSignal ==
    /\ ClientAt("clear")
    /\ inExit' = FALSE
    /\ client' = "idle"
    /\ UNCHANGED <<enabled, repeat, in, out, reports, guest, resumed, crashed, history>>
-----------------------------------------------------------------------------
(***************************************************************************)
(* The traced thread and the exits of its processor.                       *)
(***************************************************************************)
Dispatch(c) ==
    /\ ~crashed /\ resumed /\ thread = Null
    /\ thread' = c
    /\ UNCHANGED <<flags, in, out, reports, mtf, step, handler, client, resumed, crashed, history>>

\* Another process runs on the thread's processor: its first instruction with
\* the monitor trap flag on takes the flag away.
Preempt ==
    /\ HandlerAt("guest") /\ thread # Null
    /\ mtf' = mtf \ {thread}
    /\ thread' = Null
    /\ UNCHANGED <<flags, in, out, reports, step, handler, client, resumed, crashed, history>>

\* The VMCALL of the page the client shows the traced process.
MtfEnable ==
    /\ HandlerAt("guest") /\ thread \notin mtf \union {Null}
    /\ IF ~in
       THEN Crash
       ELSE /\ mtf' = mtf \union {thread}
            /\ UNCHANGED <<flags, in, out, reports, thread, step, handler, client,
                           resumed, crashed, history>>

Execute ==
    /\ HandlerAt("guest") /\ thread # Null /\ step < MaxSteps
    /\ step' = step + 1
    /\ handler' = IF thread \in mtf THEN "trap" ELSE "guest"
    /\ UNCHANGED <<flags, in, out, reports, mtf, thread, client, resumed, crashed, history>>

\* MonitorTrapFlagHandler for the traced process, store by store.
ReportRip ==
    /\ HandlerAt("trap")
    /\ IF out = Null
       THEN Crash
       ELSE /\ reports' = [reports EXCEPT ![out].rip = step]
            /\ handler' = "opcodes"
            /\ UNCHANGED <<flags, in, out, mtf, thread, step, client, resumed, crashed, history>>

\* The bytes at Rip are read under the host page tables.
ReportOpcodes ==
    /\ HandlerAt("opcodes")
    /\ IF step \notin Mapped
       THEN Crash
       ELSE /\ reports' = [reports EXCEPT ![out].opcodes = step]
            /\ handler' = "signal"
            /\ UNCHANGED <<flags, in, out, mtf, thread, step, client, resumed, crashed, history>>

Signal ==
    /\ HandlerAt("signal")
    /\ inExit' = TRUE
    /\ reported' = Append(reported, step)
    /\ overtaken' = (overtaken \/ client = "clear")
    /\ handler' = "spin"
    /\ UNCHANGED <<enabled, repeat, in, out, reports, mtf, thread, step, client,
                   resumed, crashed, delivered, swapped, failed>>

\* The loop ends.
Spin ==
    /\ HandlerAt("spin")
    /\ ~enabled \/ repeat
    /\ handler' = "done"
    /\ UNCHANGED <<flags, in, out, reports, mtf, thread, step, client, resumed, crashed, history>>

\* Mutant: RepeatMtfExit stays set.
ResumeGuestRepeats ==
    /\ HandlerAt("done")
    /\ mtf' = IF step = AddrEnd THEN mtf \ {thread} ELSE mtf
    /\ handler' = "guest"
    /\ UNCHANGED <<flags, in, out, reports, thread, step, client,
                   resumed, crashed, history>>

ResumeGuest ==
    /\ HandlerAt("done")
    /\ repeat' = FALSE
    /\ mtf' = IF step = AddrEnd THEN mtf \ {thread} ELSE mtf
    /\ handler' = "guest"
    /\ UNCHANGED <<enabled, inExit, in, out, reports, thread, step, client,
                   resumed, crashed, history>>

Client == Fetch \/ LetGo \/ ClearSignal
Handler == ReportRip \/ ReportOpcodes \/ Signal \/ Spin \/ ResumeGuest

Next ==
    \/ InitTrace \/ InitTraceOut \/ ResumeThread \/ TraceProcess
    \/ Client
    \/ \E c \in Cpus : Dispatch(c)
    \/ Preempt \/ MtfEnable \/ Execute
    \/ Handler

Spec == Init /\ [][Next]_vars

\* A request that has found a report ends, and so does an exit.
LiveSpec == Spec /\ WF_vars(Client) /\ WF_vars(Handler)
-----------------------------------------------------------------------------
(***************************************************************************)
(* Properties.                                                             *)
(***************************************************************************)

\* The values of the variables have their types.
TraceTypeOK ==
    /\ enabled \in BOOLEAN /\ repeat \in BOOLEAN /\ inExit \in BOOLEAN
    /\ in \in BOOLEAN /\ out \in DOMAIN reports \union {Null}
    /\ DOMAIN reports \subseteq Buffers
    /\ \A b \in DOMAIN reports : reports[b] \in Report
    /\ mtf \subseteq Cpus /\ thread \in Cpus \union {Null}
    /\ step \in 0..MaxSteps
    /\ handler \in {"guest", "trap", "opcodes", "signal", "spin", "done"}
    /\ client \in {"idle", "init", "ready", "wait", "letgo", "clear"}
    /\ resumed \in BOOLEAN /\ crashed \in BOOLEAN
    /\ reported \in Seq(Steps) /\ delivered \in Seq(Report)
    /\ overtaken \in BOOLEAN /\ swapped \in BOOLEAN /\ failed \in BOOLEAN

\* The client gets the reports of the steps in their order, each whole and
\* none twice, unless it calls InitTrace while a report is in the making or
\* due: the exit then writes to one buffer and the request reads another.
DeliveredIsReported ==
    ~swapped => \A i \in 1..Len(delivered) :
        i <= Len(reported) /\ delivered[i] = Of(reported[i])

\* A step whose report waits in the exit handler stays announced until it is
\* fetched, unless it was announced before the request that fetched the one
\* before had taken back InMtfExit: that request erases the announcement.
SignalStands ==
    handler = "spin" /\ Len(delivered) < Len(reported) => inExit \/ overtaken

\* The machine stops only when a call of InitTrace failed, whose result the
\* client does not look at, or at a step whose address only the traced
\* process maps.
OnlyFailedInitCrashes == crashed => failed \/ step \notin Mapped

\* Steps and reports alternate: the traced thread takes no step before the
\* report of the one before is fetched, and no report is fetched twice.
Channel == INSTANCE StepChannel WITH sent <- Len(reported), received <- Len(delivered)
LockStep == Channel!ChannelSpec

\* A processor that spins in the exit while the client asks for a report is
\* let go, unless a report was announced too early.
StepsAreReleased ==
    handler = "spin" /\ client = "wait" ~> handler # "spin" \/ overtaken
=============================================================================
