---------------------------- MODULE TraceProofs ----------------------------
(***************************************************************************)
(* Proofs about TraceHandshake: its types, the lock step of steps and      *)
(* reports, and what a client gets.                                        *)
(***************************************************************************)
EXTENDS TraceHandshake, TLAPS

\* What is stored in a report keeps it a report.
LEMMA ReportStores ==
    /\ Of(Garbage) \in Report /\ Of(Zeroed) \in Report
    /\ \A s \in Steps : Of(s) \in Report
    /\ \A r \in Report, s \in Steps :
          [r EXCEPT !.rip = s] \in Report /\ [r EXCEPT !.opcodes = s] \in Report
  BY DEF Of, Report

\* The exit handler is entered when the traced thread has executed something.
StepTaken == handler # "guest" => step >= 1

\* There is a report to write to once one has been begun.
OutThere == inExit \/ handler \notin {"guest", "trap"} => out # Null

TypeInv == TraceTypeOK /\ StepTaken /\ OutThere

\* A machine that stops changes nothing else.
LEMMA CrashTyped == TypeInv /\ Crash => TypeInv'
  <1> SUFFICES ASSUME TypeInv, Crash PROVE TypeInv'
    OBVIOUS
  <1>1. crashed' \in BOOLEAN
    BY DEF Crash
  <1>2. QED
    BY <1>1 DEF Crash, flags, guest, history, TypeInv, StepTaken, OutThere, TraceTypeOK

\* The types, with what they rest on, are kept by every step.
LEMMA TypeInvariant == Spec => []TypeInv
<1>1. Init => TypeInv
  <2> SUFFICES ASSUME Init PROVE TypeInv
    OBVIOUS
  <2>1. DOMAIN reports = {} /\ out = Null
    BY DEF Init
  <2>2. reported \in Seq(Steps) /\ delivered \in Seq(Report)
    BY DEF Init
  <2>3. step \in 0..MaxSteps
    BY TraceAssumption DEF Init
  <2>4. QED
    BY <2>1, <2>2, <2>3 DEF Init, TypeInv, StepTaken, OutThere, TraceTypeOK
<1>2. TypeInv /\ [Next]_vars => TypeInv'
  <2> SUFFICES ASSUME TypeInv, [Next]_vars PROVE TypeInv'
    OBVIOUS
  <2> USE TraceAssumption DEF TypeInv, StepTaken, OutThere, TraceTypeOK, ClientAt, HandlerAt,
                              flags, guest, history
  <2>1. CASE InitTrace
    <3>1. enabled' = TRUE /\ in' \in BOOLEAN /\ client' \in {"init", "ready"} /\ failed' \in BOOLEAN
      BY <2>1 DEF InitTrace
    <3>2. UNCHANGED <<repeat, inExit, out, reports, guest, resumed, crashed,
                      reported, delivered, overtaken, swapped>>
      BY <2>1 DEF InitTrace
    <3>3. QED
      BY <3>1, <3>2
  <2>2. CASE InitTraceOut
    <3>1. CASE failed' = TRUE /\ UNCHANGED <<out, reports, swapped>>
      BY <2>2, <3>1 DEF InitTraceOut
    <3>2. ASSUME NEW b \in Buffers \ DOMAIN reports, out' = b,
                 reports' = [a \in DOMAIN reports \union {b} |->
                               IF a = b THEN Of(Garbage) ELSE reports[a]],
                 swapped' = (swapped \/ ReportDue), UNCHANGED failed
          PROVE  TypeInv'
      <4>1. \A a \in DOMAIN reports' : reports'[a] \in Report
        BY <3>2, ReportStores
      <4>2. DOMAIN reports' = DOMAIN reports \union {b}
        BY <3>2
      <4>3. swapped' \in BOOLEAN
        BY <3>2
      <4>4. /\ client' = "ready"
            /\ UNCHANGED <<flags, in, guest, resumed, crashed, reported, delivered, overtaken>>
        BY <2>2 DEF InitTraceOut
      <4>5. out' \in DOMAIN reports' /\ DOMAIN reports' \subseteq Buffers
        BY <3>2, <4>2
      <4>6. failed' \in BOOLEAN
        BY <3>2
      <4>7. QED
        BY <4>1, <4>3, <4>4, <4>5, <4>6
    <3>3. QED
      BY <2>2, <3>1, <3>2 DEF InitTraceOut
  <2>3. CASE ResumeThread
    BY <2>3 DEF ResumeThread
  <2>4. CASE TraceProcess
    BY <2>4 DEF TraceProcess
  <2>5. CASE Fetch
    <3>1. DOMAIN reports' = DOMAIN reports
      BY <2>5 DEF Fetch
    <3>2. \A b \in DOMAIN reports : reports'[b] \in Report
      BY <2>5, ReportStores DEF Fetch
    <3>3. delivered' \in Seq(Report)
      <4>1. reports[out] \in Report
        BY <2>5 DEF Fetch
      <4>2. QED
        BY <2>5, <4>1 DEF Fetch
    <3>4. /\ client' = "letgo"
          /\ UNCHANGED <<flags, in, out, guest, resumed, crashed,
                         reported, overtaken, swapped, failed>>
      BY <2>5 DEF Fetch
    <3>5. QED
      BY <3>1, <3>2, <3>3, <3>4
  <2>6. CASE LetGo
    BY <2>6 DEF LetGo
  <2>7. CASE ClearSignal
    <3>1. /\ inExit' = FALSE /\ client' = "idle"
          /\ UNCHANGED <<enabled, repeat, in, out, reports, guest, resumed, crashed, history>>
      BY <2>7 DEF ClearSignal
    <3>2. /\ inExit' \in BOOLEAN /\ client' \in {"idle", "init", "ready", "wait", "letgo", "clear"}
          /\ inExit' => out' # Null
      BY <3>1
    <3>3. QED
      BY <3>1, <3>2
  <2>8. CASE \E c \in Cpus : Dispatch(c)
    BY <2>8 DEF Dispatch
  <2>9. CASE Preempt
    BY <2>9 DEF Preempt
  <2>10. CASE MtfEnable
    <3>1. CASE Crash
      BY <3>1, CrashTyped
    <3>2. CASE ~Crash
      <4>1. mtf' = mtf \union {thread} /\ thread \in Cpus
        BY <2>10, <3>2 DEF MtfEnable
      <4>2. QED
        BY <2>10, <3>2, <4>1 DEF MtfEnable
    <3>3. QED
      BY <3>1, <3>2
  <2>11. CASE Execute
    BY <2>11 DEF Execute
  <2>12. CASE ReportRip
    <3>1. CASE Crash
      BY <3>1, CrashTyped
    <3>2. CASE ~Crash
      <4>1. step \in Steps
        BY <2>12 DEF ReportRip, Steps
      <4>2. reports' = [reports EXCEPT ![out].rip = step]
        BY <2>12, <3>2 DEF ReportRip
      <4>3. DOMAIN reports' = DOMAIN reports
        BY <4>2
      <4>4. \A b \in DOMAIN reports : reports'[b] \in Report
        BY <4>1, <4>2, ReportStores
      <4>5. QED
        BY <2>12, <3>2, <4>3, <4>4 DEF ReportRip
    <3>3. QED
      BY <3>1, <3>2
  <2>13. CASE ReportOpcodes
    <3>1. CASE Crash
      BY <3>1, CrashTyped
    <3>2. CASE ~Crash
      <4>1. step \in Steps
        BY <2>13 DEF ReportOpcodes, Steps
      <4>2. reports' = [reports EXCEPT ![out].opcodes = step]
        BY <2>13, <3>2 DEF ReportOpcodes
      <4>3. DOMAIN reports' = DOMAIN reports
        BY <4>2
      <4>4. \A b \in DOMAIN reports : reports'[b] \in Report
        BY <4>1, <4>2, ReportStores
      <4>5. QED
        BY <2>13, <3>2, <4>3, <4>4 DEF ReportOpcodes
    <3>3. QED
      BY <3>1, <3>2
  <2>14. CASE Signal
    BY <2>14 DEF Signal, Steps
  <2>15. CASE Spin
    BY <2>15 DEF Spin
  <2>16. CASE ResumeGuest
    <3>1. /\ repeat' = FALSE /\ handler' = "guest" /\ mtf' \subseteq mtf
          /\ UNCHANGED <<enabled, inExit, in, out, reports, thread, step, client,
                         resumed, crashed, history>>
      BY <2>16 DEF ResumeGuest
    <3>2. inExit' => out' # Null
      BY <2>16, <3>1 DEF ResumeGuest
    <3>3. TraceTypeOK'
      <4>1. repeat' \in BOOLEAN /\ mtf' \subseteq Cpus
            /\ handler' \in {"guest", "trap", "opcodes", "signal", "spin", "done"}
        BY <3>1
      <4>2. QED
        BY <3>1, <4>1
    <3>4. QED
      BY <3>1, <3>2, <3>3
  <2>17. CASE UNCHANGED vars
    BY <2>17 DEF vars
  <2>18. QED
    BY <2>1, <2>2, <2>3, <2>4, <2>5, <2>6, <2>7, <2>8, <2>9, <2>10, <2>11, <2>12,
       <2>13, <2>14, <2>15, <2>16, <2>17 DEF Next, Client, Handler
<1>3. QED
  BY <1>1, <1>2, PTL DEF Spec

\* The variables keep their types under any requests of the client and any
\* scheduling of the traced thread.
THEOREM TraceTypeCorrect == Spec => []TraceTypeOK
<1>1. TypeInv => TraceTypeOK
  BY DEF TypeInv
<1>2. QED
  BY <1>1, TypeInvariant, PTL
-----------------------------------------------------------------------------
(***************************************************************************)
(* Steps and reports alternate.                                            *)
(***************************************************************************)
Waiting == handler = "spin" /\ Len(reported) = Len(delivered) + 1
Fetched == Len(reported) = Len(delivered)

\* Whoever is to move next follows from where the two sides are: the request
\* sets RepeatMtfExit once it has fetched the report of the step in the exit,
\* the exit resets it before the guest goes on, and InMtfExit is set only over
\* a report that waits, or one the request is just taking.
HandshakeInv ==
    /\ Fetched \/ Waiting
    /\ handler = "spin" => (repeat <=> Fetched /\ client # "letgo")
    /\ handler \in {"guest", "trap", "opcodes", "signal"} => ~repeat
    /\ client = "letgo" => handler = "spin" /\ Fetched
    /\ inExit /\ client \notin {"letgo", "clear"} => Waiting
    /\ Waiting => inExit \/ overtaken
    /\ Waiting /\ client = "clear" => overtaken

\* The loop of the exit ends by RepeatMtfExit alone: tracing is on by then.
EnabledInv ==
    /\ in => enabled
    /\ mtf # {} => in
    /\ handler # "guest" => enabled

LEMMA EnabledStep == TypeInv /\ EnabledInv /\ [Next]_vars => EnabledInv'
<1> SUFFICES ASSUME TypeInv, EnabledInv, [Next]_vars PROVE EnabledInv'
  OBVIOUS
<1> USE DEF TypeInv, TraceTypeOK, EnabledInv, ClientAt, HandlerAt, Crash, flags, guest, history
<1>1. CASE InitTrace
  BY <1>1 DEF InitTrace
<1>2. CASE InitTraceOut
  BY <1>2 DEF InitTraceOut
<1>3. CASE ResumeThread
  BY <1>3 DEF ResumeThread
<1>4. CASE TraceProcess
  BY <1>4 DEF TraceProcess
<1>5. CASE Fetch
  BY <1>5 DEF Fetch
<1>6. CASE LetGo
  BY <1>6 DEF LetGo
<1>7. CASE ClearSignal
  BY <1>7 DEF ClearSignal
<1>8. CASE \E c \in Cpus : Dispatch(c)
  BY <1>8 DEF Dispatch
<1>9. CASE Preempt
  BY <1>9 DEF Preempt
<1>10. CASE MtfEnable
  BY <1>10 DEF MtfEnable
<1>11. CASE Execute
  BY <1>11 DEF Execute
<1>12. CASE ReportRip
  BY <1>12 DEF ReportRip
<1>13. CASE ReportOpcodes
  BY <1>13 DEF ReportOpcodes
<1>14. CASE Signal
  BY <1>14 DEF Signal
<1>15. CASE Spin
  BY <1>15 DEF Spin
<1>16. CASE ResumeGuest
  BY <1>16 DEF ResumeGuest
<1>17. CASE UNCHANGED vars
  BY <1>17 DEF vars
<1>18. QED
  BY <1>1, <1>2, <1>3, <1>4, <1>5, <1>6, <1>7, <1>8, <1>9, <1>10, <1>11, <1>12, <1>13, <1>14, <1>15, <1>16, <1>17 DEF Next, Client, Handler

LEMMA HandshakeStep ==
    TypeInv /\ EnabledInv /\ HandshakeInv /\ [Next]_vars => HandshakeInv'
<1> SUFFICES ASSUME TypeInv, EnabledInv, HandshakeInv, [Next]_vars PROVE HandshakeInv'
  OBVIOUS
<1>0. Len(reported) \in Nat /\ Len(delivered) \in Nat
  BY DEF TypeInv, TraceTypeOK
<1> USE <1>0 DEF EnabledInv, HandshakeInv, Waiting, Fetched, ClientAt, HandlerAt, Crash,
            flags, guest, history
<1>1. CASE InitTrace
  BY <1>1 DEF InitTrace
<1>2. CASE InitTraceOut
  BY <1>2 DEF InitTraceOut
<1>3. CASE ResumeThread
  BY <1>3 DEF ResumeThread
<1>4. CASE TraceProcess
  BY <1>4 DEF TraceProcess
<1>5. CASE Fetch
  <2>1. Len(delivered') = Len(delivered) + 1
    BY <1>5 DEF Fetch, TypeInv, TraceTypeOK
  <2>2. QED
    BY <1>5, <2>1 DEF Fetch
<1>6. CASE LetGo
  BY <1>6 DEF LetGo
<1>7. CASE ClearSignal
  BY <1>7 DEF ClearSignal
<1>8. CASE \E c \in Cpus : Dispatch(c)
  BY <1>8 DEF Dispatch
<1>9. CASE Preempt
  BY <1>9 DEF Preempt
<1>10. CASE MtfEnable
  BY <1>10 DEF MtfEnable
<1>11. CASE Execute
  BY <1>11 DEF Execute
<1>12. CASE ReportRip
  BY <1>12 DEF ReportRip
<1>13. CASE ReportOpcodes
  BY <1>13 DEF ReportOpcodes
<1>14. CASE Signal
  <2>1. Len(reported') = Len(reported) + 1
    BY <1>14 DEF Signal, TypeInv, TraceTypeOK
  <2>2. client = "clear" \/ overtaken => overtaken'
    BY <1>14 DEF Signal
  <2>3. Fetched /\ ~repeat /\ client # "letgo"
    BY <1>14 DEF Signal
  <2>4. inExit' /\ handler' = "spin" /\ UNCHANGED <<repeat, client, delivered>>
    BY <1>14 DEF Signal
  <2>5. QED
    BY <2>1, <2>2, <2>3, <2>4
<1>15. CASE Spin
  BY <1>15 DEF Spin
<1>16. CASE ResumeGuest
  BY <1>16 DEF ResumeGuest
<1>17. CASE UNCHANGED vars
  BY <1>17 DEF vars
<1>18. QED
  BY <1>1, <1>2, <1>3, <1>4, <1>5, <1>6, <1>7, <1>8, <1>9, <1>10, <1>11, <1>12, <1>13, <1>14, <1>15, <1>16, <1>17 DEF Next, Client, Handler

LEMMA HandshakeInvariant == Spec => [](TypeInv /\ EnabledInv /\ HandshakeInv)
<1>1. Init => EnabledInv /\ HandshakeInv
  BY DEF Init, EnabledInv, HandshakeInv, Waiting, Fetched
<1>2. QED
  BY <1>1, TypeInvariant, EnabledStep, HandshakeStep, PTL DEF Spec

\* A report that waits stays announced, unless it was announced too early.
THEOREM SignalsStand == Spec => []SignalStands
<1>1. TypeInv /\ HandshakeInv => SignalStands
  BY DEF TypeInv, TraceTypeOK, HandshakeInv, Waiting, Fetched, SignalStands
<1>2. QED
  BY <1>1, HandshakeInvariant, PTL

\* The hand-over implements the channel of steps: the traced thread is never
\* more than one step ahead of the client, and never behind.
THEOREM HandshakeImplementsChannel == Spec => LockStep
<1>1. Init => Channel!ChannelInit
  BY DEF Init, Channel!ChannelInit
<1>2. TypeInv /\ HandshakeInv /\ [Next]_vars
        => [Channel!Send \/ Channel!Receive]_<<Len(reported), Len(delivered)>>
  <2> SUFFICES ASSUME TypeInv, HandshakeInv, [Next]_vars
               PROVE  [Channel!Send \/ Channel!Receive]_<<Len(reported), Len(delivered)>>
    OBVIOUS
  <2>1. CASE Fetch
    <3>1. Len(delivered) < Len(reported)
      BY <2>1 DEF Fetch, ClientAt, HandshakeInv, Waiting, TypeInv, TraceTypeOK
    <3>2. Len(delivered') = Len(delivered) + 1 /\ reported' = reported
      BY <2>1 DEF Fetch, TypeInv, TraceTypeOK
    <3>3. QED
      BY <3>1, <3>2 DEF Channel!Receive
  <2>2. CASE Signal
    <3>1. Len(reported) = Len(delivered)
      BY <2>2 DEF Signal, HandlerAt, HandshakeInv, Waiting, Fetched
    <3>2. Len(reported') = Len(reported) + 1 /\ delivered' = delivered
      BY <2>2 DEF Signal, TypeInv, TraceTypeOK
    <3>3. QED
      BY <3>1, <3>2 DEF Channel!Send
  <2>3. CASE ~Fetch /\ ~Signal
    <3>1. reported' = reported /\ delivered' = delivered
      BY <2>3 DEF Next, Client, Handler, InitTrace, InitTraceOut, ResumeThread, TraceProcess,
                  LetGo, ClearSignal, Dispatch, Preempt, MtfEnable, Execute, ReportRip,
                  ReportOpcodes, Spin, ResumeGuest, Crash, vars, history
    <3>2. QED
      BY <3>1
  <2>4. QED
    BY <2>1, <2>2, <2>3
<1>3. QED
  BY <1>1, <1>2, HandshakeInvariant, PTL DEF Spec, LockStep, Channel!ChannelSpec
-----------------------------------------------------------------------------
(***************************************************************************)
(* What the client gets.                                                   *)
(***************************************************************************)

\* While InitTrace replaces no report that is begun, the report in Out holds
\* what the exit has written to it, until it is fetched.
ContentInv ==
    ~swapped =>
        /\ handler = "opcodes" => reports[out].rip = step
        /\ handler = "signal" => reports[out] = Of(step)
        /\ Waiting => reports[out] = Of(reported[Len(reported)])
        /\ \A i \in 1..Len(delivered) : delivered[i] = Of(reported[i])

LEMMA ContentStep ==
    TypeInv /\ HandshakeInv /\ ContentInv /\ [Next]_vars => ContentInv'
<1> SUFFICES ASSUME TypeInv, HandshakeInv, ContentInv, [Next]_vars, ~swapped'
             PROVE  ContentInv'
  BY DEF ContentInv
<1> USE DEF ContentInv, Waiting, ClientAt, HandlerAt, Crash, flags, guest, history
<1>1. CASE InitTrace
  BY <1>1 DEF InitTrace
<1>2. CASE InitTraceOut
  <2>1. CASE UNCHANGED <<out, reports, swapped>>
    BY <1>2, <2>1 DEF InitTraceOut
  <2>2. CASE swapped' = (swapped \/ ReportDue)
    <3>1. ~swapped /\ ~ReportDue
      BY <2>2 DEF TypeInv, TraceTypeOK
    <3>2. handler \notin {"opcodes", "signal"} /\ ~Waiting
      BY <3>1 DEF ReportDue
    <3>3. UNCHANGED <<handler, reported, delivered>>
      BY <1>2 DEF InitTraceOut
    <3>4. QED
      BY <3>1, <3>2, <3>3
  <2>3. QED
    BY <1>2, <2>1, <2>2 DEF InitTraceOut
<1>3. CASE ResumeThread
  BY <1>3 DEF ResumeThread
<1>4. CASE TraceProcess
  BY <1>4 DEF TraceProcess
<1>5. CASE Fetch
  <2>1. ~swapped /\ Waiting /\ handler' = "spin"
    BY <1>5 DEF Fetch, HandshakeInv
  <2>2. Len(reported) \in Nat /\ Len(delivered) \in Nat
    BY DEF TypeInv, TraceTypeOK
  <2>3. Len(delivered') = Len(delivered) + 1 /\ reported' = reported
    BY <1>5 DEF Fetch, TypeInv, TraceTypeOK
  <2>4. ~Waiting'
    BY <2>1, <2>2, <2>3
  <2>5. ASSUME NEW i \in 1..Len(delivered')
        PROVE  delivered'[i] = Of(reported'[i])
    <3>1. CASE i = Len(delivered')
      BY <1>5, <2>1, <2>2, <2>3, <3>1 DEF Fetch, TypeInv, TraceTypeOK
    <3>2. CASE i # Len(delivered')
      <4>1. i \in 1..Len(delivered)
        BY <2>2, <2>3, <3>2
      <4>2. delivered'[i] = delivered[i]
        BY <1>5, <4>1 DEF Fetch, TypeInv, TraceTypeOK
      <4>3. QED
        BY <2>1, <2>3, <4>1, <4>2
    <3>3. QED
      BY <3>1, <3>2
  <2>6. QED
    BY <2>1, <2>4, <2>5
<1>6. CASE LetGo
  BY <1>6 DEF LetGo
<1>7. CASE ClearSignal
  BY <1>7 DEF ClearSignal
<1>8. CASE \E c \in Cpus : Dispatch(c)
  BY <1>8 DEF Dispatch
<1>9. CASE Preempt
  BY <1>9 DEF Preempt
<1>10. CASE MtfEnable
  BY <1>10 DEF MtfEnable
<1>11. CASE Execute
  BY <1>11 DEF Execute
<1>12. CASE ReportRip
  <2>1. CASE Crash
    BY <2>1
  <2>2. CASE ~Crash
    <3>1. out \in DOMAIN reports /\ reports[out] \in Report
      BY <1>12, <2>2 DEF ReportRip, TypeInv, TraceTypeOK
    <3>2. reports'[out].rip = step
      BY <1>12, <2>2, <3>1 DEF ReportRip, Report
    <3>3. QED
      BY <1>12, <2>2, <3>2 DEF ReportRip
  <2>3. QED
    BY <2>1, <2>2
<1>13. CASE ReportOpcodes
  <2>1. CASE Crash
    BY <2>1
  <2>2. CASE ~Crash
    <3>1. out \in DOMAIN reports /\ reports[out] \in Report
      BY <1>13 DEF ReportOpcodes, TypeInv, OutThere, TraceTypeOK
    <3>2. reports'[out] = [reports[out] EXCEPT !.opcodes = step]
      BY <1>13, <2>2, <3>1 DEF ReportOpcodes
    <3>3. ~swapped /\ reports[out].rip = step
      BY <1>13, <2>2 DEF ReportOpcodes
    <3>4. reports'[out] = Of(step)
      BY <3>1, <3>2, <3>3 DEF Report, Of
    <3>5. QED
      BY <1>13, <2>2, <3>4 DEF ReportOpcodes
  <2>3. QED
    BY <2>1, <2>2
<1>14. CASE Signal
  <2>1. Len(reported) \in Nat /\ Len(reported') = Len(reported) + 1
        /\ reported'[Len(reported')] = step
    BY <1>14 DEF Signal, TypeInv, TraceTypeOK
  <2>2. ~swapped /\ reports[out] = Of(step) /\ Len(delivered) = Len(reported)
    BY <1>14 DEF Signal, HandshakeInv, Fetched
  <2>3. \A i \in 1..Len(delivered) : reported'[i] = reported[i]
    BY <1>14, <2>1, <2>2 DEF Signal, TypeInv, TraceTypeOK
  <2>4. UNCHANGED <<reports, out, delivered>> /\ handler' = "spin"
    BY <1>14 DEF Signal
  <2>5. QED
    BY <2>1, <2>2, <2>3, <2>4
<1>15. CASE Spin
  BY <1>15 DEF Spin
<1>16. CASE ResumeGuest
  BY <1>16 DEF ResumeGuest
<1>17. CASE UNCHANGED vars
  BY <1>17 DEF vars
<1>18. QED
  BY <1>1, <1>2, <1>3, <1>4, <1>5, <1>6, <1>7, <1>8, <1>9, <1>10, <1>11, <1>12,
     <1>13, <1>14, <1>15, <1>16, <1>17 DEF Next, Client, Handler

\* Whatever the client and the scheduler do, a client that calls InitTrace only
\* between reports gets each of them whole, once and in order.
THEOREM ReportsArrive == Spec => []DeliveredIsReported
<1>1. Init => ContentInv
  BY DEF Init, ContentInv, Waiting
<1>2. TypeInv /\ HandshakeInv /\ ContentInv => DeliveredIsReported
  BY DEF TypeInv, TraceTypeOK, HandshakeInv, Waiting, Fetched, ContentInv, DeliveredIsReported
<1>3. QED
  BY <1>1, <1>2, HandshakeInvariant, ContentStep, PTL DEF Spec
-----------------------------------------------------------------------------
\* The machine stops for the one reason the client could have seen, or for the
\* address of a step.
CrashInv ==
    /\ resumed \/ client = "ready" => (in /\ out # Null) \/ failed
    /\ client = "init" => in
    /\ thread # Null => resumed
    /\ handler # "guest" => thread # Null
    /\ OnlyFailedInitCrashes

LEMMA CrashStep == TypeInv /\ CrashInv /\ [Next]_vars => CrashInv'
<1> SUFFICES ASSUME TypeInv, CrashInv, [Next]_vars PROVE CrashInv'
  OBVIOUS
<1> USE TraceAssumption DEF TypeInv, TraceTypeOK, CrashInv, OnlyFailedInitCrashes, ClientAt,
                            HandlerAt, Crash, flags, guest, history
<1>1. CASE InitTrace
  BY <1>1 DEF InitTrace
<1>2. CASE InitTraceOut
  BY <1>2 DEF InitTraceOut
<1>3. CASE ResumeThread
  BY <1>3 DEF ResumeThread
<1>4. CASE TraceProcess
  BY <1>4 DEF TraceProcess
<1>5. CASE Fetch
  BY <1>5 DEF Fetch
<1>6. CASE LetGo
  BY <1>6 DEF LetGo
<1>7. CASE ClearSignal
  BY <1>7 DEF ClearSignal
<1>8. CASE \E c \in Cpus : Dispatch(c)
  BY <1>8 DEF Dispatch
<1>9. CASE Preempt
  BY <1>9 DEF Preempt
<1>10. CASE MtfEnable
  BY <1>10 DEF MtfEnable
<1>11. CASE Execute
  BY <1>11 DEF Execute
<1>12. CASE ReportRip
  BY <1>12 DEF ReportRip
<1>13. CASE ReportOpcodes
  BY <1>13 DEF ReportOpcodes
<1>14. CASE Signal
  BY <1>14 DEF Signal
<1>15. CASE Spin
  BY <1>15 DEF Spin
<1>16. CASE ResumeGuest
  BY <1>16 DEF ResumeGuest
<1>17. CASE UNCHANGED vars
  BY <1>17 DEF vars
<1>18. QED
  BY <1>1, <1>2, <1>3, <1>4, <1>5, <1>6, <1>7, <1>8, <1>9, <1>10, <1>11, <1>12,
     <1>13, <1>14, <1>15, <1>16, <1>17 DEF Next, Client, Handler

THEOREM OnlyFailedInitStops == Spec => []OnlyFailedInitCrashes
<1>1. Init => CrashInv
  BY DEF Init, CrashInv, OnlyFailedInitCrashes
<1>2. CrashInv => OnlyFailedInitCrashes
  BY DEF CrashInv
<1>3. QED
  BY <1>1, <1>2, TypeInvariant, CrashStep, PTL DEF Spec
=============================================================================
