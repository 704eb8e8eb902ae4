---------------------------- MODULE DriverProofs ----------------------------
(* Proofs about Driver: the image outlives whoever may call it, the driver  *)
(* is only stopped under those who came late, its global objects die in the *)
(* reverse order, and a call that nobody disturbs succeeds.                 *)
EXTENDS Driver, FiniteSetTheorems, SequenceTheorems, TLAPS

-----------------------------------------------------------------------------
(***************************************************************************)
(* What is left of a client's call, with and without a file of the device. *)
(***************************************************************************)

Steps == {"TRUE", "FALSE", "open", "create", "count", "last", "close", "closed", "openService",
          "stop", "wait", "deleteService", "createService", "setup", "startService", "reopen",
          "operation"}

Waiting == {<<"wait", "deleteService">> \o r : r \in Rests}
Deleting == {<<"deleteService">> \o r : r \in Rests}
Installing == {<<"setup", "startService", "reopen">>, <<"startService", "reopen">>, <<"reopen">>}

Outside == {<< >>, <<"open">> \o Install} \union Asking \union Stopping \union Waiting
               \union Deleting \union Installing \union Rests
Creating == {<<"create">> \o (<<"count">> \o Install), <<"create">> \o <<"TRUE">>}
Leaving == Asking \union {<<"TRUE">>, <<"FALSE">>}
Inside == {<< >>, <<"TRUE">>, <<"last">>, <<"count">> \o Install, <<"operation">>}
              \union {<<"close", "closed">> \o r : r \in Leaving}
Closing == {<<"closed">> \o r : r \in Leaving}

Fits(plan, file, handle) ==
    \/ file = "none" /\ ~handle /\ plan \in Outside
    \/ file = "creating" /\ ~handle /\ plan \in Creating
    \/ file = "open" /\ handle /\ plan \in Inside
    \/ file = "closing" /\ handle /\ plan \in Closing
    \* The process has ended.
    \/ file = "open" /\ ~handle /\ plan = <<"close", "closed">>
    \/ file = "closing" /\ ~handle /\ plan = <<"closed">>

PlanInv ==
    /\ files \in [Clients -> {"none", "creating", "open", "closing"}]
    /\ hDriver \in [Clients -> BOOLEAN]
    /\ DOMAIN todo = Clients
    /\ \A c \in Clients : Fits(todo[c], files[c], hDriver[c])
-----------------------------------------------------------------------------
\* The image, those who may call it, and how far DriverUnload is.
ImageInv ==
    /\ image \in BOOLEAN /\ stopping \in BOOLEAN
    /\ unload \in {"idle", "deinit", "callback", "drain", "device"}
    /\ registered \subseteq Registered
    /\ power \in {"idle", "running"}
    /\ stopped \in {"no", "print", "shutdown", "code", "exit"}
    /\ ~image => registered = {} /\ power = "idle" /\ Refs = {} /\ ~stopping
    /\ unload # "idle" => stopping /\ Refs = {}
    /\ image => "device" \in registered
    /\ image /\ unload \in {"idle", "deinit", "callback", "drain"} => "link" \in registered
    /\ unload \in {"drain", "device"} => "callback" \notin registered
    /\ unload = "device" => "link" \notin registered
    /\ power = "running" => "callback" \in registered \/ unload = "drain"
    /\ stopped # "code"

\* Who works on the hypervisor, and what holds of the flag and the guests if
\* no enable has met another operation: guests run while nothing is under way,
\* and the flag has them; a single enable is under way, or disables only.
OperationInv ==
    /\ op \in [Actors -> {"none", "virtualize", "devirtualize"}]
    /\ {isVirtualized, guests, need, raced} \subseteq BOOLEAN
    /\ \A c \in Clients : op[c] # "none" => todo[c] = <<"operation">>
    /\ op[Power] # "none" => power = "running"
    /\ op[Unloader] # "none" => unload = "deinit" /\ op[Unloader] = "devirtualize"
    /\ ~raced =>
          /\ guests => isVirtualized /\ image /\ unload = "idle" /\ \A a \in Actors : op[a] = "none"
          /\ \A a \in Actors : op[a] = "virtualize" =>
                 ~isVirtualized /\ unload = "idle" /\ \A b \in Actors \ {a} : op[b] = "none"
          /\ unload # "idle" => op[Power] = "none"

\* The table of exit functions, and the objects it leaves alone.
ExitInv ==
    /\ exits \in Seq(Global)
    /\ Len(exits) <= ExitSlots
    /\ \A i \in 1..Len(exits) : exits[i] = i
    /\ alive = IF image THEN {i \in Global : i <= Len(exits) \/ i > ExitSlots} ELSE {}
    /\ ~image \/ unload \in {"callback", "drain", "device"} => exits = << >>
    /\ image /\ unload = "idle" => alive = Global

\* KbHandlesCount counts the files whose create request has come and whose
\* close request has not.
Counted == {c \in Clients : files[c] \in {"open", "closing"}}
CountInv == handles = Cardinality(Counted)

NewcomersInv ==
    /\ newcomers \in [Clients -> SUBSET Clients]
    /\ \A c \in Clients : todo[c] \in WillStop =>
           stopping \/ \A d \in Counted \ {c} : d \in newcomers[c]

\* The record of the service, and those who have a handle to it in a call.
Holding == Stopping \union Waiting \union Deleting
               \union {<<"setup", "startService", "reopen">>, <<"startService", "reopen">>}

ServiceInv ==
    /\ service \in {"none", "there", "marked"} /\ svcOpen \subseteq Clients
    /\ image => service # "none"
    /\ \A c \in svcOpen : todo[c] \in Holding

\* Where a call that nobody has disturbed may be, and what it finds there.
MayLeave(r) ==
    /\ ~stopping /\ service # "marked"
    /\ \/ r \in {<<"TRUE">>, DeleteDriver \o Install}
       \/ r = DeleteDriver \o <<"TRUE">> /\ service = "there"

LoneAt(p) ==
    \/ p \in {<< >>, <<"TRUE">>}
    \/ /\ p \in Creating \union {<<"open">> \o Install, <<"last">>, <<"count">> \o Install}
       /\ ~stopping /\ service # "marked"
    \/ \E r \in Leaving : p \in {<<"closed">> \o r, <<"close", "closed">> \o r} /\ MayLeave(r)
    \/ p \in Asking /\ MayLeave(p)
    \/ \E r \in {<<"TRUE">>, Install} :
          /\ service = "there"
          /\ \/ p = <<"stop", "deleteService">> \o r /\ ~stopping
             \/ p = <<"wait", "deleteService">> \o r /\ (image => stopping)
             \/ p = <<"deleteService">> \o r /\ ~image /\ ~stopping
    \/ p = Install /\ ~image /\ ~stopping /\ service = "none"
    \/ /\ p \in {<<"setup", "startService", "reopen">>, <<"startService", "reopen">>}
       /\ ~image /\ ~stopping /\ service = "there"
    \/ p = <<"reopen">> /\ image /\ ~stopping /\ service = "there"

LoneInv ==
    /\ lone \in Clients \union {Null}
    /\ \A c \in Clients : lone = c =>
          /\ \A d \in Clients \ {c} : todo[d] = << >> /\ files[d] = "none"
          /\ LoneAt(todo[c])

DriverInv == /\ PlanInv /\ ImageInv /\ OperationInv /\ ExitInv /\ CountInv /\ NewcomersInv
             /\ ServiceInv /\ LoneInv

\* The steps of the loader's calls, and those of requests.
Loading(c) ==
    \/ OnDriverCreate(c) \/ OnDriverCleanup(c) \/ OnDriverClose(c)
    \/ OpenDevice(c) \/ ReopenDevice(c) \/ HandlesCount(c) \/ LastHandle(c)
    \/ OpenService(c) \/ StopService(c) \/ Wait(c) \/ DeleteService(c)
    \/ CreateService(c) \/ SetupFilterInstance(c) \/ StartService(c) \/ Return(c)
Serving(c) == DriverControl(c) \/ Operation(c)
-----------------------------------------------------------------------------
(***************************************************************************)
(* Sequences.                                                              *)
(***************************************************************************)
LEMMA HeadAndTail ==
    ASSUME NEW S, NEW s \in Seq(S), s # << >>
    PROVE  <<Head(s)>> \o Tail(s) = s
<1>1. Len(s) \in Nat \ {0} /\ Head(s) = s[1]
    BY EmptySeq
<1>2. SubSeq(s, 1, Len(s)) = <<s[1]>> \o SubSeq(s, 2, Len(s))
    BY <1>1, SubSeqRecursiveFirst
<1> QED  BY <1>1, <1>2, SubSeqFull, TailIsSubSeq

LEMMA TailOfConcat ==
    ASSUME NEW S, NEW t \in Seq(S), t # << >>, NEW s \in Seq(S)
    PROVE  /\ t \o s \in Seq(S) /\ t \o s # << >>
           /\ Head(t \o s) = Head(t) /\ Tail(t \o s) = Tail(t) \o s
<1>1. /\ t \o s \in Seq(S) /\ t \o s # << >>
      /\ Len(t \o s) = Len(t) + Len(s)
      /\ \A i \in 1..Len(t) + Len(s) : (t \o s)[i] = IF i <= Len(t) THEN t[i] ELSE s[i - Len(t)]
    BY ConcatProperties, EmptySeq, LenProperties
<1>2. Head(t \o s) = Head(t)
    BY <1>1, EmptySeq, LenProperties
<1>3. /\ Tail(t \o s) \in Seq(S) /\ Len(Tail(t \o s)) = Len(t) + Len(s) - 1
      /\ \A i \in 1..Len(Tail(t \o s)) : Tail(t \o s)[i] = (t \o s)[i + 1]
    BY <1>1, HeadTailProperties
<1>4. /\ Tail(t) \in Seq(S) /\ Len(Tail(t)) = Len(t) - 1
      /\ \A i \in 1..Len(Tail(t)) : Tail(t)[i] = t[i + 1]
    BY HeadTailProperties
<1>5. /\ Tail(t) \o s \in Seq(S) /\ Len(Tail(t) \o s) = Len(t) - 1 + Len(s)
      /\ \A i \in 1..Len(t) - 1 + Len(s) :
            (Tail(t) \o s)[i] = IF i <= Len(t) - 1 THEN Tail(t)[i] ELSE s[i - (Len(t) - 1)]
    BY <1>4, ConcatProperties, LenProperties
<1>6. \A i \in 1..Len(t) - 1 + Len(s) : Tail(t \o s)[i] = (Tail(t) \o s)[i]
    BY <1>1, <1>3, <1>4, <1>5, LenProperties, EmptySeq
<1>7. Tail(t \o s) = Tail(t) \o s
    BY <1>3, <1>5, <1>6, SeqEqual, LenProperties
<1> QED  BY <1>1, <1>2, <1>7

LEMMA SkipConcat ==
    ASSUME NEW S, NEW t \in Seq(S), NEW s \in Seq(S)
    PROVE  SubSeq(t \o s, Len(t) + 1, Len(t \o s)) = s
<1>1. /\ t \o s \in Seq(S) /\ Len(t \o s) = Len(t) + Len(s) /\ Len(s) \in Nat /\ Len(t) \in Nat
    BY ConcatProperties, LenProperties
<1>2. CASE s = << >>
  <2>1. Len(s) = 0 BY <1>2
  <2> QED BY <2>1, <1>1, <1>2, SubSeqEmpty
<1>3. CASE s # << >>
  <2>1. Len(s) > 0 BY <1>3, EmptySeq, <1>1
  <2>2. Len(t) + 1 \in Len(t) + 1 .. Len(t) + Len(s) /\ Len(t) + Len(s) \in Len(t) + 1 .. Len(t) + Len(s)
     BY <2>1, <1>1
  <2>3. SubSeq(t \o s, Len(t) + 1, Len(t) + Len(s)) = SubSeq(s, Len(t) + 1 - Len(t), Len(t) + Len(s) - Len(t))
     BY <2>2, SubSeqOfConcat2
  <2> QED BY <2>3, <1>1, SubSeqFull
<1> QED  BY <1>2, <1>3
-----------------------------------------------------------------------------
(***************************************************************************)
(* The plans: how each begins and what is left of it after its first step. *)
(***************************************************************************)
LEMMA RestsAreSteps == \A r \in Rests : r \in Seq(Steps) /\ r # << >>
<1>1. <<"TRUE">> \in Seq(Steps) /\ <<"FALSE">> \in Seq(Steps)
    BY DEF Steps
<1>2. Install \in Seq(Steps) /\ Install # << >>
    BY DEF Install, Steps
<1>3. <<"TRUE">> # << >> /\ <<"FALSE">> # << >>
    OBVIOUS
<1> QED  BY <1>1, <1>2, <1>3 DEF Rests

LEMMA LeavingAreSteps == \A r \in Leaving : r \in Seq(Steps) /\ r # << >>
<1>1. \A r \in Rests : DeleteDriver \o r \in Seq(Steps) /\ DeleteDriver \o r # << >>
  <2>1. DeleteDriver \in Seq(Steps) /\ DeleteDriver # << >>
      BY DEF DeleteDriver, Steps
  <2> QED  BY <2>1, RestsAreSteps, TailOfConcat
<1>2. <<"TRUE">> \in Seq(Steps) /\ <<"FALSE">> \in Seq(Steps)
    BY DEF Steps
<1>3. <<"TRUE">> # << >> /\ <<"FALSE">> # << >>
    OBVIOUS
<1> QED  BY <1>1, <1>2, <1>3 DEF Leaving, Asking

LEMMA OneStep ==
    ASSUME NEW a \in Steps, NEW r \in Seq(Steps)
    PROVE  <<a>> \o r \in Seq(Steps) /\ <<a>> \o r # << >> /\ Head(<<a>> \o r) = a /\ Tail(<<a>> \o r) = r
<1>1. <<a>> \in Seq(Steps) /\ <<a>> # << >> /\ Head(<<a>>) = a /\ Tail(<<a>>) = << >>
    OBVIOUS
<1> QED  BY <1>1, TailOfConcat, ConcatEmptySeq

LEMMA TwoSteps ==
    ASSUME NEW a \in Steps, NEW b \in Steps, NEW r \in Seq(Steps)
    PROVE  /\ <<a, b>> \o r \in Seq(Steps) /\ <<a, b>> \o r # << >>
           /\ Head(<<a, b>> \o r) = a /\ Tail(<<a, b>> \o r) = <<b>> \o r
           /\ <<a>> \o (<<b>> \o r) = <<a, b>> \o r
<1>1. /\ <<a, b>> \in Seq(Steps) /\ <<a, b>> # << >> /\ Head(<<a, b>>) = a /\ Tail(<<a, b>>) = <<b>>
      /\ <<a>> \in Seq(Steps) /\ <<b>> \in Seq(Steps)
    OBVIOUS
<1>2. <<a>> \o <<b>> = <<a, b>>
    BY <1>1, HeadAndTail
<1>3. \A s, t \in Seq(Steps) : (s \o t) \o r = s \o (t \o r)
    BY ConcatAssociative
<1>4. <<a>> \o (<<b>> \o r) = <<a, b>> \o r
    BY <1>1, <1>2, <1>3, Zenon
<1> QED  BY <1>1, <1>4, TailOfConcat

LEMMA AfterDelete ==
    ASSUME NEW r \in Rests
    PROVE  /\ DeleteDriver \o r # << >>
           /\ Head(DeleteDriver \o r) = "openService"
           /\ Tail(DeleteDriver \o r) = <<"stop", "deleteService">> \o r
           /\ SubSeq(DeleteDriver \o r, 4, Len(DeleteDriver \o r)) = r
           /\ <<"stop", "deleteService">> \o r # << >>
           /\ Head(<<"stop", "deleteService">> \o r) = "stop"
           /\ Tail(<<"stop", "deleteService">> \o r) = <<"deleteService">> \o r
           /\ << >> \o (<<"deleteService">> \o r) = <<"deleteService">> \o r
           /\ <<"wait">> \o (<<"deleteService">> \o r) = <<"wait", "deleteService">> \o r
           /\ <<"wait", "deleteService">> \o r # << >>
           /\ Head(<<"wait", "deleteService">> \o r) = "wait"
           /\ Tail(<<"wait", "deleteService">> \o r) = <<"deleteService">> \o r
           /\ <<"deleteService">> \o r # << >>
           /\ Head(<<"deleteService">> \o r) = "deleteService"
           /\ Tail(<<"deleteService">> \o r) = r
<1>1. r \in Seq(Steps) /\ {"openService", "stop", "deleteService", "wait"} \subseteq Steps
    BY RestsAreSteps DEF Steps
<1>2. /\ DeleteDriver \in Seq(Steps) /\ DeleteDriver # << >> /\ Len(DeleteDriver) + 1 = 4
      /\ Head(DeleteDriver) = "openService" /\ Tail(DeleteDriver) = <<"stop", "deleteService">>
    BY <1>1 DEF DeleteDriver
<1>3. SubSeq(DeleteDriver \o r, 4, Len(DeleteDriver \o r)) = r
    BY <1>1, <1>2, SkipConcat
<1>4. << >> \o (<<"deleteService">> \o r) = <<"deleteService">> \o r
    BY <1>1, OneStep, ConcatEmptySeq
<1>5. /\ DeleteDriver \o r # << >> /\ Head(DeleteDriver \o r) = "openService"
      /\ Tail(DeleteDriver \o r) = <<"stop", "deleteService">> \o r
  <2>1. /\ DeleteDriver \o r # << >> /\ Head(DeleteDriver \o r) = Head(DeleteDriver)
        /\ Tail(DeleteDriver \o r) = Tail(DeleteDriver) \o r
      BY <1>1, <1>2, TailOfConcat
  <2> QED  BY <1>2, <2>1, Zenon
<1>6. \A a, b \in Steps :
         /\ <<a, b>> \o r # << >>
         /\ Head(<<a, b>> \o r) = a /\ Tail(<<a, b>> \o r) = <<b>> \o r
         /\ <<a>> \o (<<b>> \o r) = <<a, b>> \o r
         /\ <<a>> \o r # << >> /\ Head(<<a>> \o r) = a /\ Tail(<<a>> \o r) = r
  <2> TAKE a, b \in Steps
  <2>1. r \in Seq(Steps)
      BY <1>1
  <2>2. <<a>> \o r # << >> /\ Head(<<a>> \o r) = a /\ Tail(<<a>> \o r) = r
      BY <2>1, OneStep
  <2>3. /\ <<a, b>> \o r # << >> /\ Head(<<a, b>> \o r) = a /\ Tail(<<a, b>> \o r) = <<b>> \o r
        /\ <<a>> \o (<<b>> \o r) = <<a, b>> \o r
      BY <2>1, TwoSteps
  <2> QED  BY <2>2, <2>3, Zenon
<1>7. /\ "openService" \in Steps /\ "stop" \in Steps /\ "deleteService" \in Steps /\ "wait" \in Steps
    BY <1>1
<1>8. /\ <<"stop", "deleteService">> \o r # << >>
      /\ Head(<<"stop", "deleteService">> \o r) = "stop"
      /\ Tail(<<"stop", "deleteService">> \o r) = <<"deleteService">> \o r
    BY <1>6, <1>7
<1>9. /\ <<"wait">> \o (<<"deleteService">> \o r) = <<"wait", "deleteService">> \o r
      /\ <<"wait", "deleteService">> \o r # << >>
      /\ Head(<<"wait", "deleteService">> \o r) = "wait"
      /\ Tail(<<"wait", "deleteService">> \o r) = <<"deleteService">> \o r
    BY <1>6, <1>7, Zenon
<1>10. /\ <<"deleteService">> \o r # << >>
       /\ Head(<<"deleteService">> \o r) = "deleteService"
       /\ Tail(<<"deleteService">> \o r) = r
    BY <1>6, <1>7, Zenon
<1> QED  BY <1>3, <1>4, <1>5, <1>8, <1>9, <1>10, Zenon

LEMMA AfterClose ==
    ASSUME NEW r \in Leaving
    PROVE  /\ <<"close", "closed">> \o r # << >>
           /\ Head(<<"close", "closed">> \o r) = "close"
           /\ Tail(<<"close", "closed">> \o r) = <<"closed">> \o r
           /\ <<"closed">> \o r # << >>
           /\ Head(<<"closed">> \o r) = "closed"
           /\ Tail(<<"closed">> \o r) = r
<1>1. r \in Seq(Steps) /\ "close" \in Steps /\ "closed" \in Steps
    BY LeavingAreSteps DEF Steps
<1> QED  BY <1>1, OneStep, TwoSteps

LEMMA Installs ==
    /\ Install \in Seq(Steps) /\ Install # << >> /\ Head(Install) = "createService"
    /\ Tail(Install) = <<"startService", "reopen">>
    /\ <<"setup">> \o Tail(Install) = <<"setup", "startService", "reopen">>
    /\ <<"open">> \o Install # << >> /\ Head(<<"open">> \o Install) = "open"
    /\ Tail(<<"open">> \o Install) = Install
    /\ <<"count">> \o Install \in Seq(Steps) /\ <<"count">> \o Install # << >>
    /\ Head(<<"count">> \o Install) = "count" /\ Tail(<<"count">> \o Install) = Install
    /\ <<"create">> \o (<<"count">> \o Install) # << >>
    /\ Head(<<"create">> \o (<<"count">> \o Install)) = "create"
    /\ Tail(<<"create">> \o (<<"count">> \o Install)) = <<"count">> \o Install
    /\ <<"create">> \o <<"TRUE">> # << >>
    /\ Head(<<"create">> \o <<"TRUE">>) = "create"
    /\ Tail(<<"create">> \o <<"TRUE">>) = <<"TRUE">>
    /\ <<"close", "closed">> \o <<"FALSE">> = <<"close", "closed", "FALSE">>
<1>1. /\ Install \in Seq(Steps) /\ Install # << >> /\ Head(Install) = "createService"
      /\ Tail(Install) = <<"startService", "reopen">>
    BY DEF Install, Steps
<1>2. <<"setup">> \o <<"startService", "reopen">> = <<"setup", "startService", "reopen">>
  <2>1. LET p == <<"setup", "startService", "reopen">>
        IN  p \in Seq(Steps) /\ p # << >> /\ Head(p) = "setup" /\ Tail(p) = <<"startService", "reopen">>
      BY DEF Steps
  <2> QED  BY <2>1, HeadAndTail
<1>3. <<"close", "closed">> \o <<"FALSE">> = <<"close", "closed", "FALSE">>
  <2>1. LET p == <<"close", "closed", "FALSE">>
        IN  p \in Seq(Steps) /\ p # << >> /\ Head(p) = "close" /\ Tail(p) = <<"closed", "FALSE">>
      BY DEF Steps
  <2>2. LET p == <<"closed", "FALSE">>
        IN  p \in Seq(Steps) /\ p # << >> /\ Head(p) = "closed" /\ Tail(p) = <<"FALSE">>
      BY DEF Steps
  <2>3. <<"close">> \o (<<"closed">> \o <<"FALSE">>) = <<"close", "closed", "FALSE">>
      BY <2>1, <2>2, HeadAndTail
  <2>4. <<"FALSE">> \in Seq(Steps) /\ "close" \in Steps /\ "closed" \in Steps
      BY DEF Steps
  <2>5. ASSUME NEW a \in Steps, NEW b \in Steps, NEW r \in Seq(Steps)
        PROVE  <<a>> \o (<<b>> \o r) = <<a, b>> \o r
      BY TwoSteps
  <2>6. <<"close">> \o (<<"closed">> \o <<"FALSE">>) = <<"close", "closed">> \o <<"FALSE">>
      BY <2>4, <2>5, Zenon
  <2> QED  BY <2>3, <2>6, Zenon
<1>4. /\ {"open", "count", "create"} \subseteq Steps
      /\ <<"TRUE">> \in Seq(Steps)
    BY DEF Steps
<1>5. <<"count">> \o Install \in Seq(Steps) /\ <<"count">> \o Install # << >>
    BY <1>1, <1>4, OneStep
<1> QED  BY <1>1, <1>2, <1>3, <1>4, <1>5, OneStep

\* How the plans begin.
LEMMA OutsideBegins ==
    ASSUME NEW p \in Outside, p # << >>
    PROVE  \/ Head(p) = "open" /\ p = <<"open">> \o Install
           \/ Head(p) = "openService" /\ \E r \in Rests : p = DeleteDriver \o r
           \/ Head(p) = "stop" /\ \E r \in Rests : p = <<"stop", "deleteService">> \o r
           \/ Head(p) = "wait" /\ \E r \in Rests : p = <<"wait", "deleteService">> \o r
           \/ Head(p) = "deleteService" /\ \E r \in Rests : p = <<"deleteService">> \o r
           \/ Head(p) = "createService" /\ p = Install
           \/ Head(p) = "setup" /\ p = <<"setup", "startService", "reopen">>
           \/ Head(p) = "startService" /\ p = <<"startService", "reopen">>
           \/ Head(p) = "reopen" /\ p = <<"reopen">>
           \/ Head(p) = "TRUE" /\ p = <<"TRUE">>
           \/ Head(p) = "FALSE" /\ p = <<"FALSE">>
<1>1. CASE p \in Asking \union Stopping \union Waiting \union Deleting
  <2>1. CASE p \in Asking
    <3>1. PICK r \in Rests : p = DeleteDriver \o r
        BY <2>1 DEF Asking
    <3> QED  BY <3>1, AfterDelete
  <2>2. CASE p \in Stopping
    <3>1. PICK r \in Rests : p = <<"stop", "deleteService">> \o r
        BY <2>2 DEF Stopping
    <3> QED  BY <3>1, AfterDelete
  <2>3. CASE p \in Waiting
    <3>1. PICK r \in Rests : p = <<"wait", "deleteService">> \o r
        BY <2>3 DEF Waiting
    <3> QED  BY <3>1, AfterDelete
  <2>4. CASE p \in Deleting
    <3>1. PICK r \in Rests : p = <<"deleteService">> \o r
        BY <2>4 DEF Deleting
    <3> QED  BY <3>1, AfterDelete
  <2> QED  BY <1>1, <2>1, <2>2, <2>3, <2>4
<1>2. CASE p \in Installing
  <2>1. /\ Head(<<"setup", "startService", "reopen">>) = "setup"
        /\ Head(<<"startService", "reopen">>) = "startService"
        /\ Head(<<"reopen">>) = "reopen"
      OBVIOUS
  <2> QED  BY <1>2, <2>1 DEF Installing
<1>3. CASE p \in Rests \union {<<"open">> \o Install}
  <2>1. Head(<<"TRUE">>) = "TRUE" /\ Head(<<"FALSE">>) = "FALSE"
      OBVIOUS
  <2> QED  BY <1>3, <2>1, Installs DEF Rests
<1> QED  BY <1>1, <1>2, <1>3 DEF Outside

LEMMA InsideBegins ==
    ASSUME NEW p \in Inside, p # << >>
    PROVE  \/ Head(p) = "TRUE" /\ p = <<"TRUE">>
           \/ Head(p) = "last" /\ p = <<"last">>
           \/ Head(p) = "count" /\ p = <<"count">> \o Install
           \/ Head(p) = "close" /\ \E r \in Leaving : p = <<"close", "closed">> \o r
           \/ Head(p) = "operation" /\ p = <<"operation">>
<1>1. /\ Head(<<"TRUE">>) = "TRUE" /\ Head(<<"last">>) = "last"
      /\ Head(<<"operation">>) = "operation"
    OBVIOUS
<1> QED  BY <1>1, Installs, AfterClose DEF Inside

\* Where a client is when its next step is known.
LEMMA PlanAt ==
    ASSUME PlanInv, NEW c \in Clients, todo[c] # << >>
    PROVE  LET p == todo[c]
               Out == files[c] = "none" /\ ~hDriver[c]
               In == files[c] = "open" /\ hDriver[c]
           IN  /\ Head(p) = "create" => files[c] = "creating" /\ ~hDriver[c] /\ p \in Creating
               /\ Head(p) = "close" =>
                      \/ In /\ \E r \in Leaving : p = <<"close", "closed">> \o r
                      \/ files[c] = "open" /\ ~hDriver[c] /\ p = <<"close", "closed">>
               /\ Head(p) = "closed" =>
                      \/ files[c] = "closing" /\ hDriver[c] /\ \E r \in Leaving : p = <<"closed">> \o r
                      \/ files[c] = "closing" /\ ~hDriver[c] /\ p = <<"closed">>
               /\ Head(p) = "last" => In /\ p = <<"last">>
               /\ Head(p) = "count" => In /\ p = <<"count">> \o Install
               /\ Head(p) = "operation" => In /\ p = <<"operation">>
               /\ Head(p) = "TRUE" => (In \/ Out) /\ p = <<"TRUE">>
               /\ Head(p) = "FALSE" => Out /\ p = <<"FALSE">>
               /\ Head(p) = "open" => Out /\ p = <<"open">> \o Install
               /\ Head(p) = "openService" => Out /\ \E r \in Rests : p = DeleteDriver \o r
               /\ Head(p) = "stop" => Out /\ \E r \in Rests : p = <<"stop", "deleteService">> \o r
               /\ Head(p) = "wait" => Out /\ \E r \in Rests : p = <<"wait", "deleteService">> \o r
               /\ Head(p) = "deleteService" => Out /\ \E r \in Rests : p = <<"deleteService">> \o r
               /\ Head(p) = "createService" => Out /\ p = Install
               /\ Head(p) = "setup" => Out /\ p = <<"setup", "startService", "reopen">>
               /\ Head(p) = "startService" => Out /\ p = <<"startService", "reopen">>
               /\ Head(p) = "reopen" => Out /\ p = <<"reopen">>
<1>0. Fits(todo[c], files[c], hDriver[c])
    BY DEF PlanInv
<1>1. CASE files[c] = "none" /\ ~hDriver[c] /\ todo[c] \in Outside
  <2>1. todo[c] \in Outside /\ files[c] = "none" /\ ~hDriver[c]
      BY <1>1
  <2> DEFINE p == todo[c]
  <2> HIDE DEF p
  <2>2. p \in Outside /\ p # << >>
      BY <2>1 DEF p
  <2>3. /\ Head(p) \notin {"create", "close", "closed", "last", "count", "operation"}
        /\ Head(p) = "TRUE" => p = <<"TRUE">>
        /\ Head(p) = "FALSE" => p = <<"FALSE">>
        /\ Head(p) = "open" => p = <<"open">> \o Install
        /\ Head(p) = "createService" => p = Install
        /\ Head(p) = "setup" => p = <<"setup", "startService", "reopen">>
        /\ Head(p) = "startService" => p = <<"startService", "reopen">>
        /\ Head(p) = "reopen" => p = <<"reopen">>
      BY <2>2, OutsideBegins
  <2>4. /\ Head(p) = "openService" => \E r \in Rests : p = DeleteDriver \o r
        /\ Head(p) = "stop" => \E r \in Rests : p = <<"stop", "deleteService">> \o r
        /\ Head(p) = "wait" => \E r \in Rests : p = <<"wait", "deleteService">> \o r
        /\ Head(p) = "deleteService" => \E r \in Rests : p = <<"deleteService">> \o r
      BY <2>2, OutsideBegins
  <2>5. /\ Head(p) = "openService" => files[c] = "none" /\ ~hDriver[c] /\ \E r \in Rests : p = DeleteDriver \o r
        /\ Head(p) = "stop" => files[c] = "none" /\ ~hDriver[c] /\ \E r \in Rests : p = <<"stop", "deleteService">> \o r
        /\ Head(p) = "wait" => files[c] = "none" /\ ~hDriver[c] /\ \E r \in Rests : p = <<"wait", "deleteService">> \o r
        /\ Head(p) = "deleteService" => files[c] = "none" /\ ~hDriver[c] /\ \E r \in Rests : p = <<"deleteService">> \o r
      BY <2>1, <2>4, Zenon
  <2> HIDE <2>4
  <2> QED  BY <2>1, <2>3, <2>5 DEF p
<1>2. CASE files[c] = "creating" /\ ~hDriver[c] /\ todo[c] \in Creating
    BY <1>2, Installs DEF Creating
<1>3. CASE files[c] = "open" /\ hDriver[c] /\ todo[c] \in Inside
    BY <1>3, InsideBegins
<1>4. CASE files[c] = "closing" /\ hDriver[c] /\ todo[c] \in Closing
    BY <1>4, AfterClose DEF Closing
<1>5. CASE files[c] = "open" /\ ~hDriver[c] /\ todo[c] = <<"close", "closed">>
  <2>1. Head(<<"close", "closed">>) = "close"
      OBVIOUS
  <2> QED  BY <1>5, <2>1
<1>6. CASE files[c] = "closing" /\ ~hDriver[c] /\ todo[c] = <<"closed">>
  <2>1. Head(<<"closed">>) = "closed"
      OBVIOUS
  <2> QED  BY <1>6, <2>1
<1> QED  BY <1>0, <1>1, <1>2, <1>3, <1>4, <1>5, <1>6 DEF Fits

-----------------------------------------------------------------------------
(***************************************************************************)
(* Each step of a client's call: where it finds the client and what it     *)
(* leaves of the call.                                                     *)
(***************************************************************************)
Becomes(c, plan) == todo' = [todo EXCEPT ![c] = plan]
Outer(c) == files[c] = "none" /\ ~hDriver[c]
Inner(c) == files[c] = "open" /\ hDriver[c]
SameFiles == files' = files /\ hDriver' = hDriver

LEMMA CreateStep ==
    ASSUME PlanInv, NEW c \in Clients, OnDriverCreate(c)
    PROVE  /\ files[c] = "creating" /\ todo[c] \in Creating
           /\ files' = [files EXCEPT ![c] = "open"] /\ hDriver' = [hDriver EXCEPT ![c] = TRUE]
           /\ \/ todo[c] = <<"create">> \o (<<"count">> \o Install) /\ Becomes(c, <<"count">> \o Install)
              \/ todo[c] = <<"create">> \o <<"TRUE">> /\ Becomes(c, <<"TRUE">>)
<1>1. files[c] = "creating" /\ todo[c] \in Creating
    BY PlanAt DEF OnDriverCreate, At
<1> QED  BY <1>1, Installs DEF OnDriverCreate, Done, Do, Becomes, Creating

LEMMA CleanupStep ==
    ASSUME PlanInv, NEW c \in Clients, OnDriverCleanup(c)
    PROVE  /\ files[c] = "open"
           /\ files' = [files EXCEPT ![c] = "closing"] /\ hDriver' = hDriver
           /\ \/ /\ hDriver[c]
                 /\ \E r \in Leaving : /\ todo[c] = <<"close", "closed">> \o r
                                        /\ Becomes(c, <<"closed">> \o r)
              \/ ~hDriver[c] /\ todo[c] = <<"close", "closed">> /\ Becomes(c, <<"closed">>)
<1>1. /\ files[c] = "open"
      /\ \/ hDriver[c] /\ \E r \in Leaving : todo[c] = <<"close", "closed">> \o r
         \/ ~hDriver[c] /\ todo[c] = <<"close", "closed">>
    BY PlanAt DEF OnDriverCleanup, At
<1>2. Becomes(c, Tail(todo[c])) /\ files' = [files EXCEPT ![c] = "closing"] /\ hDriver' = hDriver
    BY DEF OnDriverCleanup, Done, Do, Becomes
<1>3. Tail(<<"close", "closed">>) = <<"closed">>
    OBVIOUS
<1> QED  BY <1>1, <1>2, <1>3, AfterClose

LEMMA CloseStep ==
    ASSUME PlanInv, NEW c \in Clients, OnDriverClose(c)
    PROVE  /\ files[c] = "closing"
           /\ files' = [files EXCEPT ![c] = "none"] /\ hDriver' = [hDriver EXCEPT ![c] = FALSE]
           /\ \/ \E r \in Leaving : todo[c] = <<"closed">> \o r /\ Becomes(c, r)
              \/ todo[c] = <<"closed">> /\ Becomes(c, << >>)
<1>1. /\ files[c] = "closing"
      /\ \/ \E r \in Leaving : todo[c] = <<"closed">> \o r
         \/ todo[c] = <<"closed">>
    BY PlanAt DEF OnDriverClose, At
<1>2. /\ Becomes(c, Tail(todo[c]))
      /\ files' = [files EXCEPT ![c] = "none"] /\ hDriver' = [hDriver EXCEPT ![c] = FALSE]
    BY DEF OnDriverClose, Done, Do, Becomes
<1>3. Tail(<<"closed">>) = << >>
    OBVIOUS
<1> QED  BY <1>1, <1>2, <1>3, AfterClose

LEMMA OpenStep ==
    ASSUME PlanInv, NEW c \in Clients, OpenDevice(c)
    PROVE  /\ Outer(c) /\ todo[c] = <<"open">> \o Install /\ hDriver' = hDriver
           /\ \/ /\ CanOpen /\ files' = [files EXCEPT ![c] = "creating"]
                 /\ Becomes(c, <<"create">> \o (<<"count">> \o Install))
              \/ /\ files' = files /\ Becomes(c, DeleteDriver \o Install)
                 /\ CanOpen => lone' = Null
<1>1. Outer(c) /\ todo[c] = <<"open">> \o Install
    BY PlanAt DEF OpenDevice, At, Outer
<1> QED  BY <1>1, Installs DEF OpenDevice, Open, OpenFails, Do, Becomes, Fail

LEMMA ReopenStep ==
    ASSUME PlanInv, NEW c \in Clients, ReopenDevice(c)
    PROVE  /\ Outer(c) /\ todo[c] = <<"reopen">> /\ hDriver' = hDriver
           /\ \/ /\ CanOpen /\ files' = [files EXCEPT ![c] = "creating"]
                 /\ Becomes(c, <<"create">> \o <<"TRUE">>)
              \/ /\ files' = files /\ Becomes(c, DeleteDriver \o <<"FALSE">>)
                 /\ CanOpen => lone' = Null
<1>1. Outer(c) /\ todo[c] = <<"reopen">>
    BY PlanAt DEF ReopenDevice, At, Outer
<1> QED  BY <1>1 DEF ReopenDevice, Open, OpenFails, Do, Becomes, Fail

LEMMA CountStep ==
    ASSUME PlanInv, NEW c \in Clients, HandlesCount(c)
    PROVE  /\ Inner(c) /\ todo[c] = <<"count">> \o Install /\ SameFiles
           /\ \/ /\ handles > 1 \/ lone' = Null
                 /\ Becomes(c, <<"close", "closed">> \o <<"FALSE">>)
              \/ /\ ~(handles > 1)
                 /\ Becomes(c, <<"close", "closed">> \o (DeleteDriver \o Install))
<1>1. Inner(c) /\ todo[c] = <<"count">> \o Install
    BY PlanAt DEF HandlesCount, At, Inner
<1> QED  BY <1>1, Installs DEF HandlesCount, Do, Becomes, SameFiles, Fail

LEMMA LastStep ==
    ASSUME PlanInv, NEW c \in Clients, LastHandle(c)
    PROVE  /\ Inner(c) /\ todo[c] = <<"last">> /\ SameFiles
           /\ \/ handles > 1 /\ Becomes(c, <<"close", "closed">> \o <<"TRUE">>)
              \/ /\ \/ ~(handles > 1)
                    \/ newcomers' = [newcomers EXCEPT ![c] = Clients \ {c}] /\ lone' = Null
                 /\ Becomes(c, <<"close", "closed">> \o (DeleteDriver \o <<"TRUE">>))
<1>1. Inner(c) /\ todo[c] = <<"last">>
    BY PlanAt DEF LastHandle, At, Inner
<1>2. <<"close", "closed">> \o DeleteDriver \o <<"TRUE">> = <<"close", "closed">> \o (DeleteDriver \o <<"TRUE">>)
  <2>1. <<"close", "closed">> \in Seq(Steps) /\ DeleteDriver \in Seq(Steps) /\ <<"TRUE">> \in Seq(Steps)
      BY DEF DeleteDriver, Steps
  <2>2. \A s, t, u \in Seq(Steps) : (s \o t) \o u = s \o (t \o u)
      BY ConcatAssociative
  <2> QED  BY <2>1, <2>2, Zenon
<1> QED  BY <1>1, <1>2 DEF LastHandle, Do, Becomes, SameFiles, Fail

\* What a failed DeleteDriver leaves.
Failing(r) == IF r = <<"TRUE">> THEN <<"FALSE">> ELSE r

LEMMA AskStep ==
    ASSUME PlanInv, NEW c \in Clients, OpenService(c)
    PROVE  /\ Outer(c) /\ SameFiles
           /\ \E r \in Rests :
                 /\ todo[c] = DeleteDriver \o r
                 /\ \/ /\ service # "none" /\ svcOpen' = svcOpen \union {c}
                       /\ Becomes(c, <<"stop", "deleteService">> \o r)
                    \/ /\ svcOpen' = svcOpen /\ Becomes(c, Failing(r))
                       /\ service = "none" \/ lone' = Null
<1>1. Outer(c) /\ \E r \in Rests : todo[c] = DeleteDriver \o r
    BY PlanAt DEF OpenService, At, Outer
<1>2. PICK r \in Rests : todo[c] = DeleteDriver \o r
    BY <1>1
<1>3. /\ Tail(todo[c]) = <<"stop", "deleteService">> \o r
      /\ SubSeq(todo[c], 4, Len(todo[c])) = r
    BY <1>2, AfterDelete
<1>4. SameFiles
    BY DEF OpenService, SameFiles
<1>5. \/ service # "none" /\ svcOpen' = svcOpen \union {c} /\ Becomes(c, Tail(todo[c]))
      \/ /\ svcOpen' = svcOpen /\ Becomes(c, Failing(SubSeq(todo[c], 4, Len(todo[c]))))
         /\ service = "none" \/ lone' = Null
    BY DEF OpenService, DeleteFails, Done, Do, Becomes, Failing, Fail
<1> QED  BY <1>1, <1>2, <1>3, <1>4, <1>5

LEMMA StopStep ==
    ASSUME PlanInv, NEW c \in Clients, StopService(c)
    PROVE  /\ Outer(c) /\ SameFiles
           /\ \E r \in Rests :
                 /\ todo[c] = <<"stop", "deleteService">> \o r
                 /\ \/ /\ image /\ ~stopping /\ stopping' = TRUE /\ Refs = {}
                       /\ Becomes(c, <<"wait", "deleteService">> \o r)
                    \/ /\ image /\ ~stopping /\ stopping' = TRUE /\ Refs # {}
                       /\ Becomes(c, <<"deleteService">> \o r)
                    \/ /\ ~(image /\ ~stopping) /\ stopping' = stopping
                       /\ Becomes(c, <<"deleteService">> \o r)
<1>1. Outer(c) /\ \E r \in Rests : todo[c] = <<"stop", "deleteService">> \o r
    BY PlanAt DEF StopService, At, Outer
<1>2. PICK r \in Rests : todo[c] = <<"stop", "deleteService">> \o r
    BY <1>1
<1>3. /\ Tail(todo[c]) = <<"deleteService">> \o r
      /\ << >> \o Tail(todo[c]) = <<"deleteService">> \o r
      /\ <<"wait">> \o Tail(todo[c]) = <<"wait", "deleteService">> \o r
    BY <1>2, AfterDelete
<1>4. SameFiles
    BY DEF StopService, SameFiles
<1>5. \/ /\ image /\ ~stopping /\ stopping' = TRUE /\ Refs = {}
         /\ Becomes(c, <<"wait">> \o Tail(todo[c]))
      \/ /\ image /\ ~stopping /\ stopping' = TRUE /\ Refs # {}
         /\ Becomes(c, << >> \o Tail(todo[c]))
      \/ /\ ~(image /\ ~stopping) /\ stopping' = stopping
         /\ Becomes(c, Tail(todo[c]))
    BY DEF StopService, Done, Do, Becomes
<1> QED  BY <1>1, <1>2, <1>3, <1>4, <1>5

LEMMA WaitStep ==
    ASSUME PlanInv, NEW c \in Clients, Wait(c)
    PROVE  /\ Outer(c) /\ SameFiles
           /\ \E r \in Rests : /\ todo[c] = <<"wait", "deleteService">> \o r
                                /\ Becomes(c, <<"deleteService">> \o r)
<1>1. Outer(c) /\ \E r \in Rests : todo[c] = <<"wait", "deleteService">> \o r
    BY PlanAt DEF Wait, At, Outer
<1> QED  BY <1>1, AfterDelete DEF Wait, Done, Do, Becomes, SameFiles

LEMMA DeleteStep ==
    ASSUME PlanInv, NEW c \in Clients, DeleteService(c)
    PROVE  /\ Outer(c) /\ SameFiles
           /\ \E r \in Rests : /\ todo[c] = <<"deleteService">> \o r
                                /\ Becomes(c, IF service = "marked" THEN Failing(r) ELSE r)
<1>1. Outer(c) /\ \E r \in Rests : todo[c] = <<"deleteService">> \o r
    BY PlanAt DEF DeleteService, At, Outer
<1>2. PICK r \in Rests : todo[c] = <<"deleteService">> \o r
    BY <1>1
<1>3. Tail(todo[c]) = r
    BY <1>2, AfterDelete
<1>4. SameFiles
    BY DEF DeleteService, SameFiles
<1>5. Becomes(c, IF service = "marked" THEN Failing(Tail(todo[c])) ELSE Tail(todo[c]))
    BY DEF DeleteService, DeleteFails, Done, Do, Becomes, Failing
<1> QED  BY <1>1, <1>2, <1>3, <1>4, <1>5

LEMMA InstallStep ==
    ASSUME PlanInv, NEW c \in Clients, CreateService(c)
    PROVE  /\ Outer(c) /\ SameFiles /\ todo[c] = Install
           /\ \/ /\ service = "none" /\ service' = "there" /\ svcOpen' = svcOpen \union {c}
                 /\ \/ Becomes(c, <<"setup", "startService", "reopen">>)
                    \/ Becomes(c, <<"startService", "reopen">>)
              \/ /\ Becomes(c, <<"FALSE">>) /\ svcOpen' = svcOpen /\ service' = service
                 /\ service # "none" \/ lone' = Null
<1>1. Outer(c) /\ todo[c] = Install
    BY PlanAt DEF CreateService, At, Outer
<1> QED  BY <1>1, Installs DEF CreateService, Done, Do, Becomes, SameFiles, scm, Fail

LEMMA SetupStep ==
    ASSUME PlanInv, NEW c \in Clients, SetupFilterInstance(c)
    PROVE  /\ Outer(c) /\ SameFiles /\ todo[c] = <<"setup", "startService", "reopen">>
           /\ \/ Becomes(c, <<"startService", "reopen">>) /\ svcOpen' = svcOpen /\ service' = service
              \/ Becomes(c, <<"FALSE">>) /\ CloseService(c) /\ lone' = Null
<1>1. Outer(c) /\ todo[c] = <<"setup", "startService", "reopen">>
    BY PlanAt DEF SetupFilterInstance, At, Outer
<1>2. Tail(<<"setup", "startService", "reopen">>) = <<"startService", "reopen">>
    OBVIOUS
<1> QED  BY <1>1, <1>2 DEF SetupFilterInstance, Done, Do, Becomes, SameFiles, scm, Fail

LEMMA StartStep ==
    ASSUME PlanInv, NEW c \in Clients, StartService(c)
    PROVE  /\ Outer(c) /\ SameFiles /\ todo[c] = <<"startService", "reopen">>
           /\ \/ /\ service = "there" /\ ~image
                 /\ \E outcome \in EntryOutcomes :
                        /\ DriverEntry(outcome)
                        /\ IF outcome[1] THEN Becomes(c, <<"reopen">>)
                           ELSE Becomes(c, <<"FALSE">>) /\ lone' = Null
              \/ /\ ~(service = "there" /\ ~image) /\ Becomes(c, <<"FALSE">>)
                 /\ UNCHANGED <<entry, hypervisor>>
<1>1. Outer(c) /\ todo[c] = <<"startService", "reopen">>
    BY PlanAt DEF StartService, At, Outer
<1>2. Tail(<<"startService", "reopen">>) = <<"reopen">>
    OBVIOUS
<1> QED  BY <1>1, <1>2 DEF StartService, Done, Do, Becomes, SameFiles, Fail

LEMMA ReturnStep ==
    ASSUME PlanInv, NEW c \in Clients, Return(c)
    PROVE  /\ Outer(c) \/ Inner(c)
           /\ todo[c] \in {<<"TRUE">>, <<"FALSE">>} /\ SameFiles /\ Becomes(c, << >>)
<1>1. (Outer(c) \/ Inner(c)) /\ todo[c] \in {<<"TRUE">>, <<"FALSE">>}
    BY PlanAt DEF Return, At, Outer, Inner
<1>2. Tail(<<"TRUE">>) = << >> /\ Tail(<<"FALSE">>) = << >>
    OBVIOUS
<1> QED  BY <1>1, <1>2 DEF Return, Done, Do, Becomes, SameFiles

LEMMA LoadStep ==
    ASSUME PlanInv, NEW c \in Clients, MvLoad(c)
    PROVE  /\ todo[c] = << >> /\ SameFiles
           /\ \/ Inner(c) /\ Becomes(c, <<"TRUE">>)
              \/ Outer(c) /\ Becomes(c, <<"open">> \o Install)
<1>1. Inner(c) \/ Outer(c)
  <2>1. todo[c] = << >> /\ Fits(todo[c], files[c], hDriver[c])
      BY DEF PlanInv, MvLoad, Call
  <2>2. << >> \notin Creating /\ << >> \notin Closing
      BY Installs, AfterClose DEF Creating, Closing
  <2>3. << >> # <<"close", "closed">> /\ << >> # <<"closed">>
      OBVIOUS
  <2> QED  BY <2>1, <2>2, <2>3 DEF Fits, Inner, Outer
<1> QED  BY <1>1 DEF MvLoad, Call, Do, Becomes, SameFiles, Inner, Outer

LEMMA UnloadStep ==
    ASSUME PlanInv, NEW c \in Clients, MvUnload(c)
    PROVE  /\ todo[c] = << >> /\ SameFiles
           /\ \/ Inner(c) /\ Becomes(c, <<"last">>)
              \/ Outer(c) /\ Becomes(c, <<"TRUE">>)
<1>1. Inner(c) \/ Outer(c)
  <2>1. todo[c] = << >> /\ Fits(todo[c], files[c], hDriver[c])
      BY DEF PlanInv, MvUnload, Call
  <2>2. << >> \notin Creating /\ << >> \notin Closing
      BY Installs, AfterClose DEF Creating, Closing
  <2>3. << >> # <<"close", "closed">> /\ << >> # <<"closed">>
      OBVIOUS
  <2> QED  BY <2>1, <2>2, <2>3 DEF Fits, Inner, Outer
<1> QED  BY <1>1 DEF MvUnload, Call, Do, Becomes, SameFiles, Inner, Outer

LEMMA ExitStep ==
    ASSUME PlanInv, NEW c \in Clients, Exit(c)
    PROVE  /\ files' = files /\ hDriver' = [hDriver EXCEPT ![c] = FALSE]
           /\ \/ files[c] = "open" /\ Becomes(c, <<"close", "closed">>)
              \/ files[c] = "none" /\ Becomes(c, << >>)
BY DEF Exit, PlanInv, Do, Becomes

\* The end of an operation, and a request.
LEMMA OperationStep ==
    ASSUME NEW a \in Actors, Operation(a)
    PROVE  /\ Running /\ op[a] \in {"virtualize", "devirtualize"}
           /\ UNCHANGED <<image, registered, alive, exits, handles, stopping, unload, need,
                          service, svcOpen, files, hDriver, newcomers, lone>>
           /\ op' = [op EXCEPT ![a] = "none"]
           /\ todo' = IF a \in Clients THEN [todo EXCEPT ![a] = << >>] ELSE todo
           /\ power' = IF a = Power THEN "idle" ELSE power
           /\ stopped' \in {"no", "print", "shutdown"}
BY DEF Operation, VirtualizeAllProcessors, DevirtualizeAllProcessors, End, entry, scm, Running

LEMMA RequestStep ==
    ASSUME NEW c \in Clients, DriverControl(c)
    PROVE  /\ Running /\ todo[c] = << >> /\ hDriver[c]
           /\ UNCHANGED <<image, registered, alive, exits, handles, stopping, unload, power, need,
                          service, svcOpen, files, hDriver, newcomers>>
           /\ lone' = Null
           /\ stopped' \in {"no", "print", "shutdown"}
           /\ \/ (Virtualize(c) \/ Devirtualize(c)) /\ Becomes(c, <<"operation">>)
              \/ UNCHANGED <<isVirtualized, guests, op, raced, todo>>
<1>1. PICK ioctl, in, out : Request(c, ioctl, in, out)
    BY DEF DriverControl
<1>2. /\ Running /\ todo[c] = << >> /\ hDriver[c] /\ lone' = Null
      /\ UNCHANGED <<image, registered, alive, exits, handles, stopping, unload, power, need,
                     service, svcOpen, files, hDriver, newcomers>>
    BY <1>1 DEF Request, Fail, entry, scm
<1>3. PICK status \in DispatchIOCTL(ioctl, in, out) :
         CASE status = "SUCCESS" /\ HandlerOf(ioctl) = "MvVmmEnable" ->
                Virtualize(c) /\ Do(c, <<"operation">>)
           [] status = "SUCCESS" /\ HandlerOf(ioctl) = "MvVmmDisable" /\ isVirtualized ->
                Devirtualize(c) /\ Do(c, <<"operation">>)
           [] OTHER ->
                /\ stopped' \in IF status = "UNSUCCESSFUL" THEN {"no", "print"} ELSE {"no"}
                /\ UNCHANGED <<isVirtualized, guests, op, raced, todo>>
    BY <1>1 DEF Request
<1>4. \/ (Virtualize(c) \/ Devirtualize(c)) /\ Becomes(c, <<"operation">>)
      \/ /\ stopped' \in {"no", "print"}
         /\ UNCHANGED <<isVirtualized, guests, op, raced, todo>>
    BY <1>3 DEF Becomes, Do
<1>5. Virtualize(c) \/ Devirtualize(c) => stopped' \in {"no", "shutdown"}
    BY <1>2 DEF Virtualize, Devirtualize, Running
<1> QED  BY <1>2, <1>4, <1>5

LEMMA ServingStep ==
    ASSUME PlanInv, OperationInv, NEW c \in Clients, Serving(c)
    PROVE  /\ Inner(c)
           /\ UNCHANGED <<image, registered, alive, exits, handles, stopping, unload, power, need,
                          service, svcOpen, files, hDriver, newcomers>>
           /\ stopped' \in {"no", "print", "shutdown"}
           /\ \/ /\ DriverControl(c) /\ lone' = Null
                 /\ todo' = todo \/ Becomes(c, <<"operation">>)
              \/ /\ Operation(c) /\ lone' = lone
                 /\ todo[c] = <<"operation">> /\ Becomes(c, << >>)
<1>1. CASE DriverControl(c)
  <2>1. todo[c] = << >> /\ hDriver[c] /\ Fits(todo[c], files[c], hDriver[c])
      BY <1>1, RequestStep DEF PlanInv
  <2>2. << >> \notin Closing
      BY AfterClose DEF Closing
  <2>3. Inner(c)
      BY <2>1, <2>2 DEF Fits, Inner
  <2> QED  BY <1>1, <2>3, RequestStep
<1>2. CASE Operation(c)
  <2>1. c \in Actors /\ c # Power
      BY DriverAssumption DEF Actors
  <2>2. todo[c] = <<"operation">>
      BY <1>2, <2>1, OperationStep DEF OperationInv
  <2>3. <<"operation">> # << >> /\ Head(<<"operation">>) = "operation"
      OBVIOUS
  <2>4. Inner(c)
      BY <2>2, <2>3, PlanAt DEF Inner
  <2> QED  BY <1>2, <2>1, <2>2, <2>4, OperationStep DEF Becomes
<1> QED  BY <1>1, <1>2 DEF Serving

\* What no client does leaves the plans alone.
LEMMA OtherSteps ==
    ASSUME Unloading \/ PowerCallback \/ Callback
    PROVE  UNCHANGED <<files, hDriver, todo, newcomers, svcOpen, handles>>
<1>0. {Power, Unloader} \subseteq Actors \ Clients
    BY DriverAssumption DEF Actors
<1>1. CASE Operation(Power) \/ Operation(Unloader)
    BY <1>0, <1>1, OperationStep
<1>2. CASE Unloading
    BY <1>1, <1>2 DEF Unloading, OnDriverUnload, CrtDeinit, UnregisterCallback, DeleteSymbolicLink,
                      DeleteDevice, Unregister, scm, entry
<1>3. CASE PowerCallback \/ Callback
    BY <1>1, <1>3 DEF PowerCallback, Callback, OnSystemSleep, OnSystemWake, scm, entry
<1> QED  BY <1>2, <1>3

LEMMA AnyStep ==
    ASSUME [Next]_vars
    PROVE  \/ UNCHANGED vars
           \/ Unloading \/ PowerCallback \/ Callback
           \/ \E c \in Clients : Serving(c)
           \/ \E c \in Clients : Loading(c) \/ MvLoad(c) \/ MvUnload(c) \/ Exit(c)
BY DEF Next, Proceed, Serving, Loading

\* A step of a client changes its own call ...
LEMMA PlanBecomes ==
    ASSUME PlanInv, NEW c \in Clients, Loading(c) \/ MvLoad(c) \/ MvUnload(c) \/ Exit(c)
    PROVE  \E p : Becomes(c, p)
<1>1. CASE OnDriverCreate(c) \/ OnDriverCleanup(c) \/ OnDriverClose(c) \/ OpenDevice(c) \/ ReopenDevice(c)
    BY <1>1, CreateStep, CleanupStep, CloseStep, OpenStep, ReopenStep
<1>2. CASE HandlesCount(c) \/ LastHandle(c) \/ OpenService(c) \/ StopService(c) \/ Wait(c)
    BY <1>2, CountStep, LastStep, AskStep, StopStep, WaitStep
<1>3. CASE DeleteService(c) \/ CreateService(c) \/ SetupFilterInstance(c) \/ StartService(c) \/ Return(c)
    BY <1>3, DeleteStep, InstallStep, SetupStep, StartStep, ReturnStep
<1>4. CASE MvLoad(c) \/ MvUnload(c) \/ Exit(c)
    BY <1>4, LoadStep, UnloadStep, ExitStep
<1> QED  BY <1>1, <1>2, <1>3, <1>4 DEF Loading

\* ... and leaves what the others have left of theirs.
LEMMA PlansOfOthers ==
    ASSUME PlanInv, NEW c \in Clients, Loading(c) \/ MvLoad(c) \/ MvUnload(c) \/ Exit(c)
    PROVE  \A d \in Clients \ {c} : todo'[d] = todo[d] /\ files'[d] = files[d]
<1>1. \E p : Becomes(c, p)
    BY PlanBecomes
<1>2. files' = files \/ \E f : files' = [files EXCEPT ![c] = f]
  <2>1. CASE OnDriverCreate(c) \/ OnDriverCleanup(c) \/ OnDriverClose(c) \/ OpenDevice(c) \/ ReopenDevice(c)
      BY <2>1, CreateStep, CleanupStep, CloseStep, OpenStep, ReopenStep
  <2>2. CASE HandlesCount(c) \/ LastHandle(c) \/ OpenService(c) \/ StopService(c) \/ Wait(c)
      BY <2>2, CountStep, LastStep, AskStep, StopStep, WaitStep DEF SameFiles
  <2>3. CASE DeleteService(c) \/ CreateService(c) \/ SetupFilterInstance(c) \/ StartService(c) \/ Return(c)
      BY <2>3, DeleteStep, InstallStep, SetupStep, StartStep, ReturnStep DEF SameFiles
  <2>4. CASE MvLoad(c) \/ MvUnload(c) \/ Exit(c)
      BY <2>4, LoadStep, UnloadStep, ExitStep DEF SameFiles
  <2> QED  BY <2>1, <2>2, <2>3, <2>4 DEF Loading
<1> QED  BY <1>1, <1>2 DEF PlanInv, Becomes

LEMMA Replanned ==
    ASSUME PlanInv, NEW c \in Clients, NEW p, Becomes(c, p),
           files' = files \/ \E f \in {"none", "creating", "open", "closing"} : files' = [files EXCEPT ![c] = f],
           hDriver' = hDriver \/ \E h \in BOOLEAN : hDriver' = [hDriver EXCEPT ![c] = h],
           Fits(p, files'[c], hDriver'[c])
    PROVE  PlanInv'
<1>1. todo'[c] = p /\ DOMAIN todo' = Clients
    BY DEF PlanInv, Becomes
<1>2. \A d \in Clients \ {c} : todo'[d] = todo[d] /\ files'[d] = files[d] /\ hDriver'[d] = hDriver[d]
    BY DEF PlanInv, Becomes
<1>3. /\ files' \in [Clients -> {"none", "creating", "open", "closing"}]
      /\ hDriver' \in [Clients -> BOOLEAN]
    BY DEF PlanInv
<1> QED  BY <1>1, <1>2, <1>3 DEF PlanInv

LEMMA LeavingFits ==
    \A r \in Leaving : r \in Outside /\ <<"closed">> \o r \in Closing /\ <<"close", "closed">> \o r \in Inside
BY DEF Leaving, Outside, Rests, Closing, Inside

LEMMA PlanKept ==
    ASSUME PlanInv, OperationInv, [Next]_vars
    PROVE  PlanInv'
<1>1. CASE UNCHANGED vars
    BY <1>1 DEF vars, PlanInv
<1>2. CASE Unloading \/ PowerCallback \/ Callback
    BY <1>2, OtherSteps DEF PlanInv
<1>5. ASSUME NEW c \in Clients, Serving(c)
      PROVE  PlanInv'
  <2>1. Inner(c) /\ SameFiles /\ (todo' = todo \/ Becomes(c, <<"operation">>) \/ Becomes(c, << >>))
      BY <1>5, ServingStep DEF SameFiles
  <2> QED  BY <2>1, Replanned DEF PlanInv, Fits, Inner, SameFiles, Inside
<1>3. ASSUME NEW c \in Clients, MvLoad(c) \/ MvUnload(c) \/ Exit(c)
      PROVE  PlanInv'
  <2>0. files[c] \in {"none", "creating", "open", "closing"} /\ hDriver[c] \in BOOLEAN
      BY DEF PlanInv
  <2>1. CASE MvLoad(c)
      BY <2>0, <2>1, LoadStep, Replanned DEF Fits, Inner, Outer, SameFiles, Inside, Outside
  <2>2. CASE MvUnload(c)
      BY <2>0, <2>2, UnloadStep, Replanned DEF Fits, Inner, Outer, SameFiles, Inside, Outside, Rests
  <2>3. CASE Exit(c)
    <3>1. hDriver'[c] = FALSE
        BY <2>3, ExitStep DEF PlanInv
    <3> QED  BY <2>0, <2>3, <3>1, ExitStep, Replanned DEF Fits, Outside
  <2> QED  BY <1>3, <2>1, <2>2, <2>3
<1>4. ASSUME NEW c \in Clients, Loading(c)
      PROVE  PlanInv'
  <2>0. /\ files[c] \in {"none", "creating", "open", "closing"} /\ hDriver[c] \in BOOLEAN
        /\ files \in [Clients -> {"none", "creating", "open", "closing"}] /\ hDriver \in [Clients -> BOOLEAN]
      BY DEF PlanInv
  <2>1. CASE OnDriverCreate(c)
      BY <2>0, <2>1, CreateStep, Replanned DEF Fits, Inside
  <2>2. CASE OnDriverCleanup(c)
    <3>1. files'[c] = "closing" /\ hDriver'[c] = hDriver[c]
        BY <2>0, <2>2, CleanupStep
    <3> QED  BY <2>0, <2>2, <3>1, CleanupStep, LeavingFits, Replanned DEF Fits
  <2>3. CASE OnDriverClose(c)
    <3>1. files'[c] = "none" /\ ~hDriver'[c]
        BY <2>0, <2>3, CloseStep
    <3>2. << >> \in Outside
        BY DEF Outside
    <3> QED  BY <2>0, <2>3, <3>1, <3>2, CloseStep, LeavingFits, Replanned DEF Fits
  <2>4. CASE OpenDevice(c)
      BY <2>0, <2>4, OpenStep, Replanned DEF Fits, Outer, Outside, Creating, Asking, Rests
  <2>5. CASE ReopenDevice(c)
      BY <2>0, <2>5, ReopenStep, Replanned DEF Fits, Outer, Outside, Creating, Asking, Rests
  <2>6. CASE HandlesCount(c)
      BY <2>0, <2>6, CountStep, Replanned, LeavingFits
         DEF Fits, Inner, SameFiles, Leaving, Asking, Rests
  <2>7. CASE LastHandle(c)
      BY <2>0, <2>7, LastStep, Replanned, LeavingFits
         DEF Fits, Inner, SameFiles, Leaving, Asking, Rests
  <2>8. CASE OpenService(c)
      BY <2>0, <2>8, AskStep, Replanned DEF Fits, Outer, SameFiles, Outside, Stopping, Rests, Failing
  <2>9. CASE StopService(c)
      BY <2>0, <2>9, StopStep, Replanned DEF Fits, Outer, SameFiles, Outside, Waiting, Deleting
  <2>10. CASE Wait(c)
      BY <2>0, <2>10, WaitStep, Replanned DEF Fits, Outer, SameFiles, Outside, Deleting
  <2>11. CASE DeleteService(c)
      BY <2>0, <2>11, DeleteStep, Replanned DEF Fits, Outer, SameFiles, Outside, Rests, Failing
  <2>12. CASE CreateService(c)
      BY <2>0, <2>12, InstallStep, Replanned DEF Fits, Outer, SameFiles, Outside, Installing, Rests
  <2>13. CASE SetupFilterInstance(c)
      BY <2>0, <2>13, SetupStep, Replanned DEF Fits, Outer, SameFiles, Outside, Installing, Rests
  <2>14. CASE StartService(c)
      BY <2>0, <2>14, StartStep, Replanned DEF Fits, Outer, SameFiles, Outside, Installing, Rests
  <2>15. CASE Return(c)
      BY <2>0, <2>15, ReturnStep, Replanned DEF Fits, Outer, Inner, SameFiles, Outside, Inside
  <2> QED  BY <1>4, <2>1, <2>2, <2>3, <2>4, <2>5, <2>6, <2>7, <2>8, <2>9, <2>10, <2>11, <2>12,
              <2>13, <2>14, <2>15 DEF Loading
<1> QED  BY <1>1, <1>2, <1>3, <1>4, <1>5, AnyStep

-----------------------------------------------------------------------------
(***************************************************************************)
(* The image outlives those who may call it.                               *)
(***************************************************************************)

\* Only a device that is there and not being stopped gets another file.
LEMMA NewFiles ==
    ASSUME PlanInv, NEW c \in Clients, Loading(c) \/ MvLoad(c) \/ MvUnload(c) \/ Exit(c)
    PROVE  Refs' \subseteq Refs \/ ((OpenDevice(c) \/ ReopenDevice(c)) /\ CanOpen)
<1>0. files \in [Clients -> {"none", "creating", "open", "closing"}]
    BY DEF PlanInv
<1>1. CASE files' = files
    BY <1>1 DEF Refs
<1>2. CASE OpenDevice(c) \/ ReopenDevice(c)
    BY <1>0, <1>1, <1>2, OpenStep, ReopenStep
<1>3. CASE OnDriverCreate(c)
    BY <1>0, <1>3, CreateStep DEF Refs
<1>4. CASE OnDriverCleanup(c)
    BY <1>0, <1>4, CleanupStep DEF Refs
<1>5. CASE OnDriverClose(c)
    BY <1>0, <1>5, CloseStep DEF Refs
<1>6. CASE MvLoad(c) \/ MvUnload(c) \/ Exit(c)
    BY <1>1, <1>6, LoadStep, UnloadStep, ExitStep DEF SameFiles
<1>7. CASE HandlesCount(c) \/ LastHandle(c) \/ OpenService(c) \/ StopService(c) \/ Wait(c)
    BY <1>1, <1>7, CountStep, LastStep, AskStep, StopStep, WaitStep DEF SameFiles
<1>8. CASE DeleteService(c) \/ CreateService(c) \/ SetupFilterInstance(c) \/ StartService(c) \/ Return(c)
    BY <1>1, <1>8, DeleteStep, InstallStep, SetupStep, StartStep, ReturnStep DEF SameFiles
<1> QED  BY <1>2, <1>3, <1>4, <1>5, <1>6, <1>7, <1>8 DEF Loading

\* DriverEntry registers nothing if it fails.
LEMMA EntryLeaves ==
    ASSUME NEW outcome \in EntryOutcomes, DriverEntry(outcome)
    PROVE  /\ \/ image' = FALSE /\ registered' = {}
              \/ image' = TRUE /\ registered' = {"device", "link"}
              \/ image' = TRUE /\ registered' = {"device", "link", "callback"}
           /\ need' = FALSE /\ isVirtualized' = FALSE /\ UNCHANGED <<guests, op>>
<1>1. /\ image' = outcome[1] /\ registered' = outcome[2] /\ need' = FALSE
      /\ isVirtualized' = FALSE /\ UNCHANGED <<guests, op>>
    BY DEF DriverEntry
<1>2. OnLinkFailure({"device"}) = {}
    BY DEF OnLinkFailure
<1>3. \/ outcome = <<FALSE, {}>>
      \/ outcome = <<TRUE, {"device", "link"}>>
      \/ outcome = <<TRUE, {"device", "link", "callback"}>>
    BY <1>2, Zenon DEF EntryOutcomes
<1>4. ASSUME NEW b, NEW r, outcome = <<b, r>>
      PROVE  outcome[1] = b /\ outcome[2] = r
    BY <1>4
<1>5. \/ outcome[1] = FALSE /\ outcome[2] = {}
      \/ outcome[1] = TRUE /\ outcome[2] = {"device", "link"}
      \/ outcome[1] = TRUE /\ outcome[2] = {"device", "link", "callback"}
    BY <1>3, <1>4, Zenon
<1> QED  BY <1>1, <1>5, Zenon

\* What clients do to the image and to DriverUnload.
LEMMA ClientSteps ==
    ASSUME PlanInv, NEW c \in Clients, Loading(c) \/ MvLoad(c) \/ MvUnload(c) \/ Exit(c)
    PROVE  /\ UNCHANGED <<unload, power, stopped, guests, op, raced>>
           /\ \/ UNCHANGED <<image, registered, alive, exits, stopping, isVirtualized, need>>
              \/ /\ StopService(c) /\ image /\ ~stopping /\ stopping' = TRUE
                 /\ UNCHANGED <<image, registered, alive, exits, isVirtualized, need>>
              \/ /\ StartService(c) /\ ~image /\ service = "there"
                 /\ \E outcome \in EntryOutcomes : DriverEntry(outcome)
                 /\ UNCHANGED stopping
<1>1. CASE OnDriverCreate(c) \/ OnDriverCleanup(c) \/ OnDriverClose(c)
    BY <1>1 DEF OnDriverCreate, OnDriverCleanup, OnDriverClose, entry, hypervisor
<1>2. CASE OpenDevice(c) \/ ReopenDevice(c) \/ HandlesCount(c) \/ LastHandle(c) \/ OpenService(c)
    BY <1>2 DEF OpenDevice, ReopenDevice, HandlesCount, LastHandle, OpenService, entry, system, hypervisor
<1>3. CASE Wait(c) \/ DeleteService(c) \/ CreateService(c) \/ SetupFilterInstance(c) \/ Return(c)
    BY <1>3 DEF Wait, DeleteService, CreateService, SetupFilterInstance, Return, entry, system, hypervisor
<1>4. CASE MvLoad(c) \/ MvUnload(c) \/ Exit(c)
    BY <1>4 DEF MvLoad, MvUnload, Call, Exit, entry, system, hypervisor
<1>5. CASE StopService(c)
    BY <1>5, StopStep DEF StopService, entry, hypervisor
<1>6. CASE StartService(c)
    BY <1>6, StartStep, EntryLeaves DEF StartService, entry, hypervisor
<1> QED  BY <1>1, <1>2, <1>3, <1>4, <1>5, <1>6 DEF Loading

LEMMA ImageKept ==
    ASSUME PlanInv, ImageInv, OperationInv, [Next]_vars
    PROVE  ImageInv'
<1>1. CASE UNCHANGED vars
    BY <1>1 DEF vars, entry, ImageInv, Refs
<1>2. ASSUME NEW c \in Clients, Loading(c) \/ MvLoad(c) \/ MvUnload(c) \/ Exit(c)
      PROVE  ImageInv'
  <2>1. \/ Refs' \subseteq Refs
        \/ CanOpen /\ UNCHANGED <<image, registered, stopping>>
      BY <1>2, NewFiles DEF OpenDevice, ReopenDevice, entry, system
  <2>2. CASE UNCHANGED <<image, registered, stopping>>
    <3>1. UNCHANGED <<unload, power, stopped>>
        BY <1>2, ClientSteps
    <3> QED  BY <2>1, <2>2, <3>1 DEF ImageInv, CanOpen
  <2>3. CASE /\ StopService(c) /\ image /\ ~stopping /\ stopping' = TRUE
             /\ UNCHANGED <<image, registered>>
    <3>1. Refs' = Refs /\ UNCHANGED <<unload, power, stopped>>
        BY <2>3, StopStep DEF StopService, SameFiles, Refs
    <3> QED  BY <2>3, <3>1 DEF ImageInv
  <2>4. CASE /\ StartService(c) /\ ~image
             /\ \E outcome \in EntryOutcomes : DriverEntry(outcome)
             /\ UNCHANGED stopping
    <3>1. Refs' = Refs /\ UNCHANGED <<unload, power, stopped>>
        BY <2>4, StartStep DEF StartService, SameFiles, Refs
    <3>2. \/ image' = FALSE /\ registered' = {}
          \/ image' = TRUE /\ registered' = {"device", "link"}
          \/ image' = TRUE /\ registered' = {"device", "link", "callback"}
        BY <2>4, EntryLeaves
    <3> QED  BY <2>4, <3>1, <3>2 DEF ImageInv, Registered
  <2> QED  BY <1>2, <2>2, <2>3, <2>4, ClientSteps
<1>3. CASE Operation(Power) \/ Operation(Unloader)
  <2>1. {Power, Unloader} \subseteq Actors \ Clients
      BY DriverAssumption DEF Actors
  <2>2. /\ UNCHANGED <<image, registered, stopping, unload, files>>
        /\ power' \in {"idle", power} /\ stopped' \in {"no", "print", "shutdown"}
      BY <1>3, <2>1, OperationStep
  <2> QED  BY <2>2 DEF ImageInv, Refs
<1>4. CASE Unloading
  <2>0. Refs' = Refs
      BY <1>4, OtherSteps DEF Refs
  <2>1. CASE OnDriverUnload
    <3>1. /\ Running /\ unload = "idle" /\ stopping /\ Refs = {} /\ unload' = "deinit"
          /\ UNCHANGED <<image, registered, stopping, power>>
        BY <2>1 DEF OnDriverUnload, entry
    <3>2. stopped' \in {"no", "shutdown"}
        BY <2>1 DEF OnDriverUnload, Devirtualize, Running
    <3> QED  BY <2>0, <3>1, <3>2 DEF ImageInv
  <2>2. CASE CrtDeinit
      BY <2>0, <2>2 DEF CrtDeinit, ImageInv, Running
  <2>3. CASE UnregisterCallback
      BY <2>0, <2>3 DEF UnregisterCallback, Unregister, ImageInv, Running
  <2>4. CASE DeleteSymbolicLink
      BY <2>0, <2>4 DEF DeleteSymbolicLink, Unregister, ImageInv, Running
  <2>5. CASE DeleteDevice
    <3>1. /\ unload = "device" /\ image' = FALSE /\ stopping' = FALSE /\ unload' = "idle"
          /\ registered' = registered \ {"device"} /\ power' = power
          /\ stopped' = IF guests THEN "exit" ELSE IF power # "idle" THEN "code" ELSE "no"
        BY <2>5 DEF DeleteDevice
    <3>2. registered' = {} /\ power = "idle" /\ Refs' = {}
        BY <2>0, <3>1 DEF ImageInv, Registered
    <3> QED  BY <3>1, <3>2 DEF ImageInv
  <2> QED  BY <1>3, <1>4, <2>1, <2>2, <2>3, <2>4, <2>5 DEF Unloading
<1>5. CASE PowerCallback
  <2>1. Refs' = Refs /\ "callback" \in registered /\ image
      BY <1>5, OtherSteps DEF Refs, PowerCallback, ImageInv
  <2> QED  BY <1>5, <2>1 DEF PowerCallback, ImageInv, Running, entry
<1>6. CASE Callback
  <2>0. Refs' = Refs
      BY <1>6, OtherSteps DEF Refs
  <2>1. CASE OnSystemSleep \/ OnSystemWake
    <3>1. /\ Running /\ UNCHANGED <<image, registered, stopping, unload>>
          /\ power' \in {"idle", power}
        BY <2>1 DEF OnSystemSleep, OnSystemWake, entry
    <3>2. stopped' \in {"no", "shutdown"}
        BY <2>1 DEF OnSystemSleep, OnSystemWake, Virtualize, Devirtualize, Running
    <3> QED  BY <2>0, <3>1, <3>2 DEF ImageInv
  <2> QED  BY <1>3, <1>6, <2>1 DEF Callback
<1>7. ASSUME NEW c \in Clients, Serving(c)
      PROVE  ImageInv'
  <2>1. /\ UNCHANGED <<image, registered, stopping, unload, power, files>>
        /\ stopped' \in {"no", "print", "shutdown"}
      BY <1>7, ServingStep
  <2> QED  BY <2>1 DEF ImageInv, Refs
<1> QED  BY <1>1, <1>2, <1>4, <1>5, <1>6, <1>7, AnyStep

-----------------------------------------------------------------------------
(***************************************************************************)
(* The operations on the hypervisor.                                       *)
(***************************************************************************)

\* Who works has an image to work in, and a client keeps it loaded.
LEMMA WorkersHaveTheImage ==
    ASSUME PlanInv, ImageInv, OperationInv, NEW a \in Actors, op[a] # "none"
    PROVE  image /\ (a \in Clients => unload = "idle" /\ Refs # {})
<1>1. CASE a \in Clients
  <2>1. todo[a] = <<"operation">>
      BY <1>1 DEF OperationInv
  <2>2. <<"operation">> # << >> /\ Head(<<"operation">>) = "operation"
      OBVIOUS
  <2>3. a \in Refs
      BY <1>1, <2>1, <2>2, PlanAt DEF Refs
  <2> QED  BY <2>3 DEF ImageInv
<1>2. CASE a = Power
    BY <1>2, DriverAssumption DEF OperationInv, ImageInv
<1>3. CASE a = Unloader
    BY <1>3, DriverAssumption DEF OperationInv, ImageInv
<1> QED  BY <1>1, <1>2, <1>3 DEF Actors

LEMMA VirtualizeKeeps ==
    ASSUME OperationInv, NEW a \in Actors \ {Unloader}, op[a] = "none", Virtualize(a),
           UNCHANGED <<image, unload, power>>, need' \in BOOLEAN,
           \/ a = Power /\ power = "running" /\ todo' = todo
           \/ a \in Clients /\ unload = "idle" /\ DOMAIN todo = Clients /\ Becomes(a, <<"operation">>)
    PROVE  OperationInv'
<1>0. Power \in Actors /\ Unloader \in Actors /\ Clients \subseteq Actors /\ Power # Unloader
      /\ Power \notin Clients
    BY DriverAssumption DEF Actors
<1>1. /\ ~isVirtualized /\ op' = [op EXCEPT ![a] = "virtualize"]
      /\ raced' = \/ raced
                  \/ a = Power /\ unload # "idle"
                  \/ a = Unloader /\ op[Power] # "none"
                  \/ \E b \in Actors \ {a} : op[b] # "none" /\ "virtualize" \in {"virtualize", op[b]}
      /\ UNCHANGED <<isVirtualized, guests>>
    BY DEF Virtualize, Start
<1>2. /\ op' \in [Actors -> {"none", "virtualize", "devirtualize"}]
      /\ {isVirtualized, guests, need, raced}' \subseteq BOOLEAN
    BY <1>1 DEF OperationInv
<1>3. \A c \in Clients : op'[c] # "none" => todo'[c] = <<"operation">>
    BY <1>0, <1>1 DEF OperationInv, Becomes
<1>4. /\ op'[Power] # "none" => power' = "running"
      /\ op'[Unloader] # "none" => unload' = "deinit" /\ op'[Unloader] = "devirtualize"
    BY <1>0, <1>1 DEF OperationInv
<1>5. ASSUME ~raced'
      PROVE  ~raced /\ ~guests /\ unload = "idle" /\ \A b \in Actors \ {a} : op[b] = "none"
    BY <1>1, <1>5 DEF OperationInv
<1> QED  BY <1>0, <1>1, <1>2, <1>3, <1>4, <1>5 DEF OperationInv

LEMMA DevirtualizeKeeps ==
    ASSUME OperationInv, NEW a \in Actors, op[a] = "none", Devirtualize(a),
           UNCHANGED <<image, power>>, need' \in BOOLEAN,
           \/ a = Power /\ power = "running" /\ todo' = todo /\ unload' = unload
           \/ a = Unloader /\ unload' = "deinit" /\ todo' = todo
           \/ /\ a \in Clients /\ unload = "idle" /\ unload' = unload
              /\ DOMAIN todo = Clients /\ Becomes(a, <<"operation">>)
    PROVE  OperationInv'
<1>0. Power \in Actors /\ Unloader \in Actors /\ Clients \subseteq Actors /\ Power # Unloader
      /\ Power \notin Clients /\ Unloader \notin Clients
    BY DriverAssumption DEF Actors
<1>1. /\ op' = [op EXCEPT ![a] = "devirtualize"] /\ guests' = FALSE
      /\ raced' = \/ raced
                  \/ a = Power /\ unload # "idle"
                  \/ a = Unloader /\ op[Power] # "none"
                  \/ \E b \in Actors \ {a} : op[b] # "none" /\ "virtualize" \in {"devirtualize", op[b]}
      /\ UNCHANGED isVirtualized
    BY DEF Devirtualize, Start
<1>2. /\ op' \in [Actors -> {"none", "virtualize", "devirtualize"}]
      /\ {isVirtualized, guests, need, raced}' \subseteq BOOLEAN
    BY <1>1 DEF OperationInv
<1>3. \A c \in Clients : op'[c] # "none" => todo'[c] = <<"operation">>
    BY <1>0, <1>1 DEF OperationInv, Becomes
<1>4. /\ op'[Power] # "none" => power' = "running"
      /\ op'[Unloader] # "none" => unload' = "deinit" /\ op'[Unloader] = "devirtualize"
    BY <1>0, <1>1 DEF OperationInv
<1>5. ASSUME ~raced', NEW b \in Actors
      PROVE  op'[b] # "virtualize"
    BY <1>1, <1>5 DEF OperationInv
<1>6. ASSUME ~raced', unload' # "idle"
      PROVE  op'[Power] = "none"
    BY <1>0, <1>1, <1>6 DEF OperationInv
<1> QED  BY <1>1, <1>2, <1>3, <1>4, <1>5, <1>6 DEF OperationInv

\* The end of an operation: what has been made good stays so.
LEMMA EndKeeps ==
    ASSUME PlanInv, ImageInv, OperationInv, NEW a \in Actors, Operation(a)
    PROVE  OperationInv'
<1>0. Power \in Actors /\ Unloader \in Actors /\ Clients \subseteq Actors /\ Power # Unloader
      /\ DOMAIN todo = Clients
    BY DriverAssumption DEF Actors, PlanInv
<1>1. /\ op[a] # "none" /\ op' = [op EXCEPT ![a] = "none"]
      /\ UNCHANGED <<image, unload, need>>
      /\ todo' = IF a \in Clients THEN [todo EXCEPT ![a] = << >>] ELSE todo
      /\ power' = IF a = Power THEN "idle" ELSE power
    BY OperationStep
<1>2. image
    BY <1>1, WorkersHaveTheImage
<1>3. raced' = (raced /\ ~(unload = "idle" /\ (guests' => isVirtualized')
                            /\ \A b \in Actors \ {a} : op[b] = "none"))
    BY DEF Operation, VirtualizeAllProcessors, DevirtualizeAllProcessors, End
<1>4. \/ /\ op[a] = "virtualize"
         /\ \/ isVirtualized /\ UNCHANGED <<isVirtualized, guests>>
            \/ isVirtualized' = TRUE /\ guests' = TRUE
            \/ isVirtualized' = FALSE /\ guests' \in {guests, FALSE}
      \/ op[a] = "devirtualize" /\ isVirtualized' = FALSE /\ guests' = guests
    BY DEF Operation, VirtualizeAllProcessors, DevirtualizeAllProcessors
<1>5. /\ op' \in [Actors -> {"none", "virtualize", "devirtualize"}]
      /\ {isVirtualized, guests, need, raced}' \subseteq BOOLEAN
    BY <1>1, <1>3, <1>4 DEF OperationInv
<1>6. \A c \in Clients : op'[c] # "none" => todo'[c] = <<"operation">>
    BY <1>0, <1>1 DEF OperationInv
<1>7. /\ op'[Power] # "none" => power' = "running"
      /\ op'[Unloader] # "none" => unload' = "deinit" /\ op'[Unloader] = "devirtualize"
    BY <1>0, <1>1 DEF OperationInv
<1>8. ASSUME ~raced'
      PROVE  /\ guests' => isVirtualized' /\ unload = "idle" /\ \A b \in Actors : op'[b] = "none"
             /\ \A b \in Actors : op'[b] # "virtualize"
             /\ unload # "idle" => op'[Power] = "none"
  <2>1. CASE raced
    <3>1. unload = "idle" /\ (guests' => isVirtualized') /\ \A b \in Actors \ {a} : op[b] = "none"
        BY <1>3, <1>8, <2>1
    <3>2. \A b \in Actors : op'[b] = "none"
        BY <1>1, <3>1 DEF OperationInv
    <3> QED  BY <3>1, <3>2
  <2>2. CASE ~raced
    <3>1. ~guests
        BY <1>1, <2>2 DEF OperationInv
    <3>2. \A b \in Actors \ {a} : op[b] # "virtualize"
        BY <1>1, <2>2 DEF OperationInv
    <3>3. \A b \in Actors : op'[b] # "virtualize" /\ (op[b] = "none" => op'[b] = "none")
        BY <1>1, <3>2 DEF OperationInv
    <3>4. guests' => op[a] = "virtualize" /\ isVirtualized'
        BY <1>4, <3>1
    <3>5. op[a] = "virtualize" => unload = "idle" /\ \A b \in Actors \ {a} : op[b] = "none"
        BY <2>2 DEF OperationInv
    <3>6. op[a] = "virtualize" => \A b \in Actors : op'[b] = "none"
        BY <1>1, <3>5 DEF OperationInv
    <3>7. unload # "idle" => op'[Power] = "none"
        BY <1>0, <2>2, <3>3 DEF OperationInv
    <3> QED  BY <3>3, <3>4, <3>5, <3>6, <3>7
  <2> QED  BY <2>1, <2>2
<1>9. image' /\ unload' = unload
    BY <1>1, <1>2
<1> QED  BY <1>5, <1>6, <1>7, <1>8, <1>9 DEF OperationInv

LEMMA OperationKept ==
    ASSUME PlanInv, ImageInv, OperationInv, [Next]_vars
    PROVE  OperationInv'
<1>0. /\ Power \in Actors /\ Unloader \in Actors /\ Clients \subseteq Actors /\ Power # Unloader
      /\ Power \notin Clients /\ Unloader \notin Clients /\ DOMAIN todo = Clients
    BY DriverAssumption DEF Actors, PlanInv
<1>1. CASE UNCHANGED <<image, unload, power, isVirtualized, guests, op, need, raced, todo>>
    BY <1>1 DEF OperationInv
<1>2. ASSUME NEW c \in Clients, Loading(c) \/ MvLoad(c) \/ MvUnload(c) \/ Exit(c)
      PROVE  OperationInv'
  <2>1. op[c] = "none"
    <3>1. CASE Loading(c) \/ MvLoad(c) \/ MvUnload(c)
      <4>1. <<"operation">> # << >> /\ Head(<<"operation">>) = "operation"
          OBVIOUS
      <4>2. todo[c] # <<"operation">>
          BY <3>1, <4>1 DEF Loading, MvLoad, MvUnload, Call, OnDriverCreate, OnDriverCleanup, OnDriverClose,
             OpenDevice, ReopenDevice, HandlesCount, LastHandle, OpenService, StopService, Wait,
             DeleteService, CreateService, SetupFilterInstance, StartService, Return, At
      <4> QED  BY <4>2 DEF OperationInv
    <3>2. CASE Exit(c)
        BY <3>2 DEF Exit
    <3> QED  BY <1>2, <3>1, <3>2
  <2>2. \A d \in Clients : op[d] # "none" => todo'[d] = <<"operation">>
      BY <1>2, <2>1, PlansOfOthers DEF OperationInv
  <2>3. UNCHANGED <<unload, power, guests, op, raced>>
      BY <1>2, ClientSteps
  <2>4. CASE UNCHANGED <<image, isVirtualized, need>>
      BY <2>2, <2>3, <2>4 DEF OperationInv
  <2>5. CASE ~image /\ \E outcome \in EntryOutcomes : DriverEntry(outcome)
    <3>1. isVirtualized' = FALSE /\ need' = FALSE
        BY <2>5, EntryLeaves
    <3>2. \A a \in Actors : op[a] = "none"
        BY <2>5, WorkersHaveTheImage
    <3>3. unload = "idle" /\ (~raced => ~guests)
        BY <2>5 DEF ImageInv, OperationInv
    <3> QED  BY <2>2, <2>3, <3>1, <3>2, <3>3 DEF OperationInv
  <2> QED  BY <1>2, <2>4, <2>5, ClientSteps
<1>3. ASSUME NEW c \in Clients, Serving(c)
      PROVE  OperationInv'
  <2>1. CASE Operation(c)
      BY <1>0, <2>1, EndKeeps
  <2>2. CASE DriverControl(c)
    <3>1. /\ todo[c] = << >> /\ UNCHANGED <<image, unload, power, need>>
          /\ \/ (Virtualize(c) \/ Devirtualize(c)) /\ Becomes(c, <<"operation">>)
             \/ UNCHANGED <<isVirtualized, guests, op, raced, todo>>
        BY <2>2, RequestStep
    <3>2. op[c] = "none" /\ need' \in BOOLEAN
      <4>1. << >> # <<"operation">>
          OBVIOUS
      <4> QED  BY <3>1, <4>1 DEF OperationInv
    <3>3. unload = "idle"
      <4>1. c \in Refs
          BY <2>2, <1>3, ServingStep DEF Inner, Refs
      <4> QED  BY <4>1 DEF ImageInv
    <3>4. c \in Actors \ {Unloader}
        BY <1>0
    <3> QED  BY <1>0, <1>1, <3>1, <3>2, <3>3, <3>4, VirtualizeKeeps, DevirtualizeKeeps
  <2> QED  BY <1>3, <2>1, <2>2 DEF Serving
<1>4. CASE Unloading
  <2>1. CASE OnDriverUnload
    <3>1. /\ unload = "idle" /\ unload' = "deinit" /\ Refs = {}
          /\ UNCHANGED <<image, power, need, todo>>
        BY <2>1 DEF OnDriverUnload, entry
    <3>2. op[Unloader] = "none" /\ need' \in BOOLEAN
        BY <3>1 DEF OperationInv
    <3>3. CASE Devirtualize(Unloader)
        BY <1>0, <3>1, <3>2, <3>3, DevirtualizeKeeps
    <3>4. CASE /\ ~isVirtualized /\ raced' = (raced \/ op[Power] # "none")
               /\ UNCHANGED <<isVirtualized, guests, op>>
      <4>1. \A c \in Clients : op[c] = "none"
          BY <1>0, <3>1, WorkersHaveTheImage
      <4>2. ~raced' => \A a \in Actors : op[a] = "none"
          BY <3>2, <3>4, <4>1 DEF Actors
      <4> QED  BY <1>0, <3>1, <3>2, <3>4, <4>2 DEF OperationInv
    <3> QED  BY <2>1, <3>3, <3>4 DEF OnDriverUnload
  <2>2. CASE Operation(Unloader)
      BY <1>0, <2>2, EndKeeps
  <2>3. CASE CrtDeinit \/ UnregisterCallback \/ DeleteSymbolicLink
    <3>1. /\ unload # "idle" /\ unload' # "idle"
          /\ unload' = unload \/ unload # "deinit" \/ op[Unloader] = "none"
          /\ UNCHANGED <<image, power, isVirtualized, guests, op, need, raced, todo>>
        BY <2>3 DEF CrtDeinit, UnregisterCallback, DeleteSymbolicLink, Unregister, hypervisor
    <3> QED  BY <3>1 DEF OperationInv
  <2>4. CASE DeleteDevice
    <3>1. /\ unload = "device" /\ unload' = "idle" /\ image' = FALSE
          /\ isVirtualized' = FALSE /\ need' = FALSE /\ raced' = (raced /\ guests)
          /\ UNCHANGED <<power, guests, op, todo>>
        BY <2>4 DEF DeleteDevice
    <3>2. Refs = {} /\ power = "idle"
        BY <3>1 DEF ImageInv
    <3>3. \A a \in Actors : op[a] = "none"
      <4>1. \A c \in Clients : op[c] = "none"
          BY <1>0, <3>2, WorkersHaveTheImage
      <4> QED  BY <3>1, <3>2, <4>1 DEF OperationInv, Actors
    <3>4. ~raced' => ~guests
        BY <3>1 DEF OperationInv
    <3> QED  BY <1>0, <3>1, <3>3, <3>4 DEF OperationInv
  <2> QED  BY <1>4, <2>1, <2>2, <2>3, <2>4 DEF Unloading
<1>5. CASE PowerCallback
  <2>1. /\ power' = "running"
        /\ UNCHANGED <<image, unload, isVirtualized, guests, op, need, raced, todo>>
      BY <1>5 DEF PowerCallback, entry, hypervisor
  <2> QED  BY <2>1 DEF OperationInv
<1>6. CASE Callback
  <2>1. CASE Operation(Power)
      BY <1>0, <2>1, EndKeeps
  <2>2. CASE OnSystemSleep \/ OnSystemWake
    <3>1. /\ power = "running" /\ op[Power] = "none" /\ UNCHANGED <<image, unload, todo>>
          /\ need' \in BOOLEAN
        BY <2>2 DEF OnSystemSleep, OnSystemWake, entry, OperationInv
    <3>2. \/ (Virtualize(Power) \/ Devirtualize(Power)) /\ power' = power
          \/ power' = "idle" /\ UNCHANGED <<isVirtualized, guests, op, raced>>
        BY <2>2 DEF OnSystemSleep, OnSystemWake
    <3>3. CASE power' = "idle" /\ UNCHANGED <<isVirtualized, guests, op, raced>>
        BY <1>0, <3>1, <3>3 DEF OperationInv
    <3> QED  BY <1>0, <3>1, <3>2, <3>3, VirtualizeKeeps, DevirtualizeKeeps
  <2> QED  BY <1>6, <2>1, <2>2 DEF Callback
<1> QED  BY <1>1, <1>2, <1>3, <1>4, <1>5, <1>6, AnyStep DEF vars, entry, hypervisor

-----------------------------------------------------------------------------
(***************************************************************************)
(* The global objects.                                                     *)
(***************************************************************************)

\* What __crt_init leaves: every object, and as many exit functions as fit.
LEMMA TableFilled ==
    ASSUME CrtInit
    PROVE  /\ exits' \in Seq(Global) /\ Len(exits') <= ExitSlots
           /\ \A i \in 1..Len(exits') : exits'[i] = i
           /\ alive' = {i \in Global : i <= Len(exits') \/ i > ExitSlots}
<1> DEFINE n == IF Objects < ExitSlots THEN Objects ELSE ExitSlots
<1>1. n \in Nat /\ n <= ExitSlots /\ n <= Objects /\ (n = Objects \/ n = ExitSlots)
    BY DriverAssumption
<1>2. exits' = [i \in 1..n |-> i] /\ alive' = Global
    BY DEF CrtInit
<1> HIDE DEF n
<1>3. exits' \in [1..n -> Global]
    BY <1>1, <1>2, DriverAssumption DEF Global
<1>4. exits' \in Seq(Global) /\ Len(exits') = n
    BY <1>1, <1>3
<1> QED  BY <1>1, <1>2, <1>4, DriverAssumption DEF Global

LEMMA ExitKept ==
    ASSUME PlanInv, ImageInv, OperationInv, ExitInv, [Next]_vars
    PROVE  ExitInv'
<1>1. CASE UNCHANGED <<image, alive, exits>> /\ (unload' = unload \/ unload' = "deinit")
    BY <1>1 DEF ExitInv
<1>2. ASSUME NEW c \in Clients, Loading(c) \/ MvLoad(c) \/ MvUnload(c) \/ Exit(c)
      PROVE  ExitInv'
  <2>1. CASE UNCHANGED <<image, alive, exits>>
      BY <1>1, <1>2, <2>1, ClientSteps
  <2>2. CASE ~image /\ \E outcome \in EntryOutcomes : DriverEntry(outcome)
    <3>1. unload' = "idle"
        BY <1>2, <2>2, ClientSteps DEF ImageInv
    <3>2. CASE image' = TRUE
      <4>1. CrtInit
          BY <2>2, <3>2 DEF DriverEntry
      <4>2. alive' = Global
          BY <4>1 DEF CrtInit
      <4> QED  BY <3>1, <3>2, <4>1, <4>2, TableFilled DEF ExitInv
    <3>3. CASE image' = FALSE
      <4>1. alive' = {} /\ exits' = << >>
          BY <2>2, <3>3 DEF DriverEntry
      <4> QED  BY <3>1, <3>3, <4>1, DriverAssumption DEF ExitInv
    <3>4. image' \in BOOLEAN
        BY ImageKept DEF ImageInv
    <3> QED  BY <3>2, <3>3, <3>4
  <2> QED  BY <1>2, <2>1, <2>2, ClientSteps
<1>3. CASE CrtDeinit
  <2>1. unload = "deinit" /\ image' = image /\ image = TRUE
      BY <1>3 DEF CrtDeinit, ImageInv
  <2>2. CASE exits = << >>
      BY <1>3, <2>1, <2>2 DEF CrtDeinit, ExitInv
  <2>3. CASE exits # << >>
    <3> DEFINE n == Len(exits)
    <3>1. n \in Nat \ {0} /\ exits[n] = n
        BY <2>3, EmptySeq DEF ExitInv
    <3>2. /\ exits' = SubSeq(exits, 1, n - 1) /\ alive' = alive \ {n} /\ unload' = "deinit"
        BY <1>3, <2>1, <2>3, <3>1 DEF CrtDeinit
    <3>3. \A i \in 1..n - 1 : exits[i] \in Global
        BY <3>1, ElementOfSeq DEF ExitInv
    <3>4. /\ exits' \in Seq(Global) /\ Len(exits') = n - 1
          /\ \A i \in 1..n - 1 : exits'[i] = exits[i]
      <4> DEFINE k == n - 1
      <4>1. k \in Nat
          BY <3>1
      <4> HIDE DEF k
      <4>2. /\ SubSeq(exits, 1, k) \in Seq(Global)
            /\ Len(SubSeq(exits, 1, k)) = IF 1 <= k THEN k - 1 + 1 ELSE 0
            /\ \A i \in 1..k - 1 + 1 : SubSeq(exits, 1, k)[i] = exits[1 + i - 1]
          BY <3>3, <4>1, SubSeqProperties DEF k
      <4>3. /\ Len(SubSeq(exits, 1, k)) = k
            /\ \A i \in 1..k : SubSeq(exits, 1, k)[i] = exits[i]
          BY <4>1, <4>2
      <4> QED  BY <3>2, <4>2, <4>3 DEF k
    <3>5. alive' = {i \in Global : i <= n - 1 \/ i > ExitSlots}
        BY <2>1, <3>1, <3>2, DriverAssumption DEF ExitInv, Global
    <3> QED  BY <2>1, <3>1, <3>2, <3>4, <3>5, DriverAssumption DEF ExitInv
  <2> QED  BY <2>2, <2>3
<1>4. CASE DeleteDevice
    BY <1>4, DriverAssumption DEF DeleteDevice, ExitInv
<1>5. CASE UnregisterCallback \/ DeleteSymbolicLink
    BY <1>5 DEF UnregisterCallback, DeleteSymbolicLink, Unregister, ExitInv
<1>6. CASE OnDriverUnload
    BY <1>1, <1>6 DEF OnDriverUnload, entry
<1>7. CASE Operation(Power) \/ Operation(Unloader)
  <2>1. Power \in Actors /\ Unloader \in Actors
      BY DEF Actors
  <2> QED  BY <1>1, <1>7, <2>1, OperationStep
<1>9. CASE PowerCallback \/ Callback
    BY <1>1, <1>7, <1>9 DEF PowerCallback, Callback, OnSystemSleep, OnSystemWake, entry
<1>10. CASE \E c \in Clients : Serving(c)
    BY <1>1, <1>10, ServingStep
<1>8. CASE UNCHANGED vars
    BY <1>1, <1>8 DEF vars, entry
<1> QED  BY <1>2, <1>3, <1>4, <1>5, <1>6, <1>7, <1>8, <1>9, <1>10, AnyStep DEF Unloading

-----------------------------------------------------------------------------
(***************************************************************************)
(* The count of handles.                                                   *)
(***************************************************************************)
LEMMA FiniteCounted == IsFiniteSet(Counted) /\ Cardinality(Counted) \in 0..Cardinality(Clients)
<1>1. IsFiniteSet(Clients) /\ Counted \subseteq Clients
    BY DriverAssumption DEF Counted
<1> QED  BY <1>1, FS_Subset, FS_CardinalityType

\* Steps that take no create and no close request leave the files counted.
LEMMA CountedStays ==
    ASSUME PlanInv, NEW c \in Clients, Loading(c) \/ MvLoad(c) \/ MvUnload(c) \/ Exit(c),
           ~OnDriverCreate(c), ~OnDriverClose(c)
    PROVE  Counted' = Counted
<1>0. files \in [Clients -> {"none", "creating", "open", "closing"}]
    BY DEF PlanInv
<1>1. CASE files' = files
    BY <1>1 DEF Counted
<1>2. CASE OpenDevice(c) \/ ReopenDevice(c)
  <2>1. files[c] = "none" /\ (files' = files \/ files' = [files EXCEPT ![c] = "creating"])
      BY <1>2, OpenStep, ReopenStep DEF Outer
  <2> QED  BY <1>0, <2>1 DEF Counted
<1>4. CASE OnDriverCleanup(c)
    BY <1>0, <1>4, CleanupStep DEF Counted
<1>6. CASE MvLoad(c) \/ MvUnload(c) \/ Exit(c)
    BY <1>1, <1>6, LoadStep, UnloadStep, ExitStep DEF SameFiles
<1>7. CASE HandlesCount(c) \/ LastHandle(c) \/ OpenService(c) \/ StopService(c) \/ Wait(c)
    BY <1>1, <1>7, CountStep, LastStep, AskStep, StopStep, WaitStep DEF SameFiles
<1>8. CASE DeleteService(c) \/ CreateService(c) \/ SetupFilterInstance(c) \/ StartService(c) \/ Return(c)
    BY <1>1, <1>8, DeleteStep, InstallStep, SetupStep, StartStep, ReturnStep DEF SameFiles
<1> QED  BY <1>2, <1>4, <1>6, <1>7, <1>8 DEF Loading

LEMMA HandlesStay ==
    ASSUME NEW c \in Clients, Loading(c) \/ MvLoad(c) \/ MvUnload(c) \/ Exit(c),
           ~OnDriverCreate(c), ~OnDriverClose(c), ~StartService(c)
    PROVE  handles' = handles
<1>1. CASE OnDriverCleanup(c) \/ MvLoad(c) \/ MvUnload(c) \/ Exit(c)
    BY <1>1 DEF OnDriverCleanup, MvLoad, MvUnload, Call, Exit, entry
<1>2. CASE OpenDevice(c) \/ ReopenDevice(c) \/ HandlesCount(c) \/ LastHandle(c) \/ OpenService(c)
    BY <1>2 DEF OpenDevice, ReopenDevice, HandlesCount, LastHandle, OpenService, entry
<1>3. CASE Wait(c) \/ DeleteService(c) \/ CreateService(c) \/ SetupFilterInstance(c) \/ Return(c) \/ StopService(c)
    BY <1>3 DEF Wait, DeleteService, CreateService, SetupFilterInstance, Return, StopService, entry
<1> QED  BY <1>1, <1>2, <1>3 DEF Loading

LEMMA CountKept ==
    ASSUME PlanInv, ImageInv, OperationInv, CountInv, [Next]_vars
    PROVE  CountInv'
<1>0. files \in [Clients -> {"none", "creating", "open", "closing"}]
    BY DEF PlanInv
<1>1. CASE handles' = handles /\ Counted' = Counted
    BY <1>1 DEF CountInv
<1>2. ASSUME NEW c \in Clients, Loading(c) \/ MvLoad(c) \/ MvUnload(c) \/ Exit(c)
      PROVE  CountInv'
  <2>1. CASE OnDriverCreate(c)
    <3>1. c \notin Counted /\ Counted' = Counted \union {c}
        BY <1>0, <2>1, CreateStep DEF Counted
    <3>2. handles' = handles + 1
        BY <2>1 DEF OnDriverCreate
    <3> QED  BY <3>1, <3>2, FiniteCounted, FS_AddElement DEF CountInv
  <2>2. CASE OnDriverClose(c)
    <3>1. c \in Counted /\ Counted' = Counted \ {c}
        BY <1>0, <2>2, CloseStep DEF Counted
    <3>2. handles' = handles - 1
        BY <2>2 DEF OnDriverClose
    <3> QED  BY <3>1, <3>2, FiniteCounted, FS_RemoveElement DEF CountInv
  <2>3. CASE StartService(c)
    <3>1. Counted' = Counted
        BY <2>3, StartStep DEF SameFiles, Counted
    <3>2. CASE handles' = handles
        BY <1>1, <3>1, <3>2
    <3>3. CASE ~image /\ handles' = 0
      <4>1. Counted' = {}
          BY <3>1, <3>3 DEF ImageInv, Counted, Refs
      <4> QED  BY <3>3, <4>1, FS_EmptySet DEF CountInv
    <3> QED  BY <2>3, <3>2, <3>3, StartStep DEF DriverEntry, entry
  <2> QED  BY <1>1, <1>2, <2>1, <2>2, <2>3, CountedStays, HandlesStay
<1>3. CASE Unloading \/ PowerCallback \/ Callback
    BY <1>1, <1>3, OtherSteps DEF Counted
<1>5. CASE \E c \in Clients : Serving(c)
    BY <1>1, <1>5, ServingStep DEF Counted
<1>4. CASE UNCHANGED vars
    BY <1>1, <1>4 DEF vars, entry, Counted
<1> QED  BY <1>2, <1>3, <1>4, <1>5, AnyStep

\* Who asks for the count and hears of no other handle is the only one.
LEMMA OnlyOne ==
    ASSUME CountInv, NEW c \in Counted, ~(handles > 1)
    PROVE  Counted = {c}
<1>1. /\ IsFiniteSet(Counted \ {c})
      /\ Cardinality(Counted \ {c}) = Cardinality(Counted) - 1
      /\ Cardinality(Counted \ {c}) \in Nat /\ Cardinality(Counted) \in Nat
    BY FiniteCounted, FS_RemoveElement, FS_CardinalityType
<1>2. Cardinality(Counted \ {c}) = 0
    BY <1>1 DEF CountInv
<1> QED  BY <1>1, <1>2, FS_EmptySet

-----------------------------------------------------------------------------
(***************************************************************************)
(* Under whom the driver is stopped.                                       *)
(***************************************************************************)

\* The calls that will not stop the driver.
LEMMA WillStopBegins ==
    ASSUME NEW p \in WillStop
    PROVE  /\ p # << >>
           /\ \/ Head(p) = "openService" /\ p \in Asking
              \/ Head(p) = "stop"
              \/ Head(p) = "closed" /\ Tail(p) \in Asking
              \/ Head(p) = "close" /\ Tail(p) \in {<<"closed">> \o r : r \in Asking}
<1>0. Asking \subseteq Leaving
    BY DEF Leaving
<1>1. CASE p \in Asking
  <2>1. PICK r \in Rests : p = DeleteDriver \o r
      BY <1>1 DEF Asking
  <2> QED  BY <1>1, <2>1, AfterDelete
<1>2. CASE p \in Stopping
  <2>1. PICK r \in Rests : p = <<"stop", "deleteService">> \o r
      BY <1>2 DEF Stopping
  <2> QED  BY <2>1, AfterDelete
<1>3. CASE p \in {<<"closed">> \o r : r \in Asking}
  <2>1. PICK r \in Asking : p = <<"closed">> \o r
      BY <1>3, Zenon
  <2>2. p # << >> /\ Head(p) = "closed" /\ Tail(p) = r
      BY <1>0, <2>1, AfterClose, Zenon
  <2> QED  BY <2>2, Zenon
<1>4. CASE p \in {<<"close", "closed">> \o r : r \in Asking}
  <2>1. PICK r \in Asking : p = <<"close", "closed">> \o r
      BY <1>4, Zenon
  <2>2. p # << >> /\ Head(p) = "close" /\ Tail(p) = <<"closed">> \o r
      BY <1>0, <2>1, AfterClose, Zenon
  <2> QED  BY <2>2, Zenon
<1> QED  BY <1>1, <1>2, <1>3, <1>4, Zenon DEF WillStop

LEMMA OthersReturn ==
    /\ \A r \in Rests :
          /\ r \notin WillStop
          /\ <<"wait", "deleteService">> \o r \notin WillStop
          /\ <<"deleteService">> \o r \notin WillStop
    /\ \A p \in Creating \union Installing \union {<< >>, <<"open">> \o Install, <<"count">> \o Install,
                     <<"last">>, <<"close", "closed">>, <<"closed">>, <<"operation">>} : p \notin WillStop
    /\ \A p \in {<<"TRUE">>, <<"FALSE">>} :
          p \notin WillStop /\ <<"closed">> \o p \notin WillStop /\ <<"close", "closed">> \o p \notin WillStop
<1>1. \A r \in Rests : r \notin WillStop
  <2>1. Head(<<"TRUE">>) = "TRUE" /\ Head(<<"FALSE">>) = "FALSE"
      OBVIOUS
  <2> QED  BY <2>1, Installs, WillStopBegins DEF Rests
<1>2. \A r \in Rests : /\ <<"wait", "deleteService">> \o r \notin WillStop
                       /\ <<"deleteService">> \o r \notin WillStop
  <2> TAKE r \in Rests
  <2>1. Head(<<"wait", "deleteService">> \o r) = "wait" /\ Head(<<"deleteService">> \o r) = "deleteService"
      BY AfterDelete
  <2> QED  BY <2>1, WillStopBegins
<1>3. \A p \in Creating \union {<<"open">> \o Install, <<"count">> \o Install} : p \notin WillStop
    BY Installs, WillStopBegins DEF Creating
<1>4. \A p \in Installing \union {<< >>, <<"last">>, <<"operation">>} : p \notin WillStop
  <2>1. /\ Head(<<"setup", "startService", "reopen">>) = "setup"
        /\ Head(<<"startService", "reopen">>) = "startService"
        /\ Head(<<"reopen">>) = "reopen" /\ Head(<<"last">>) = "last"
        /\ Head(<<"operation">>) = "operation"
      OBVIOUS
  <2> QED  BY <2>1, WillStopBegins DEF Installing
<1>5. << >> \notin Asking /\ <<"TRUE">> \notin Asking /\ <<"FALSE">> \notin Asking
  <2>1. Head(<<"TRUE">>) = "TRUE" /\ Head(<<"FALSE">>) = "FALSE"
      OBVIOUS
  <2> QED  BY <2>1, AfterDelete DEF Asking
<1>6. <<"close", "closed">> \notin WillStop /\ <<"closed">> \notin WillStop
  <2>1. /\ Head(<<"close", "closed">>) = "close" /\ Tail(<<"close", "closed">>) = <<"closed">>
        /\ Head(<<"closed">>) = "closed" /\ Tail(<<"closed">>) = << >>
      OBVIOUS
  <2>2. <<"closed">> \notin {<<"closed">> \o r : r \in Asking}
      BY <1>5, <2>1, AfterClose DEF Leaving
  <2> QED  BY <1>5, <2>1, <2>2, WillStopBegins
<1>7. \A p \in {<<"TRUE">>, <<"FALSE">>} :
         <<"closed">> \o p \notin WillStop /\ <<"close", "closed">> \o p \notin WillStop
  <2> TAKE p \in {<<"TRUE">>, <<"FALSE">>}
  <2>1. p \in Leaving /\ p \notin Asking
      BY <1>5 DEF Leaving
  <2>2. <<"closed">> \o p \notin {<<"closed">> \o r : r \in Asking}
      BY <2>1, AfterClose DEF Leaving
  <2>3. /\ Head(<<"closed">> \o p) = "closed" /\ Tail(<<"closed">> \o p) = p
        /\ Head(<<"close", "closed">> \o p) = "close"
        /\ Tail(<<"close", "closed">> \o p) = <<"closed">> \o p
      BY <2>1, AfterClose
  <2>4. <<"closed">> \o p \notin WillStop
      BY <2>1, <2>3, WillStopBegins
  <2>5. <<"close", "closed">> \o p \notin WillStop
      BY <2>2, <2>3, WillStopBegins
  <2> QED  BY <2>4, <2>5
<1> QED  BY <1>1, <1>2, <1>3, <1>4, <1>6, <1>7 DEF Rests

\* Steps of c touch what it knows of newcomers and nothing another does, but
\* that a create request is news to those who will stop the driver, which a
\* close request takes back.
LEMMA NewsOfOthers ==
    ASSUME PlanInv, newcomers \in [Clients -> SUBSET Clients], NEW c \in Clients,
           Loading(c) \/ MvLoad(c) \/ MvUnload(c) \/ Exit(c)
    PROVE  /\ newcomers' \in [Clients -> SUBSET Clients]
           /\ \A d \in Clients \ {c} :
                 /\ todo'[d] = todo[d] /\ newcomers[d] \ {c} \subseteq newcomers'[d]
                 /\ ~OnDriverClose(c) => newcomers[d] \subseteq newcomers'[d]
                 /\ OnDriverCreate(c) /\ todo[d] \in WillStop => c \in newcomers'[d]
<1>0. DOMAIN todo = Clients
    BY DEF PlanInv
<1>1. CASE OnDriverCreate(c)
  <2>1. newcomers' = [d \in Clients |-> IF d # c /\ todo[d] \in WillStop
                                      THEN newcomers[d] \union {c} ELSE newcomers[d]]
      BY <1>1 DEF OnDriverCreate
  <2>2. \A d \in Clients \ {c} : todo'[d] = todo[d]
      BY <1>0, <1>1 DEF OnDriverCreate, Done, Do
  <2> QED  BY <2>1, <2>2
<1>2. CASE newcomers' = newcomers \/ \E s \in SUBSET Clients : newcomers' = [newcomers EXCEPT ![c] = s]
  <2>1. \A d \in Clients \ {c} : todo'[d] = todo[d]
      BY PlansOfOthers
  <2>2. CASE OnDriverCreate(c)
      BY <1>1, <2>2
  <2> QED  BY <1>2, <2>1, <2>2
<1>3. CASE OnDriverCleanup(c) \/ OpenDevice(c) \/ ReopenDevice(c)
    BY <1>2, <1>3 DEF OnDriverCleanup, OpenDevice, ReopenDevice, Open, OpenFails
<1>7. CASE OnDriverClose(c)
  <2>1. newcomers' = [d \in Clients |-> newcomers[d] \ {c}]
      BY <1>7 DEF OnDriverClose
  <2>2. \A d \in Clients \ {c} : todo'[d] = todo[d]
      BY <1>7, PlansOfOthers
  <2>3. ~OnDriverCreate(c)
      BY <1>7 DEF OnDriverClose, OnDriverCreate, At
  <2> QED  BY <1>7, <2>1, <2>2, <2>3
<1>4. CASE HandlesCount(c) \/ LastHandle(c) \/ OpenService(c) \/ StopService(c) \/ Wait(c)
    BY <1>2, <1>4 DEF HandlesCount, LastHandle, OpenService, StopService, Wait
<1>5. CASE DeleteService(c) \/ CreateService(c) \/ SetupFilterInstance(c) \/ StartService(c) \/ Return(c)
    BY <1>2, <1>5 DEF DeleteService, CreateService, SetupFilterInstance, StartService, Return
<1>6. CASE MvLoad(c) \/ MvUnload(c) \/ Exit(c)
    BY <1>2, <1>6 DEF MvLoad, MvUnload, Call, Exit
<1> QED  BY <1>1, <1>3, <1>4, <1>5, <1>6, <1>7 DEF Loading

\* What c itself knows when it is going to stop the driver.
KnowsAll(c) == stopping \/ \A d \in Counted \ {c} : d \in newcomers[c]

LEMMA OwnNews ==
    ASSUME PlanInv, ImageInv, CountInv, NewcomersInv, NEW c \in Clients,
           Loading(c) \/ MvLoad(c) \/ MvUnload(c) \/ Exit(c), todo'[c] \in WillStop
    PROVE  KnowsAll(c)'
<1>0. /\ DOMAIN todo = Clients /\ newcomers \in [Clients -> SUBSET Clients]
      /\ files \in [Clients -> {"none", "creating", "open", "closing"}]
    BY DEF PlanInv, NewcomersInv
<1>1. \A p : Becomes(c, p) => p \in WillStop
    BY <1>0 DEF Becomes
<1>2. CASE OnDriverCreate(c)
    BY <1>1, <1>2, CreateStep, OthersReturn DEF Rests
<1>3. CASE OnDriverCleanup(c)
  <2>1. PICK r \in Leaving : todo[c] = <<"close", "closed">> \o r /\ Becomes(c, <<"closed">> \o r)
      BY <1>1, <1>3, CleanupStep, OthersReturn
  <2>2. r \in Asking
      BY <1>1, <2>1, OthersReturn DEF Leaving
  <2>3. todo[c] \in WillStop
      BY <2>1, <2>2 DEF WillStop
  <2>4. Counted' = Counted /\ UNCHANGED <<stopping, newcomers>>
      BY <1>0, <1>3, CleanupStep DEF OnDriverCleanup, Counted
  <2> QED  BY <2>3, <2>4 DEF NewcomersInv, KnowsAll
<1>4. CASE OnDriverClose(c)
  <2>1. PICK r \in Leaving : todo[c] = <<"closed">> \o r /\ Becomes(c, r)
      BY <1>1, <1>4, CloseStep, OthersReturn
  <2>2. r \in Asking
      BY <1>1, <2>1, OthersReturn DEF Leaving
  <2>3. todo[c] \in WillStop
      BY <2>1, <2>2 DEF WillStop
  <2>4. Counted' \subseteq Counted /\ stopping' = stopping /\ newcomers'[c] = newcomers[c] \ {c}
      BY <1>0, <1>4, CloseStep DEF OnDriverClose, Counted
  <2> QED  BY <2>3, <2>4 DEF NewcomersInv, KnowsAll
<1>5. CASE OpenDevice(c) \/ ReopenDevice(c)
  <2>1. <<"create">> \o (<<"count">> \o Install) \notin WillStop /\ <<"create">> \o <<"TRUE">> \notin WillStop
      BY OthersReturn DEF Creating
  <2>2. ~Open(c, <<"count">> \o Tail(todo[c])) /\ ~Open(c, <<"TRUE">>)
    <3>1. /\ Open(c, <<"count">> \o Tail(todo[c])) => Becomes(c, <<"create">> \o (<<"count">> \o Tail(todo[c])))
          /\ Open(c, <<"TRUE">>) => Becomes(c, <<"create">> \o <<"TRUE">>)
        BY DEF Open, Do, Becomes
    <3>2. CASE OpenDevice(c)
      <4>1. Tail(todo[c]) = Install
          BY <3>2, OpenStep, Installs
      <4> QED  BY <1>1, <2>1, <3>1, <4>1
    <3>3. CASE ReopenDevice(c)
      <4>1. ~Becomes(c, <<"create">> \o <<"TRUE">>)
          BY <1>1, <2>1
      <4>2. files' = files
          BY <3>3, <4>1, ReopenStep
      <4>3. files[c] = "none"
          BY <3>3, ReopenStep DEF Outer
      <4> QED  BY <1>0, <4>2, <4>3 DEF Open
    <3> QED  BY <1>5, <3>2, <3>3
  <2>3. /\ files' = files
        /\ newcomers' = [newcomers EXCEPT ![c] = IF CanOpen THEN Clients \ {c} ELSE {}]
        /\ stopping' = stopping
      BY <1>5, <2>2 DEF OpenDevice, ReopenDevice, OpenFails, system
  <2>4. CASE CanOpen
      BY <1>0, <2>3, <2>4 DEF KnowsAll, Counted
  <2>5. CASE ~CanOpen /\ ~stopping
    <3>1. ~image
        BY <2>5 DEF CanOpen, ImageInv
    <3>2. Counted' = {}
        BY <2>3, <3>1 DEF ImageInv, Refs, Counted
    <3> QED  BY <3>2 DEF KnowsAll
  <2> QED  BY <2>3, <2>4, <2>5 DEF KnowsAll
<1>6. CASE HandlesCount(c)
  <2>1. ~(handles > 1) /\ files' = files /\ c \in Counted
      BY <1>1, <1>6, CountStep, OthersReturn DEF SameFiles, Inner, Counted
  <2> QED  BY <2>1, OnlyOne DEF KnowsAll, Counted
<1>7. CASE LastHandle(c)
  <2>1. /\ ~(handles > 1) \/ newcomers' = [newcomers EXCEPT ![c] = Clients \ {c}]
        /\ files' = files /\ c \in Counted
      BY <1>1, <1>7, LastStep, OthersReturn DEF SameFiles, Inner, Counted
  <2>2. CASE ~(handles > 1)
      BY <2>1, <2>2, OnlyOne DEF KnowsAll, Counted
  <2>3. CASE newcomers' = [newcomers EXCEPT ![c] = Clients \ {c}]
      BY <1>0, <2>3 DEF KnowsAll, Counted
  <2> QED  BY <2>1, <2>2, <2>3
<1>8. CASE OpenService(c)
  <2>1. todo[c] \in WillStop
      BY <1>8, AskStep DEF WillStop, Asking
  <2>2. files' = files /\ UNCHANGED <<stopping, newcomers>>
      BY <1>8 DEF OpenService, system
  <2> QED  BY <2>1, <2>2 DEF NewcomersInv, KnowsAll, Counted
<1>9. CASE StopService(c) \/ Wait(c)
    BY <1>1, <1>9, StopStep, WaitStep, OthersReturn
<1>10. CASE DeleteService(c)
    BY <1>1, <1>10, DeleteStep, OthersReturn DEF Failing, Rests
<1>11. CASE CreateService(c) \/ SetupFilterInstance(c)
    BY <1>1, <1>11, InstallStep, SetupStep, OthersReturn DEF Installing
<1>12. CASE StartService(c)
    BY <1>1, <1>12, StartStep, OthersReturn DEF Installing
<1>13. CASE Return(c) \/ Exit(c)
    BY <1>1, <1>13, ReturnStep, ExitStep, OthersReturn
<1>14. CASE MvLoad(c) \/ MvUnload(c)
    BY <1>1, <1>14, LoadStep, UnloadStep, OthersReturn
<1> QED  BY <1>2, <1>3, <1>4, <1>5, <1>6, <1>7, <1>8, <1>9, <1>10, <1>11, <1>12, <1>13, <1>14 DEF Loading

LEMMA NewcomersKept ==
    ASSUME PlanInv, ImageInv, OperationInv, CountInv, NewcomersInv, [Next]_vars
    PROVE  NewcomersInv'
<1>1. ASSUME NEW c \in Clients, Loading(c) \/ MvLoad(c) \/ MvUnload(c) \/ Exit(c)
      PROVE  NewcomersInv'
  <2>1. newcomers' \in [Clients -> SUBSET Clients]
      BY <1>1, NewsOfOthers DEF NewcomersInv
  <2>2. ASSUME NEW d \in Clients, todo'[d] \in WillStop
        PROVE  KnowsAll(d)'
    <3>1. CASE d = c
        BY <1>1, <2>2, <3>1, OwnNews
    <3>2. CASE d # c
      <4>1. /\ todo'[d] = todo[d] /\ newcomers[d] \ {c} \subseteq newcomers'[d]
            /\ ~OnDriverClose(c) => newcomers[d] \subseteq newcomers'[d]
            /\ OnDriverCreate(c) /\ todo[d] \in WillStop => c \in newcomers'[d]
          BY <1>1, <3>2, NewsOfOthers DEF NewcomersInv
      <4>2. todo[d] \in WillStop /\ KnowsAll(d)
          BY <2>2, <4>1 DEF NewcomersInv, KnowsAll
      <4>3. stopping => stopping'
          BY <1>1, ClientSteps
      <4>4. \A e \in Counted' : \/ e \in Counted /\ (e = c => ~OnDriverClose(c))
                                \/ e = c /\ OnDriverCreate(c)
        <5>1. CASE OnDriverCreate(c)
            BY <5>1, CreateStep DEF Counted, PlanInv
        <5>2. CASE OnDriverClose(c)
            BY <5>2, CloseStep DEF Counted, PlanInv
        <5> QED  BY <1>1, <5>1, <5>2, CountedStays
      <4> QED  BY <4>1, <4>2, <4>3, <4>4 DEF KnowsAll
    <3> QED  BY <3>1, <3>2
  <2> QED  BY <2>1, <2>2 DEF NewcomersInv, KnowsAll
<1>2. CASE UNCHANGED <<files, todo, newcomers>> /\ (stopping' = stopping \/ Refs = {})
    BY <1>2 DEF NewcomersInv, Counted, Refs
<1>6. CASE Operation(Power) \/ Operation(Unloader)
  <2>1. {Power, Unloader} \subseteq Actors \ Clients
      BY DriverAssumption DEF Actors
  <2> QED  BY <1>2, <1>6, <2>1, OperationStep
<1>3. CASE Unloading
    BY <1>2, <1>3, <1>6, OtherSteps
       DEF Unloading, OnDriverUnload, CrtDeinit, UnregisterCallback, DeleteSymbolicLink, Unregister,
           DeleteDevice, ImageInv
<1>4. CASE PowerCallback \/ Callback
    BY <1>2, <1>4, <1>6, OtherSteps DEF PowerCallback, Callback, OnSystemSleep, OnSystemWake
<1>7. ASSUME NEW c \in Clients, Serving(c)
      PROVE  NewcomersInv'
  <2>1. /\ UNCHANGED <<files, newcomers, stopping>> /\ DOMAIN todo = Clients
        /\ todo' = todo \/ Becomes(c, << >>) \/ Becomes(c, <<"operation">>)
      BY <1>7, ServingStep DEF PlanInv
  <2>2. \A d \in Clients : todo'[d] \in WillStop => todo[d] \in WillStop
      BY <2>1, OthersReturn DEF Becomes
  <2> QED  BY <2>1, <2>2 DEF NewcomersInv, Counted
<1>5. CASE UNCHANGED vars
    BY <1>2, <1>5 DEF vars
<1> QED  BY <1>1, <1>3, <1>4, <1>5, <1>7, AnyStep

-----------------------------------------------------------------------------
(***************************************************************************)
(* The record of the service.                                              *)
(***************************************************************************)
LEMMA HoldingBegins ==
    ASSUME NEW p \in Holding
    PROVE  p # << >> /\ Head(p) \in {"stop", "wait", "deleteService", "setup", "startService"}
<1>1. CASE p \in Stopping
  <2>1. PICK r \in Rests : p = <<"stop", "deleteService">> \o r
      BY <1>1 DEF Stopping
  <2> QED  BY <2>1, AfterDelete
<1>2. CASE p \in Waiting
  <2>1. PICK r \in Rests : p = <<"wait", "deleteService">> \o r
      BY <1>2 DEF Waiting
  <2> QED  BY <2>1, AfterDelete
<1>3. CASE p \in Deleting
  <2>1. PICK r \in Rests : p = <<"deleteService">> \o r
      BY <1>3 DEF Deleting
  <2> QED  BY <2>1, AfterDelete
<1>4. CASE p \in {<<"setup", "startService", "reopen">>, <<"startService", "reopen">>}
  <2>1. /\ Head(<<"setup", "startService", "reopen">>) = "setup"
        /\ Head(<<"startService", "reopen">>) = "startService"
      OBVIOUS
  <2> QED  BY <1>4, <2>1
<1> QED  BY <1>1, <1>2, <1>3, <1>4 DEF Holding

\* How clients change the record and the handles to it.
LEMMA ServiceSteps ==
    ASSUME PlanInv, ServiceInv, NEW c \in Clients, Loading(c) \/ MvLoad(c) \/ MvUnload(c) \/ Exit(c)
    PROVE  \/ UNCHANGED <<service, svcOpen>>
           \/ /\ OpenService(c) /\ service' = service /\ svcOpen' = svcOpen \union {c}
              /\ todo'[c] \in Holding
           \/ /\ CreateService(c) /\ service' = "there" /\ svcOpen' = svcOpen \union {c}
              /\ todo'[c] \in Holding
           \/ /\ svcOpen' = svcOpen \ {c}
              /\ service' = Settled(IF DeleteService(c) THEN "marked" ELSE service, svcOpen', image')
<1>0. DOMAIN todo = Clients
    BY DEF PlanInv
<1>1. CASE OpenService(c)
  <2>1. service' = service
      BY <1>1 DEF OpenService
  <2>2. PICK r \in Rests : \/ /\ service # "none" /\ svcOpen' = svcOpen \union {c}
                              /\ Becomes(c, <<"stop", "deleteService">> \o r)
                           \/ svcOpen' = svcOpen
      BY <1>1, AskStep
  <2>3. <<"stop", "deleteService">> \o r \in Holding
      BY DEF Holding, Stopping
  <2> QED  BY <1>0, <1>1, <2>1, <2>2, <2>3 DEF Becomes
<1>2. CASE CreateService(c)
    BY <1>0, <1>2, InstallStep DEF Becomes, Holding
<1>3. CASE DeleteService(c)
  <2>1. image' = image
      BY <1>3 DEF DeleteService, entry
  <2> QED  BY <1>3, <2>1 DEF DeleteService
<1>4. CASE ~DeleteService(c) /\ CloseService(c) /\ image' = image
    BY <1>4 DEF CloseService
<1>5. CASE SetupFilterInstance(c)
  <2>1. \A p : p = <<"setup", "startService", "reopen">> => Head(p) = "setup"
      OBVIOUS
  <2>2. ~DeleteService(c)
      BY <1>5, <2>1, SetupStep DEF DeleteService, At
  <2> QED  BY <1>4, <1>5, <2>2, SetupStep DEF SetupFilterInstance, entry
<1>6. CASE StartService(c)
  <2>1. ~DeleteService(c)
      BY <1>6 DEF StartService, DeleteService, At
  <2> QED  BY <1>6, <2>1 DEF StartService
<1>7. CASE Exit(c)
  <2>1. CASE DeleteService(c)
    <3>1. FALSE
      <4>1. service' = Settled("marked", svcOpen \ {c}, image)
          BY <2>1 DEF DeleteService
      <4>2. Becomes(c, << >>) \/ Becomes(c, <<"close", "closed">>)
          BY <1>7, ExitStep
      <4>3. PICK r \in Rests : todo[c] = <<"deleteService">> \o r /\ (Becomes(c, r) \/ Becomes(c, Failing(r)))
          BY <2>1, DeleteStep
      <4>4. /\ << >> \notin Rests /\ <<"close", "closed">> \notin Rests
        <5>1. /\ Head(<<"close", "closed">>) = "close" /\ Head(<<"TRUE">>) = "TRUE" /\ Head(<<"FALSE">>) = "FALSE"
            OBVIOUS
        <5> QED  BY <5>1, Installs, RestsAreSteps DEF Rests
      <4>5. Failing(r) \in Rests
          BY DEF Failing, Rests
      <4> QED  BY <1>0, <4>2, <4>3, <4>4, <4>5 DEF Becomes
    <3> QED  BY <3>1
  <2>2. image' = image
      BY <1>7 DEF Exit, entry
  <2> QED  BY <1>4, <1>7, <2>1, <2>2 DEF Exit
<1>8. CASE OnDriverCreate(c) \/ OnDriverCleanup(c) \/ OnDriverClose(c) \/ OpenDevice(c) \/ ReopenDevice(c)
    BY <1>8 DEF OnDriverCreate, OnDriverCleanup, OnDriverClose, OpenDevice, ReopenDevice, scm
<1>9. CASE HandlesCount(c) \/ LastHandle(c) \/ StopService(c) \/ Wait(c) \/ Return(c) \/ MvLoad(c) \/ MvUnload(c)
    BY <1>9 DEF HandlesCount, LastHandle, StopService, Wait, Return, MvLoad, MvUnload, Call, scm
<1> QED  BY <1>1, <1>2, <1>3, <1>5, <1>6, <1>7, <1>8, <1>9 DEF Loading

\* Between the steps of a client that keep its handle to the service it has
\* not returned.
LEMMA HandleKept ==
    ASSUME PlanInv, NEW c \in Clients, todo[c] \in Holding, svcOpen' = svcOpen, c \in svcOpen,
           Loading(c) \/ MvLoad(c) \/ MvUnload(c) \/ Exit(c)
    PROVE  todo'[c] \in Holding
<1>0. DOMAIN todo = Clients /\ todo[c] # << >>
      /\ Head(todo[c]) \in {"stop", "wait", "deleteService", "setup", "startService"}
    BY HoldingBegins DEF PlanInv
<1>1. CASE StopService(c)
    BY <1>0, <1>1, StopStep DEF Becomes, Holding, Waiting, Deleting
<1>2. CASE Wait(c)
    BY <1>0, <1>2, WaitStep DEF Becomes, Holding, Deleting
<1>3. CASE DeleteService(c) \/ StartService(c) \/ Exit(c)
    BY <1>3 DEF DeleteService, StartService, Exit, CloseService
<1>4. CASE SetupFilterInstance(c)
    BY <1>0, <1>4, SetupStep DEF Becomes, Holding, CloseService
<1>5. CASE MvLoad(c) \/ MvUnload(c)
    BY <1>0, <1>5 DEF MvLoad, MvUnload, Call
<1> QED  BY <1>0, <1>1, <1>2, <1>3, <1>4, <1>5
         DEF Loading, OnDriverCreate, OnDriverCleanup, OnDriverClose, OpenDevice, ReopenDevice,
             HandlesCount, LastHandle, OpenService, CreateService, Return, At

LEMMA ServiceKept ==
    ASSUME PlanInv, ImageInv, OperationInv, ServiceInv, [Next]_vars
    PROVE  ServiceInv'
<1>1. ASSUME NEW c \in Clients, Loading(c) \/ MvLoad(c) \/ MvUnload(c) \/ Exit(c)
      PROVE  ServiceInv'
  <2>1. \A d \in svcOpen \ {c} : todo'[d] \in Holding
      BY <1>1, PlansOfOthers DEF ServiceInv
  <2>2. image' = image \/ (StartService(c) /\ service = "there")
      BY <1>1, ClientSteps
  <2>3. CASE UNCHANGED <<service, svcOpen>>
    <3>1. c \in svcOpen => todo'[c] \in Holding
        BY <1>1, <2>3, HandleKept DEF ServiceInv
    <3> QED  BY <2>1, <2>2, <2>3, <3>1 DEF ServiceInv
  <2>4. CASE OpenService(c) /\ service' = service /\ svcOpen' = svcOpen \union {c} /\ todo'[c] \in Holding
    <3>1. image' = image
        BY <2>4 DEF OpenService, entry
    <3> QED  BY <2>1, <2>4, <3>1 DEF ServiceInv
  <2>5. CASE CreateService(c) /\ service' = "there" /\ svcOpen' = svcOpen \union {c} /\ todo'[c] \in Holding
      BY <2>1, <2>5 DEF ServiceInv
  <2>6. CASE /\ svcOpen' = svcOpen \ {c}
             /\ service' = Settled(IF DeleteService(c) THEN "marked" ELSE service, svcOpen', image')
    <3>1. image' => service' # "none"
        BY <2>2, <2>6 DEF ServiceInv, Settled
    <3>2. service' \in {"none", "there", "marked"}
        BY <2>6 DEF ServiceInv, Settled
    <3> QED  BY <2>1, <2>6, <3>1, <3>2 DEF ServiceInv
  <2> QED  BY <1>1, <2>3, <2>4, <2>5, <2>6, ServiceSteps
<1>2. CASE UNCHANGED <<image, service, svcOpen, todo>>
    BY <1>2 DEF ServiceInv
<1>3. CASE DeleteDevice
    BY <1>3 DEF DeleteDevice, ServiceInv, Settled
<1>4. CASE OnDriverUnload \/ CrtDeinit \/ UnregisterCallback \/ DeleteSymbolicLink
    BY <1>2, <1>4 DEF OnDriverUnload, CrtDeinit, UnregisterCallback, DeleteSymbolicLink, Unregister, entry, scm
<1>7. CASE Operation(Power) \/ Operation(Unloader)
  <2>1. {Power, Unloader} \subseteq Actors \ Clients
      BY DriverAssumption DEF Actors
  <2> QED  BY <1>2, <1>7, <2>1, OperationStep
<1>5. CASE PowerCallback \/ Callback
    BY <1>2, <1>5, <1>7 DEF PowerCallback, Callback, OnSystemSleep, OnSystemWake, entry, scm
<1>8. ASSUME NEW c \in Clients, Serving(c)
      PROVE  ServiceInv'
  <2>1. UNCHANGED <<image, service, svcOpen>> /\ DOMAIN todo = Clients /\ Inner(c)
        /\ (todo' = todo \/ todo[c] \in {<< >>, <<"operation">>})
        /\ (todo' = todo \/ Becomes(c, << >>) \/ Becomes(c, <<"operation">>))
      BY <1>8, ServingStep, RequestStep DEF PlanInv, Serving
  <2>2. << >> \notin Holding /\ <<"operation">> \notin Holding
    <3>1. Head(<<"operation">>) = "operation"
        OBVIOUS
    <3> QED  BY <3>1, HoldingBegins
  <2>3. \A d \in svcOpen : todo'[d] \in Holding
      BY <2>1, <2>2 DEF ServiceInv, Becomes
  <2> QED  BY <2>1, <2>3 DEF ServiceInv
<1>6. CASE UNCHANGED vars
    BY <1>2, <1>6 DEF vars, entry, scm
<1> QED  BY <1>1, <1>3, <1>4, <1>5, <1>6, <1>7, <1>8, AnyStep DEF Unloading

-----------------------------------------------------------------------------
(***************************************************************************)
(* Calls that nobody disturbs.                                             *)
(***************************************************************************)

\* What an undisturbed call has found before its next step.
LEMMA LoneBegins ==
    ASSUME NEW p, LoneAt(p), p # << >>
    PROVE  /\ Head(p) \notin {"FALSE", "operation"}
           /\ Head(p) \in {"create", "open", "last", "count"} => ~stopping /\ service # "marked"
           /\ Head(p) = "closed" => MayLeave(Tail(p))
           /\ Head(p) = "close" => \E r \in Leaving : Tail(p) = <<"closed">> \o r /\ MayLeave(r)
           /\ Head(p) = "openService" => MayLeave(p)
           /\ Head(p) = "stop" => /\ service = "there" /\ ~stopping
                                 /\ \E r \in {<<"TRUE">>, Install} : Tail(p) = <<"deleteService">> \o r
           /\ Head(p) = "wait" => /\ service = "there" /\ (image => stopping)
                                 /\ \E r \in {<<"TRUE">>, Install} : Tail(p) = <<"deleteService">> \o r
           /\ Head(p) = "deleteService" => /\ service = "there" /\ ~image /\ ~stopping
                                          /\ Tail(p) \in {<<"TRUE">>, Install}
           /\ Head(p) = "createService" => ~image /\ ~stopping /\ service = "none"
           /\ Head(p) \in {"setup", "startService"} => ~image /\ ~stopping /\ service = "there"
           /\ Head(p) = "reopen" => image /\ ~stopping /\ service = "there"
<1>1. CASE p = <<"TRUE">>
  <2>1. Head(<<"TRUE">>) = "TRUE"
      OBVIOUS
  <2> QED  BY <1>1, <2>1
<1>2. CASE /\ p \in Creating \union {<<"open">> \o Install, <<"last">>, <<"count">> \o Install}
           /\ ~stopping /\ service # "marked"
  <2>1. Head(<<"last">>) = "last"
      OBVIOUS
  <2>2. Head(p) \in {"create", "open", "last", "count"}
      BY <1>2, <2>1, Installs DEF Creating
  <2> QED  BY <1>2, <2>2
<1>3. ASSUME NEW r \in Leaving, p \in {<<"closed">> \o r, <<"close", "closed">> \o r}, MayLeave(r)
      PROVE  \/ Head(p) = "closed" /\ MayLeave(Tail(p))
             \/ Head(p) = "close" /\ Tail(p) = <<"closed">> \o r
    BY <1>3, AfterClose
<1>4. CASE p \in Asking /\ MayLeave(p)
  <2>1. Head(p) = "openService"
      BY <1>4, AfterDelete DEF Asking
  <2> QED  BY <1>4, <2>1
<1>5. ASSUME NEW r \in {<<"TRUE">>, Install}, service = "there",
             \/ p = <<"stop", "deleteService">> \o r /\ ~stopping
             \/ p = <<"wait", "deleteService">> \o r /\ (image => stopping)
             \/ p = <<"deleteService">> \o r /\ ~image /\ ~stopping
      PROVE  \/ Head(p) = "stop" /\ ~stopping /\ Tail(p) = <<"deleteService">> \o r
             \/ Head(p) = "wait" /\ (image => stopping) /\ Tail(p) = <<"deleteService">> \o r
             \/ Head(p) = "deleteService" /\ ~image /\ ~stopping /\ Tail(p) = r
  <2>1. r \in Rests
      BY DEF Rests
  <2>2. /\ Head(<<"stop", "deleteService">> \o r) = "stop"
        /\ Tail(<<"stop", "deleteService">> \o r) = <<"deleteService">> \o r
        /\ Head(<<"wait", "deleteService">> \o r) = "wait"
        /\ Tail(<<"wait", "deleteService">> \o r) = <<"deleteService">> \o r
        /\ Head(<<"deleteService">> \o r) = "deleteService"
        /\ Tail(<<"deleteService">> \o r) = r
      BY <2>1, AfterDelete, Zenon
  <2> QED  BY <1>5, <2>2, Zenon
<1>6. CASE p = Install /\ ~image /\ ~stopping /\ service = "none"
    BY <1>6, Installs
<1>7. CASE /\ p \in {<<"setup", "startService", "reopen">>, <<"startService", "reopen">>}
           /\ ~image /\ ~stopping /\ service = "there"
  <2>1. /\ Head(<<"setup", "startService", "reopen">>) = "setup"
        /\ Head(<<"startService", "reopen">>) = "startService"
      OBVIOUS
  <2> QED  BY <1>7, <2>1
<1>8. CASE p = <<"reopen">> /\ image /\ ~stopping /\ service = "there"
  <2>1. Head(<<"reopen">>) = "reopen"
      OBVIOUS
  <2> QED  BY <1>8, <2>1
<1>9. CASE \E r \in Leaving : p \in {<<"closed">> \o r, <<"close", "closed">> \o r} /\ MayLeave(r)
    BY <1>3, <1>9
<1>10. CASE \E r \in {<<"TRUE">>, Install} :
             /\ service = "there"
             /\ \/ p = <<"stop", "deleteService">> \o r /\ ~stopping
                \/ p = <<"wait", "deleteService">> \o r /\ (image => stopping)
                \/ p = <<"deleteService">> \o r /\ ~image /\ ~stopping
    BY <1>5, <1>10
<1> QED  BY <1>1, <1>2, <1>4, <1>6, <1>7, <1>8, <1>9, <1>10 DEF LoneAt

\* Only the client that makes a step can have been undisturbed by it.
LEMMA LoneStays ==
    ASSUME LoneInv, NEW c \in Clients, Loading(c) \/ MvLoad(c) \/ MvUnload(c) \/ Exit(c)
    PROVE  lone' = Null \/ (lone' = c /\ (lone = c \/ ((MvLoad(c) \/ MvUnload(c)) /\ Undisturbed(c))))
<1>1. CASE OnDriverCreate(c) \/ OnDriverCleanup(c) \/ OnDriverClose(c) \/ OpenDevice(c) \/ ReopenDevice(c)
    BY <1>1 DEF OnDriverCreate, OnDriverCleanup, OnDriverClose, OpenDevice, ReopenDevice, Open, OpenFails,
                Disturb, Fail
<1>2. CASE HandlesCount(c) \/ LastHandle(c) \/ OpenService(c) \/ StopService(c) \/ Wait(c)
    BY <1>2 DEF HandlesCount, LastHandle, OpenService, StopService, Wait, Disturb, Fail
<1>3. CASE DeleteService(c) \/ CreateService(c) \/ SetupFilterInstance(c) \/ StartService(c) \/ Return(c)
    BY <1>3 DEF DeleteService, CreateService, SetupFilterInstance, StartService, Return, Disturb, Fail
<1>4. CASE MvLoad(c) \/ MvUnload(c) \/ Exit(c)
    BY <1>4 DEF MvLoad, MvUnload, Call, Exit, Fail
<1> QED  BY <1>1, <1>2, <1>3, <1>4 DEF Loading

\* The step of an undisturbed call takes it to its next place.
LEMMA LoneProceeds ==
    ASSUME PlanInv, ImageInv, CountInv, ServiceInv, NEW c \in Clients, Loading(c),
           \A d \in Clients \ {c} : todo[d] = << >> /\ files[d] = "none",
           LoneAt(todo[c]), lone' = c, NEW p, p = todo'[c]
    PROVE  LoneAt(p)'
<1>0. /\ DOMAIN todo = Clients /\ c # Null
      /\ files \in [Clients -> {"none", "creating", "open", "closing"}]
    BY DriverAssumption DEF PlanInv
<1>1. todo[c] # << >>
    BY DEF Loading, OnDriverCreate, OnDriverCleanup, OnDriverClose, OpenDevice, ReopenDevice, HandlesCount,
           LastHandle, OpenService, StopService, Wait, DeleteService, CreateService, SetupFilterInstance,
           StartService, Return, At
<1>2. Becomes(c, p)
    BY <1>0, PlanBecomes DEF Becomes
<1>3. \A q : Becomes(c, q) => p = q
    BY <1>0 DEF Becomes
<1>4. CASE OnDriverCreate(c)
  <2>1. Head(todo[c]) = "create" /\ UNCHANGED <<stopping, service>>
      BY <1>4 DEF OnDriverCreate, At, scm
  <2>2. ~stopping /\ service # "marked"
      BY <1>1, <2>1, LoneBegins
  <2> QED  BY <1>3, <1>4, <2>1, <2>2, CreateStep DEF LoneAt
<1>5. CASE OnDriverCleanup(c)
  <2>1. Head(todo[c]) = "close" /\ UNCHANGED <<stopping, service>> /\ Becomes(c, Tail(todo[c]))
      BY <1>5 DEF OnDriverCleanup, At, scm, Done, Do, Becomes
  <2>2. PICK r \in Leaving : Tail(todo[c]) = <<"closed">> \o r /\ MayLeave(r)
      BY <1>1, <2>1, LoneBegins
  <2>3. MayLeave(r)'
      BY <2>1, <2>2 DEF MayLeave
  <2> QED  BY <1>3, <2>1, <2>2, <2>3 DEF LoneAt
<1>6. CASE OnDriverClose(c)
  <2>1. Head(todo[c]) = "closed" /\ UNCHANGED <<stopping, service>> /\ Becomes(c, Tail(todo[c]))
      BY <1>6 DEF OnDriverClose, At, scm, Done, Do, Becomes
  <2>2. MayLeave(Tail(todo[c]))
      BY <1>1, <2>1, LoneBegins
  <2>4. p = <<"TRUE">> \/ p \in Asking
      BY <1>3, <2>1, <2>2 DEF MayLeave, Asking, Rests
  <2>5. MayLeave(p)'
      BY <1>3, <2>1, <2>2 DEF MayLeave
  <2> QED  BY <2>4, <2>5 DEF LoneAt
<1>7. CASE OpenDevice(c)
  <2>1. Head(todo[c]) = "open" /\ UNCHANGED <<stopping, service>>
      BY <1>7 DEF OpenDevice, At, scm, system
  <2>2. ~stopping /\ service # "marked"
      BY <1>1, <2>1, LoneBegins
  <2>3. CASE Becomes(c, <<"create">> \o (<<"count">> \o Install))
      BY <1>3, <2>1, <2>2, <2>3 DEF LoneAt, Creating
  <2>4. CASE Becomes(c, DeleteDriver \o Install)
    <3>1. p = DeleteDriver \o Install
        BY <1>3, <2>4
    <3>2. p \in Asking
        BY <3>1 DEF Asking, Rests
    <3>3. MayLeave(p)'
        BY <2>1, <2>2, <3>1 DEF MayLeave
    <3> QED  BY <3>2, <3>3 DEF LoneAt
  <2> QED  BY <1>7, <2>3, <2>4, OpenStep
<1>8. CASE ReopenDevice(c)
  <2>1. Head(todo[c]) = "reopen" /\ UNCHANGED <<stopping, service>>
      BY <1>8 DEF ReopenDevice, At, scm, system
  <2>2. image /\ ~stopping /\ service = "there"
      BY <1>1, <2>1, LoneBegins
  <2>3. CanOpen
      BY <2>2 DEF CanOpen, ImageInv
  <2>4. Becomes(c, <<"create">> \o <<"TRUE">>)
      BY <1>0, <1>8, <2>3, ReopenStep
  <2> QED  BY <1>3, <2>1, <2>2, <2>4 DEF LoneAt, Creating
<1>9. CASE HandlesCount(c) \/ LastHandle(c)
  <2>1. Head(todo[c]) \in {"count", "last"} /\ UNCHANGED <<stopping, service>>
      BY <1>9 DEF HandlesCount, LastHandle, At, scm, system
  <2>2. ~stopping /\ service # "marked"
      BY <1>1, <2>1, LoneBegins
  <2>3. files[c] = "open"
      BY <1>9, CountStep, LastStep DEF Inner
  <2>4. Counted = {c}
      BY <2>3 DEF Counted
  <2>5. handles = 1
      BY <2>4, FS_Singleton DEF CountInv
  <2>6. service = "there"
    <3>1. image
        BY <2>3 DEF ImageInv, Refs
    <3> QED  BY <2>2, <3>1 DEF ServiceInv
  <2>7. PICK r \in {Install, <<"TRUE">>} : Becomes(c, <<"close", "closed">> \o (DeleteDriver \o r))
      BY <1>0, <1>9, <2>5, CountStep, LastStep
  <2>8. DeleteDriver \o r \in Leaving
      BY DEF Leaving, Asking, Rests
  <2>9. MayLeave(DeleteDriver \o r)'
      BY <2>1, <2>2, <2>6 DEF MayLeave
  <2> QED  BY <1>3, <2>7, <2>8, <2>9 DEF LoneAt
<1>10. CASE OpenService(c)
  <2>1. Head(todo[c]) = "openService" /\ UNCHANGED <<stopping, service, image>>
      BY <1>10 DEF OpenService, At, entry, system
  <2>2. MayLeave(todo[c])
      BY <1>1, <2>1, LoneBegins
  <2>3. PICK r \in Rests :
           /\ todo[c] = DeleteDriver \o r
           /\ \/ service # "none" /\ Becomes(c, <<"stop", "deleteService">> \o r)
              \/ Becomes(c, Failing(r)) /\ service = "none"
      BY <1>0, <1>10, AskStep
  <2>4. r \in {<<"TRUE">>, Install} /\ (r = <<"TRUE">> => service = "there")
    <3>1. r = SubSeq(todo[c], 4, Len(todo[c]))
        BY <2>3, AfterDelete
    <3>2. Install \in Rests /\ <<"TRUE">> \in Rests
        BY DEF Rests
    <3>3. Install = SubSeq(DeleteDriver \o Install, 4, Len(DeleteDriver \o Install))
        BY <3>2, AfterDelete
    <3>4. <<"TRUE">> = SubSeq(DeleteDriver \o <<"TRUE">>, 4, Len(DeleteDriver \o <<"TRUE">>))
        BY <3>2, AfterDelete
    <3>5. todo[c] # <<"TRUE">>
      <4>1. Head(<<"TRUE">>) = "TRUE"
          OBVIOUS
      <4> QED  BY <2>1, <4>1
    <3>6. \/ todo[c] = DeleteDriver \o Install
          \/ todo[c] = DeleteDriver \o <<"TRUE">> /\ service = "there"
        BY <2>2, <3>5 DEF MayLeave
    <3>7. Install # <<"TRUE">>
        BY Installs, Head(<<"TRUE">>) = "TRUE"
    <3>8. CASE todo[c] = DeleteDriver \o Install
        BY <3>1, <3>3, <3>7, <3>8
    <3>9. CASE todo[c] = DeleteDriver \o <<"TRUE">> /\ service = "there"
        BY <3>1, <3>4, <3>9
    <3> QED  BY <3>6, <3>8, <3>9
  <2>5. ~stopping /\ service # "marked"
      BY <2>2 DEF MayLeave
  <2>6. CASE service # "none" /\ Becomes(c, <<"stop", "deleteService">> \o r)
    <3>1. service = "there"
        BY <2>5, <2>6 DEF ServiceInv
    <3> QED  BY <1>3, <2>1, <2>4, <2>5, <2>6, <3>1 DEF LoneAt
  <2>7. CASE Becomes(c, Failing(r)) /\ service = "none"
    <3>1. r = Install /\ ~image
        BY <2>4, <2>7 DEF ServiceInv
    <3>2. Install # <<"TRUE">>
        BY Installs, Head(<<"TRUE">>) = "TRUE"
    <3>3. p = Install
        BY <1>3, <2>7, <3>1, <3>2 DEF Failing
    <3> QED  BY <2>1, <2>5, <2>7, <3>1, <3>3 DEF LoneAt
  <2> QED  BY <2>3, <2>6, <2>7
<1>11. CASE StopService(c)
  <2>1. Head(todo[c]) = "stop" /\ UNCHANGED <<service, image>>
      BY <1>11 DEF StopService, At, scm, entry
  <2>2. service = "there" /\ ~stopping
      BY <1>1, <2>1, LoneBegins
  <2>3. PICK r \in Rests :
           /\ todo[c] = <<"stop", "deleteService">> \o r
           /\ \/ /\ image /\ ~stopping /\ stopping' = TRUE /\ Refs = {}
                 /\ Becomes(c, <<"wait", "deleteService">> \o r)
              \/ image /\ Refs # {}
              \/ /\ ~(image /\ ~stopping) /\ stopping' = stopping
                 /\ Becomes(c, <<"deleteService">> \o r)
      BY <1>11, StopStep
  <2>4. Refs = {}
      BY <1>11, StopStep DEF Outer, Refs
  <2>5. r \in {<<"TRUE">>, Install}
    <3>1. PICK q \in {<<"TRUE">>, Install} : Tail(todo[c]) = <<"deleteService">> \o q
        BY <1>1, <2>1, LoneBegins
    <3>2. Tail(todo[c]) = <<"deleteService">> \o r
        BY <2>3, AfterDelete
    <3>3. q \in Rests
        BY DEF Rests
    <3>4. Tail(<<"deleteService">> \o q) = q /\ Tail(<<"deleteService">> \o r) = r
        BY <3>3, AfterDelete
    <3> QED  BY <3>1, <3>2, <3>4
  <2>6. CASE stopping' = TRUE /\ Becomes(c, <<"wait", "deleteService">> \o r)
      BY <1>3, <2>1, <2>2, <2>5, <2>6 DEF LoneAt
  <2>7. CASE ~image /\ stopping' = stopping /\ Becomes(c, <<"deleteService">> \o r)
      BY <1>3, <2>1, <2>2, <2>5, <2>7 DEF LoneAt
  <2> QED  BY <2>2, <2>3, <2>4, <2>6, <2>7
<1>12. CASE Wait(c)
  <2>1. /\ Head(todo[c]) = "wait" /\ UNCHANGED <<service, image, stopping>> /\ ~stopping
        /\ Becomes(c, Tail(todo[c]))
      BY <1>12 DEF Wait, At, scm, entry, system, Done, Do, Becomes
  <2>2. PICK r \in {<<"TRUE">>, Install} :
           service = "there" /\ (image => stopping) /\ Tail(todo[c]) = <<"deleteService">> \o r
      BY <1>1, <2>1, LoneBegins
  <2> QED  BY <1>3, <2>1, <2>2 DEF LoneAt
<1>13. CASE DeleteService(c)
  <2>1. Head(todo[c]) = "deleteService" /\ UNCHANGED <<image, stopping>> /\ svcOpen' = svcOpen \ {c}
      BY <1>13 DEF DeleteService, At, entry, system
  <2>2. service = "there" /\ ~image /\ ~stopping /\ Tail(todo[c]) \in {<<"TRUE">>, Install}
      BY <1>1, <2>1, LoneBegins
  <2>3. Becomes(c, Tail(todo[c]))
      BY <1>13, <2>2 DEF DeleteService, Done, Do, Becomes
  <2>4. svcOpen' = {}
      BY <2>1, HoldingBegins DEF ServiceInv
  <2>5. service' = "none"
      BY <1>13, <2>2, <2>4 DEF DeleteService, Settled
  <2> QED  BY <1>3, <2>1, <2>2, <2>3, <2>5 DEF LoneAt
<1>14. CASE CreateService(c)
  <2>1. Head(todo[c]) = "createService" /\ UNCHANGED <<image, stopping>>
      BY <1>14 DEF CreateService, At, entry, system
  <2>2. ~image /\ ~stopping /\ service = "none"
      BY <1>1, <2>1, LoneBegins
  <2> QED  BY <1>0, <1>3, <1>14, <2>1, <2>2, InstallStep DEF LoneAt
<1>15. CASE SetupFilterInstance(c)
  <2>1. Head(todo[c]) = "setup" /\ UNCHANGED <<image, stopping>>
      BY <1>15 DEF SetupFilterInstance, At, entry, system
  <2>2. ~image /\ ~stopping /\ service = "there"
      BY <1>1, <2>1, LoneBegins
  <2> QED  BY <1>0, <1>3, <1>15, <2>1, <2>2, SetupStep DEF LoneAt
<1>16. CASE StartService(c)
  <2>1. Head(todo[c]) = "startService" /\ UNCHANGED stopping
      BY <1>16 DEF StartService, At
  <2>2. ~image /\ ~stopping /\ service = "there"
      BY <1>1, <2>1, LoneBegins
  <2>3. PICK outcome \in EntryOutcomes :
           DriverEntry(outcome) /\ outcome[1] /\ Becomes(c, <<"reopen">>)
      BY <1>0, <1>16, <2>2, StartStep
  <2>4. image' = TRUE
    <3>1. image' \in BOOLEAN
        BY <2>3, EntryLeaves
    <3>2. image' = outcome[1]
        BY <2>3 DEF DriverEntry
    <3> QED  BY <2>3, <3>1, <3>2
  <2>5. service' = "there"
      BY <1>16, <2>2, <2>4 DEF StartService, Settled
  <2> QED  BY <1>3, <2>1, <2>2, <2>3, <2>4, <2>5 DEF LoneAt
<1>17. CASE Return(c)
    BY <1>0, <1>17 DEF Return, Fail
<1> QED  BY <1>4, <1>5, <1>6, <1>7, <1>8, <1>9, <1>10, <1>11, <1>12, <1>13, <1>14, <1>15, <1>16, <1>17 DEF Loading

LEMMA LoneKept ==
    ASSUME PlanInv, ImageInv, OperationInv, CountInv, ServiceInv, LoneInv, [Next]_vars
    PROVE  LoneInv'
<1>0. Null \notin Clients
    BY DriverAssumption
<1>1. ASSUME NEW c \in Clients, Loading(c) \/ MvLoad(c) \/ MvUnload(c) \/ Exit(c)
      PROVE  LoneInv'
  <2>1. CASE lone' = Null
      BY <1>0, <2>1 DEF LoneInv
  <2>2. CASE lone' = c
    <3> DEFINE p == todo'[c]
    <3>1. \A d \in Clients \ {c} : todo[d] = << >> /\ files[d] = "none"
        BY <1>0, <1>1, <2>2, LoneStays DEF LoneInv, Undisturbed
    <3>2. \A d \in Clients \ {c} : todo'[d] = << >> /\ files'[d] = "none"
        BY <1>1, <3>1, PlansOfOthers
    <3>3. LoneAt(todo[c])'
      <4> SUFFICES ASSUME NEW q, q = todo'[c] PROVE LoneAt(q)'
          OBVIOUS
      <4>1. CASE Loading(c)
        <5>1. todo[c] # << >>
            BY <4>1 DEF Loading, OnDriverCreate, OnDriverCleanup, OnDriverClose, OpenDevice, ReopenDevice,
               HandlesCount, LastHandle, OpenService, StopService, Wait, DeleteService, CreateService,
               SetupFilterInstance, StartService, Return, At
        <5>2. lone = c
            BY <1>0, <1>1, <2>2, <5>1, LoneStays DEF MvLoad, MvUnload, Call
        <5> QED  BY <2>2, <3>1, <4>1, <5>2, LoneProceeds DEF LoneInv
      <4>2. CASE MvLoad(c) \/ MvUnload(c)
        <5>1. todo[c] = << >> /\ UNCHANGED <<stopping, service>> /\ DOMAIN todo = Clients
            BY <4>2 DEF MvLoad, MvUnload, Call, system, scm, PlanInv
        <5>2. ~stopping /\ service # "marked"
            BY <1>0, <2>2, <4>2 DEF MvLoad, MvUnload, Call, Undisturbed
        <5>3. q \in {<<"TRUE">>, <<"open">> \o Install, <<"last">>}
            BY <4>2, <5>1, LoadStep, UnloadStep DEF Becomes
        <5> QED  BY <5>1, <5>2, <5>3 DEF LoneAt
      <4>3. CASE Exit(c)
          BY <1>0, <2>2, <4>3 DEF Exit, Fail
      <4> QED  BY <1>1, <4>1, <4>2, <4>3
    <3> QED  BY <2>2, <3>2, <3>3 DEF LoneInv
  <2> QED  BY <1>1, <2>1, <2>2, LoneStays
<1>2. CASE UNCHANGED <<todo, files, image, stopping, service, lone>>
  <2>0. image' = image /\ stopping' = stopping /\ service' = service
      BY <1>2
  <2>1. ASSUME NEW q, LoneAt(q) PROVE LoneAt(q)'
      BY <2>0, <2>1 DEF LoneAt, MayLeave
  <2>2. LoneInv
      BY <1>0
  <2> HIDE DEF LoneAt
  <2> QED  BY <1>2, <2>1, <2>2 DEF LoneInv
<1>3. ASSUME NEW c \in Clients, Serving(c)
      PROVE  LoneInv'
  <2>1. CASE lone' = Null
      BY <1>0, <2>1 DEF LoneInv
  <2>2. CASE lone' = lone /\ todo[c] = <<"operation">>
    <3>1. <<"operation">> # << >> /\ Head(<<"operation">>) = "operation"
        OBVIOUS
    <3>2. \A d \in Clients : lone # d
        BY <2>2, <3>1, LoneBegins DEF LoneInv
    <3> QED  BY <2>2, <3>2 DEF LoneInv
  <2> QED  BY <1>3, <2>1, <2>2, ServingStep
<1>7. CASE Operation(Power) \/ Operation(Unloader)
  <2>1. {Power, Unloader} \subseteq Actors \ Clients
      BY DriverAssumption DEF Actors
  <2> QED  BY <1>2, <1>7, <2>1, OperationStep
<1>4. CASE DeleteDevice
  <2>1. /\ stopping /\ stopping' = FALSE /\ image' = FALSE
        /\ service' = Settled(service, svcOpen, FALSE)
        /\ UNCHANGED <<todo, files, lone>>
      BY <1>4, OtherSteps DEF DeleteDevice, ImageInv
  <2>2. service = "there" => service' = "there"
      BY <2>1 DEF Settled
  <2>3. ASSUME NEW p, LoneAt(p) PROVE LoneAt(p)'
      BY <2>1, <2>2, <2>3 DEF LoneAt, MayLeave
  <2> QED  BY <2>1, <2>3 DEF LoneInv
<1>5. CASE OnDriverUnload \/ CrtDeinit \/ UnregisterCallback \/ DeleteSymbolicLink
    BY <1>2, <1>5 DEF OnDriverUnload, CrtDeinit, UnregisterCallback, DeleteSymbolicLink, Unregister, entry, scm
<1>6. CASE PowerCallback \/ Callback
    BY <1>2, <1>6, <1>7 DEF PowerCallback, Callback, OnSystemSleep, OnSystemWake, entry, scm
<1>8. CASE UNCHANGED vars
    BY <1>2, <1>8 DEF vars, entry, scm
<1> QED  BY <1>1, <1>3, <1>4, <1>5, <1>6, <1>7, <1>8, AnyStep DEF Unloading
-----------------------------------------------------------------------------
(***************************************************************************)
(* The invariant, and what follows from it.                                *)
(***************************************************************************)
LEMMA InitiallyInv ==
    ASSUME Init
    PROVE  DriverInv
<1>1. Null \notin Clients /\ Objects \in Nat /\ ExitSlots \in Nat
    BY DriverAssumption
<1>2. PlanInv
    BY DEF Init, PlanInv, Fits, Outside
<1>3. ImageInv
    BY DEF Init, ImageInv, Refs, Registered
<1>9. OperationInv
  <2>1. \A a \in Actors : op[a] = "none"
      BY DEF Init
  <2>2. Power \in Actors /\ Unloader \in Actors /\ Clients \subseteq Actors
      BY DEF Actors
  <2> QED  BY <2>1, <2>2 DEF Init, OperationInv
<1>4. ExitInv
    BY <1>1 DEF Init, ExitInv
<1>5. CountInv
  <2>1. Counted = {}
      BY DEF Init, Counted
  <2> QED  BY <2>1, FS_EmptySet DEF Init, CountInv
<1>6. NewcomersInv
    BY OthersReturn DEF Init, NewcomersInv
<1>7. ServiceInv
    BY DEF Init, ServiceInv
<1>8. LoneInv
    BY <1>1 DEF Init, LoneInv
<1> QED  BY <1>2, <1>3, <1>4, <1>5, <1>6, <1>7, <1>8, <1>9 DEF DriverInv

\* The plans fit the files, nothing outlives the image, the flag has the guests
\* unless operations have raced, the table of exit functions, the count of
\* handles, the newcomers and the record of the service are what the calls in
\* progress make of them: each part is kept by every step, from the parts
\* named in its lemma.
THEOREM DriverInvariance == Spec => []DriverInv
<1>1. Init => DriverInv
    BY InitiallyInv
<1>2. DriverInv /\ [Next]_vars => DriverInv'
    BY PlanKept, ImageKept, OperationKept, ExitKept, CountKept, NewcomersKept, ServiceKept, LoneKept DEF DriverInv
<1> QED  BY <1>1, <1>2, PTL DEF Spec

\* Once the image has gone there is no device, link, callback or file left to
\* call it, also when DriverEntry has failed half-way, and no power callback
\* runs in it; from the destruction of the first global object on no request
\* works on the hypervisor.  Guests still exit to it, or a power callback still
\* works with it, only if an enable has met another operation or the callback
\* has met DriverUnload, and nothing has made that good: then g_IsVirtualized
\* may be unset over running guests, and Devirtualize does nothing.
THEOREM NothingOutlivesTheImage == Spec => []CodeOutlivesItsCallers
<1>1. ASSUME DriverInv, ~image \/ alive # Global
      PROVE  /\ \A c \in Clients : op[c] = "none"
             /\ guests \/ op[Power] # "none" => raced
  <2>1. PlanInv /\ ImageInv /\ OperationInv /\ ExitInv /\ Power \in Actors /\ Clients \subseteq Actors
      BY <1>1 DEF DriverInv, Actors
  <2>2. ~image \/ unload # "idle"
      BY <1>1, <2>1 DEF ExitInv
  <2>3. \A c \in Clients : op[c] = "none"
      BY <2>1, <2>2, WorkersHaveTheImage
  <2>4. op[Power] # "none" => image
      BY <2>1, WorkersHaveTheImage
  <2> QED  BY <2>1, <2>2, <2>3, <2>4 DEF OperationInv
<1>2. DriverInv => CodeOutlivesItsCallers
    BY <1>1 DEF DriverInv, ImageInv, CodeOutlivesItsCallers
<1> QED  BY <1>2, DriverInvariance, PTL

\* A client with a handle that is between two calls has an open file, the
\* image is in memory with its device, and DriverUnload has not begun: the
\* I/O manager keeps a stopped driver for those who still have it open, and
\* the client's loader forgets its handle in the call that closes the file.
THEOREM HandlesStayUsable == Spec => []HandleIsUsable
<1>1. ASSUME DriverInv, NEW c \in Clients, hDriver[c], todo[c] = << >>
      PROVE  files[c] = "open" /\ image /\ "device" \in registered /\ unload = "idle"
  <2>1. \A r \in Leaving : << >> # <<"closed">> \o r
      BY AfterClose
  <2>2. files[c] = "open"
      BY <1>1, <2>1 DEF DriverInv, PlanInv, Fits, Closing
  <2>3. Refs # {}
      BY <2>2 DEF Refs
  <2> QED  BY <1>1, <2>2, <2>3 DEF DriverInv, ImageInv
<1>2. DriverInv => HandleIsUsable
    BY <1>1 DEF HandleIsUsable
<1> QED  BY <1>2, DriverInvariance, PTL

\* __crt_deinit takes the table of exit functions from its end: no object
\* that has an entry dies before one constructed after it, and all of them
\* have died when DriverUnload goes on to unregister the callback.
THEOREM ObjectsDieInReverse == Spec => []DestroyedInReverse
<1>1. ASSUME DriverInv
      PROVE  \A i, j \in Global : i < j /\ j <= ExitSlots /\ j \in alive => i \in alive
  <2>1. Len(exits) \in Nat /\ Global \subseteq Nat /\ ExitSlots \in Nat
      BY <1>1, DriverAssumption, LenProperties DEF DriverInv, ExitInv, Global
  <2>2. alive = IF image THEN {i \in Global : i <= Len(exits) \/ i > ExitSlots} ELSE {}
      BY <1>1 DEF DriverInv, ExitInv
  <2> QED  BY <2>1, <2>2
<1>2. ASSUME DriverInv, unload \in {"callback", "drain", "device"}
      PROVE  \A i \in alive : i > ExitSlots
  <2>1. exits = << >> /\ alive \subseteq {i \in Global : i <= Len(exits) \/ i > ExitSlots}
      BY <1>2 DEF DriverInv, ExitInv
  <2>2. Len(exits) = 0
      BY <2>1
  <2> QED  BY <2>1, <2>2 DEF Global
<1>3. DriverInv => DestroyedInReverse
    BY <1>1, <1>2 DEF DestroyedInReverse
<1> QED  BY <1>3, DriverInvariance, PTL

\* A call of the loader that no other client disturbs and in which nothing
\* fails never comes to return FALSE, whatever record of the service, stopped
\* driver or half-made entry ended processes have left behind.
THEOREM LoneCallsReturnTrue == Spec => []LoneCallsSucceed
<1>1. ASSUME DriverInv, NEW c \in Clients, lone = c
      PROVE  todo[c] # <<"FALSE">>
  <2>1. LoneAt(todo[c])
      BY <1>1 DEF DriverInv, LoneInv
  <2>2. <<"FALSE">> # << >> /\ Head(<<"FALSE">>) = "FALSE"
      OBVIOUS
  <2> QED  BY <2>1, <2>2, LoneBegins
<1>2. DriverInv => LoneCallsSucceed
    BY <1>1 DEF LoneCallsSucceed
<1> QED  BY <1>2, DriverInvariance, PTL

\* Only a client's call stops the driver, and that one has asked how many
\* handles there are, or tried to open the device, before: whoever has the
\* device open now has come after that, or the question itself has failed.
THEOREM LateComersAreStopped == Spec => OnlyNewcomersAreStopped
<1>1. ASSUME DriverInv, [Next]_vars, ~stopping, stopping'
      PROVE  \E c \in Clients :
                 At(c, "stop") /\ \A d \in Clients : files[d] \in {"open", "closing"} => d \in newcomers[c]
  <2>1. \/ ~stopping'
        \/ UNCHANGED stopping
        \/ \E c \in Clients : Loading(c) \/ MvLoad(c) \/ MvUnload(c) \/ Exit(c)
    <3>1. ASSUME NEW c \in Clients, Serving(c) PROVE UNCHANGED stopping
        BY <1>1, <3>1, ServingStep DEF DriverInv
    <3>2. ASSUME Operation(Power) \/ Operation(Unloader) PROVE UNCHANGED stopping
        BY <3>2, OperationStep DEF Actors
    <3> QED  BY <1>1, <3>1, <3>2, AnyStep
             DEF vars, Unloading, Callback, OnDriverUnload, CrtDeinit, UnregisterCallback,
                 DeleteSymbolicLink, Unregister, DeleteDevice, PowerCallback, OnSystemSleep, OnSystemWake
  <2>2. PICK c \in Clients : Loading(c) \/ MvLoad(c) \/ MvUnload(c) \/ Exit(c)
      BY <1>1, <2>1
  <2>3. PlanInv
      BY <1>1 DEF DriverInv
  <2>4. StopService(c)
      BY <1>1, <2>2, <2>3, ClientSteps
  <2>5. files[c] = "none" /\ todo[c] \in WillStop
      BY <2>3, <2>4, StopStep DEF Outer, Stopping, WillStop
  <2>6. \A d \in Counted \ {c} : d \in newcomers[c]
      BY <1>1, <2>5 DEF DriverInv, NewcomersInv
  <2>7. At(c, "stop")
      BY <2>4 DEF StopService
  <2> QED  BY <2>5, <2>6, <2>7 DEF Counted
<1>2. DriverInv /\ [Next]_vars =>
         [~stopping /\ stopping' =>
             \E c \in Clients :
                 /\ At(c, "stop")
                 /\ \A d \in Clients : files[d] \in {"open", "closing"} => d \in newcomers[c]]_vars
    BY <1>1
<1> QED  BY <1>2, DriverInvariance, PTL DEF Spec, OnlyNewcomersAreStopped
-----------------------------------------------------------------------------
(***************************************************************************)
(* Types: what bounds a call's length is that a client makes one at a time.*)
(***************************************************************************)
Size(p) == Len(p)   \* a name for the provers, which then know of numbers only

LEMMA KnownSizes ==
    /\ Size(<< >>) = 0 /\ Size(DeleteDriver) = 3 /\ Size(Install) = 3
    /\ \A a \in Steps : Size(<<a>>) = 1
    /\ Size(<<"close", "closed">>) = 2 /\ Size(<<"startService", "reopen">>) = 2
    /\ Size(<<"setup", "startService", "reopen">>) = 3
BY DEF Size, DeleteDriver, Install

LEMMA SizesAdd ==
    ASSUME NEW r \in Seq(Steps)
    PROVE  /\ Size(DeleteDriver \o r) = 3 + Size(r)
           /\ \A a \in Steps : Size(<<a>> \o r) = 1 + Size(r)
           /\ \A a, b \in Steps : Size(<<a, b>> \o r) = 2 + Size(r)
<1>1. \A s \in Seq(Steps) : Len(s \o r) = Len(s) + Len(r)
    BY ConcatProperties
<1>2. DeleteDriver \in Seq(Steps) /\ Len(DeleteDriver) = 3
    BY DEF DeleteDriver, Steps
<1>3. ASSUME NEW a \in Steps
      PROVE  Size(<<a>> \o r) = 1 + Size(r)
  <2>1. <<a>> \in Seq(Steps) /\ Len(<<a>>) = 1
      OBVIOUS
  <2>2. Len(<<a>> \o r) = Len(<<a>>) + Len(r)
      BY <1>1, <2>1
  <2> QED  BY <2>1, <2>2, Zenon DEF Size
<1>4. ASSUME NEW a \in Steps, NEW b \in Steps
      PROVE  Size(<<a, b>> \o r) = 2 + Size(r)
  <2>1. <<a, b>> \in Seq(Steps) /\ Len(<<a, b>>) = 2
      OBVIOUS
  <2>2. Len(<<a, b>> \o r) = Len(<<a, b>>) + Len(r)
      BY <1>1, <2>1
  <2> QED  BY <2>1, <2>2, Zenon DEF Size
<1>5. Size(DeleteDriver \o r) = 3 + Size(r)
    BY <1>1, <1>2, Zenon DEF Size
<1> QED  BY <1>3, <1>4, <1>5

LEMMA PlansAreShort ==
    ASSUME NEW p \in Outside \union Creating \union Inside \union Closing
                         \union {<<"close", "closed">>, <<"closed">>}
    PROVE  Len(p) <= 10
<1>1. {"TRUE", "FALSE", "open", "create", "count", "last", "close", "closed", "stop", "wait",
       "deleteService", "reopen", "operation"} \subseteq Steps
    BY DEF Steps
<1>2. /\ Size(<<"TRUE">>) = 1 /\ Size(<<"FALSE">>) = 1 /\ Size(<<"last">>) = 1
      /\ Size(<<"reopen">>) = 1 /\ Size(<<"closed">>) = 1 /\ Size(<<"operation">>) = 1
    BY <1>1, KnownSizes
<1>3. \A r \in Rests : r \in Seq(Steps) /\ Size(r) \in 0..3
  <2> TAKE r \in Rests
  <2>1. Size(r) = 1 \/ Size(r) = 3
      BY <1>2, KnownSizes DEF Rests
  <2> QED  BY <2>1, RestsAreSteps
<1>4. \A r \in Asking : Size(r) \in 0..6
  <2>1. \A r \in Rests : Size(DeleteDriver \o r) \in 0..6
      BY <1>3, SizesAdd
  <2> QED  BY <2>1 DEF Asking
<1>5. \A r \in Leaving : r \in Seq(Steps) /\ Size(r) \in 0..6
  <2> TAKE r \in Leaving
  <2>1. r \in Asking \/ r \in {<<"TRUE">>, <<"FALSE">>}
      BY DEF Leaving
  <2>2. Size(r) = 1 \/ Size(r) \in 0..6
      BY <1>2, <1>4, <2>1
  <2> QED  BY <2>2, LeavingAreSteps
<1>6. \A r \in Rests \union Leaving, a, b \in Steps :
          Size(<<a, b>> \o r) \in 0..8 /\ Size(<<a>> \o r) \in 0..8
  <2> TAKE r \in Rests \union Leaving, a, b \in Steps
  <2>1. r \in Seq(Steps) /\ Size(r) \in 0..6
      BY <1>3, <1>5
  <2>2. Size(<<a>> \o r) = 1 + Size(r) /\ Size(<<a, b>> \o r) = 2 + Size(r)
      BY <2>1, SizesAdd
  <2> QED  BY <2>1, <2>2
<1>7. Size(p) \in 0..8
  <2>1. CASE p \in Rests \union Asking
      BY <1>3, <1>4, <2>1
  <2>2. CASE p \in Stopping \union Waiting \union Deleting
    <3>1. /\ "stop" \in Steps /\ "wait" \in Steps /\ "deleteService" \in Steps
        BY <1>1
    <3> QED  BY <3>1, <1>6, <2>2, Zenon DEF Stopping, Waiting, Deleting
  <2>3. CASE p \in Closing \union {<<"close", "closed">> \o r : r \in Leaving}
      BY <1>1, <1>6, <2>3 DEF Closing
  <2>4. CASE p \in Creating \union {<<"open">> \o Install, <<"count">> \o Install}
    <3>1. /\ Install \in Seq(Steps) /\ <<"TRUE">> \in Seq(Steps)
          /\ <<"count">> \o Install \in Seq(Steps)
        BY Installs DEF Steps
    <3>0. "open" \in Steps /\ "count" \in Steps /\ "create" \in Steps
        BY <1>1
    <3>2. /\ Size(<<"open">> \o Install) = 4 /\ Size(<<"count">> \o Install) = 4
          /\ Size(<<"create">> \o <<"TRUE">>) = 2
      <4>1. /\ Size(<<"open">> \o Install) = 1 + Size(Install)
            /\ Size(<<"count">> \o Install) = 1 + Size(Install)
            /\ Size(<<"create">> \o <<"TRUE">>) = 1 + Size(<<"TRUE">>)
          BY <3>0, <3>1, SizesAdd, Zenon
      <4>2. /\ Size(<<"open">> \o Install) = 1 + 3 /\ Size(<<"count">> \o Install) = 1 + 3
            /\ Size(<<"create">> \o <<"TRUE">>) = 1 + 1
          BY <1>2, <4>1, KnownSizes, Zenon
      <4> QED  BY <4>2
    <3>3. Size(<<"create">> \o (<<"count">> \o Install)) = 1 + Size(<<"count">> \o Install)
      <4>1. "create" \in Steps
          BY <1>1
      <4> QED  BY <3>1, <4>1, SizesAdd, Zenon
    <3>4. Size(<<"create">> \o (<<"count">> \o Install)) = 1 + 4
        BY <3>2, <3>3, Zenon
    <3>5. Size(p) = 4 \/ Size(p) = 2 \/ Size(p) = 1 + 4
        BY <2>4, <3>2, <3>4, Zenon DEF Creating
    <3> QED  BY <3>5
  <2>5. CASE p \in Installing \union {<< >>, <<"TRUE">>, <<"last">>, <<"closed">>, <<"close", "closed">>,
                                   <<"operation">>}
      BY <1>2, <2>5, KnownSizes DEF Installing
  <2> QED  BY <2>1, <2>2, <2>3, <2>4, <2>5 DEF Outside, Inside
<1>8. Size(p) <= 10
    BY <1>7
<1> QED  BY <1>8, Zenon DEF Size

\* The variables keep their types: among them, the table of exit functions
\* never has more entries than room, and KbHandlesCount, which the dispatch
\* routines of files change, never falls below zero nor counts a client twice.
THEOREM DriverTypes == Spec => []DriverTypeOK
<1>1. ASSUME DriverInv, NEW c \in Clients
      PROVE  Len(todo[c]) <= 10
  <2>1. Fits(todo[c], files[c], hDriver[c])
      BY <1>1 DEF DriverInv, PlanInv
  <2>2. todo[c] \in Outside \union Creating \union Inside \union Closing
                        \union {<<"close", "closed">>, <<"closed">>}
      BY <2>1 DEF Fits
  <2> QED  BY <2>2, PlansAreShort
<1>2. ASSUME DriverInv
      PROVE  handles \in 0..Cardinality(Clients)
    BY <1>2, FiniteCounted DEF DriverInv, CountInv
<1>3. ASSUME DriverInv
      PROVE  alive \subseteq Global /\ exits \in Seq(Global) /\ Len(exits) <= ExitSlots
    BY <1>3 DEF DriverInv, ExitInv
<1>4. ASSUME DriverInv
      PROVE  DriverTypeOK
    BY <1>1, <1>2, <1>3, <1>4 DEF DriverInv, DriverTypeOK, PlanInv, ImageInv, OperationInv, NewcomersInv,
       ServiceInv, LoneInv
<1> QED  BY <1>4, DriverInvariance, PTL
-----------------------------------------------------------------------------
(***************************************************************************)
(* Requests.                                                               *)
(***************************************************************************)

\* A code between the base and the end of the table selects its entry, any
\* other none: a smaller one wraps round to an index behind the table.
LEMMA CodesSelectHandlers ==
    ASSUME NEW code \in Nat
    PROVE  LET low == code % 4096
           IN  HandlerOf(CtlCode(code, MethodNeither)) =
                   IF low \in CtlBase .. CtlBase + Len(Handlers) - 1
                   THEN Handlers[low - CtlBase + 1] ELSE "none"
<1>1. ExtractCtlCode(CtlCode(code, MethodNeither)) = code % 4096
    BY DEF ExtractCtlCode, CtlCode, MethodNeither
<1>2. Len(Handlers) = 11
    BY DEF Handlers
<1>3. code % 4096 \in 0..4095
    OBVIOUS
<1> DEFINE low == code % 4096
<1> HIDE DEF low
<1>4. low \in 0..4095 /\ Index(CtlCode(code, MethodNeither)) = (low + 65536 - 2048) % 65536
    BY <1>1, <1>3 DEF Index, CtlBase, low
<1>5. CASE low >= 2048
  <2>1. Index(CtlCode(code, MethodNeither)) = low - 2048
      BY <1>4, <1>5
  <2> QED  BY <1>2, <1>4, <1>5, <2>1 DEF HandlerOf, CtlBase, low
<1>6. CASE low < 2048
  <2>1. Index(CtlCode(code, MethodNeither)) = low + 63488
      BY <1>4, <1>6
  <2> QED  BY <1>2, <1>4, <1>6, <2>1 DEF HandlerOf, CtlBase, low
<1> QED  BY <1>4, <1>5, <1>6

\* Every wrapper but MvGetEprocess sends the code of the handler of its name,
\* with the sizes that handler asks for.
LEMMA WrappersAreServed ==
    ASSUME NEW w \in DOMAIN Wrappers \ {"MvGetEprocess"}
    PROVE  /\ HandlerOf(IoctlOf(w)) = w
           /\ "LENGTH_MISMATCH" \notin DispatchIOCTL(IoctlOf(w), Wrappers[w].in, Wrappers[w].out)
<1>1. w \in {"MvVmmEnable", "MvVmmDisable", "MvVmmInterceptPage", "MvVmmDeinterceptPage",
             "MvVmmTraceProcess", "MvVmmInitTraceProcess", "MvGetHandlesCount", "MvTranslate",
             "MvNativeTranslate", "MvGetProcessCr3"}
    BY DEF Wrappers
<1>2. Wrappers[w].ctl = w
    BY <1>1 DEF Wrappers, Send
<1>3. CtlIndices[w] \in 0..9 /\ Handlers[CtlIndices[w] + 1] = w
    BY <1>1 DEF CtlIndices, Handlers
<1>4. HandlerOf(IoctlOf(w)) = w
  <2> DEFINE n == CtlIndices[w]
  <2> HIDE DEF n
  <2>1. n \in 0..9 /\ Handlers[n + 1] = w
      BY <1>3 DEF n
  <2>2. (2048 + n) % 4096 = 2048 + n /\ 2048 + n \in Nat
      BY <2>1
  <2>3. Len(Handlers) = 11
      BY DEF Handlers
  <2>4. HandlerOf(CtlCode(CtlBase + n, MethodNeither)) = Handlers[n + 1]
      BY <2>1, <2>2, <2>3, CodesSelectHandlers DEF CtlBase
  <2> QED  BY <1>2, <2>1, <2>4 DEF IoctlOf, n
<1>5. SizesFit(w, Wrappers[w].in, Wrappers[w].out)
    BY <1>1 DEF SizesFit, Sizes, Wrappers, Send
<1>6. "LENGTH_MISMATCH" \notin Results[w] /\ w # "none"
    BY <1>1 DEF Results
<1> QED  BY <1>4, <1>5, <1>6 DEF DispatchIOCTL

\* The wrappers' requests reach the handlers of their names and are not
\* refused for their sizes, but for MvGetEprocess, which sends the code of
\* MvGetProcessCr3; whatever code no wrapper has is answered "not
\* implemented", also one below CTL_BASE, whose index wraps round.
THEOREM RequestsAreDispatched == Spec => []RequestsReachTheirHandlers
<1>1. ASSUME NEW code \in RawCodes
      PROVE  DispatchIOCTL(CtlCode(code, MethodNeither), 0, 0) = {"NOT_IMPLEMENTED"}
  <2>1. HandlerOf(CtlCode(code, MethodNeither)) = "none"
      BY DriverAssumption, CodesSelectHandlers
  <2> QED  BY <2>1 DEF DispatchIOCTL
<1>2. RequestsReachTheirHandlers
    BY <1>1, WrappersAreServed DEF RequestsReachTheirHandlers
<1> QED  BY <1>2, PTL
=============================================================================
