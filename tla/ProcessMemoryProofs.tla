-------------------------- MODULE ProcessMemoryProofs --------------------------
(***************************************************************************)
(* Theorems about ProcessMemory: what OperateProcessMemory holds at each   *)
(* place of its plan, whatever has failed before, and what its views show. *)
(*                                                                         *)
(* MemoryInv has five parts.  PlanInv: the thread is at one of the places  *)
(* defined next, with what is secured and mapped there.  MdlInv: a list    *)
(* with frames has one for each page of its range.  LockInv: the locks are *)
(* those of the two lists.  HomeInv: each of these frames is the home of   *)
(* its page.  MachineInv: the tables, and why the machine has stopped.     *)
(* The last two need the first three, since it is the locks and the        *)
(* secured ranges that bind the memory manager.                            *)
(*                                                                         *)
(* AnswerInv, below, says what each call that answers has found at each    *)
(* place of its plan: what is left of a walk leads from the table it has   *)
(* come to to a translation the address had, because the tables stay in    *)
(* levels and at most one of them changes.                                 *)
(***************************************************************************)
EXTENDS ProcessMemory, FiniteSetTheorems, SequenceTheorems, TLAPS

-----------------------------------------------------------------------------
(***************************************************************************)
(* The places of a call of OperateProcessMemory: its plan from there on.   *)
(***************************************************************************)
After(c, s) ==
    IF s = "process" THEN UnsecureBoth(c)
    ELSE <<<<"unmap", "process">>>> \o (<<<<"unlock", "process">>>> \o
             (<<<<"free", "process">>>> \o UnsecureBoth(c)))
Freeing(c, s) == <<<<"free", s>>>> \o After(c, s)
Unlocking(c, s) == <<<<"unlock", s>>>> \o Freeing(c, s)
Unmapping(c, s) == <<<<"unmap", s>>>> \o Unlocking(c, s)
Copying(c) == <<<<"copy">>>> \o Unmapping(c, "buffer")
Then(c, s) ==
    IF s = "buffer" THEN Copying(c)
    ELSE <<<<"allocate", "buffer">>>> \o (<<<<"lock", "buffer">>>> \o
             (<<<<"map", "buffer">>>> \o Copying(c)))
Mapping(c, s) == <<<<"map", s>>>> \o Then(c, s)
Locking(c, s) == <<<<"lock", s>>>> \o Mapping(c, s)
Allocating(c, s) == <<<<"allocate", s>>>> \o Locking(c, s)
Securing(c, s) == <<<<"secure", s>>>> \o
    IF s = "buffer" THEN Allocating(c, "process")
    ELSE ForUser(c.buffer, <<<<"secure", "buffer">>>>) \o Allocating(c, "process")
SecuringBuffer(c) == ForUser(c.buffer, <<<<"secure", "buffer">>>>) \o Allocating(c, "process")
SecuringBoth(c) == ForUser(c.process, <<<<"secure", "process">>>>) \o SecuringBuffer(c)
CheckingBuffer(c) == ForKernel(c.buffer, Checks("buffer", c.buffer)) \o SecuringBoth(c)

\* The checks of a range of n pages when k of them have been made.
From(s, k, n, rest) == [i \in 1..n - k |-> <<"check", s, i + k>>] \o rest

Users(c) == {s \in Sides : ~IsKernelRange(c[s])}

-----------------------------------------------------------------------------
(***************************************************************************)
(* What is held at each place.                                             *)
(***************************************************************************)
NoMdls == \A s \in Sides : mdl[s] = NoMdl
Seen(s, k) == \A i \in 1..k : call[s][i] \in seen.present
Checked(s) == IsKernelRange(call[s]) => PagesOf(call[s]) \subseteq seen.present
AllChecked == \A s \in Sides : Checked(s)

CheckingAt(s, rest) ==
    /\ secured = {} /\ NoMdls
    /\ \E k \in 0..Len(call[s]) - 1 :
          todo = From(s, k, Len(call[s]), rest) /\ Seen(s, k)

SecuringAt(s) ==
    /\ AllChecked /\ NoMdls
    /\ s \in Users(call) /\ secured = IF s = "process" THEN {} ELSE Users(call) \ {"buffer"}
    /\ todo = Securing(call, s)

\* The other side while one is between its allocation and its release.
Beside(s) ==
    IF s = "process" THEN mdl["buffer"] = NoMdl ELSE mdl["process"].base \in {"mapped", "null"}

MdlAt(s) ==
    /\ AllChecked /\ secured = Users(call) /\ Beside(s)
    /\ \/ todo = Allocating(call, s) /\ mdl[s] = NoMdl
       \/ todo = Locking(call, s) /\ mdl[s].base = "allocated"
       \/ todo = Mapping(call, s) /\ mdl[s].base = "locked"
       \/ todo = Unmapping(call, s) /\ mdl[s].base \in {"mapped", "null"}
       \/ todo = Unlocking(call, s) /\ mdl[s].base = "locked"
       \/ todo = Freeing(call, s) /\ mdl[s].base = "allocated"

CopyingAt ==
    /\ AllChecked /\ secured = Users(call)
    /\ todo = Copying(call) /\ \A s \in Sides : mdl[s].base \in {"mapped", "null"}

UnsecuringAt ==
    /\ NoMdls
    /\ \/ todo = UnsecureBoth(call) /\ secured = Users(call)
       \/ todo = Unsecure("process", call) /\ secured = Users(call) \ {"buffer"}
       \/ todo = Unsecure("buffer", call) /\ secured = Users(call) \ {"process"}

OperateAt ==
    \/ todo = <<>> /\ secured = {} /\ NoMdls
    \/ IsKernelRange(call.process) /\ CheckingAt("process", CheckingBuffer(call))
    \/ /\ IsKernelRange(call.buffer) /\ Checked("process")
       /\ CheckingAt("buffer", SecuringBoth(call))
    \/ \E s \in Sides : SecuringAt(s) \/ MdlAt(s)
    \/ CopyingAt
    \/ UnsecuringAt

\* The other calls: by the system in the space of the caller or the target.
AttachPlans == {<<<<"attach">>, <<"valid">>, <<"get">>, <<"detach">>>>,
                <<<<"attach">>, <<"cr3">>, <<"detach">>>>, <<<<"attach">>, <<"pte">>, <<"detach">>>>}
CallerPlans == {<<>>, <<<<"valid">>, <<"get">>>>, <<<<"get">>>>, <<<<"cr3">>>>, <<<<"pte">>>>,
                <<<<"entry", 4>>, <<"entry", 3>>, <<"entry", 2>>, <<"entry", 1>>>>,
                <<<<"entry", 3>>, <<"entry", 2>>, <<"entry", 1>>>>,
                <<<<"entry", 2>>, <<"entry", 1>>>>, <<<<"entry", 1>>>>}
TargetPlans == {<<<<"valid">>, <<"get">>, <<"detach">>>>, <<<<"get">>, <<"detach">>>>,
                <<<<"cr3">>, <<"detach">>>>, <<<<"pte">>, <<"detach">>>>, <<<<"detach">>>>}
QuickAt ==
    \/ inside = "caller" /\ todo \in CallerPlans
    \/ inside = "caller" /\ call.space = "target" /\ todo \in AttachPlans
    \/ inside = "target" /\ todo \in TargetPlans
    \/ inside = "caller" /\ call.op = "present" /\ CheckingAt("process", <<>>)

CallTyped ==
    /\ call \in [op : Ops, space : Spaces \union {"unknown"}, process : Ranges,
                 buffer : Ranges \union {<<>>}]
    /\ Allowed(call)

PlanInv ==
    \/ call = NoCall /\ todo = <<>> /\ inside = "caller" /\ secured = {} /\ NoMdls
    \/ CallTyped /\ call.op = "operate" /\ inside = "caller" /\ OperateAt
    \/ CallTyped /\ call.op # "operate" /\ secured = {} /\ NoMdls /\ QuickAt

\* The descriptor lists, the locks they stand for, and the pages they show.
HasFrames(s) == mdl[s].base \in {"locked", "mapped", "null"}
MdlInv ==
    /\ mdl \in [Sides -> [frames : Seq(Frames),
                          base : {"none", "allocated", "locked", "mapped", "null"}]]
    /\ \A s \in Sides :
          IF HasFrames(s) THEN Len(mdl[s].frames) = Len(call[s]) ELSE mdl[s].frames = <<>>

Count(s, f) == Cardinality({i \in DOMAIN mdl[s].frames : mdl[s].frames[i] = f})
LockInv ==
    /\ locks \in [Frames -> Nat]
    /\ \A f \in Frames : locks[f] = Count("process", f) + Count("buffer", f)

Shows(page, frame) ==
    \/ home[page] = frame
    \/ frame \in Shared
    \/ page[1] = "kernel" /\ home[page] = Nowhere
HomeInv ==
    /\ home \in [Pages -> Frames \union {OnDisk, Nowhere}]
    /\ \A s \in Sides : \A i \in DOMAIN mdl[s].frames : Shows(call[s][i], mdl[s].frames[i])

MachineInv ==
    /\ mem \in [Tables -> [Index -> Entries]]
    /\ DOMAIN seen = {"frames", "present"}
    /\ stopped \in {"no", "fault", "null"} /\ changes \in 0..MaxChanges
    /\ stopped = "null" => \E s \in Sides : mdl[s].base = "null"
    /\ stopped = "fault" => AllChecked /\ Side \in Sides /\ IsKernelRange(OwnRange)

MemoryInv == PlanInv /\ MdlInv /\ LockInv /\ HomeInv /\ MachineInv

-----------------------------------------------------------------------------
(***************************************************************************)
(* Plans as sequences.                                                     *)
(***************************************************************************)
Moves == {<<"copy">>} \union
         ({"secure", "unsecure", "allocate", "lock", "map", "unmap", "unlock", "free"} \X Sides)
             \union {<<"check", s, i>> : s \in Sides, i \in Nat}

LEMMA MovesAre ==
    /\ <<"copy">> \in Moves
    /\ \A s \in Sides : /\ <<"secure", s>> \in Moves /\ <<"unsecure", s>> \in Moves
                        /\ <<"allocate", s>> \in Moves /\ <<"lock", s>> \in Moves
                        /\ <<"map", s>> \in Moves /\ <<"unmap", s>> \in Moves
                        /\ <<"unlock", s>> \in Moves /\ <<"free", s>> \in Moves
                        /\ \A i \in Nat : <<"check", s, i>> \in Moves
BY DEF Moves

LEMMA OneFirst ==
    ASSUME NEW S, NEW a \in S, NEW r \in Seq(S)
    PROVE  <<a>> \o r \in Seq(S) /\ <<a>> \o r # <<>> /\ Head(<<a>> \o r) = a /\ Tail(<<a>> \o r) = r
<1>1. <<a>> \in Seq(S) /\ Len(<<a>>) = 1
    OBVIOUS
<1>2. /\ <<a>> \o r \in Seq(S) /\ Len(<<a>> \o r) = 1 + Len(r)
      /\ \A i \in 1..1 + Len(r) : (<<a>> \o r)[i] = IF i <= 1 THEN <<a>>[i] ELSE r[i - 1]
    BY <1>1, ConcatProperties
<1>3. <<a>> \o r # <<>> /\ Head(<<a>> \o r) = a
    BY <1>2, EmptySeq, LenProperties
<1>4. /\ Tail(<<a>> \o r) \in Seq(S) /\ Len(Tail(<<a>> \o r)) = Len(r)
      /\ \A i \in 1..Len(r) : Tail(<<a>> \o r)[i] = (<<a>> \o r)[i + 1]
    BY <1>2, <1>3, HeadTailProperties, LenProperties
<1>5. \A i \in 1..Len(r) : Tail(<<a>> \o r)[i] = r[i]
    BY <1>2, <1>4, LenProperties
<1>6. Tail(<<a>> \o r) = r
    BY <1>4, <1>5, SeqEqual, LenProperties
<1> QED  BY <1>2, <1>3, <1>6

LEMMA ThreeFirst ==
    ASSUME NEW S
    PROVE  \A a, b, d \in S : \A r \in Seq(S) :
               <<a, b, d>> \o r = <<a>> \o (<<b>> \o (<<d>> \o r))
<1> TAKE a, b, d \in S
<1> TAKE r \in Seq(S)
<1>1. /\ <<a>> \in Seq(S) /\ <<b>> \in Seq(S) /\ <<d>> \in Seq(S)
      /\ <<b, d>> \in Seq(S) /\ <<a, b, d>> \in Seq(S)
    OBVIOUS
<1>2. <<b>> \o <<d>> = <<b, d>>
  <2>1. Len(<<b>> \o <<d>>) = Len(<<b, d>>) /\ \A i \in 1..2 : (<<b>> \o <<d>>)[i] = <<b, d>>[i]
      BY <1>1, ConcatProperties
  <2>2. <<b>> \o <<d>> \in Seq(S) /\ Len(<<b, d>>) = 2
      BY <1>1, ConcatProperties
  <2> QED  BY <1>1, <2>1, <2>2, SeqEqual
<1>3. <<a>> \o <<b, d>> = <<a, b, d>>
  <2>1. Len(<<a>> \o <<b, d>>) = Len(<<a, b, d>>) /\ \A i \in 1..3 : (<<a>> \o <<b, d>>)[i] = <<a, b, d>>[i]
      BY <1>1, ConcatProperties
  <2>2. <<a>> \o <<b, d>> \in Seq(S) /\ Len(<<a, b, d>>) = 3
      BY <1>1, ConcatProperties
  <2> QED  BY <1>1, <2>1, <2>2, SeqEqual
<1>4. \A s, t \in Seq(S) : (s \o t) \o r = s \o (t \o r)
    BY ConcatAssociative
<1>5. <<b, d>> \o r = <<b>> \o (<<d>> \o r)
  <2>1. (<<b>> \o <<d>>) \o r = <<b>> \o (<<d>> \o r)
      BY <1>1, <1>4, Zenon
  <2> QED  BY <1>2, <2>1, Zenon
<1>6. <<a, b, d>> \o r = <<a>> \o (<<b, d>> \o r)
  <2>1. (<<a>> \o <<b, d>>) \o r = <<a>> \o (<<b, d>> \o r)
      BY <1>1, <1>4, Zenon
  <2> QED  BY <1>3, <2>1, Zenon
<1> QED  BY <1>5, <1>6, Zenon

LEMMA TailOfJoin ==
    ASSUME NEW S, NEW t \in Seq(S), t # <<>>, NEW s \in Seq(S)
    PROVE  t \o s # <<>> /\ Head(t \o s) = Head(t) /\ Tail(t \o s) = Tail(t) \o s
<1>1. /\ t \o s \in Seq(S)
      /\ Len(t \o s) = Len(t) + Len(s) /\ Len(t) \in Nat \ {0} /\ Len(s) \in Nat
      /\ \A i \in 1..Len(t) + Len(s) : (t \o s)[i] = IF i <= Len(t) THEN t[i] ELSE s[i - Len(t)]
    BY ConcatProperties, EmptySeq, LenProperties
<1>2. t \o s # <<>> /\ Head(t \o s) = Head(t)
    BY <1>1, EmptySeq, LenProperties
<1>3. /\ Tail(t \o s) \in Seq(S) /\ Len(Tail(t \o s)) = Len(t) + Len(s) - 1
      /\ \A i \in 1..Len(Tail(t \o s)) : Tail(t \o s)[i] = (t \o s)[i + 1]
    BY <1>1, <1>2, HeadTailProperties
<1>4. /\ Tail(t) \in Seq(S) /\ Len(Tail(t)) = Len(t) - 1
      /\ \A i \in 1..Len(Tail(t)) : Tail(t)[i] = t[i + 1]
    BY HeadTailProperties
<1>5. /\ Tail(t) \o s \in Seq(S) /\ Len(Tail(t) \o s) = Len(t) - 1 + Len(s)
      /\ \A i \in 1..Len(t) - 1 + Len(s) :
            (Tail(t) \o s)[i] = IF i <= Len(t) - 1 THEN Tail(t)[i] ELSE s[i - (Len(t) - 1)]
    BY <1>4, ConcatProperties, LenProperties
<1>6. \A i \in 1..Len(t) - 1 + Len(s) : Tail(t \o s)[i] = (Tail(t) \o s)[i]
    BY <1>1, <1>3, <1>4, <1>5
<1>7. Tail(t \o s) = Tail(t) \o s
    BY <1>1, <1>3, <1>5, <1>6, SeqEqual
<1> QED  BY <1>2, <1>7

LEMMA MoveFirst ==
    ASSUME NEW a \in Moves, NEW r \in Seq(Moves), NEW p, p = <<a>> \o r
    PROVE  p \in Seq(Moves) /\ p # <<>> /\ Head(p) = a /\ Tail(p) = r
BY OneFirst

LEMMA UnsecureIs ==
    ASSUME NEW c, NEW s \in Sides
    PROVE  /\ Unsecure(s, c) \in Seq(Moves)
           /\ Unsecure(s, c) = IF s \in Users(c) THEN <<<<"unsecure", s>>>> \o <<>> ELSE <<>>
<1>1. <<"unsecure", s>> \in Moves
    BY MovesAre
<1>2. \A a \in Moves : <<a>> \in Seq(Moves)
    OBVIOUS
<1>3. <<<<"unsecure", s>>>> \in Seq(Moves)
    BY <1>1, <1>2, Zenon
<1>4. <<<<"unsecure", s>>>> \o <<>> = <<<<"unsecure", s>>>>
    BY <1>3, ConcatEmptySeq, Zenon
<1> DEFINE u == <<<<"unsecure", s>>>>
<1>5. Unsecure(s, c) = IF s \in Users(c) THEN u ELSE <<>>
    BY DEF Unsecure, ForUser, Users
<1>6. <<>> \in Seq(Moves)
    OBVIOUS
<1> HIDE DEF u
<1>7. u \in Seq(Moves)
    BY <1>3 DEF u
<1>8. u \o <<>> = u
    BY <1>4 DEF u
<1>9. /\ Unsecure(s, c) \in Seq(Moves)
      /\ Unsecure(s, c) = IF s \in Users(c) THEN u \o <<>> ELSE <<>>
    BY <1>5, <1>6, <1>7, <1>8
<1> QED  BY <1>9 DEF u

LEMMA UnsecureBothIs ==
    ASSUME NEW c
    PROVE  /\ UnsecureBoth(c) \in Seq(Moves)
           /\ UnsecureBoth(c) = IF "process" \in Users(c)
                                THEN <<<<"unsecure", "process">>>> \o Unsecure("buffer", c)
                                ELSE Unsecure("buffer", c)
<1> DEFINE u == <<<<"unsecure", "process">>>>
<1>1. /\ Unsecure("process", c) \in Seq(Moves) /\ Unsecure("buffer", c) \in Seq(Moves)
      /\ Unsecure("process", c) = IF "process" \in Users(c) THEN u \o <<>> ELSE <<>>
    BY UnsecureIs DEF Sides
<1>2. UnsecureBoth(c) \in Seq(Moves)
    BY <1>1, ConcatProperties DEF UnsecureBoth
<1>3. <<"unsecure", "process">> \in Moves
    BY MovesAre DEF Sides
<1>4. \A a \in Moves : <<a>> \in Seq(Moves)
    OBVIOUS
<1>5. u \in Seq(Moves)
    BY <1>3, <1>4, Zenon
<1> HIDE DEF u
<1>6. u \o <<>> = u
    BY <1>5, ConcatEmptySeq
<1>7. <<>> \o Unsecure("buffer", c) = Unsecure("buffer", c)
    BY <1>1, ConcatEmptySeq
<1>8. UnsecureBoth(c) = IF "process" \in Users(c) THEN u \o Unsecure("buffer", c)
                        ELSE Unsecure("buffer", c)
    BY <1>1, <1>6, <1>7 DEF UnsecureBoth
<1> QED  BY <1>2, <1>8 DEF u

\* How each plan begins and what it leads to.
Begins(p, move, rest) == p \in Seq(Moves) /\ p # <<>> /\ Head(p) = move /\ Tail(p) = rest

LEMMA BeginsBy ==
    ASSUME NEW a \in Moves, NEW r \in Seq(Moves), NEW p, p = <<a>> \o r
    PROVE  Begins(p, a, r)
BY MoveFirst DEF Begins

LEMMA GivingBackBegins ==
    ASSUME NEW c, NEW s \in Sides
    PROVE  /\ After(c, s) \in Seq(Moves)
           /\ After(c, "process") = UnsecureBoth(c) /\ After(c, "buffer") = Unmapping(c, "process")
           /\ Begins(Freeing(c, s), <<"free", s>>, After(c, s))
           /\ Begins(Unlocking(c, s), <<"unlock", s>>, Freeing(c, s))
           /\ Begins(Unmapping(c, s), <<"unmap", s>>, Unlocking(c, s))
<1>1. UnsecureBoth(c) \in Seq(Moves)
    BY UnsecureBothIs
<1>2. After(c, "process") = UnsecureBoth(c) /\ After(c, "buffer") = Unmapping(c, "process")
    BY DEF After, Unmapping, Unlocking, Freeing
<1>3. ASSUME NEW t \in Sides, After(c, t) \in Seq(Moves)
      PROVE  /\ Begins(Freeing(c, t), <<"free", t>>, After(c, t))
             /\ Begins(Unlocking(c, t), <<"unlock", t>>, Freeing(c, t))
             /\ Begins(Unmapping(c, t), <<"unmap", t>>, Unlocking(c, t))
  <2>1. /\ Freeing(c, t) = <<<<"free", t>>>> \o After(c, t)
        /\ Unlocking(c, t) = <<<<"unlock", t>>>> \o Freeing(c, t)
        /\ Unmapping(c, t) = <<<<"unmap", t>>>> \o Unlocking(c, t)
      BY DEF Freeing, Unlocking, Unmapping
  <2>2. <<"free", t>> \in Moves /\ <<"unlock", t>> \in Moves /\ <<"unmap", t>> \in Moves
      BY MovesAre
  <2>4. Begins(Freeing(c, t), <<"free", t>>, After(c, t))
      BY <1>3, <2>1, <2>2, BeginsBy, Zenon
  <2>5. Freeing(c, t) \in Seq(Moves)
      BY <2>4 DEF Begins
  <2>6. Begins(Unlocking(c, t), <<"unlock", t>>, Freeing(c, t))
      BY <2>5, <2>1, <2>2, BeginsBy, Zenon
  <2>7. Unlocking(c, t) \in Seq(Moves)
      BY <2>6 DEF Begins
  <2>8. Begins(Unmapping(c, t), <<"unmap", t>>, Unlocking(c, t))
      BY <2>7, <2>1, <2>2, BeginsBy, Zenon
  <2> QED  BY <2>4, <2>6, <2>8
<1>4. "process" \in Sides /\ (s = "process" \/ s = "buffer")
    BY DEF Sides
<1>5. Unmapping(c, "process") \in Seq(Moves)
    BY <1>1, <1>2, <1>3, <1>4 DEF Begins
<1>6. After(c, s) \in Seq(Moves)
    BY <1>1, <1>2, <1>4, <1>5
<1> QED  BY <1>2, <1>3, <1>6

LEMMA TakingBegins ==
    ASSUME NEW c, NEW s \in Sides
    PROVE  /\ Begins(Copying(c), <<"copy">>, Unmapping(c, "buffer"))
           /\ Then(c, "buffer") = Copying(c) /\ Then(c, "process") = Allocating(c, "buffer")
           /\ Begins(Mapping(c, s), <<"map", s>>, Then(c, s))
           /\ Begins(Locking(c, s), <<"lock", s>>, Mapping(c, s))
           /\ Begins(Allocating(c, s), <<"allocate", s>>, Locking(c, s))
<1>1. Begins(Copying(c), <<"copy">>, Unmapping(c, "buffer"))
  <2>1. Unmapping(c, "buffer") \in Seq(Moves)
      BY GivingBackBegins DEF Sides, Begins
  <2>2. Copying(c) = <<<<"copy">>>> \o Unmapping(c, "buffer")
      BY DEF Copying
  <2> QED  BY <2>1, <2>2, MovesAre, BeginsBy, Zenon
<1>2. Then(c, "buffer") = Copying(c) /\ Then(c, "process") = Allocating(c, "buffer")
    BY DEF Then, Allocating, Locking, Mapping
<1>3. ASSUME NEW t \in Sides, Then(c, t) \in Seq(Moves)
      PROVE  /\ Begins(Mapping(c, t), <<"map", t>>, Then(c, t))
             /\ Begins(Locking(c, t), <<"lock", t>>, Mapping(c, t))
             /\ Begins(Allocating(c, t), <<"allocate", t>>, Locking(c, t))
  <2>1. /\ Mapping(c, t) = <<<<"map", t>>>> \o Then(c, t)
        /\ Locking(c, t) = <<<<"lock", t>>>> \o Mapping(c, t)
        /\ Allocating(c, t) = <<<<"allocate", t>>>> \o Locking(c, t)
      BY DEF Mapping, Locking, Allocating
  <2>2. <<"map", t>> \in Moves /\ <<"lock", t>> \in Moves /\ <<"allocate", t>> \in Moves
      BY MovesAre
  <2>3. Begins(Mapping(c, t), <<"map", t>>, Then(c, t))
      BY <1>3, <2>1, <2>2, BeginsBy, Zenon
  <2>4. Mapping(c, t) \in Seq(Moves)
      BY <2>3 DEF Begins
  <2>5. Begins(Locking(c, t), <<"lock", t>>, Mapping(c, t))
      BY <2>4, <2>1, <2>2, BeginsBy, Zenon
  <2>6. Locking(c, t) \in Seq(Moves)
      BY <2>5 DEF Begins
  <2>7. Begins(Allocating(c, t), <<"allocate", t>>, Locking(c, t))
      BY <2>6, <2>1, <2>2, BeginsBy, Zenon
  <2> QED  BY <2>3, <2>5, <2>7
<1>4. "buffer" \in Sides /\ (s = "process" \/ s = "buffer")
    BY DEF Sides
<1>5. Copying(c) \in Seq(Moves)
    BY <1>1 DEF Begins
<1>6. Allocating(c, "buffer") \in Seq(Moves)
    BY <1>2, <1>3, <1>4, <1>5 DEF Begins
<1>7. Then(c, s) \in Seq(Moves)
    BY <1>2, <1>4, <1>5, <1>6
<1> QED  BY <1>1, <1>2, <1>3, <1>7

LEMMA SecuringBegins ==
    ASSUME NEW c, NEW s \in Sides
    PROVE  /\ SecuringBuffer(c) \in Seq(Moves) /\ SecuringBoth(c) \in Seq(Moves)
           /\ SecuringBuffer(c) = IF "buffer" \in Users(c) THEN Securing(c, "buffer")
                                  ELSE Allocating(c, "process")
           /\ SecuringBoth(c) = IF "process" \in Users(c) THEN Securing(c, "process")
                                ELSE SecuringBuffer(c)
           /\ Begins(Securing(c, s), <<"secure", s>>,
                     IF s = "buffer" THEN Allocating(c, "process") ELSE SecuringBuffer(c))
<1>1. Allocating(c, "process") \in Seq(Moves)
    BY TakingBegins DEF Sides, Begins
<1>2. <<>> \o Allocating(c, "process") = Allocating(c, "process")
    BY <1>1, ConcatEmptySeq
<1>3. "buffer" \in Sides /\ "process" \in Sides /\ (s = "process" \/ s = "buffer")
    BY DEF Sides
<1>4. <<"secure", "buffer">> \in Moves /\ <<"secure", "process">> \in Moves
    BY <1>3, MovesAre
<1>5. Securing(c, "buffer") = <<<<"secure", "buffer">>>> \o Allocating(c, "process")
    BY DEF Securing
<1>6. Begins(Securing(c, "buffer"), <<"secure", "buffer">>, Allocating(c, "process"))
    BY <1>1, <1>4, <1>5, BeginsBy, Zenon
<1>7. SecuringBuffer(c) = IF "buffer" \in Users(c) THEN Securing(c, "buffer")
                          ELSE Allocating(c, "process")
    BY <1>2, <1>5, <1>3 DEF SecuringBuffer, ForUser, Users
<1>8. SecuringBuffer(c) \in Seq(Moves)
    BY <1>1, <1>6, <1>7 DEF Begins
<1>9. <<>> \o SecuringBuffer(c) = SecuringBuffer(c)
    BY <1>8, ConcatEmptySeq
<1>10. Securing(c, "process") = <<<<"secure", "process">>>> \o SecuringBuffer(c)
    BY DEF Securing, SecuringBuffer
<1>11. Begins(Securing(c, "process"), <<"secure", "process">>, SecuringBuffer(c))
    BY <1>4, <1>8, <1>10, BeginsBy, Zenon
<1>12. SecuringBoth(c) = IF "process" \in Users(c) THEN Securing(c, "process") ELSE SecuringBuffer(c)
    BY <1>3, <1>9, <1>10 DEF SecuringBoth, ForUser, Users
<1>13. SecuringBoth(c) \in Seq(Moves)
    BY <1>8, <1>11, <1>12 DEF Begins
<1>14. Begins(Securing(c, s), <<"secure", s>>,
              IF s = "buffer" THEN Allocating(c, "process") ELSE SecuringBuffer(c))
  <2>1. CASE s = "buffer"
      BY <1>6, <2>1
  <2>2. CASE s = "process"
    <3>1. s # "buffer"
        BY <2>2
    <3> QED  BY <1>11, <2>2, <3>1
  <2> QED  BY <1>3, <2>1, <2>2
<1> QED  BY <1>7, <1>8, <1>12, <1>13, <1>14

LEMMA ChecksBegin ==
    ASSUME NEW s \in Sides, NEW n \in Nat, NEW k \in 0..n - 1, NEW rest \in Seq(Moves)
    PROVE  /\ Begins(From(s, k, n, rest), <<"check", s, k + 1>>, From(s, k + 1, n, rest))
           /\ From(s, n, n, rest) = rest
<1> DEFINE M(i) == <<"check", s, i>>
           F(j) == [i \in 1..n - j |-> M(i + j)]
<1>1. \A i \in Nat : M(i) \in Moves
    BY MovesAre
<1>2. k \in 0..n /\ k + 1 \in 0..n /\ n \in 0..n /\ n - k \in Nat \ {0}
    OBVIOUS
<1>3. \A j \in 0..n : From(s, j, n, rest) = F(j) \o rest
    BY DEF From
<1>4. M(k + 1) = <<"check", s, k + 1>>
    OBVIOUS
<1> HIDE DEF M
<1>5. \A j \in 0..n : F(j) \in Seq(Moves) /\ Len(F(j)) = n - j /\ \A i \in 1..n - j : F(j)[i] = M(i + j)
  <2> TAKE j \in 0..n
  <2>1. n - j \in Nat
      OBVIOUS
  <2>2. \A i \in 1..n - j : M(i + j) \in Moves
      BY <1>1
  <2>3. \A m \in Nat : \A f \in [1..m -> Moves] : f \in Seq(Moves) /\ Len(f) = m
      OBVIOUS
  <2>4. F(j) \in [1..n - j -> Moves]
      BY <2>2
  <2> QED  BY <2>1, <2>3, <2>4
<1> HIDE DEF F
<1>6. F(k) # <<>> /\ Head(F(k)) = M(k + 1)
  <2>1. F(k) \in Seq(Moves) /\ Len(F(k)) = n - k /\ F(k)[1] = M(1 + k)
      BY <1>2, <1>5
  <2>2. 1 + k = k + 1
      OBVIOUS
  <2>3. F(k) # <<>>
      BY <1>2, <2>1, EmptySeq
  <2> QED  BY <2>1, <2>2, <2>3, HeadTailProperties
<1>7. Tail(F(k)) = F(k + 1)
  <2>1. F(k) \in Seq(Moves) /\ Len(F(k)) = n - k /\ \A i \in 1..n - k : F(k)[i] = M(i + k)
      BY <1>2, <1>5
  <2>2. /\ F(k + 1) \in Seq(Moves) /\ Len(F(k + 1)) = n - (k + 1)
        /\ \A i \in 1..n - (k + 1) : F(k + 1)[i] = M(i + (k + 1))
      BY <1>2, <1>5
  <2>3. /\ Tail(F(k)) \in Seq(Moves) /\ Len(Tail(F(k))) = n - k - 1
        /\ \A i \in 1..n - k - 1 : Tail(F(k))[i] = F(k)[i + 1]
      BY <1>6, <2>1, HeadTailProperties
  <2>4. \A i \in 1..n - k - 1 : i + 1 \in 1..n - k /\ (i + 1) + k = i + (k + 1) /\ i \in 1..n - (k + 1)
      OBVIOUS
  <2>5. \A i \in 1..n - k - 1 : Tail(F(k))[i] = F(k + 1)[i]
      BY <2>1, <2>2, <2>3, <2>4
  <2>6. n - k - 1 = n - (k + 1)
      OBVIOUS
  <2> QED  BY <2>2, <2>3, <2>5, <2>6, SeqEqual
<1>8. F(n) = <<>>
  <2>1. F(n) \in Seq(Moves) /\ Len(F(n)) = 0
      BY <1>2, <1>5
  <2> QED  BY <2>1, EmptySeq
<1>9. <<>> \o rest = rest
    BY ConcatEmptySeq
<1>10. F(k) \in Seq(Moves)
    BY <1>2, <1>5
<1>11. F(k) \o rest \in Seq(Moves)
    BY <1>10, ConcatProperties
<1>12. /\ F(k) \o rest # <<>> /\ Head(F(k) \o rest) = M(k + 1)
       /\ Tail(F(k) \o rest) = F(k + 1) \o rest
  <2>1. ASSUME NEW t \in Seq(Moves), t # <<>>
        PROVE  t \o rest # <<>> /\ Head(t \o rest) = Head(t) /\ Tail(t \o rest) = Tail(t) \o rest
      BY <2>1, TailOfJoin
  <2> QED  BY <1>6, <1>7, <1>10, <2>1
<1>13. Begins(F(k) \o rest, M(k + 1), F(k + 1) \o rest)
    BY <1>11, <1>12 DEF Begins
<1>14. From(s, k, n, rest) = F(k) \o rest /\ From(s, k + 1, n, rest) = F(k + 1) \o rest
    BY <1>2, <1>3
<1>15. From(s, n, n, rest) = rest
    BY <1>2, <1>3, <1>8, <1>9
<1> QED  BY <1>4, <1>13, <1>14, <1>15

Join(x, y) == x \o y

LEMMA JoinTwice ==
    ASSUME NEW S, NEW x \in Seq(S), NEW y \in Seq(S), NEW z \in Seq(S)
    PROVE  Join(Join(x, y), z) = Join(x, Join(y, z))
BY ConcatAssociative DEF Join

\* The pages of a range are distinct pages of one half of the memory.
LEMMA RangeFacts ==
    ASSUME NEW r \in Ranges
    PROVE  /\ r \in Seq(Pages) /\ Len(r) \in Nat \ {0}
           /\ \A i \in 1..Len(r) : /\ r[i] \in Pages /\ r[i] \in PagesOf(r)
                                   /\ IsKernelAddress(r[i][2]) = IsKernelRange(r)
                                   /\ (r[i][1] = "kernel") = IsKernelRange(r)
                                   /\ r[i][1] = r[1][1]
           /\ \A i, j \in 1..Len(r) : r[i] = r[j] => i = j
           /\ PagesOf(r) \subseteq Pages
<1>1. r \in Seq(Pages) /\ r # <<>>
    BY ProcessMemoryAssumption
<1>2. Len(r) \in Nat \ {0}
    BY <1>1, EmptySeq, LenProperties
<1>3. \A i, j \in 1..Len(r) : r[i][1] = r[j][1] /\ (r[i] = r[j] => i = j)
    BY ProcessMemoryAssumption
<1>4. \A i \in 1..Len(r) : r[i] \in Pages
    BY <1>1, ElementOfSeq
<1>5. 1 \in 1..Len(r)
    BY <1>2
<1>6. \A page \in Pages : IsKernelAddress(page[2]) = (page[1] = "kernel")
    BY ProcessMemoryAssumption
<1>7. \A i \in 1..Len(r) : r[i][1] = r[1][1]
    BY <1>3, <1>5
<1>8. IsKernelRange(r) = (r[1][1] = "kernel")
    BY <1>4, <1>5, <1>6 DEF IsKernelRange
<1> QED  BY <1>1, <1>2, <1>3, <1>4, <1>6, <1>7, <1>8 DEF PagesOf

LEMMA ChecksAre ==
    ASSUME NEW s \in Sides, NEW r \in Ranges, NEW rest \in Seq(Moves)
    PROVE  /\ Checks(s, r) \in Seq(Moves)
           /\ Checks(s, r) \o rest = From(s, 0, Len(r), rest)
           /\ Checks(s, r) = From(s, 0, Len(r), <<>>)
<1> DEFINE n == Len(r)
           M(i) == <<"check", s, i>>
           F == [i \in 1..n - 0 |-> M(i + 0)]
<1>1. n \in Nat
    BY RangeFacts
<1>2. \A i \in Nat : M(i) \in Moves
    BY MovesAre
<1>3. Checks(s, r) = [i \in 1..n |-> M(i)] /\ \A x : From(s, 0, n, x) = F \o x
    BY DEF Checks, From
<1> HIDE DEF n, M
<1>4. F = [i \in 1..n |-> M(i)]
  <2>1. \A i \in 1..n : i + 0 = i
      OBVIOUS
  <2>2. n - 0 = n
      BY <1>1
  <2>3. F = [i \in 1..n |-> M(i + 0)]
      BY <2>2
  <2> QED  BY <2>1, <2>3
<1>5. [i \in 1..n |-> M(i)] \in Seq(Moves)
  <2>1. [i \in 1..n |-> M(i)] \in [1..n -> Moves]
      BY <1>2
  <2>2. \A m \in Nat : \A f \in [1..m -> Moves] : f \in Seq(Moves)
      OBVIOUS
  <2> QED  BY <1>1, <2>1, <2>2
<1> HIDE DEF F
<1>6. Checks(s, r) \in Seq(Moves) /\ Checks(s, r) = F
    BY <1>3, <1>4, <1>5
<1>7. F \o <<>> = F
    BY <1>6, ConcatEmptySeq
<1> QED  BY <1>3, <1>6, <1>7 DEF n

LEMMA MappingIs ==
    ASSUME NEW c, NEW s \in Sides, NEW r \in Seq(Moves)
    PROVE  /\ MapMemory(s) \in Seq(Moves) /\ UnmapMemory(s) \in Seq(Moves)
           /\ MapMemory(s) \o r = <<<<"allocate", s>>>> \o (<<<<"lock", s>>>> \o (<<<<"map", s>>>> \o r))
           /\ UnmapMemory(s) \o r = <<<<"unmap", s>>>> \o (<<<<"unlock", s>>>> \o (<<<<"free", s>>>> \o r))
<1>1. /\ <<"allocate", s>> \in Moves /\ <<"lock", s>> \in Moves /\ <<"map", s>> \in Moves
      /\ <<"unmap", s>> \in Moves /\ <<"unlock", s>> \in Moves /\ <<"free", s>> \in Moves
    BY MovesAre
<1>2. \A x, y, z \in Moves : <<x, y, z>> \in Seq(Moves)
    OBVIOUS
<1>3. MapMemory(s) \in Seq(Moves) /\ UnmapMemory(s) \in Seq(Moves)
    BY <1>1, <1>2, Zenon DEF MapMemory, UnmapMemory
<1>4. \A x, y, z \in Moves : <<x, y, z>> \o r = <<x>> \o (<<y>> \o (<<z>> \o r))
    BY ThreeFirst, SMTT(30)
<1> DEFINE al == <<"allocate", s>>  lk == <<"lock", s>>  mp == <<"map", s>>
           um == <<"unmap", s>>  ul == <<"unlock", s>>  fr == <<"free", s>>
<1>5. /\ al \in Moves /\ lk \in Moves /\ mp \in Moves
      /\ um \in Moves /\ ul \in Moves /\ fr \in Moves
    BY <1>1, Zenon
<1>6. MapMemory(s) = <<al, lk, mp>> /\ UnmapMemory(s) = <<um, ul, fr>>
    BY Zenon DEF MapMemory, UnmapMemory
<1> HIDE DEF al, lk, mp, um, ul, fr
<1>7. /\ <<al, lk, mp>> \o r = <<al>> \o (<<lk>> \o (<<mp>> \o r))
      /\ <<um, ul, fr>> \o r = <<um>> \o (<<ul>> \o (<<fr>> \o r))
  <2>1. <<al, lk, mp>> \o r = <<al>> \o (<<lk>> \o (<<mp>> \o r))
      BY <1>4, <1>5, SMTT(30)
  <2>2. <<um, ul, fr>> \o r = <<um>> \o (<<ul>> \o (<<fr>> \o r))
      BY <1>4, <1>5, SMTT(30)
  <2> QED  BY <2>1, <2>2, Zenon
<1>8. /\ MapMemory(s) \o r = <<al>> \o (<<lk>> \o (<<mp>> \o r))
      /\ UnmapMemory(s) \o r = <<um>> \o (<<ul>> \o (<<fr>> \o r))
    BY <1>6, <1>7, Zenon
<1> QED  BY <1>3, <1>8, Zenon DEF al, lk, mp, um, ul, fr

\* The plan of OperateProcessMemory is the first of the places.
LEMMA OperateStarts ==
    ASSUME NEW c, c.process \in Ranges, c.buffer \in Ranges
    PROVE  /\ CheckingBuffer(c) \in Seq(Moves) /\ SecuringBoth(c) \in Seq(Moves)
           /\ CheckingBuffer(c) = IF IsKernelRange(c.buffer)
                                  THEN From("buffer", 0, Len(c.buffer), SecuringBoth(c))
                                  ELSE SecuringBoth(c)
           /\ OperateProcessMemory(c) = IF IsKernelRange(c.process)
                                        THEN From("process", 0, Len(c.process), CheckingBuffer(c))
                                        ELSE CheckingBuffer(c)
<1> DEFINE kp == ForKernel(c.process, Checks("process", c.process))
           kb == ForKernel(c.buffer, Checks("buffer", c.buffer))
           sp == ForUser(c.process, <<<<"secure", "process">>>>)
           sb == ForUser(c.buffer, <<<<"secure", "buffer">>>>)
           mp == MapMemory("process")
           mb == MapMemory("buffer")
           cp == <<<<"copy">>>>
           gb == GiveBack(c)
<1>1. "process" \in Sides /\ "buffer" \in Sides
    BY DEF Sides
<1>2. /\ <<>> \in Seq(Moves) /\ \A a \in Moves : <<a>> \in Seq(Moves)
      /\ \A x \in Seq(Moves) : <<>> \o x = x
  <2>1. \A x \in Seq(Moves) : <<>> \o x = x
      BY ConcatEmptySeq
  <2> QED  BY <2>1
<1>3. <<"secure", "process">> \in Moves /\ <<"secure", "buffer">> \in Moves /\ <<"copy">> \in Moves
    BY <1>1, MovesAre
<1>4. sp \in Seq(Moves) /\ sb \in Seq(Moves) /\ cp \in Seq(Moves)
  <2>1. /\ <<<<"secure", "process">>>> \in Seq(Moves) /\ <<<<"secure", "buffer">>>> \in Seq(Moves)
        /\ cp \in Seq(Moves)
      BY <1>2, <1>3, Zenon
  <2>2. sp = <<<<"secure", "process">>>> \/ sp = <<>>
      BY DEF ForUser
  <2>3. sb = <<<<"secure", "buffer">>>> \/ sb = <<>>
      BY DEF ForUser
  <2> QED  BY <1>2, <2>1, <2>2, <2>3, Zenon
<1>5. kp \in Seq(Moves) /\ kb \in Seq(Moves)
    BY <1>1, <1>2, ChecksAre DEF ForKernel
<1>6. mp \in Seq(Moves) /\ mb \in Seq(Moves)
    BY <1>1, <1>2, MappingIs
<1>7. gb \in Seq(Moves) /\ gb = Unmapping(c, "buffer")
  <2>1. /\ UnmapMemory("buffer") \in Seq(Moves) /\ UnmapMemory("process") \in Seq(Moves)
        /\ UnsecureBoth(c) \in Seq(Moves)
      BY <1>1, <1>2, MappingIs, UnsecureBothIs
  <2>2. Join(Join(UnmapMemory("buffer"), UnmapMemory("process")), UnsecureBoth(c))
          = Join(UnmapMemory("buffer"), Join(UnmapMemory("process"), UnsecureBoth(c)))
      BY <2>1, JoinTwice
  <2>3. Join(UnmapMemory("process"), UnsecureBoth(c)) \in Seq(Moves)
      BY <2>1, ConcatProperties DEF Join
  <2>4. Join(UnmapMemory("process"), UnsecureBoth(c)) = After(c, "buffer")
      BY <1>1, <2>1, MappingIs, Zenon DEF Join, After
  <2>5. Join(UnmapMemory("buffer"), After(c, "buffer")) = Unmapping(c, "buffer")
      BY <1>1, <2>3, <2>4, MappingIs, Zenon DEF Join, Unmapping, Unlocking, Freeing
  <2>6. gb = Join(Join(UnmapMemory("buffer"), UnmapMemory("process")), UnsecureBoth(c))
      BY DEF GiveBack, Join
  <2>7. Unmapping(c, "buffer") \in Seq(Moves)
      BY <1>1, GivingBackBegins DEF Begins
  <2> QED  BY <2>2, <2>4, <2>5, <2>6, <2>7
<1>8. cp \o gb = Copying(c)
    BY <1>7 DEF Copying
<1>9. mb \o (cp \o gb) = Allocating(c, "buffer")
  <2>1. Copying(c) \in Seq(Moves)
      BY <1>1, TakingBegins DEF Begins
  <2>2. mb \o Copying(c) = Allocating(c, "buffer")
      BY <1>1, <2>1, MappingIs, Zenon DEF Allocating, Locking, Mapping, Then
  <2> QED  BY <1>8, <2>2
<1>10. mp \o (mb \o (cp \o gb)) = Allocating(c, "process")
  <2>1. Allocating(c, "buffer") \in Seq(Moves) /\ Then(c, "process") = Allocating(c, "buffer")
      BY <1>1, TakingBegins DEF Begins
  <2>2. mp \o Allocating(c, "buffer") = Allocating(c, "process")
    <3>1. mp \o Allocating(c, "buffer") = <<<<"allocate", "process">>>> \o (<<<<"lock", "process">>>> \o
              (<<<<"map", "process">>>> \o Allocating(c, "buffer")))
        BY <1>1, <2>1, MappingIs, Zenon
    <3> QED  BY <2>1, <3>1 DEF Allocating, Locking, Mapping
  <2> QED  BY <1>9, <2>2
<1>11. kp \o (kb \o (sp \o (sb \o (mp \o (mb \o (cp \o gb)))))) = kp \o CheckingBuffer(c)
    BY <1>10 DEF CheckingBuffer, SecuringBoth, SecuringBuffer
<1>12. OperateProcessMemory(c) = kp \o kb \o sp \o sb \o mp \o mb \o cp \o gb
    BY DEF OperateProcessMemory
<1>13. SecuringBoth(c) \in Seq(Moves)
    BY <1>1, SecuringBegins
<1>14. /\ CheckingBuffer(c) \in Seq(Moves)
       /\ CheckingBuffer(c) = IF IsKernelRange(c.buffer)
                              THEN From("buffer", 0, Len(c.buffer), SecuringBoth(c))
                              ELSE SecuringBoth(c)
  <2>1. CheckingBuffer(c) = kb \o SecuringBoth(c)
      BY DEF CheckingBuffer
  <2>2. kb = IF IsKernelRange(c.buffer) THEN Checks("buffer", c.buffer) ELSE <<>>
      BY DEF ForKernel
  <2>3. Checks("buffer", c.buffer) \o SecuringBoth(c) = From("buffer", 0, Len(c.buffer), SecuringBoth(c))
      BY <1>1, <1>13, ChecksAre
  <2>4. CheckingBuffer(c) \in Seq(Moves)
      BY <1>5, <1>13, <2>1, ConcatProperties
  <2> HIDE DEF kb
  <2> QED  BY <1>2, <1>13, <2>1, <2>2, <2>3, <2>4
<1>15. kp \o CheckingBuffer(c) = IF IsKernelRange(c.process)
                                 THEN From("process", 0, Len(c.process), CheckingBuffer(c))
                                 ELSE CheckingBuffer(c)
  <2>1. kp = IF IsKernelRange(c.process) THEN Checks("process", c.process) ELSE <<>>
      BY DEF ForKernel
  <2>2. Checks("process", c.process) \o CheckingBuffer(c) = From("process", 0, Len(c.process), CheckingBuffer(c))
      BY <1>1, <1>14, ChecksAre
  <2> HIDE DEF kp
  <2> QED  BY <1>2, <1>14, <2>1, <2>2
<1> HIDE DEF kp, kb, sp, sb, mp, mb, cp, gb
<1>16. Join(Join(Join(Join(Join(Join(Join(kp, kb), sp), sb), mp), mb), cp), gb)
          = Join(kp, Join(kb, Join(sp, Join(sb, Join(mp, Join(mb, Join(cp, gb)))))))
  <2>1. \A x, y \in Seq(Moves) : Join(x, y) \in Seq(Moves)
      BY ConcatProperties DEF Join
  <2>2. \A x, y, z \in Seq(Moves) : Join(Join(x, y), z) = Join(x, Join(y, z))
      BY JoinTwice
  <2> DEFINE f2 == Join(kp, kb)
             f3 == Join(f2, sp)
             f4 == Join(f3, sb)
             f5 == Join(f4, mp)
             f6 == Join(f5, mb)
             l2 == Join(cp, gb)
             l3 == Join(mb, l2)
             l4 == Join(mp, l3)
             l5 == Join(sb, l4)
             l6 == Join(sp, l5)
  <2>3. /\ f2 \in Seq(Moves) /\ f3 \in Seq(Moves) /\ f4 \in Seq(Moves)
        /\ f5 \in Seq(Moves) /\ f6 \in Seq(Moves)
        /\ l2 \in Seq(Moves) /\ l3 \in Seq(Moves) /\ l4 \in Seq(Moves)
        /\ l5 \in Seq(Moves) /\ l6 \in Seq(Moves)
      BY <1>4, <1>5, <1>6, <1>7, <2>1
  <2>4. /\ f2 = Join(kp, kb) /\ f3 = Join(f2, sp) /\ f4 = Join(f3, sb) /\ f5 = Join(f4, mp) /\ f6 = Join(f5, mb)
        /\ l2 = Join(cp, gb) /\ l3 = Join(mb, l2) /\ l4 = Join(mp, l3) /\ l5 = Join(sb, l4) /\ l6 = Join(sp, l5)
      OBVIOUS
  <2> HIDE DEF f2, f3, f4, f5, f6, l2, l3, l4, l5, l6
  <2> DEFINE M == Seq(Moves)
  <2>0. /\ kp \in M /\ kb \in M /\ sp \in M /\ sb \in M /\ mp \in M /\ mb \in M /\ cp \in M /\ gb \in M
        /\ f2 \in M /\ f3 \in M /\ f4 \in M /\ f5 \in M /\ f6 \in M
        /\ l2 \in M /\ l3 \in M /\ l4 \in M /\ l5 \in M /\ l6 \in M
      BY <1>4, <1>5, <1>6, <1>7, <2>3
  <2>12. \A x, y, z \in M : Join(Join(x, y), z) = Join(x, Join(y, z))
      BY <2>2
  <2> HIDE DEF M
  <2>5. Join(Join(f6, cp), gb) = Join(f6, l2)
      BY <2>0, <2>4, <2>12
  <2>6. Join(f6, l2) = Join(f5, l3)
      BY <2>0, <2>4, <2>12
  <2>7. Join(f5, l3) = Join(f4, l4)
      BY <2>0, <2>4, <2>12
  <2>8. Join(f4, l4) = Join(f3, l5)
      BY <2>0, <2>4, <2>12
  <2>9. Join(f3, l5) = Join(f2, l6)
      BY <2>0, <2>4, <2>12
  <2>10. Join(f2, l6) = Join(kp, Join(kb, l6))
      BY <2>0, <2>4, <2>12
  <2>11. Join(Join(f6, cp), gb) = Join(kp, Join(kb, l6))
      BY <2>5, <2>6, <2>7, <2>8, <2>9, <2>10, Zenon
  <2> QED  BY <2>11, Zenon DEF f2, f3, f4, f5, f6, l2, l3, l4, l5, l6
<1>17. OperateProcessMemory(c) = kp \o CheckingBuffer(c)
    BY <1>11, <1>12, <1>16 DEF Join
<1> QED  BY <1>13, <1>14, <1>15, <1>17

\* What is left when a step fails is a place further on.
LEMMA UndoIs ==
    ASSUME NEW c, NEW s \in Sides
    PROVE  /\ \A k : Undo(<<"check", s, k>>, c) = <<>>
           /\ Undo(<<"secure", s>>, c) = IF s = "process" THEN <<>> ELSE Unsecure("process", c)
           /\ Undo(<<"allocate", s>>, c) = After(c, s)
           /\ Undo(<<"lock", s>>, c) = Freeing(c, s)
<1>1. \A k : Undo(<<"check", s, k>>, c) = <<>>
    BY DEF Undo
<1>2. Undo(<<"secure", s>>, c) = IF s = "process" THEN <<>> ELSE Unsecure("process", c)
    BY DEF Undo
<1>3. (IF s = "process" THEN UnsecureBoth(c) ELSE UnmapMemory("process") \o UnsecureBoth(c)) = After(c, s)
  <2>1. UnsecureBoth(c) \in Seq(Moves) /\ "process" \in Sides
      BY UnsecureBothIs DEF Sides
  <2>2. UnmapMemory("process") \o UnsecureBoth(c) = <<<<"unmap", "process">>>> \o
            (<<<<"unlock", "process">>>> \o (<<<<"free", "process">>>> \o UnsecureBoth(c)))
      BY <2>1, MappingIs, Zenon
  <2> QED  BY <2>2 DEF After
<1>4. Undo(<<"allocate", s>>, c) = After(c, s)
    BY <1>3 DEF Undo
<1>5. Undo(<<"lock", s>>, c) = Freeing(c, s)
    BY <1>3 DEF Undo, Freeing
<1> QED  BY <1>1, <1>2, <1>4, <1>5

-----------------------------------------------------------------------------
(***************************************************************************)
(* What the next step of a call says of the place it has got to.           *)
(***************************************************************************)
Operating == CallTyped /\ call.op = "operate" /\ inside = "caller"

RestOf(s) == IF s = "process" THEN CheckingBuffer(call) ELSE SecuringBoth(call)

AtCheck(s, k) ==
    /\ secured = {} /\ NoMdls /\ IsKernelRange(call[s]) /\ (s = "buffer" => Checked("process"))
    /\ k + 1 \in 1..Len(call[s]) /\ Seen(s, k)
    /\ Begins(todo, <<"check", s, k + 1>>, From(s, k + 1, Len(call[s]), RestOf(s)))

AtSecure(s) ==
    /\ SecuringAt(s)
    /\ Begins(todo, <<"secure", s>>,
              IF s = "buffer" THEN Allocating(call, "process") ELSE SecuringBuffer(call))

HeldAt(s) == AllChecked /\ secured = Users(call) /\ Beside(s)

AtMdl(s) ==
    /\ HeldAt(s)
    /\ \/ Begins(todo, <<"allocate", s>>, Locking(call, s)) /\ mdl[s] = NoMdl
       \/ Begins(todo, <<"lock", s>>, Mapping(call, s)) /\ mdl[s].base = "allocated"
       \/ Begins(todo, <<"map", s>>, Then(call, s)) /\ mdl[s].base = "locked"
       \/ Begins(todo, <<"unmap", s>>, Unlocking(call, s)) /\ mdl[s].base \in {"mapped", "null"}
       \/ Begins(todo, <<"unlock", s>>, Freeing(call, s)) /\ mdl[s].base = "locked"
       \/ Begins(todo, <<"free", s>>, After(call, s)) /\ mdl[s].base = "allocated"

AtCopy == CopyingAt /\ Begins(todo, <<"copy">>, Unmapping(call, "buffer"))

AtUnsecure(s) ==
    /\ NoMdls /\ s \in secured
    /\ \/ s = "process" /\ secured = Users(call) /\ Begins(todo, <<"unsecure", s>>, Unsecure("buffer", call))
       \/ secured = {s} /\ Begins(todo, <<"unsecure", s>>, <<>>)

LEMMA CallRanges ==
    ASSUME Operating, NEW s \in Sides
    PROVE  call[s] \in Ranges
BY DEF Operating, CallTyped, Allowed, Sides

LEMMA UnsecuringPlaces ==
    ASSUME UnsecuringAt, todo # <<>>
    PROVE  \E s \in Sides : AtUnsecure(s)
<1> DEFINE u(s) == <<"unsecure", s>>
<1>1. /\ "process" \in Sides /\ "buffer" \in Sides
      /\ \A s \in Sides : s = "process" \/ s = "buffer"
    BY DEF Sides
<1>2. u("process") \in Moves /\ u("buffer") \in Moves /\ <<>> \in Seq(Moves)
  <2>1. <<>> \in Seq(Moves)
      OBVIOUS
  <2> QED  BY <1>1, <2>1, MovesAre
<1>3. /\ Unsecure("process", call) = IF "process" \in Users(call) THEN <<u("process")>> \o <<>> ELSE <<>>
      /\ Unsecure("buffer", call) = IF "buffer" \in Users(call) THEN <<u("buffer")>> \o <<>> ELSE <<>>
      /\ Unsecure("buffer", call) \in Seq(Moves)
    BY <1>1, UnsecureIs
<1>4. UnsecureBoth(call) = IF "process" \in Users(call) THEN <<u("process")>> \o Unsecure("buffer", call)
                           ELSE Unsecure("buffer", call)
    BY UnsecureBothIs
<1>5. Users(call) \subseteq Sides
    BY DEF Users
<1> HIDE DEF u
<1>6. ASSUME NEW s \in Sides, s \in Users(call), todo = Unsecure(s, call)
      PROVE  Begins(todo, u(s), <<>>)
  <2>1. todo = <<u(s)>> \o <<>>
      BY <1>1, <1>3, <1>6
  <2> QED  BY <1>1, <1>2, <2>1, BeginsBy
<1>7. CASE todo = UnsecureBoth(call) /\ secured = Users(call) /\ "process" \in Users(call)
  <2>1. todo = <<u("process")>> \o Unsecure("buffer", call)
      BY <1>4, <1>7
  <2>2. Begins(todo, u("process"), Unsecure("buffer", call))
      BY <1>2, <1>3, <2>1, BeginsBy
  <2> QED  BY <1>1, <1>7, <2>2 DEF AtUnsecure, UnsecuringAt, u
<1>8. CASE todo = UnsecureBoth(call) /\ secured = Users(call) /\ "process" \notin Users(call)
  <2>1. todo = Unsecure("buffer", call)
      BY <1>4, <1>8
  <2>2. "buffer" \in Users(call) /\ secured = {"buffer"}
      BY <1>1, <1>3, <1>5, <1>8, <2>1
  <2>3. Begins(todo, u("buffer"), <<>>)
      BY <1>1, <1>6, <2>1, <2>2
  <2> QED  BY <1>1, <2>2, <2>3 DEF AtUnsecure, UnsecuringAt, u
<1>9. CASE todo = Unsecure("process", call) /\ secured = Users(call) \ {"buffer"}
  <2>1. "process" \in Users(call) /\ secured = {"process"}
      BY <1>1, <1>3, <1>5, <1>9
  <2>2. Begins(todo, u("process"), <<>>)
      BY <1>1, <1>6, <1>9, <2>1
  <2> QED  BY <1>1, <2>1, <2>2 DEF AtUnsecure, UnsecuringAt, u
<1>10. CASE todo = Unsecure("buffer", call) /\ secured = Users(call) \ {"process"}
  <2>1. "buffer" \in Users(call) /\ secured = {"buffer"}
      BY <1>1, <1>3, <1>5, <1>10
  <2>2. Begins(todo, u("buffer"), <<>>)
      BY <1>1, <1>6, <1>10, <2>1
  <2> QED  BY <1>1, <2>1, <2>2 DEF AtUnsecure, UnsecuringAt, u
<1> QED  BY <1>7, <1>8, <1>9, <1>10 DEF UnsecuringAt

LEMMA OperatePlaces ==
    ASSUME Operating, OperateAt, todo # <<>>
    PROVE  \E s \in Sides : \/ \E k \in Nat : AtCheck(s, k)
                            \/ AtSecure(s) \/ AtMdl(s) \/ AtCopy \/ AtUnsecure(s)
<1>1. "process" \in Sides /\ "buffer" \in Sides
    BY DEF Sides
<1>2. \A s \in Sides : call[s] \in Ranges /\ Len(call[s]) \in Nat \ {0}
    BY CallRanges, RangeFacts
<1>3. CheckingBuffer(call) \in Seq(Moves) /\ SecuringBoth(call) \in Seq(Moves)
    BY <1>1, <1>2, OperateStarts
<1>4. ASSUME NEW s \in Sides, CheckingAt(s, RestOf(s)), IsKernelRange(call[s]), s = "buffer" => Checked("process")
      PROVE  \E k \in Nat : AtCheck(s, k)
  <2> DEFINE n == Len(call[s])
  <2>1. PICK k \in 0..n - 1 : todo = From(s, k, n, RestOf(s)) /\ Seen(s, k)
      BY <1>4 DEF CheckingAt
  <2>2. RestOf(s) \in Seq(Moves) /\ n \in Nat
      BY <1>2, <1>3 DEF RestOf
  <2>3. Begins(From(s, k, n, RestOf(s)), <<"check", s, k + 1>>, From(s, k + 1, n, RestOf(s)))
      BY <2>2, ChecksBegin
  <2>4. k \in Nat /\ k + 1 \in 1..n
      BY <2>2
  <2> QED  BY <1>4, <2>1, <2>3, <2>4 DEF AtCheck, CheckingAt
<1>5. CASE IsKernelRange(call.process) /\ CheckingAt("process", CheckingBuffer(call))
    BY <1>1, <1>4, <1>5 DEF RestOf
<1>6. CASE IsKernelRange(call.buffer) /\ Checked("process") /\ CheckingAt("buffer", SecuringBoth(call))
    BY <1>1, <1>4, <1>6 DEF RestOf
<1>7. ASSUME NEW s \in Sides, SecuringAt(s)
      PROVE  AtSecure(s)
    BY <1>7, SecuringBegins DEF AtSecure, SecuringAt
<1>8. ASSUME NEW s \in Sides, MdlAt(s)
      PROVE  AtMdl(s)
    BY <1>8, TakingBegins, GivingBackBegins DEF AtMdl, MdlAt, HeldAt
<1>9. CASE CopyingAt
    BY <1>1, <1>9, TakingBegins DEF AtCopy, CopyingAt
<1>10. CASE UnsecuringAt
    BY <1>10, UnsecuringPlaces
<1> QED  BY <1>5, <1>6, <1>7, <1>8, <1>9, <1>10 DEF OperateAt

OperateMoves == {"secure", "unsecure", "allocate", "lock", "map", "unmap", "unlock", "free", "copy"}
QuickMoves == {"attach", "detach", "valid", "get", "cr3", "pte", "entry"}

LEMMA QuickHeads ==
    ASSUME CallTyped, QuickAt, todo # <<>>
    PROVE  \/ Head(todo)[1] \in QuickMoves
           \/ call.op = "present" /\ \E k \in Nat : Begins(todo, <<"check", "process", k + 1>>,
                                          From("process", k + 1, Len(call.process), <<>>))
<1>1. CASE todo \in CallerPlans
    BY <1>1 DEF CallerPlans, QuickMoves
<1>2. CASE todo \in AttachPlans
    BY <1>2 DEF AttachPlans, QuickMoves
<1>3. CASE todo \in TargetPlans
    BY <1>3 DEF TargetPlans, QuickMoves
<1>4. CASE call.op = "present" /\ CheckingAt("process", <<>>)
  <2> DEFINE n == Len(call.process)
  <2>1. n \in Nat \ {0} /\ "process" \in Sides /\ <<>> \in Seq(Moves)
    <3>1. call.process \in Ranges
        BY DEF CallTyped
    <3>2. n \in Nat \ {0}
        BY <3>1, RangeFacts
    <3> QED  BY <3>2 DEF Sides
  <2>2. PICK k \in 0..n - 1 : todo = From("process", k, n, <<>>)
      BY <1>4 DEF CheckingAt
  <2>3. Begins(todo, <<"check", "process", k + 1>>, From("process", k + 1, n, <<>>))
      BY <2>1, <2>2, ChecksBegin
  <2> QED  BY <1>4, <2>1, <2>2, <2>3
<1> QED  BY <1>1, <1>2, <1>3, <1>4 DEF QuickAt

LEMMA InOperate ==
    ASSUME PlanInv, todo # <<>>, Head(todo)[1] \in OperateMoves
    PROVE  Operating /\ OperateAt
<1>1. ASSUME CallTyped, QuickAt
      PROVE  FALSE
  <2>1. Head(todo)[1] \in QuickMoves \/ Head(todo)[1] = "check"
      BY <1>1, QuickHeads DEF Begins
  <2> QED  BY <2>1 DEF QuickMoves, OperateMoves
<1> QED  BY <1>1 DEF PlanInv, Operating

LEMMA OperateHeads ==
    ASSUME Operating, OperateAt, todo # <<>>, Head(todo)[1] # "check"
    PROVE  \E s \in Sides : AtSecure(s) \/ AtMdl(s) \/ AtCopy \/ AtUnsecure(s)
<1>1. \A s, k : AtCheck(s, k) => Head(todo)[1] = "check"
    BY DEF AtCheck, Begins
<1> QED  BY <1>1, OperatePlaces

\* The place of each step.
LEMMA StepPlace ==
    ASSUME PlanInv, todo # <<>>, NEW move, Head(todo)[1] = move, move \in OperateMoves
    PROVE  /\ Operating /\ OperateAt
           /\ move = "secure" => \E s \in Sides : AtSecure(s)
           /\ move = "unsecure" => \E s \in Sides : AtUnsecure(s)
           /\ move = "copy" => AtCopy
           /\ move \in {"allocate", "lock", "map", "unmap", "unlock", "free"} =>
                 \E s \in Sides : AtMdl(s)
<1>1. Operating /\ OperateAt
    BY InOperate
<1>2. Head(todo)[1] # "check"
    BY DEF OperateMoves
<1>3. \A s : /\ AtSecure(s) => Head(todo)[1] = "secure"
             /\ AtUnsecure(s) => Head(todo)[1] = "unsecure"
             /\ AtMdl(s) => Head(todo)[1] \in {"allocate", "lock", "map", "unmap", "unlock", "free"}
             /\ AtCopy => Head(todo)[1] = "copy"
    BY DEF AtSecure, AtUnsecure, AtMdl, AtCopy, Begins
<1> QED  BY <1>1, <1>2, <1>3, OperateHeads

LEMMA MdlPlace ==
    ASSUME NEW s \in Sides, AtMdl(s)
    PROVE  /\ HeldAt(s) /\ Head(todo)[2] = s
           /\ Head(todo)[1] = "allocate" =>
                 Head(todo) = <<"allocate", s>> /\ Tail(todo) = Locking(call, s) /\ mdl[s] = NoMdl
           /\ Head(todo)[1] = "lock" =>
                 Head(todo) = <<"lock", s>> /\ Tail(todo) = Mapping(call, s) /\ mdl[s].base = "allocated"
           /\ Head(todo)[1] = "map" =>
                 Tail(todo) = Then(call, s) /\ mdl[s].base = "locked"
           /\ Head(todo)[1] = "unmap" =>
                 Tail(todo) = Unlocking(call, s) /\ mdl[s].base \in {"mapped", "null"}
           /\ Head(todo)[1] = "unlock" =>
                 Tail(todo) = Freeing(call, s) /\ mdl[s].base = "locked"
           /\ Head(todo)[1] = "free" =>
                 Tail(todo) = After(call, s) /\ mdl[s].base = "allocated"
BY DEF AtMdl, Begins

\* How the places follow each other when nothing fails.
Follows ==
    /\ Operating /\ secured = {} /\ NoMdls /\ Checked("process") /\ todo = CheckingBuffer(call) => OperateAt
    /\ Operating /\ secured = {} /\ NoMdls /\ AllChecked /\ todo = SecuringBoth(call) => OperateAt
    /\ secured = Users(call) \ {"buffer"} /\ NoMdls /\ AllChecked /\ todo = SecuringBuffer(call) => OperateAt
    /\ secured = Users(call) /\ NoMdls /\ AllChecked /\ todo = Allocating(call, "process") => OperateAt

LEMMA Entering == Follows
<1>1. /\ "process" \in Sides /\ "buffer" \in Sides
      /\ \A s \in Sides : s = "process" \/ s = "buffer"
    BY DEF Sides
<1>2. ASSUME secured = Users(call), NoMdls, AllChecked, todo = Allocating(call, "process")
      PROVE  OperateAt
  <2>1. MdlAt("process")
      BY <1>1, <1>2 DEF MdlAt, Beside, NoMdls
  <2> QED  BY <1>1, <2>1 DEF OperateAt
<1>3. ASSUME secured = Users(call) \ {"buffer"}, NoMdls, AllChecked, todo = SecuringBuffer(call)
      PROVE  OperateAt
  <2>1. CASE "buffer" \in Users(call)
    <3>1. todo = Securing(call, "buffer")
        BY <1>1, <1>3, <2>1, SecuringBegins
    <3>2. SecuringAt("buffer")
        BY <1>3, <2>1, <3>1 DEF SecuringAt
    <3> QED  BY <1>1, <3>2 DEF OperateAt
  <2>2. CASE "buffer" \notin Users(call)
    <3>1. todo = Allocating(call, "process") /\ secured = Users(call)
        BY <1>1, <1>3, <2>2, SecuringBegins
    <3> QED  BY <1>2, <1>3, <3>1
  <2> QED  BY <2>1, <2>2
<1>4. ASSUME secured = {}, NoMdls, AllChecked, todo = SecuringBoth(call)
      PROVE  OperateAt
  <2>1. CASE "process" \in Users(call)
    <3>1. todo = Securing(call, "process")
        BY <1>1, <1>4, <2>1, SecuringBegins
    <3>2. SecuringAt("process")
        BY <1>4, <2>1, <3>1 DEF SecuringAt
    <3> QED  BY <1>1, <3>2 DEF OperateAt
  <2>2. CASE "process" \notin Users(call)
    <3>1. todo = SecuringBuffer(call)
        BY <1>1, <1>4, <2>2, SecuringBegins
    <3>2. Users(call) \ {"buffer"} = {}
        BY <1>1, <2>2 DEF Users
    <3> QED  BY <1>3, <1>4, <3>1, <3>2
  <2> QED  BY <2>1, <2>2
<1>5. ASSUME Operating, secured = {}, NoMdls, Checked("process"), todo = CheckingBuffer(call)
      PROVE  OperateAt
  <2>1. /\ call.process \in Ranges /\ call.buffer \in Ranges
        /\ call["process"] = call.process /\ call["buffer"] = call.buffer
      BY <1>1, <1>5, CallRanges
  <2>2. CASE IsKernelRange(call.buffer)
    <3>1. todo = From("buffer", 0, Len(call.buffer), SecuringBoth(call))
        BY <1>5, <2>1, <2>2, OperateStarts
    <3>2. 0 \in 0..Len(call.buffer) - 1
        BY <2>1, RangeFacts
    <3>3. Seen("buffer", 0)
        BY DEF Seen
    <3>4. CheckingAt("buffer", SecuringBoth(call))
        BY <1>5, <2>1, <3>1, <3>2, <3>3 DEF CheckingAt
    <3> QED  BY <1>5, <2>2, <3>4 DEF OperateAt
  <2>3. CASE ~IsKernelRange(call.buffer)
    <3>1. todo = SecuringBoth(call)
        BY <1>5, <2>1, <2>3, OperateStarts
    <3>2. AllChecked
        BY <1>1, <1>5, <2>1, <2>3 DEF AllChecked, Checked
    <3> QED  BY <1>4, <1>5, <3>1, <3>2
  <2> QED  BY <2>2, <2>3
<1> QED  BY <1>2, <1>3, <1>4, <1>5 DEF Follows

\* Where a side's descriptor list comes to when it is mapped, and when it is gone.
Leads ==
    \A s \in Sides : HeldAt(s) =>
       /\ mdl[s] = NoMdl /\ todo = After(call, s) => OperateAt
       /\ mdl[s].base \in {"mapped", "null"} /\ todo = Then(call, s) => OperateAt

LEMMA Leading == Leads
<1> SUFFICES ASSUME NEW s \in Sides, HeldAt(s)
             PROVE  /\ mdl[s] = NoMdl /\ todo = After(call, s) => OperateAt
                    /\ mdl[s].base \in {"mapped", "null"} /\ todo = Then(call, s) => OperateAt
    BY DEF Leads
<1>1. /\ "process" \in Sides /\ "buffer" \in Sides
      /\ \A t \in Sides : t = "process" \/ t = "buffer"
    BY DEF Sides
<1>2. ASSUME mdl[s] = NoMdl, todo = After(call, s), s = "process"
      PROVE  OperateAt
  <2>1. todo = UnsecureBoth(call) /\ NoMdls
      BY <1>1, <1>2, GivingBackBegins DEF HeldAt, Beside, NoMdls
  <2> QED  BY <2>1 DEF HeldAt, UnsecuringAt, OperateAt
<1>3. ASSUME mdl[s] = NoMdl, todo = After(call, s), s = "buffer"
      PROVE  OperateAt
  <2>1. todo = Unmapping(call, "process")
      BY <1>1, <1>3, GivingBackBegins
  <2>2. MdlAt("process")
      BY <1>3, <2>1 DEF HeldAt, Beside, MdlAt
  <2> QED  BY <1>1, <2>2 DEF OperateAt
<1>4. ASSUME mdl[s].base \in {"mapped", "null"}, todo = Then(call, s), s = "process"
      PROVE  OperateAt
  <2>1. todo = Allocating(call, "buffer")
      BY <1>1, <1>4, TakingBegins
  <2>2. MdlAt("buffer")
      BY <1>4, <2>1 DEF HeldAt, Beside, MdlAt
  <2> QED  BY <1>1, <2>2 DEF OperateAt
<1>5. ASSUME mdl[s].base \in {"mapped", "null"}, todo = Then(call, s), s = "buffer"
      PROVE  OperateAt
  <2>1. todo = Copying(call)
      BY <1>1, <1>5, TakingBegins
  <2>2. CopyingAt
      BY <1>1, <1>5, <2>1 DEF HeldAt, Beside, CopyingAt
  <2> QED  BY <2>2 DEF OperateAt
<1> QED  BY <1>1, <1>2, <1>3, <1>4, <1>5

LEMMA NextPlace == Follows' /\ Leads'
BY Entering, Leading, PTL

-----------------------------------------------------------------------------
(***************************************************************************)
(* What the steps leave alone.                                             *)
(***************************************************************************)

LEMMA SeenGrows ==
    ASSUME Observe, DOMAIN seen = {"frames", "present"}, call' = call, call # NoCall
    PROVE  /\ DOMAIN seen' = {"frames", "present"} /\ seen.present \subseteq seen'.present
           /\ \A s, k : Seen(s, k) => Seen(s, k)'
           /\ \A s : Checked(s) => Checked(s)'
           /\ AllChecked => AllChecked'
<1>1. DOMAIN seen' = {"frames", "present"} /\ seen.present \subseteq seen'.present
    BY DEF Observe
<1> QED  BY <1>1 DEF Seen, Checked, AllChecked

LEMMA FramesSame ==
    ASSUME LockInv, HomeInv, \A s \in Sides : mdl'[s].frames = mdl[s].frames,
           UNCHANGED <<locks, home>>, call' = call
    PROVE  LockInv' /\ HomeInv'
<1>1. "process" \in Sides /\ "buffer" \in Sides
    BY DEF Sides
<1>2. \A s \in Sides : \A f : Count(s, f)' = Count(s, f)
    BY DEF Count
<1>3. LockInv'
    BY <1>1, <1>2 DEF LockInv
<1>4. HomeInv'
    BY DEF HomeInv, Shows
<1> QED  BY <1>3, <1>4

LEMMA MachineSame ==
    ASSUME MachineInv, stopped' = "no", UNCHANGED <<mem, changes>>, DOMAIN seen' = {"frames", "present"}
    PROVE  MachineInv'
BY DEF MachineInv

LEMMA MdlSet ==
    ASSUME MdlInv, NEW s \in Sides, NEW frames, NEW base, SetMdl(s, frames, base)
    PROVE  /\ mdl'[s] = [frames |-> frames, base |-> base]
           /\ \A t \in Sides : t # s => mdl'[t] = mdl[t]
BY DEF MdlInv, SetMdl

\* A descriptor list that has frames has one for each page of its range.
LEMMA MdlKept ==
    ASSUME MdlInv, NEW s \in Sides, NEW frames, NEW base, SetMdl(s, frames, base), call' = call,
           base \in {"none", "allocated", "locked", "mapped", "null"}, frames \in Seq(Frames),
           IF base \in {"locked", "mapped", "null"} THEN Len(frames) = Len(call[s]) ELSE frames = <<>>
    PROVE  MdlInv'
BY DEF MdlInv, SetMdl, HasFrames

LEMMA MdlEmptied ==
    ASSUME MdlInv, NEW s \in Sides, NEW base \in {"none", "allocated"}, SetMdl(s, <<>>, base), call' = call
    PROVE  MdlInv'
<1>1. <<>> \in Seq(Frames)
    OBVIOUS
<1> QED  BY <1>1, MdlKept

LEMMA StillOperating ==
    ASSUME Operating, UNCHANGED <<call, inside>>
    PROVE  Operating' /\ call # NoCall
BY DEF Operating, CallTyped, NoCall, Ops

-----------------------------------------------------------------------------
(***************************************************************************)
(* The steps of OperateProcessMemory.                                      *)
(***************************************************************************)

LEMMA FreeStep ==
    ASSUME MemoryInv, FreeMdl, Observe
    PROVE  MemoryInv'
<1>1. PICK s \in Sides : AtMdl(s)
    BY StepPlace DEF MemoryInv, FreeMdl, Step, OperateMoves
<1>2. /\ Operating /\ HeldAt(s) /\ Side = s
      /\ todo' = After(call, s) /\ mdl[s].base = "allocated"
    BY <1>1, MdlPlace, StepPlace DEF MemoryInv, FreeMdl, Step, OperateMoves, Succeed, Side
<1>3. /\ SetMdl(s, <<>>, "none") /\ stopped' = "no"
      /\ UNCHANGED <<mem, home, locks, secured, inside, call, changes>>
    BY <1>2 DEF FreeMdl, Step, osVars
<1>4. Operating' /\ DOMAIN seen' = {"frames", "present"} /\ AllChecked'
    BY <1>2, <1>3, StillOperating, SeenGrows DEF MemoryInv, MachineInv, HeldAt
<1>5. mdl[s].frames = <<>> /\ mdl'[s] = NoMdl /\ \A t \in Sides : t # s => mdl'[t] = mdl[t]
    BY <1>2, <1>3, MdlSet DEF MemoryInv, MdlInv, HasFrames, NoMdl
<1>6. PlanInv'
  <2>1. HeldAt(s)'
      BY <1>2, <1>3, <1>4, <1>5 DEF HeldAt, Beside, Sides
  <2>2. OperateAt'
      BY <1>2, <1>3, <1>5, <2>1, NextPlace DEF Leads
  <2> QED  BY <1>4, <2>2 DEF PlanInv, Operating
<1>7. MdlInv'
    BY <1>3, MdlEmptied DEF MemoryInv
<1>8. LockInv' /\ HomeInv'
  <2>1. \A t \in Sides : mdl'[t].frames = mdl[t].frames
      BY <1>5 DEF NoMdl
  <2> QED  BY <1>3, <2>1, FramesSame DEF MemoryInv
<1>9. MachineInv'
    BY <1>3, <1>4, MachineSame DEF MemoryInv
<1> QED  BY <1>6, <1>7, <1>8, <1>9 DEF MemoryInv

LEMMA StillHeld ==
    ASSUME NEW s \in Sides, HeldAt(s), AllChecked', UNCHANGED <<secured, call>>,
           \A t \in Sides : t # s => mdl'[t] = mdl[t]
    PROVE  HeldAt(s)'
BY DEF HeldAt, Beside, Sides, Users

\* Every step with a descriptor list begins so.
LEMMA MdlStep ==
    ASSUME MemoryInv, Observe, todo # <<>>, UNCHANGED <<call, inside>>,
           NEW move \in {"allocate", "lock", "map", "unmap", "unlock", "free"}, Head(todo)[1] = move
    PROVE  /\ \E s \in Sides : AtMdl(s)
           /\ Operating /\ Operating' /\ DOMAIN seen' = {"frames", "present"} /\ AllChecked'
<1>1. PICK s \in Sides : AtMdl(s)
    BY StepPlace DEF MemoryInv, OperateMoves
<1>2. Operating /\ HeldAt(s)
    BY <1>1, MdlPlace, StepPlace DEF MemoryInv, OperateMoves
<1>3. Operating' /\ call # NoCall
    BY <1>2, StillOperating
<1>4. DOMAIN seen' = {"frames", "present"} /\ AllChecked'
    BY <1>2, <1>3, SeenGrows DEF MemoryInv, MachineInv, HeldAt
<1> QED  BY <1>1, <1>2, <1>3, <1>4

\* A step that moves neither the thread nor what it holds.
LEMMA PlanStands ==
    ASSUME PlanInv, DOMAIN seen = {"frames", "present"}, Observe,
           UNCHANGED <<call, todo, mdl, secured, inside>>
    PROVE  PlanInv'
<1>1. CASE call = NoCall /\ todo = <<>> /\ inside = "caller" /\ secured = {} /\ NoMdls
    BY <1>1 DEF PlanInv, NoMdls
<1>2. ASSUME CallTyped
      PROVE  /\ CallTyped' /\ NoMdls' = NoMdls
             /\ \A s, k : Seen(s, k) => Seen(s, k)'
             /\ \A s : Checked(s) => Checked(s)'
             /\ AllChecked => AllChecked'
  <2>1. call # NoCall
      BY <1>2 DEF CallTyped, NoCall, Ops
  <2> QED  BY <1>2, <2>1, SeenGrows DEF CallTyped, NoMdls
<1>3. CASE CallTyped /\ call.op = "operate" /\ inside = "caller" /\ OperateAt
  <2>1. \A s, rest : CheckingAt(s, rest) => (CheckingAt(s, rest))'
      BY <1>2, <1>3 DEF CheckingAt
  <2>2. \A s : (SecuringAt(s) => SecuringAt(s)') /\ (MdlAt(s) => MdlAt(s)')
      BY <1>2, <1>3 DEF SecuringAt, MdlAt, Beside, Users
  <2>3. (CopyingAt => CopyingAt') /\ (UnsecuringAt => UnsecuringAt')
      BY <1>2, <1>3 DEF CopyingAt, UnsecuringAt, Users
  <2>4. OperateAt'
      BY <1>2, <1>3, <2>1, <2>2, <2>3 DEF OperateAt
  <2> QED  BY <1>2, <1>3, <2>4 DEF PlanInv
<1>4. CASE CallTyped /\ call.op # "operate" /\ secured = {} /\ NoMdls /\ QuickAt
  <2>1. QuickAt'
      BY <1>2, <1>4 DEF QuickAt, CheckingAt
  <2> QED  BY <1>2, <1>4, <2>1 DEF PlanInv
<1> QED  BY <1>1, <1>3, <1>4 DEF PlanInv

LEMMA AllocateStep ==
    ASSUME MemoryInv, AllocateMdl, Observe
    PROVE  MemoryInv'
<1>1. UNCHANGED <<call, inside, mem, home, locks, secured, changes>> /\ stopped' = "no" /\ todo # <<>>
    BY DEF AllocateMdl, Step, osVars
<1>2. PICK s \in Sides : AtMdl(s)
    BY <1>1, MdlStep DEF AllocateMdl, Step
<1>3. /\ HeldAt(s) /\ Side = s /\ mdl[s] = NoMdl
      /\ Tail(todo) = Locking(call, s) /\ Head(todo) = <<"allocate", s>>
    BY <1>2, MdlPlace DEF AllocateMdl, Step, Side
<1>4. Operating' /\ DOMAIN seen' = {"frames", "present"} /\ AllChecked'
    BY <1>1, MdlStep DEF AllocateMdl, Step
<1>5. /\ PlanInv' /\ MdlInv' /\ \A t \in Sides : mdl'[t].frames = mdl[t].frames
  <2>1. CASE SetMdl(s, <<>>, "allocated") /\ todo' = Locking(call, s)
    <3>1. mdl'[s] = [frames |-> <<>>, base |-> "allocated"] /\ \A t \in Sides : t # s => mdl'[t] = mdl[t]
        BY <2>1, MdlSet DEF MemoryInv
    <3>2. HeldAt(s)'
        BY <1>1, <1>3, <1>4, <3>1, StillHeld
    <3>3. MdlAt(s)'
        BY <1>1, <2>1, <3>1, <3>2 DEF MdlAt, HeldAt
    <3>4. PlanInv'
        BY <1>4, <3>3 DEF PlanInv, Operating, OperateAt
    <3>5. MdlInv'
        BY <1>1, <2>1, MdlEmptied DEF MemoryInv
    <3> QED  BY <1>3, <3>1, <3>4, <3>5 DEF NoMdl
  <2>2. CASE UNCHANGED mdl /\ todo' = Undo(<<"allocate", s>>, call)
    <3>1. todo' = After(call, s)
        BY <2>2, UndoIs
    <3>2. HeldAt(s)'
        BY <1>1, <1>3, <1>4, <2>2, StillHeld
    <3>3. OperateAt'
        BY <1>1, <1>3, <2>2, <3>1, <3>2, NextPlace DEF Leads
    <3>4. PlanInv'
        BY <1>4, <3>3 DEF PlanInv, Operating
    <3>5. MdlInv'
        BY <1>1, <2>2 DEF MemoryInv, MdlInv, HasFrames
    <3> QED  BY <2>2, <3>4, <3>5
  <2> QED  BY <1>3, <2>1, <2>2 DEF AllocateMdl, Succeed, Fail
<1>6. LockInv' /\ HomeInv'
    BY <1>1, <1>5, FramesSame DEF MemoryInv
<1>7. MachineInv'
    BY <1>1, <1>4, MachineSame DEF MemoryInv
<1> QED  BY <1>5, <1>6, <1>7 DEF MemoryInv

LEMMA MapStep ==
    ASSUME MemoryInv, MapPages, Observe
    PROVE  MemoryInv'
<1>1. UNCHANGED <<call, inside, mem, home, locks, secured, changes>> /\ stopped' = "no" /\ todo # <<>>
    BY DEF MapPages, Step, osVars
<1>2. PICK s \in Sides : AtMdl(s)
    BY <1>1, MdlStep DEF MapPages, Step
<1>3. HeldAt(s) /\ Side = s /\ mdl[s].base = "locked" /\ Tail(todo) = Then(call, s)
    BY <1>2, MdlPlace DEF MapPages, Step, Side
<1>4. Operating' /\ DOMAIN seen' = {"frames", "present"} /\ AllChecked'
    BY <1>1, MdlStep DEF MapPages, Step
<1>5. PICK base \in {"mapped", "null"} : SetMdl(s, mdl[s].frames, base)
    BY <1>3 DEF MapPages
<1>6. /\ mdl'[s] = [frames |-> mdl[s].frames, base |-> base]
      /\ \A t \in Sides : t # s => mdl'[t] = mdl[t]
    BY <1>5, MdlSet DEF MemoryInv
<1>7. PlanInv'
  <2>1. HeldAt(s)'
      BY <1>1, <1>3, <1>4, <1>6, StillHeld
  <2>2. OperateAt'
      BY <1>1, <1>3, <1>6, <2>1, NextPlace DEF Leads, MapPages, Succeed
  <2> QED  BY <1>4, <2>2 DEF PlanInv, Operating
<1>8. MdlInv'
  <2>1. mdl[s].frames \in Seq(Frames) /\ Len(mdl[s].frames) = Len(call[s])
      BY <1>3 DEF MemoryInv, MdlInv, HasFrames
  <2> QED  BY <1>1, <1>5, <2>1, MdlKept DEF MemoryInv
<1>9. LockInv' /\ HomeInv'
  <2>1. \A t \in Sides : mdl'[t].frames = mdl[t].frames
      BY <1>6
  <2> QED  BY <1>1, <2>1, FramesSame DEF MemoryInv
<1>10. MachineInv'
    BY <1>1, <1>4, MachineSame DEF MemoryInv
<1> QED  BY <1>7, <1>8, <1>9, <1>10 DEF MemoryInv

LEMMA UnmapStep ==
    ASSUME MemoryInv, UnmapPages, Observe
    PROVE  MemoryInv'
<1>1. UNCHANGED <<call, inside, mem, home, locks, secured, changes>> /\ stopped = "no" /\ todo # <<>>
    BY DEF UnmapPages, Step, osVars
<1>2. PICK s \in Sides : AtMdl(s)
    BY <1>1, MdlStep DEF UnmapPages, Step
<1>3. /\ HeldAt(s) /\ Side = s /\ mdl[s].base \in {"mapped", "null"}
      /\ Tail(todo) = Unlocking(call, s)
    BY <1>2, MdlPlace DEF UnmapPages, Step, Side
<1>4. Operating /\ Operating' /\ DOMAIN seen' = {"frames", "present"} /\ AllChecked'
    BY <1>1, MdlStep DEF UnmapPages, Step
<1>5. CASE mdl[s].base = "null"
  <2>1. stopped' = "null" /\ UNCHANGED <<todo, mdl>>
      BY <1>3, <1>5 DEF UnmapPages
  <2>2. PlanInv' /\ MdlInv'
      BY <1>1, <2>1, PlanStands DEF MemoryInv, MachineInv, MdlInv, HasFrames
  <2>3. LockInv' /\ HomeInv'
      BY <1>1, <2>1, FramesSame DEF MemoryInv
  <2>4. MachineInv'
      BY <1>1, <1>4, <1>5, <2>1 DEF MemoryInv, MachineInv
  <2> QED  BY <2>2, <2>3, <2>4 DEF MemoryInv
<1>6. CASE mdl[s].base = "mapped"
  <2>1. todo' = Unlocking(call, s) /\ SetMdl(s, mdl[s].frames, "locked") /\ stopped' = "no"
      BY <1>1, <1>3, <1>6 DEF UnmapPages, Succeed
  <2>2. /\ mdl'[s] = [frames |-> mdl[s].frames, base |-> "locked"]
        /\ \A t \in Sides : t # s => mdl'[t] = mdl[t]
      BY <2>1, MdlSet DEF MemoryInv
  <2>3. PlanInv'
    <3>1. HeldAt(s)'
        BY <1>1, <1>3, <1>4, <2>2, StillHeld
    <3>2. MdlAt(s)'
        BY <1>1, <2>1, <2>2, <3>1 DEF MdlAt, HeldAt
    <3> QED  BY <1>4, <3>2 DEF PlanInv, Operating, OperateAt
  <2>4. MdlInv'
    <3>1. mdl[s].frames \in Seq(Frames) /\ Len(mdl[s].frames) = Len(call[s])
        BY <1>6 DEF MemoryInv, MdlInv, HasFrames
    <3> QED  BY <1>1, <2>1, <3>1, MdlKept DEF MemoryInv
  <2>5. LockInv' /\ HomeInv'
    <3>1. \A t \in Sides : mdl'[t].frames = mdl[t].frames
        BY <2>2
    <3> QED  BY <1>1, <3>1, FramesSame DEF MemoryInv
  <2>6. MachineInv'
      BY <1>1, <1>4, <2>1, MachineSame DEF MemoryInv
  <2> QED  BY <2>3, <2>4, <2>5, <2>6 DEF MemoryInv
<1> QED  BY <1>3, <1>5, <1>6

LEMMA CountFacts ==
    ASSUME MdlInv, NEW s \in Sides, NEW f
    PROVE  Count(s, f) \in Nat /\ (mdl[s].frames = <<>> => Count(s, f) = 0)
<1>1. mdl[s].frames \in Seq(Frames)
    BY DEF MdlInv
<1>2. DOMAIN mdl[s].frames = 1..Len(mdl[s].frames) /\ Len(mdl[s].frames) \in Nat
    BY <1>1
<1>3. IsFiniteSet(DOMAIN mdl[s].frames)
    BY <1>2, FS_Interval
<1>4. IsFiniteSet({i \in DOMAIN mdl[s].frames : mdl[s].frames[i] = f})
    BY <1>3, FS_Subset
<1>5. Count(s, f) \in Nat
    BY <1>4, FS_CardinalityType DEF Count
<1>6. ASSUME mdl[s].frames = <<>>
      PROVE  Count(s, f) = 0
  <2>1. {i \in DOMAIN mdl[s].frames : mdl[s].frames[i] = f} = {}
      BY <1>6
  <2> QED  BY <2>1, FS_EmptySet DEF Count
<1> QED  BY <1>5, <1>6

LEMMA CountNext ==
    ASSUME MdlInv', NEW s \in Sides, NEW f
    PROVE  mdl'[s].frames = <<>> => Count(s, f)' = 0
<1> SUFFICES ASSUME mdl'[s].frames = <<>> PROVE Count(s, f)' = 0
    OBVIOUS
<1>1. {i \in DOMAIN mdl'[s].frames : mdl'[s].frames[i] = f} = {}
    OBVIOUS
<1> QED  BY <1>1, FS_EmptySet DEF Count

LEMMA UnlockStep ==
    ASSUME MemoryInv, UnlockPages, Observe
    PROVE  MemoryInv'
<1>1. UNCHANGED <<call, inside, mem, home, secured, changes>> /\ stopped' = "no" /\ todo # <<>>
    BY DEF UnlockPages, Step, osVars
<1>2. PICK s \in Sides : AtMdl(s)
    BY <1>1, MdlStep DEF UnlockPages, Step
<1>3. /\ HeldAt(s) /\ Side = s /\ mdl[s].base = "locked" /\ Tail(todo) = Freeing(call, s)
    BY <1>2, MdlPlace DEF UnlockPages, Step, Side
<1>4. Operating' /\ DOMAIN seen' = {"frames", "present"} /\ AllChecked'
    BY <1>1, MdlStep DEF UnlockPages, Step
<1>5. /\ SetMdl(s, <<>>, "allocated") /\ todo' = Freeing(call, s)
      /\ locks' = [f \in Frames |-> locks[f] - Count(s, f)]
    BY <1>3 DEF UnlockPages, Succeed, Count
<1>6. /\ mdl'[s] = [frames |-> <<>>, base |-> "allocated"]
      /\ \A t \in Sides : t # s => mdl'[t] = mdl[t]
    BY <1>5, MdlSet DEF MemoryInv
<1>7. PlanInv'
  <2>1. HeldAt(s)'
      BY <1>1, <1>3, <1>4, <1>6, StillHeld
  <2>2. MdlAt(s)'
      BY <1>1, <1>5, <1>6, <2>1 DEF MdlAt, HeldAt
  <2> QED  BY <1>4, <2>2 DEF PlanInv, Operating, OperateAt
<1>8. MdlInv'
    BY <1>1, <1>5, MdlEmptied DEF MemoryInv
<1>9. LockInv'
  <2>1. \A f \in Frames : Count(s, f)' = 0
      BY <1>6, <1>8, CountNext
  <2>2. \A t \in Sides, f \in Frames : Count(t, f) \in Nat
      BY CountFacts DEF MemoryInv
  <2>3. \A t \in Sides, f \in Frames : t # s => Count(t, f)' = Count(t, f)
      BY <1>6 DEF Count
  <2>4. "process" \in Sides /\ "buffer" \in Sides /\ (s = "process" \/ s = "buffer")
      BY DEF Sides
  <2>5. \A f \in Frames : locks[f] = Count("process", f) + Count("buffer", f)
      BY DEF MemoryInv, LockInv
  <2>6. \A f \in Frames : locks'[f] = Count("process", f)' + Count("buffer", f)'
    <3>1. ASSUME NEW f \in Frames
          PROVE  /\ locks'[f] = locks[f] - Count(s, f)
                 /\ locks[f] = Count("process", f) + Count("buffer", f)
                 /\ Count("process", f) \in Nat /\ Count("buffer", f) \in Nat
        BY <1>5, <2>2, <2>4, <2>5
    <3>2. CASE s = "process"
      <4>1. \A f \in Frames : Count("process", f)' = 0 /\ Count("buffer", f)' = Count("buffer", f)
          BY <2>1, <2>3, <2>4, <3>2
      <4> QED  BY <3>1, <3>2, <4>1
    <3>3. CASE s = "buffer"
      <4>1. \A f \in Frames : Count("buffer", f)' = 0 /\ Count("process", f)' = Count("process", f)
          BY <2>1, <2>3, <2>4, <3>3
      <4> QED  BY <3>1, <3>3, <4>1
    <3> QED  BY <2>4, <3>2, <3>3
  <2>7. \A f \in Frames : locks'[f] \in Nat
      BY <1>5, <2>2, <2>4, <2>5
  <2>8. locks' \in [Frames -> Nat]
      BY <1>5, <2>7
  <2> QED  BY <2>6, <2>8 DEF LockInv
<1>10. HomeInv'
  <2>1. ASSUME NEW t \in Sides, NEW i \in DOMAIN mdl'[t].frames
        PROVE  Shows(call[t][i], mdl'[t].frames[i])
    <3>1. t # s
        BY <1>6, <2>1
    <3> QED  BY <1>6, <2>1, <3>1 DEF MemoryInv, HomeInv
  <2> QED  BY <1>1, <2>1 DEF MemoryInv, HomeInv, Shows
<1>11. MachineInv'
    BY <1>1, <1>4, MachineSame DEF MemoryInv
<1> QED  BY <1>7, <1>8, <1>9, <1>10, <1>11 DEF MemoryInv

LEMMA CopyStep ==
    ASSUME MemoryInv, CopyMemory, Observe
    PROVE  MemoryInv'
<1>1. UNCHANGED <<call, inside, mem, home, locks, secured, mdl, changes>> /\ stopped = "no" /\ todo # <<>>
    BY DEF CopyMemory, Step, osVars, lockVars
<1>2. Operating /\ AtCopy
    BY <1>1, StepPlace DEF MemoryInv, CopyMemory, Step, OperateMoves
<1>3. Operating' /\ DOMAIN seen' = {"frames", "present"} /\ AllChecked'
    BY <1>1, <1>2, StillOperating, SeenGrows DEF MemoryInv, MachineInv, AtCopy, CopyingAt
<1>4. MdlInv' /\ LockInv' /\ HomeInv'
    BY <1>1, FramesSame DEF MemoryInv, MdlInv, HasFrames
<1>5. CASE \E side \in Sides : mdl[side].base = "null"
  <2>1. stopped' = "null" /\ UNCHANGED todo
      BY <1>5 DEF CopyMemory
  <2>2. PlanInv'
      BY <1>1, <2>1, PlanStands DEF MemoryInv, MachineInv
  <2>3. MachineInv'
      BY <1>1, <1>3, <1>5, <2>1 DEF MemoryInv, MachineInv
  <2> QED  BY <1>4, <2>2, <2>3 DEF MemoryInv
<1>6. CASE ~\E side \in Sides : mdl[side].base = "null"
  <2>1. stopped' = "no" /\ todo' = Unmapping(call, "buffer")
      BY <1>1, <1>2, <1>6 DEF CopyMemory, Succeed, AtCopy, Begins
  <2>2. MdlAt("buffer")'
      BY <1>1, <1>2, <1>3, <2>1 DEF AtCopy, CopyingAt, MdlAt, Beside, Sides, Users
  <2>3. PlanInv'
      BY <1>3, <2>2 DEF PlanInv, Operating, OperateAt, Sides
  <2>4. MachineInv'
      BY <1>1, <1>3, <2>1, MachineSame DEF MemoryInv
  <2> QED  BY <1>4, <2>3, <2>4 DEF MemoryInv
<1> QED  BY <1>5, <1>6

LEMMA SecureStep ==
    ASSUME MemoryInv, SecureMemory, Observe
    PROVE  MemoryInv'
<1>1. /\ UNCHANGED <<call, inside, mem, home, locks, mdl, changes>> /\ stopped = "no" /\ stopped' = "no"
      /\ todo # <<>>
    BY DEF SecureMemory, Step, osVars
<1>2. Operating /\ \E s \in Sides : AtSecure(s)
    BY <1>1, StepPlace DEF MemoryInv, SecureMemory, Step, OperateMoves
<1>3. PICK s \in Sides : AtSecure(s)
    BY <1>2
<1>4. /\ Head(todo) = <<"secure", s>> /\ Side = s /\ SecuringAt(s)
      /\ Tail(todo) = IF s = "buffer" THEN Allocating(call, "process") ELSE SecuringBuffer(call)
    BY <1>3 DEF AtSecure, Begins, Side
<1>5. Operating' /\ DOMAIN seen' = {"frames", "present"} /\ AllChecked' /\ NoMdls'
    BY <1>1, <1>2, <1>4, StillOperating, SeenGrows DEF MemoryInv, MachineInv, SecuringAt, NoMdls
<1>6. MdlInv' /\ LockInv' /\ HomeInv'
    BY <1>1, FramesSame DEF MemoryInv, MdlInv, HasFrames
<1>7. MachineInv'
    BY <1>1, <1>5, MachineSame DEF MemoryInv
<1>8. s = "process" \/ s = "buffer"
    BY DEF Sides
<1>9. ASSUME secured' = secured \union {s} /\ todo' = Tail(todo)
      PROVE  PlanInv'
  <2>1. CASE s = "process"
    <3>1. todo' = SecuringBuffer(call') /\ secured' = Users(call') \ {"buffer"}
        BY <1>1, <1>4, <1>9, <2>1 DEF SecuringAt, Users, Sides
    <3>2. OperateAt'
        BY <1>5, <3>1, NextPlace DEF Follows
    <3> QED  BY <1>5, <3>2 DEF PlanInv, Operating
  <2>2. CASE s = "buffer"
    <3>1. todo' = Allocating(call', "process") /\ secured' = Users(call')
        BY <1>1, <1>4, <1>9, <2>2 DEF SecuringAt, Users, Sides
    <3>2. OperateAt'
        BY <1>5, <3>1, NextPlace DEF Follows
    <3> QED  BY <1>5, <3>2 DEF PlanInv, Operating
  <2> QED  BY <1>8, <2>1, <2>2
<1>10. ASSUME secured' = secured /\ todo' = Undo(<<"secure", s>>, call)
       PROVE  PlanInv'
  <2>1. todo' = IF s = "process" THEN <<>> ELSE Unsecure("process", call)
      BY <1>10, UndoIs
  <2>2. CASE s = "process"
      BY <1>4, <1>5, <1>10, <2>1, <2>2 DEF SecuringAt, OperateAt, PlanInv, Operating
  <2>3. CASE s = "buffer"
    <3>1. todo' = Unsecure("process", call') /\ secured' = Users(call') \ {"buffer"}
        BY <1>1, <1>4, <1>10, <2>1, <2>3 DEF SecuringAt, Users
    <3>2. OperateAt'
        BY <1>5, <3>1 DEF OperateAt, UnsecuringAt
    <3> QED  BY <1>5, <3>2 DEF PlanInv, Operating
  <2> QED  BY <1>8, <2>2, <2>3
<1>11. \/ secured' = secured \union {s} /\ todo' = Tail(todo)
       \/ secured' = secured /\ todo' = Undo(<<"secure", s>>, call)
  <2>1. \/ secured' = secured \union {Side} /\ todo' = Tail(todo)
        \/ secured' = secured /\ todo' = Undo(Head(todo), call)
      BY DEF SecureMemory, Succeed, Fail
  <2> QED  BY <1>4, <2>1
<1>12. PlanInv'
    BY <1>9, <1>10, <1>11
<1> QED  BY <1>6, <1>7, <1>12 DEF MemoryInv

LEMMA UnsecureStep ==
    ASSUME MemoryInv, UnsecureMemory, Observe
    PROVE  MemoryInv'
<1>1. /\ UNCHANGED <<call, inside, mem, home, locks, mdl, changes>> /\ stopped = "no" /\ stopped' = "no"
      /\ todo # <<>>
    BY DEF UnsecureMemory, Step, osVars
<1>2. Operating /\ \E s \in Sides : AtUnsecure(s)
    BY <1>1, StepPlace DEF MemoryInv, UnsecureMemory, Step, OperateMoves
<1>3. PICK s \in Sides : AtUnsecure(s)
    BY <1>2
<1>4. Side = s /\ NoMdls /\ todo' = Tail(todo) /\ secured' = secured \ {s}
    BY <1>3 DEF AtUnsecure, Begins, Side, UnsecureMemory, Succeed
<1>5. Operating' /\ DOMAIN seen' = {"frames", "present"} /\ NoMdls'
    BY <1>1, <1>2, <1>4, StillOperating, SeenGrows DEF MemoryInv, MachineInv, NoMdls
<1>6. MdlInv' /\ LockInv' /\ HomeInv'
    BY <1>1, FramesSame DEF MemoryInv, MdlInv, HasFrames
<1>7. MachineInv'
    BY <1>1, <1>5, MachineSame DEF MemoryInv
<1>8. OperateAt'
  <2>1. CASE s = "process" /\ secured = Users(call) /\ Tail(todo) = Unsecure("buffer", call)
      BY <1>1, <1>4, <1>5, <2>1 DEF OperateAt, UnsecuringAt, Users
  <2>2. CASE secured = {s} /\ Tail(todo) = <<>>
    <3>1. secured' = {}
        BY <1>4, <2>2
    <3> QED  BY <1>4, <1>5, <2>2, <3>1 DEF OperateAt
  <2> QED  BY <1>3, <2>1, <2>2 DEF AtUnsecure, Begins
<1>9. PlanInv'
    BY <1>5, <1>8 DEF PlanInv, Operating
<1> QED  BY <1>6, <1>7, <1>9 DEF MemoryInv

\* A range names each of its pages once, so the entries of a descriptor list
\* that name a frame are as many as the pages that have it.
PagesAt(r, h, f) == {page \in PagesOf(r) : h[page] = f}
PlacesAt(r, h, f) == {i \in 1..Len(r) : h[r[i]] = f}

LEMMA PagesCounted ==
    ASSUME NEW r \in Ranges, NEW h, NEW f
    PROVE  /\ Cardinality(PagesAt(r, h, f)) = Cardinality(PlacesAt(r, h, f))
           /\ Cardinality(PagesAt(r, h, f)) \in Nat
<1> DEFINE I == {i \in 1..Len(r) : h[r[i]] = f}
           P == {page \in PagesOf(r) : h[page] = f}
           b == [i \in I |-> r[i]]
<1>1. IsFiniteSet(I)
  <2>1. Len(r) \in Nat
      BY RangeFacts
  <2>2. IsFiniteSet(1..Len(r))
      BY <2>1, FS_Interval
  <2> QED  BY <2>2, FS_Subset
<1>2. b \in [I -> P]
    BY DEF PagesOf
<1>3. \A i, j \in I : b[i] = b[j] => i = j
    BY RangeFacts
<1>4. \A page \in P : \E i \in I : b[i] = page
    BY DEF PagesOf
<1>5. ExistsBijection(I, P)
  <2>1. b \in Injection(I, P)
      BY <1>2, <1>3 DEF Injection, IsInjective
  <2>2. b \in Surjection(I, P)
      BY <1>2, <1>4 DEF Surjection
  <2> QED  BY <2>1, <2>2 DEF ExistsBijection, Bijection
<1> HIDE DEF I, P, b
<1>6. Cardinality(P) = Cardinality(I) /\ Cardinality(I) \in Nat
    BY <1>1, <1>5, FS_Bijection, FS_CardinalityType
<1> QED  BY <1>6 DEF I, P, PagesAt, PlacesAt

LEMMA EntriesAre ==
    /\ Zero \in Entries /\ \A f \in Nat : Present(f) \in Entries
    /\ \A f \in Frames : Present(f) \in Entries
    /\ \A p, ps, pat \in BOOLEAN, f \in Nat : Entry(p, ps, pat, f) \in Entries
<1>1. \A p, ps, pat \in BOOLEAN, f \in Nat : Entry(p, ps, pat, f) \in Entries
    BY DEF Entry, Entries
<1>2. \A f \in Nat : Present(f) \in Entries
    BY DEF Entry, Entries, Present
<1>3. Zero \in Entries
    BY DEF Entry, Entries, Zero
<1>4. Frames \subseteq Nat
    BY ProcessMemoryAssumption
<1> QED  BY <1>1, <1>2, <1>3, <1>4

LEMMA ProbeKeepsEntries ==
    ASSUME mem \in [Tables -> [Index -> Entries]], ProbeAndLock
    PROVE  mem' \in [Tables -> [Index -> Entries]]
<1> DEFINE ps == PagesOf(OwnRange)
<1>1. PICK h \in [ps -> Frames] :
         mem' = [t \in Tables |-> [i \in Index |->
             IF \E page \in ps : HasLeaf(page) /\ LastTable[page[1]] = t /\ page[2][4] = i
             THEN Present((CHOOSE page \in {<<q, h[q]>> : q \in ps} :
                              LastTable[page[1][1]] = t /\ page[1][2][4] = i)[2])
             ELSE mem[t][i]]]
    BY DEF ProbeAndLock
<1>2. ASSUME NEW t \in Tables, NEW i \in Index, NEW page \in ps, LastTable[page[1]] = t, page[2][4] = i
      PROVE  (CHOOSE x \in {<<q, h[q]>> : q \in ps} : LastTable[x[1][1]] = t /\ x[1][2][4] = i)[2] \in Frames
  <2> DEFINE X == {<<q, h[q]>> : q \in ps}
             OK(x) == LastTable[x[1][1]] = t /\ x[1][2][4] = i
  <2>1. <<page, h[page]>> \in X /\ OK(<<page, h[page]>>)
      BY <1>2
  <2>2. \A x \in X : x[2] \in Frames
      OBVIOUS
  <2> HIDE DEF X, OK
  <2>3. (CHOOSE x \in X : OK(x)) \in X
      BY <2>1
  <2>4. (CHOOSE x \in X : OK(x))[2] \in Frames
      BY <2>2, <2>3
  <2> QED  BY <2>4 DEF X, OK
<1>3. ASSUME NEW t \in Tables, NEW i \in Index
      PROVE  mem'[t][i] \in Entries
  <2> DEFINE c == CHOOSE page \in {<<q, h[q]>> : q \in ps} :
                      LastTable[page[1][1]] = t /\ page[1][2][4] = i
             found == \E page \in ps : HasLeaf(page) /\ LastTable[page[1]] = t /\ page[2][4] = i
  <2>1. mem'[t][i] = IF found THEN Present(c[2]) ELSE mem[t][i]
      BY <1>1
  <2>2. found => c[2] \in Frames
      BY <1>2
  <2>3. mem[t][i] \in Entries
      OBVIOUS
  <2> HIDE DEF c, found
  <2> QED  BY <2>1, <2>2, <2>3, EntriesAre
<1>4. /\ mem' = [t \in Tables |-> mem'[t]]
      /\ \A t \in Tables : mem'[t] = [i \in Index |-> mem'[t][i]]
    BY <1>1
<1> QED  BY <1>3, <1>4

LEMMA ProbeStep ==
    ASSUME MemoryInv, NEW s \in Sides, HeldAt(s), Operating, AllChecked', DOMAIN seen' = {"frames", "present"},
           Side = s, mdl[s].base = "allocated", ProbeAndLock,
           \A page \in PagesOf(call[s]) : home[page] # Nowhere,
           todo' = Mapping(call, s), UNCHANGED <<call, inside, secured, changes>>, stopped' = "no"
    PROVE  MemoryInv'
<1> DEFINE r == OwnRange
<1>1. r \in Ranges /\ call[s] = r
    BY CallRanges DEF OwnRange
<1>2. PICK h \in [PagesOf(r) -> Frames] :
       /\ \A page \in PagesOf(r) : Resident(page) => h[page] = home[page]
       /\ home' = [page \in Pages |-> IF page \in PagesOf(r) THEN h[page] ELSE home[page]]
       /\ locks' = [f \in Frames |-> locks[f] + Cardinality({page \in PagesOf(r) : h[page] = f})]
       /\ SetMdl(s, [i \in 1..Len(r) |-> h[r[i]]], "locked")
    BY DEF ProbeAndLock
<1> DEFINE fs == [i \in 1..Len(r) |-> h[r[i]]]
<1>3. /\ mdl'[s] = [frames |-> fs, base |-> "locked"]
      /\ \A t \in Sides : t # s => mdl'[t] = mdl[t]
    BY <1>2, MdlSet DEF MemoryInv
<1> HIDE DEF r
<1>4. /\ Len(r) \in Nat /\ PagesOf(r) \subseteq Pages
      /\ \A i \in 1..Len(r) : r[i] \in PagesOf(r)
    BY <1>1, RangeFacts
<1>5. fs \in Seq(Frames) /\ Len(fs) = Len(r)
  <2>1. fs \in [1..Len(r) -> Frames]
      BY <1>4
  <2>2. \A m \in Nat : \A f \in [1..m -> Frames] : f \in Seq(Frames) /\ Len(f) = m
      OBVIOUS
  <2> HIDE DEF fs
  <2> QED  BY <1>4, <2>1, <2>2
<1>6. PlanInv'
  <2>1. HeldAt(s)'
      BY <1>3, StillHeld
  <2>2. MdlAt(s)'
      BY <1>3, <2>1 DEF MdlAt, HeldAt
  <2>3. Operating'
      BY StillOperating
  <2> QED  BY <2>2, <2>3 DEF PlanInv, Operating, OperateAt
<1>7. MdlInv'
  <2>1. SetMdl(s, fs, "locked")
      BY <1>2
  <2> HIDE DEF fs
  <2> QED  BY <1>1, <1>5, <2>1, MdlKept DEF MemoryInv
<1>8. LockInv'
  <2>1. \A f \in Frames : Count(s, f) = 0
    <3>1. mdl[s].frames = <<>>
        BY DEF MemoryInv, MdlInv, HasFrames
    <3> QED  BY <3>1, CountFacts DEF MemoryInv
  <2>2. ASSUME NEW f \in Frames
        PROVE  /\ locks'[f] = locks[f] + Count(s, f)' /\ Count(s, f)' \in Nat
    <3>1. DOMAIN mdl'[s].frames = 1..Len(r) /\ \A i \in 1..Len(r) : mdl'[s].frames[i] = h[r[i]]
        BY <1>3
    <3>2. {i \in DOMAIN mdl'[s].frames : mdl'[s].frames[i] = f} = {i \in 1..Len(r) : h[r[i]] = f}
        BY <3>1
    <3>3. Count(s, f)' = Cardinality({i \in 1..Len(r) : h[r[i]] = f})
        BY <3>2 DEF Count
    <3>4. Count(s, f)' = Cardinality({page \in PagesOf(r) : h[page] = f}) /\ Count(s, f)' \in Nat
      <4>1. /\ Cardinality(PagesAt(r, h, f)) = Cardinality(PlacesAt(r, h, f))
            /\ Cardinality(PagesAt(r, h, f)) \in Nat
          BY <1>1, PagesCounted
      <4> QED  BY <3>3, <4>1 DEF PagesAt, PlacesAt
    <3> QED  BY <1>2, <3>4
  <2>3. \A t \in Sides, f \in Frames : t # s => Count(t, f)' = Count(t, f)
      BY <1>3 DEF Count
  <2>4. "process" \in Sides /\ "buffer" \in Sides /\ (s = "process" \/ s = "buffer")
      BY DEF Sides
  <2>5. \A t \in Sides, f \in Frames : Count(t, f) \in Nat
      BY CountFacts DEF MemoryInv
  <2>6. \A f \in Frames : locks[f] = Count("process", f) + Count("buffer", f)
      BY DEF MemoryInv, LockInv
  <2>7. ASSUME NEW f \in Frames
        PROVE  locks'[f] = Count("process", f)' + Count("buffer", f)' /\ locks'[f] \in Nat
    <3>1. CASE s = "process"
      <4>1. locks[f] = Count("buffer", f)' /\ Count("buffer", f)' \in Nat
          BY <2>1, <2>3, <2>4, <2>5, <2>6, <3>1
      <4> QED  BY <2>2, <3>1, <4>1
    <3>2. CASE s = "buffer"
      <4>1. locks[f] = Count("process", f)' /\ Count("process", f)' \in Nat
          BY <2>1, <2>3, <2>4, <2>5, <2>6, <3>2
      <4> QED  BY <2>2, <3>2, <4>1
    <3> QED  BY <2>4, <3>1, <3>2
  <2>8. locks' \in [Frames -> Nat]
      BY <1>2, <2>7
  <2> QED  BY <2>7, <2>8 DEF LockInv
<1>9. HomeInv'
  <2>1. home' \in [Pages -> Frames \union {OnDisk, Nowhere}]
      BY <1>2, <1>4 DEF MemoryInv, HomeInv
  <2>2. ASSUME NEW t \in Sides, NEW i \in DOMAIN mdl'[t].frames
        PROVE  Shows(call[t][i], mdl[t].frames[i])'
    <3>1. CASE t = s
      <4>1. i \in 1..Len(r) /\ mdl'[t].frames[i] = h[r[i]]
          BY <1>3, <2>2, <3>1
      <4>2. home'[r[i]] = h[r[i]]
          BY <1>2, <1>4, <4>1
      <4> QED  BY <1>1, <3>1, <4>1, <4>2 DEF Shows
    <3>2. CASE t # s
      <4>1. Shows(call[t][i], mdl[t].frames[i]) /\ mdl'[t] = mdl[t] /\ mdl[t].frames[i] \in Frames
        <5>1. mdl'[t] = mdl[t] /\ mdl[t].frames \in Seq(Frames)
            BY <1>3, <3>2 DEF MemoryInv, MdlInv
        <5> QED  BY <2>2, <5>1 DEF MemoryInv, HomeInv
      <4>2. call[t][i] \in Pages
        <5>1. mdl[t].frames # <<>>
            BY <2>2, <4>1
        <5>2. DOMAIN mdl[t].frames = 1..Len(call[t])
            BY <5>1 DEF MemoryInv, MdlInv
        <5> QED  BY <2>2, <4>1, <5>2, CallRanges, RangeFacts
      <4>3. CASE call[t][i] \in PagesOf(r)
          BY <1>1, <1>2, <4>1, <4>2, <4>3 DEF Shows, Resident, PagesOf
      <4>4. CASE call[t][i] \notin PagesOf(r)
          BY <1>2, <4>1, <4>2, <4>4 DEF Shows
      <4> QED  BY <4>3, <4>4
    <3> QED  BY <3>1, <3>2
  <2> QED  BY <2>1, <2>2 DEF HomeInv
<1>10. MachineInv'
    BY ProbeKeepsEntries DEF MemoryInv, MachineInv
<1> QED  BY <1>6, <1>7, <1>8, <1>9, <1>10 DEF MemoryInv

LEMMA LockStep ==
    ASSUME MemoryInv, LockPages, Observe
    PROVE  MemoryInv'
<1>1. UNCHANGED <<call, inside, secured, changes>> /\ stopped = "no" /\ todo # <<>>
    BY DEF LockPages, Step
<1>2. PICK s \in Sides : AtMdl(s)
    BY <1>1, MdlStep DEF LockPages, Step
<1>3. /\ HeldAt(s) /\ Side = s /\ mdl[s].base = "allocated"
      /\ Tail(todo) = Mapping(call, s) /\ Head(todo) = <<"lock", s>>
    BY <1>2, MdlPlace DEF LockPages, Step, Side
<1>4. Operating /\ Operating' /\ DOMAIN seen' = {"frames", "present"} /\ AllChecked'
    BY <1>1, MdlStep DEF LockPages, Step
<1>5. CASE /\ \A page \in PagesOf(OwnRange) : home[page] # Nowhere
           /\ ProbeAndLock /\ todo' = Tail(todo) /\ stopped' = stopped
  <2>1. \A page \in PagesOf(call[s]) : home[page] # Nowhere
      BY <1>3, <1>5 DEF OwnRange
  <2> QED  BY <1>1, <1>3, <1>4, <1>5, <2>1, ProbeStep
<1>6. CASE todo' = Undo(Head(todo), call) /\ UNCHANGED <<mem, home, locks, mdl, stopped>>
  <2>1. todo' = Freeing(call, s)
      BY <1>3, <1>6, UndoIs
  <2>2. HeldAt(s)'
      BY <1>1, <1>3, <1>4, <1>6, StillHeld
  <2>3. MdlAt(s)'
      BY <1>1, <1>3, <1>6, <2>1, <2>2 DEF MdlAt, HeldAt
  <2>4. PlanInv'
      BY <1>4, <2>3 DEF PlanInv, Operating, OperateAt
  <2>5. MdlInv' /\ LockInv' /\ HomeInv'
      BY <1>1, <1>6, FramesSame DEF MemoryInv, MdlInv, HasFrames
  <2>6. MachineInv'
      BY <1>1, <1>4, <1>6, MachineSame DEF MemoryInv
  <2> QED  BY <2>4, <2>5, <2>6 DEF MemoryInv
<1>7. CASE /\ IsKernelRange(OwnRange) /\ stopped' = "fault"
           /\ UNCHANGED <<mem, home, locks, mdl, todo>>
  <2>1. PlanInv'
      BY <1>1, <1>7, PlanStands DEF MemoryInv, MachineInv
  <2>2. MdlInv' /\ LockInv' /\ HomeInv'
      BY <1>1, <1>7, FramesSame DEF MemoryInv, MdlInv, HasFrames
  <2>3. Side' = Side /\ IsKernelRange(OwnRange)'
      BY <1>1, <1>7 DEF Side, OwnRange
  <2>4. MachineInv'
      BY <1>1, <1>3, <1>4, <1>7, <2>3 DEF MemoryInv, MachineInv
  <2> QED  BY <2>1, <2>2, <2>4 DEF MemoryInv
<1> QED  BY <1>5, <1>6, <1>7 DEF LockPages, Succeed, Fail, osVars

\* The page that a check finds is one that was present during the call.
LEMMA CheckSees ==
    ASSUME Observe, DOMAIN seen = {"frames", "present"}, CallTyped, UNCHANGED <<call, mem>>,
           NEW s \in Sides, NEW i \in 1..Len(call[s]),
           \/ call.op = "operate" /\ IsKernelRange(call[s])
           \/ call.op = "present" /\ s = "process",
           Translation(mem, Root["caller"], call[s][i][2]) # None
    PROVE  call[s][i] \in seen'.present
<1> DEFINE page == call[s][i]
           Is(p) == Translation(mem', Root[IF p[1] = "target" THEN p[1] ELSE "caller"], p[2])
<1>1. call # NoCall /\ call[s] \in Ranges
    BY DEF CallTyped, NoCall, Ops, Allowed, Sides
<1>2. page \in PagesOf(call[s]) /\ page[1] = call[s][1][1] /\ IsKernelAddress(page[2]) = IsKernelRange(call[s])
    BY <1>1, RangeFacts
<1>3. page[1] # "target"
  <2>1. CASE call.op = "operate"
      BY <1>1, <2>1, RangeFacts
  <2>2. CASE call.op = "present" /\ s = "process"
      BY <1>2, <2>2 DEF CallTyped, Allowed
  <2> QED  BY <2>1, <2>2
<1>4. Is(page) # None
    BY <1>3
<1>5. page \in Watched(call)
  <2>1. CASE call.op = "operate" /\ IsKernelRange(call[s])
      BY <1>2, <2>1 DEF Watched, Sides
  <2>2. CASE call.op = "present" /\ s = "process"
      BY <1>2, <2>2 DEF Watched
  <2> QED  BY <2>1, <2>2
<1>6. call.op \notin {"translate", "native"}
    OBVIOUS
<1>7. seen' = [seen EXCEPT !.present = @ \union {p \in Watched(call') : Is(p) # None}]
    BY <1>1, <1>6 DEF Observe
<1> HIDE DEF Is, page
<1>8. page \in seen'.present
    BY <1>4, <1>5, <1>7
<1> QED  BY <1>8 DEF page

LEMMA CheckStep ==
    ASSUME MemoryInv, CheckPage, Observe
    PROVE  MemoryInv'
<1>1. /\ UNCHANGED <<call, inside, mem, home, locks, secured, mdl, changes>>
      /\ stopped = "no" /\ stopped' = "no" /\ todo # <<>> /\ Head(todo)[1] = "check"
      /\ DOMAIN seen = {"frames", "present"}
    BY DEF CheckPage, Step, osVars, lockVars, MemoryInv, MachineInv
<1>2. MdlInv' /\ LockInv' /\ HomeInv'
    BY <1>1, FramesSame DEF MemoryInv, MdlInv, HasFrames
<1>3. CallTyped /\ call # NoCall
    BY <1>1 DEF MemoryInv, PlanInv, CallTyped, NoCall, Ops
<1>4. /\ DOMAIN seen' = {"frames", "present"} /\ NoMdls' = NoMdls /\ CallTyped'
      /\ \A s, k : Seen(s, k) => Seen(s, k)'
      /\ \A s : Checked(s) => Checked(s)'
    BY <1>1, <1>3, SeenGrows DEF NoMdls, CallTyped
<1>5. MachineInv'
    BY <1>1, <1>4, MachineSame DEF MemoryInv
<1>6. ASSUME NEW s \in Sides, NEW k \in Nat, NEW rest, Seen(s, k), k + 1 \in 1..Len(call[s]), inside = "caller",
             \/ call.op = "operate" /\ IsKernelRange(call[s])
             \/ call.op = "present" /\ s = "process",
             Begins(todo, <<"check", s, k + 1>>, rest)
      PROVE  todo' = <<>> \/ (todo' = rest /\ Seen(s, k + 1)')
  <2>1. Head(todo) = <<"check", s, k + 1>> /\ Tail(todo) = rest /\ Side = s /\ Head(todo)[3] = k + 1
      BY <1>6 DEF Begins, Side
  <2>2. CASE Translation(mem, Root[inside], OwnRange[Head(todo)[3]][2]) = None
    <3>1. todo' = Undo(<<"check", s, k + 1>>, call)
        BY <2>1, <2>2 DEF CheckPage, Fail
    <3> QED  BY <3>1, UndoIs
  <2>3. CASE Translation(mem, Root[inside], OwnRange[Head(todo)[3]][2]) # None
    <3>1. Translation(mem, Root["caller"], call[s][k + 1][2]) # None
        BY <1>6, <2>1, <2>3 DEF OwnRange
    <3>2. call[s][k + 1] \in seen'.present
        BY <1>1, <1>3, <1>6, <3>1, CheckSees
    <3>3. Seen(s, k)'
        BY <1>4, <1>6
    <3>4. \A i \in 1..k + 1 : i \in 1..k \/ i = k + 1
        OBVIOUS
    <3>5. Seen(s, k + 1)'
        BY <1>1, <3>2, <3>3, <3>4 DEF Seen
    <3> QED  BY <2>1, <2>3, <3>5 DEF CheckPage, Succeed
  <2> QED  BY <2>2, <2>3
<1>7. ASSUME call.op = "operate"
      PROVE  PlanInv'
  <2>1. Operating /\ OperateAt
      BY <1>3, <1>7 DEF MemoryInv, PlanInv, Operating
  <2>2. PICK s \in Sides, k \in Nat : AtCheck(s, k)
    <3>1. PICK s \in Sides : \/ \E k \in Nat : AtCheck(s, k)
                             \/ AtSecure(s) \/ AtMdl(s) \/ AtCopy \/ AtUnsecure(s)
        BY <1>1, <2>1, OperatePlaces
    <3>2. /\ AtSecure(s) => Head(todo)[1] = "secure"
          /\ AtUnsecure(s) => Head(todo)[1] = "unsecure"
          /\ AtMdl(s) => Head(todo)[1] \in {"allocate", "lock", "map", "unmap", "unlock", "free"}
          /\ AtCopy => Head(todo)[1] = "copy"
        BY DEF AtSecure, AtUnsecure, AtMdl, AtCopy, Begins
    <3> QED  BY <1>1, <3>1, <3>2
  <2> DEFINE n == Len(call[s])
             rest == RestOf(s)
  <2>3. n \in Nat \ {0} /\ rest \in Seq(Moves) /\ call[s] \in Ranges
    <3>1. call.process \in Ranges /\ call.buffer \in Ranges
        BY <2>1, CallRanges DEF Sides
    <3> QED  BY <2>1, <3>1, CallRanges, RangeFacts, OperateStarts DEF RestOf
  <2>4. Operating' /\ secured' = {} /\ NoMdls'
      BY <1>1, <1>4, <2>1, <2>2 DEF AtCheck, Operating
  <2>5. todo' = <<>> \/ (todo' = From(s, k + 1, n, rest) /\ Seen(s, k + 1)')
      BY <1>6, <1>7, <2>1, <2>2 DEF AtCheck, Operating
  <2>6. CASE todo' = <<>>
      BY <2>4, <2>6 DEF OperateAt, PlanInv, Operating
  <2>7. CASE todo' = From(s, k + 1, n, rest) /\ Seen(s, k + 1)' /\ k + 1 # n
    <3>1. k + 1 \in 0..n - 1
        BY <2>2, <2>3, <2>7 DEF AtCheck
    <3>2. CheckingAt(s, RestOf(s))'
      <4>1. todo' = From(s, k + 1, Len(call'[s]), RestOf(s)')
          BY <1>1, <2>7 DEF RestOf
      <4>2. k + 1 \in 0..Len(call'[s]) - 1
          BY <1>1, <3>1
      <4> QED  BY <2>4, <2>7, <4>1, <4>2 DEF CheckingAt
    <3>3. IsKernelRange(call[s]) /\ (s = "buffer" => Checked("process")')
        BY <1>4, <2>2 DEF AtCheck
    <3>4. OperateAt'
        BY <1>1, <3>2, <3>3 DEF OperateAt, RestOf, Sides
    <3> QED  BY <2>4, <3>4 DEF PlanInv, Operating
  <2>8. CASE todo' = From(s, k + 1, n, rest) /\ Seen(s, k + 1)' /\ k + 1 = n
    <3>1. From(s, n, n, rest) = rest
      <4>1. 0 \in 0..n - 1
          BY <2>3
      <4> QED  BY <2>3, <4>1, ChecksBegin
    <3>2. todo' = RestOf(s)' /\ Checked(s)'
        BY <1>1, <2>8, <3>1 DEF RestOf, Seen, Checked, PagesOf
    <3>3. CASE s = "process"
      <4>1. OperateAt'
          BY <2>4, <3>2, <3>3, NextPlace DEF Follows, RestOf
      <4> QED  BY <2>4, <4>1 DEF PlanInv, Operating
    <3>4. CASE s = "buffer"
      <4>1. AllChecked'
          BY <1>4, <2>2, <3>2, <3>4 DEF AtCheck, AllChecked, Sides
      <4>2. OperateAt'
          BY <2>4, <3>2, <3>4, <4>1, NextPlace DEF Follows, RestOf
      <4> QED  BY <2>4, <4>2 DEF PlanInv, Operating
    <3> QED  BY <3>3, <3>4 DEF Sides
  <2> QED  BY <2>5, <2>6, <2>7, <2>8
<1>8. ASSUME call.op # "operate"
      PROVE  PlanInv'
  <2> DEFINE n == Len(call.process)
  <2>1. CallTyped /\ secured = {} /\ NoMdls /\ QuickAt
      BY <1>3, <1>8 DEF MemoryInv, PlanInv
  <2>2. n \in Nat \ {0} /\ call.process \in Ranges /\ "process" \in Sides /\ <<>> \in Seq(Moves)
    <3>1. call.process \in Ranges
        BY <1>3 DEF CallTyped
    <3>2. n \in Nat \ {0}
        BY <3>1, RangeFacts
    <3> QED  BY <3>1, <3>2 DEF Sides
  <2>3. inside = "caller" /\ call.op = "present" /\ CheckingAt("process", <<>>)
    <3>1. todo \notin CallerPlans
        BY <1>1 DEF CallerPlans
    <3>2. todo \notin AttachPlans
        BY <1>1 DEF AttachPlans
    <3>3. todo \notin TargetPlans
        BY <1>1 DEF TargetPlans
    <3> QED  BY <2>1, <3>1, <3>2, <3>3 DEF QuickAt
  <2>4. PICK k \in 0..n - 1 : todo = From("process", k, n, <<>>) /\ Seen("process", k)
      BY <2>3 DEF CheckingAt
  <2>5. Begins(todo, <<"check", "process", k + 1>>, From("process", k + 1, n, <<>>))
      BY <2>2, <2>4, ChecksBegin
  <2>6. k \in Nat /\ k + 1 \in 1..n
      BY <2>2
  <2>7. todo' = <<>> \/ (todo' = From("process", k + 1, n, <<>>) /\ Seen("process", k + 1)')
      BY <1>6, <2>2, <2>3, <2>4, <2>5, <2>6
  <2>8. todo' = <<>> \/ CheckingAt("process", <<>>)'
    <3>1. CASE k + 1 = n
      <4>1. From("process", n, n, <<>>) = <<>>
        <5>1. 0 \in 0..n - 1
            BY <2>2
        <5> QED  BY <2>2, <5>1, ChecksBegin
      <4> QED  BY <2>7, <3>1, <4>1
    <3>2. CASE k + 1 # n
      <4>1. k + 1 \in 0..n - 1
          BY <2>2, <3>2
      <4> QED  BY <1>1, <1>4, <2>1, <2>7, <4>1 DEF CheckingAt
    <3> QED  BY <3>1, <3>2
  <2>9. QuickAt'
      BY <1>1, <2>3, <2>8 DEF QuickAt, CallerPlans
  <2> QED  BY <1>1, <1>4, <1>8, <2>1, <2>9 DEF PlanInv
<1> QED  BY <1>2, <1>5, <1>7, <1>8 DEF MemoryInv

-----------------------------------------------------------------------------
(***************************************************************************)
(* The steps of the other calls, the beginning and the end of a call.      *)
(***************************************************************************)

LEMMA QuickPlace ==
    ASSUME PlanInv, todo # <<>>, Head(todo)[1] \in QuickMoves
    PROVE  /\ CallTyped /\ call.op # "operate" /\ secured = {} /\ NoMdls /\ call # NoCall
           /\ \/ inside = "caller" /\ todo \in CallerPlans
              \/ inside = "caller" /\ call.space = "target" /\ todo \in AttachPlans
              \/ inside = "target" /\ todo \in TargetPlans
<1>1. ASSUME Operating, OperateAt
      PROVE  FALSE
  <2>1. PICK s \in Sides : \/ \E k \in Nat : AtCheck(s, k)
                           \/ AtSecure(s) \/ AtMdl(s) \/ AtCopy \/ AtUnsecure(s)
      BY <1>1, OperatePlaces
  <2>2. Head(todo)[1] \notin QuickMoves
      BY <2>1 DEF AtCheck, AtSecure, AtMdl, AtCopy, AtUnsecure, Begins, QuickMoves
  <2> QED  BY <2>2
<1>2. CallTyped /\ call.op # "operate" /\ secured = {} /\ NoMdls /\ QuickAt
    BY <1>1 DEF PlanInv, Operating
<1>3. call # NoCall
    BY <1>2 DEF CallTyped, NoCall, Ops
<1>4. ~(inside = "caller" /\ call.op = "present" /\ CheckingAt("process", <<>>))
  <2> SUFFICES ASSUME CheckingAt("process", <<>>) PROVE FALSE
      OBVIOUS
  <2> DEFINE n == Len(call.process)
  <2>1. n \in Nat \ {0} /\ "process" \in Sides /\ <<>> \in Seq(Moves)
    <3>1. call.process \in Ranges
        BY <1>2 DEF CallTyped
    <3>2. n \in Nat \ {0}
        BY <3>1, RangeFacts
    <3> QED  BY <3>2 DEF Sides
  <2>2. PICK k \in 0..n - 1 : todo = From("process", k, n, <<>>)
      BY DEF CheckingAt
  <2>3. Begins(todo, <<"check", "process", k + 1>>, From("process", k + 1, n, <<>>))
      BY <2>1, <2>2, ChecksBegin
  <2> QED  BY <2>3 DEF Begins, QuickMoves
<1> QED  BY <1>2, <1>3, <1>4 DEF QuickAt

\* Every step of the other calls holds nothing and comes to another place.
LEMMA QuickKeeps ==
    ASSUME MemoryInv, Observe, todo # <<>>, Head(todo)[1] \in QuickMoves,
           UNCHANGED <<call, mem, home, locks, secured, mdl, changes>>, stopped' = "no",
           \/ inside' = "caller" /\ todo' \in CallerPlans
           \/ inside' = "target" /\ todo' \in TargetPlans
           \/ UNCHANGED <<inside, todo>>
    PROVE  MemoryInv'
<1>1. /\ CallTyped /\ call.op # "operate" /\ secured = {} /\ NoMdls /\ call # NoCall
      /\ \/ inside = "caller" /\ todo \in CallerPlans
         \/ inside = "caller" /\ call.space = "target" /\ todo \in AttachPlans
         \/ inside = "target" /\ todo \in TargetPlans
    BY QuickPlace DEF MemoryInv
<1>2. DOMAIN seen' = {"frames", "present"}
    BY <1>1, SeenGrows DEF MemoryInv, MachineInv
<1>3. PlanInv'
  <2>1. QuickAt'
      BY <1>1 DEF QuickAt
  <2>2. NoMdls' /\ CallTyped'
      BY <1>1 DEF NoMdls, CallTyped
  <2> QED  BY <1>1, <2>1, <2>2 DEF PlanInv
<1>4. MdlInv' /\ LockInv' /\ HomeInv'
    BY FramesSame DEF MemoryInv, MdlInv, HasFrames
<1>5. MachineInv'
    BY <1>2, MachineSame DEF MemoryInv
<1> QED  BY <1>3, <1>4, <1>5 DEF MemoryInv

\* The rest of a short plan.
LEMMA Tails ==
    ASSUME NEW a, NEW b, NEW d, NEW e
    PROVE  /\ Tail(<<a>>) = <<>> /\ Tail(<<a, b>>) = <<b>> /\ Tail(<<a, b, d>>) = <<b, d>>
           /\ Tail(<<a, b, d, e>>) = <<b, d, e>>
<1> DEFINE S == {a, b, d, e}
<1>1. /\ <<>> \in Seq(S) /\ <<a>> \in Seq(S) /\ <<b>> \in Seq(S) /\ <<a, b>> \in Seq(S)
      /\ <<b, d>> \in Seq(S) /\ <<a, b, d>> \in Seq(S) /\ <<b, d, e>> \in Seq(S) /\ <<a, b, d, e>> \in Seq(S)
    OBVIOUS
<1>2. Tail(<<a>>) = <<>>
  <2>1. Tail(<<a>>) \in Seq(S) /\ Len(Tail(<<a>>)) = 0
      BY <1>1, HeadTailProperties
  <2> QED  BY <2>1, EmptySeq
<1>3. Tail(<<a, b>>) = <<b>>
  <2>1. /\ Tail(<<a, b>>) \in Seq(S) /\ Len(Tail(<<a, b>>)) = 1
        /\ \A i \in 1..1 : Tail(<<a, b>>)[i] = <<a, b>>[i + 1]
      BY <1>1, HeadTailProperties
  <2>2. \A i \in 1..1 : Tail(<<a, b>>)[i] = <<b>>[i]
      BY <2>1
  <2> QED  BY <1>1, <2>1, <2>2, SeqEqual
<1>4. Tail(<<a, b, d>>) = <<b, d>>
  <2>1. /\ Tail(<<a, b, d>>) \in Seq(S) /\ Len(Tail(<<a, b, d>>)) = 2
        /\ \A i \in 1..2 : Tail(<<a, b, d>>)[i] = <<a, b, d>>[i + 1]
      BY <1>1, HeadTailProperties
  <2>2. \A i \in 1..2 : Tail(<<a, b, d>>)[i] = <<b, d>>[i]
      BY <2>1
  <2> QED  BY <1>1, <2>1, <2>2, SeqEqual
<1>5. Tail(<<a, b, d, e>>) = <<b, d, e>>
  <2>1. /\ Tail(<<a, b, d, e>>) \in Seq(S) /\ Len(Tail(<<a, b, d, e>>)) = 3
        /\ \A i \in 1..3 : Tail(<<a, b, d, e>>)[i] = <<a, b, d, e>>[i + 1]
      BY <1>1, HeadTailProperties
  <2>2. \A i \in 1..3 : Tail(<<a, b, d, e>>)[i] = <<b, d, e>>[i]
      BY <2>1
  <2> QED  BY <1>1, <2>1, <2>2, SeqEqual
<1> QED  BY <1>2, <1>3, <1>4, <1>5

\* Each short plan but the checks leads to another.
LEMMA QuickTails ==
    /\ \A p \in AttachPlans : Head(p)[1] = "attach" /\ Tail(p) \in TargetPlans
    /\ \A p \in TargetPlans : \/ Head(p)[1] = "detach" /\ Tail(p) = <<>>
                              \/ Head(p)[1] \in {"get", "cr3", "pte"} /\ Tail(p) \in TargetPlans
                              \/ Head(p)[1] = "valid" /\ Tail(p) \in TargetPlans /\ Tail(Tail(p)) \in TargetPlans
    /\ \A p \in CallerPlans : \/ p = <<>>
                              \/ Head(p)[1] \in {"get", "cr3", "pte", "entry"} /\ Tail(p) \in CallerPlans
                              \/ Head(p)[1] = "valid" /\ Tail(p) \in CallerPlans /\ Tail(Tail(p)) \in CallerPlans
<1> DEFINE at == <<"attach">>  dt == <<"detach">>  va == <<"valid">>  ge == <<"get">>
           cr == <<"cr3">>  pt == <<"pte">>  en(i) == <<"entry", i>>
           a1 == <<at, va, ge, dt>>
           a2 == <<at, cr, dt>>
           a3 == <<at, pt, dt>>
           t1 == <<va, ge, dt>>
           t2 == <<ge, dt>>
           t3 == <<cr, dt>>
           t4 == <<pt, dt>>
           t5 == <<dt>>
           c1 == <<va, ge>>
           c2 == <<ge>>
           c3 == <<cr>>
           c4 == <<pt>>
           w4 == <<en(4), en(3), en(2), en(1)>>
           w3 == <<en(3), en(2), en(1)>>
           w2 == <<en(2), en(1)>>
           w1 == <<en(1)>>
<1>1. /\ at[1] = "attach" /\ dt[1] = "detach" /\ va[1] = "valid" /\ ge[1] = "get"
      /\ cr[1] = "cr3" /\ pt[1] = "pte" /\ \A i : en(i)[1] = "entry"
    OBVIOUS
<1>2. /\ AttachPlans = {a1, a2, a3} /\ TargetPlans = {t1, t2, t3, t4, t5}
      /\ CallerPlans = {<<>>, c1, c2, c3, c4, w4, w3, w2, w1}
    BY DEF AttachPlans, TargetPlans, CallerPlans
<1> HIDE DEF at, dt, va, ge, cr, pt, en
<1>3. /\ Head(a1) = at /\ Head(a2) = at /\ Head(a3) = at
      /\ Head(t1) = va /\ Head(t2) = ge /\ Head(t3) = cr /\ Head(t4) = pt /\ Head(t5) = dt
      /\ Head(c1) = va /\ Head(c2) = ge /\ Head(c3) = cr /\ Head(c4) = pt
      /\ Head(w4) = en(4) /\ Head(w3) = en(3) /\ Head(w2) = en(2) /\ Head(w1) = en(1)
    OBVIOUS
<1>4. Tail(a1) = t1 /\ Tail(a2) = t3 /\ Tail(a3) = t4
    BY Tails
<1>5. Tail(t1) = t2 /\ Tail(t2) = t5 /\ Tail(t3) = t5 /\ Tail(t4) = t5 /\ Tail(t5) = <<>>
    BY Tails
<1>6. /\ Tail(c1) = c2 /\ Tail(c2) = <<>> /\ Tail(c3) = <<>> /\ Tail(c4) = <<>>
      /\ Tail(w4) = w3 /\ Tail(w3) = w2 /\ Tail(w2) = w1 /\ Tail(w1) = <<>>
    BY Tails
<1> HIDE DEF a1, a2, a3, t1, t2, t3, t4, t5, c1, c2, c3, c4, w4, w3, w2, w1
<1>7. \A p \in AttachPlans : Head(p)[1] = "attach" /\ Tail(p) \in TargetPlans
    BY <1>1, <1>2, <1>3, <1>4
<1>8. \A p \in TargetPlans : \/ Head(p)[1] = "detach" /\ Tail(p) = <<>>
                             \/ Head(p)[1] \in {"get", "cr3", "pte"} /\ Tail(p) \in TargetPlans
                             \/ Head(p)[1] = "valid" /\ Tail(p) \in TargetPlans /\ Tail(Tail(p)) \in TargetPlans
  <2>1. /\ Head(t1)[1] = "valid" /\ Head(t2)[1] = "get" /\ Head(t3)[1] = "cr3"
        /\ Head(t4)[1] = "pte" /\ Head(t5)[1] = "detach"
      BY <1>1, <1>3
  <2>2. t2 \in TargetPlans /\ t5 \in TargetPlans
      BY <1>2
  <2>3. Tail(Tail(t1)) = t5
      BY <1>5
  <2> DEFINE Ok(p) == \/ Head(p)[1] = "detach" /\ Tail(p) = <<>>
                      \/ Head(p)[1] \in {"get", "cr3", "pte"} /\ Tail(p) \in TargetPlans
                      \/ Head(p)[1] = "valid" /\ Tail(p) \in TargetPlans /\ Tail(Tail(p)) \in TargetPlans
  <2>4. Tail(t1) \in TargetPlans /\ Tail(Tail(t1)) \in TargetPlans
      BY <1>5, <2>2, <2>3, Zenon
  <2>5. Tail(t2) \in TargetPlans /\ Tail(t3) \in TargetPlans /\ Tail(t4) \in TargetPlans
      BY <1>5, <2>2, Zenon
  <2>6. Ok(t1) /\ Ok(t2) /\ Ok(t3) /\ Ok(t4) /\ Ok(t5)
      BY <1>5, <2>1, <2>4, <2>5, Zenon
  <2> HIDE DEF Ok
  <2>7. \A p \in TargetPlans : Ok(p)
      BY <1>2, <2>6
  <2> QED  BY <2>7 DEF Ok
<1>9. \A p \in CallerPlans : \/ p = <<>>
                             \/ Head(p)[1] \in {"get", "cr3", "pte", "entry"} /\ Tail(p) \in CallerPlans
                             \/ Head(p)[1] = "valid" /\ Tail(p) \in CallerPlans /\ Tail(Tail(p)) \in CallerPlans
  <2>1. /\ Head(c1)[1] = "valid" /\ Head(c2)[1] = "get" /\ Head(c3)[1] = "cr3" /\ Head(c4)[1] = "pte"
        /\ Head(w4)[1] = "entry" /\ Head(w3)[1] = "entry" /\ Head(w2)[1] = "entry" /\ Head(w1)[1] = "entry"
      BY <1>1, <1>3
  <2>2. /\ <<>> \in CallerPlans /\ c2 \in CallerPlans /\ w3 \in CallerPlans
        /\ w2 \in CallerPlans /\ w1 \in CallerPlans
      BY <1>2
  <2>3. Tail(Tail(c1)) = <<>>
      BY <1>6
  <2> DEFINE Ok(p) == \/ p = <<>>
                      \/ Head(p)[1] \in {"get", "cr3", "pte", "entry"} /\ Tail(p) \in CallerPlans
                      \/ Head(p)[1] = "valid" /\ Tail(p) \in CallerPlans /\ Tail(Tail(p)) \in CallerPlans
  <2>4. Tail(c1) \in CallerPlans /\ Tail(Tail(c1)) \in CallerPlans
      BY <1>6, <2>2, <2>3, Zenon
  <2>5. /\ Tail(c2) \in CallerPlans /\ Tail(c3) \in CallerPlans /\ Tail(c4) \in CallerPlans
        /\ Tail(w4) \in CallerPlans /\ Tail(w3) \in CallerPlans /\ Tail(w2) \in CallerPlans
        /\ Tail(w1) \in CallerPlans
      BY <1>6, <2>2, Zenon
  <2>6. /\ Ok(<<>>) /\ Ok(c1) /\ Ok(c2) /\ Ok(c3) /\ Ok(c4)
        /\ Ok(w4) /\ Ok(w3) /\ Ok(w2) /\ Ok(w1)
      BY <2>1, <2>4, <2>5, Zenon
  <2> HIDE DEF Ok
  <2>7. \A p \in CallerPlans : Ok(p)
      BY <1>2, <2>6
  <2> QED  BY <2>7 DEF Ok
<1> QED  BY <1>7, <1>8, <1>9

LEMMA QuickStep ==
    ASSUME MemoryInv, Observe,
           \/ Attach \/ Detach \/ IsAddressValid \/ GetPhysicalAddress \/ GetProcessCr3
           \/ NativeGetPhysicalAddress \/ PteIsMemoryRangePresent
    PROVE  MemoryInv'
<1> DEFINE Next1 == \/ inside' = "caller" /\ todo' \in CallerPlans
                    \/ inside' = "target" /\ todo' \in TargetPlans
                    \/ UNCHANGED <<inside, todo>>
<1>1. /\ UNCHANGED <<call, mem, home, locks, secured, mdl, changes>> /\ stopped' = "no"
      /\ todo # <<>> /\ Head(todo)[1] \in QuickMoves
    BY DEF Attach, Detach, IsAddressValid, GetPhysicalAddress, GetProcessCr3,
           NativeGetPhysicalAddress, PteIsMemoryRangePresent, Step, osVars, lockVars, QuickMoves
<1>2. \/ inside = "caller" /\ todo \in CallerPlans
      \/ inside = "caller" /\ call.space = "target" /\ todo \in AttachPlans
      \/ inside = "target" /\ todo \in TargetPlans
    BY <1>1, QuickPlace DEF MemoryInv
<1>3. ASSUME Attach
      PROVE  Next1
  <2>1. Head(todo)[1] = "attach" /\ todo' = Tail(todo) /\ inside' = call.space
      BY <1>3 DEF Attach, Step, Succeed
  <2>2. todo \in AttachPlans /\ call.space = "target"
      BY <1>1, <1>2, <2>1, QuickTails
  <2> QED  BY <2>1, <2>2, QuickTails
<1>4. ASSUME Detach
      PROVE  Next1
  <2>1. Head(todo)[1] = "detach" /\ todo' = Tail(todo) /\ inside' = "caller"
      BY <1>4 DEF Detach, Step, Succeed
  <2>2. todo \in TargetPlans
      BY <1>1, <1>2, <2>1, QuickTails
  <2>3. todo' = <<>>
      BY <2>1, <2>2, QuickTails
  <2> QED  BY <2>1, <2>3 DEF CallerPlans
<1>5. ASSUME Head(todo)[1] \in {"valid", "get", "cr3", "pte", "entry"}
      PROVE  /\ inside = "caller" => Tail(todo) \in CallerPlans
             /\ inside = "target" => Tail(todo) \in TargetPlans
             /\ inside = "caller" \/ inside = "target"
             /\ Head(todo)[1] = "valid" =>
                   /\ inside = "caller" => Tail(Tail(todo)) \in CallerPlans
                   /\ inside = "target" => Tail(Tail(todo)) \in TargetPlans
             /\ Head(todo)[1] = "entry" => inside = "caller"
    BY <1>1, <1>2, <1>5, QuickTails
<1>6. ASSUME IsAddressValid
      PROVE  Next1
    BY <1>5, <1>6 DEF IsAddressValid, Step
<1>7. ASSUME GetPhysicalAddress \/ GetProcessCr3
      PROVE  Next1
    BY <1>5, <1>7 DEF GetPhysicalAddress, GetProcessCr3, Step, Succeed
<1>8. ASSUME NativeGetPhysicalAddress
      PROVE  Next1
  <2>1. inside' = inside /\ inside = "caller" /\ Tail(todo) \in CallerPlans
      BY <1>5, <1>8 DEF NativeGetPhysicalAddress, Step
  <2>2. todo' = <<>> \/ todo' = Tail(todo)
      BY <1>8 DEF NativeGetPhysicalAddress, Succeed
  <2>3. <<>> \in CallerPlans
      BY DEF CallerPlans
  <2> QED  BY <2>1, <2>2, <2>3
<1>9. ASSUME PteIsMemoryRangePresent
      PROVE  Next1
  <2>1. inside' = inside /\ Head(todo)[1] = "pte"
      BY <1>9 DEF PteIsMemoryRangePresent, Step
  <2>2. todo' = Tail(todo) \/ todo' = todo
      BY <1>9 DEF PteIsMemoryRangePresent, Succeed
  <2> QED  BY <1>5, <2>1, <2>2
<1>10. Next1
    BY <1>3, <1>4, <1>6, <1>7, <1>8, <1>9
<1> QED  BY <1>1, <1>10, QuickKeeps

LEMMA NothingHeld ==
    ASSUME PlanInv, todo = <<>>
    PROVE  secured = {} /\ inside = "caller" /\ NoMdls
<1>1. CASE call = NoCall /\ todo = <<>> /\ inside = "caller" /\ secured = {} /\ NoMdls
    BY <1>1
<1>2. CASE Operating /\ OperateAt
  <2>1. "process" \in Sides /\ "buffer" \in Sides
      BY DEF Sides
  <2>2. ASSUME NEW s \in Sides, CheckingAt(s, RestOf(s))
        PROVE  FALSE
    <3> DEFINE n == Len(call[s])
    <3>1. n \in Nat \ {0}
        BY <1>2, CallRanges, RangeFacts
    <3>2. RestOf(s) \in Seq(Moves)
      <4>1. call.process \in Ranges /\ call.buffer \in Ranges
          BY <1>2, <2>1, CallRanges
      <4> QED  BY <4>1, OperateStarts DEF RestOf
    <3>3. PICK k \in 0..n - 1 : todo = From(s, k, n, RestOf(s))
        BY <2>2 DEF CheckingAt
    <3>4. todo # <<>>
        BY <3>1, <3>2, <3>3, ChecksBegin DEF Begins
    <3> QED  BY <3>4
  <2>3. ~CheckingAt("process", CheckingBuffer(call)) /\ ~CheckingAt("buffer", SecuringBoth(call))
      BY <2>1, <2>2 DEF RestOf
  <2>4. \A s \in Sides : ~SecuringAt(s)
      BY SecuringBegins DEF SecuringAt, Begins
  <2>5. \A s \in Sides : ~MdlAt(s)
      BY TakingBegins, GivingBackBegins DEF MdlAt, Begins
  <2>6. ~CopyingAt
      BY <2>1, TakingBegins DEF CopyingAt, Begins
  <2>7. ASSUME UnsecuringAt
        PROVE  secured = {} /\ NoMdls
    <3> DEFINE u(s) == <<"unsecure", s>>
    <3>1. u("process") \in Moves /\ u("buffer") \in Moves /\ <<>> \in Seq(Moves)
      <4>1. <<>> \in Seq(Moves)
          OBVIOUS
      <4> QED  BY <2>1, <4>1, MovesAre
    <3>2. /\ Unsecure("process", call) = IF "process" \in Users(call) THEN <<u("process")>> \o <<>> ELSE <<>>
          /\ Unsecure("buffer", call) = IF "buffer" \in Users(call) THEN <<u("buffer")>> \o <<>> ELSE <<>>
          /\ Unsecure("buffer", call) \in Seq(Moves)
        BY <2>1, UnsecureIs
    <3>3. UnsecureBoth(call) = IF "process" \in Users(call) THEN <<u("process")>> \o Unsecure("buffer", call)
                               ELSE Unsecure("buffer", call)
        BY UnsecureBothIs
    <3> HIDE DEF u
    <3>4. /\ <<u("process")>> \o <<>> # <<>> /\ <<u("buffer")>> \o <<>> # <<>>
          /\ <<u("process")>> \o Unsecure("buffer", call) # <<>>
        BY <3>1, <3>2, OneFirst
    <3>5. Users(call) \subseteq {"process", "buffer"}
        BY DEF Users, Sides
    <3>6. CASE todo = UnsecureBoth(call) /\ secured = Users(call)
        BY <2>7, <3>2, <3>3, <3>4, <3>5, <3>6 DEF UnsecuringAt
    <3>7. CASE todo = Unsecure("process", call) /\ secured = Users(call) \ {"buffer"}
        BY <2>7, <3>2, <3>4, <3>5, <3>7 DEF UnsecuringAt
    <3>8. CASE todo = Unsecure("buffer", call) /\ secured = Users(call) \ {"process"}
        BY <2>7, <3>2, <3>4, <3>5, <3>8 DEF UnsecuringAt
    <3> QED  BY <2>7, <3>6, <3>7, <3>8 DEF UnsecuringAt
  <2> QED  BY <1>2, <2>3, <2>4, <2>5, <2>6, <2>7 DEF OperateAt, Operating
<1>3. CASE CallTyped /\ secured = {} /\ NoMdls /\ QuickAt
  <2>1. todo \notin TargetPlans
      BY DEF TargetPlans
  <2> QED  BY <1>3, <2>1 DEF QuickAt
<1> QED  BY <1>1, <1>2, <1>3 DEF PlanInv, Operating

\* The plans of the calls that attach.
LEMMA AttachedIs ==
    ASSUME NEW a, NEW b, NEW d, NEW e
    PROVE  <<a>> \o <<b>> \o <<e>> = <<a, b, e>> /\ <<a>> \o <<b, d>> \o <<e>> = <<a, b, d, e>>
<1> DEFINE S == {a, b, d, e}
<1>1. /\ <<a>> \in Seq(S) /\ <<b>> \in Seq(S) /\ <<e>> \in Seq(S) /\ <<b, d>> \in Seq(S)
      /\ <<a, b>> \in Seq(S) /\ <<a, b, d>> \in Seq(S) /\ <<a, b, e>> \in Seq(S) /\ <<a, b, d, e>> \in Seq(S)
    OBVIOUS
<1>2. <<a>> \o <<b>> = <<a, b>>
  <2>1. Len(<<a>> \o <<b>>) = Len(<<a, b>>) /\ \A i \in 1..2 : (<<a>> \o <<b>>)[i] = <<a, b>>[i]
      BY <1>1, ConcatProperties
  <2>2. <<a>> \o <<b>> \in Seq(S) /\ Len(<<a, b>>) = 2
      BY <1>1, ConcatProperties
  <2> QED  BY <1>1, <2>1, <2>2, SeqEqual
<1>3. <<a, b>> \o <<e>> = <<a, b, e>>
  <2>1. Len(<<a, b>> \o <<e>>) = Len(<<a, b, e>>) /\ \A i \in 1..3 : (<<a, b>> \o <<e>>)[i] = <<a, b, e>>[i]
      BY <1>1, ConcatProperties
  <2>2. <<a, b>> \o <<e>> \in Seq(S) /\ Len(<<a, b, e>>) = 3
      BY <1>1, ConcatProperties
  <2> QED  BY <1>1, <2>1, <2>2, SeqEqual
<1>4. <<a>> \o <<b, d>> = <<a, b, d>>
  <2>1. Len(<<a>> \o <<b, d>>) = Len(<<a, b, d>>) /\ \A i \in 1..3 : (<<a>> \o <<b, d>>)[i] = <<a, b, d>>[i]
      BY <1>1, ConcatProperties
  <2>2. <<a>> \o <<b, d>> \in Seq(S) /\ Len(<<a, b, d>>) = 3
      BY <1>1, ConcatProperties
  <2> QED  BY <1>1, <2>1, <2>2, SeqEqual
<1>5. <<a, b, d>> \o <<e>> = <<a, b, d, e>>
  <2>1. Len(<<a, b, d>> \o <<e>>) = Len(<<a, b, d, e>>)
        /\ \A i \in 1..4 : (<<a, b, d>> \o <<e>>)[i] = <<a, b, d, e>>[i]
      BY <1>1, ConcatProperties
  <2>2. <<a, b, d>> \o <<e>> \in Seq(S) /\ Len(<<a, b, d, e>>) = 4
      BY <1>1, ConcatProperties
  <2> QED  BY <1>1, <2>1, <2>2, SeqEqual
<1> QED  BY <1>2, <1>3, <1>4, <1>5

\* The plan of every call but OperateProcessMemory and IsMemoryRangePresent.
LEMMA QuickPlans ==
    ASSUME NEW c, c.op \in {"translate", "native", "cr3", "ptePresent"}
    PROVE  Steps(c) \in CallerPlans \/ (c.space = "target" /\ Steps(c) \in AttachPlans)
<1> DEFINE at == <<"attach">>  dt == <<"detach">>  va == <<"valid">>  ge == <<"get">>
           cr == <<"cr3">>  pt == <<"pte">>
<1>1. /\ Attached(c.space, <<va, ge>>) = IF c.space = "target" THEN <<at>> \o <<va, ge>> \o <<dt>> ELSE <<va, ge>>
      /\ Attached(c.space, <<cr>>) = IF c.space = "target" THEN <<at>> \o <<cr>> \o <<dt>> ELSE <<cr>>
      /\ Attached(c.space, <<pt>>) = IF c.space = "target" THEN <<at>> \o <<pt>> \o <<dt>> ELSE <<pt>>
    BY DEF Attached
<1>2. /\ <<at, va, ge, dt>> \in AttachPlans /\ <<at, cr, dt>> \in AttachPlans /\ <<at, pt, dt>> \in AttachPlans
    BY DEF AttachPlans
<1>3. <<va, ge>> \in CallerPlans /\ <<cr>> \in CallerPlans /\ <<pt>> \in CallerPlans
    BY DEF CallerPlans
<1>4. /\ c.op = "translate" => Steps(c) = Attached(c.space, <<va, ge>>)
      /\ c.op = "cr3" => Steps(c) = Attached(c.space, <<cr>>)
      /\ c.op = "ptePresent" => Steps(c) = Attached(c.space, <<pt>>)
      /\ c.op = "native" => Steps(c) = <<<<"entry", 4>>, <<"entry", 3>>, <<"entry", 2>>, <<"entry", 1>>>>
    BY DEF Steps
<1>5. <<<<"entry", 4>>, <<"entry", 3>>, <<"entry", 2>>, <<"entry", 1>>>> \in CallerPlans
    BY DEF CallerPlans
<1> HIDE DEF at, dt, va, ge, cr, pt
<1>6. /\ <<at>> \o <<va, ge>> \o <<dt>> = <<at, va, ge, dt>>
      /\ <<at>> \o <<cr>> \o <<dt>> = <<at, cr, dt>>
      /\ <<at>> \o <<pt>> \o <<dt>> = <<at, pt, dt>>
  <2>1. <<at>> \o <<va, ge>> \o <<dt>> = <<at, va, ge, dt>>
      BY AttachedIs, ZenonT(40)
  <2>2. <<at>> \o <<cr>> \o <<dt>> = <<at, cr, dt>>
      BY AttachedIs, ZenonT(40)
  <2>3. <<at>> \o <<pt>> \o <<dt>> = <<at, pt, dt>>
      BY AttachedIs, ZenonT(40)
  <2> QED  BY <2>1, <2>2, <2>3, Zenon
<1> QED  BY <1>1, <1>2, <1>3, <1>4, <1>5, <1>6, Zenon

LEMMA BeginStep ==
    ASSUME MemoryInv, Begin, Observe
    PROVE  MemoryInv'
<1>1. /\ call = NoCall /\ stopped = "no" /\ UNCHANGED <<mem, home, locks, secured, mdl, inside, stopped, changes>>
    BY DEF Begin, osVars, lockVars
<1>2. inside = "caller" /\ secured = {} /\ NoMdls
    BY <1>1 DEF MemoryInv, PlanInv, CallTyped, NoCall, Ops
<1>3. CallTyped' /\ todo' = Steps(call')
  <2>1. PICK op \in Ops, space \in Spaces \union {"unknown"}, r \in Ranges, b \in Ranges \union {<<>>} :
            LET c == [op |-> op, space |-> space, process |-> r, buffer |-> b]
            IN  Allowed(c) /\ call' = c /\ todo' = Steps(c)
      BY DEF Begin
  <2> DEFINE c == [op |-> op, space |-> space, process |-> r, buffer |-> b]
  <2>2. c \in [op : Ops, space : Spaces \union {"unknown"}, process : Ranges, buffer : Ranges \union {<<>>}]
      OBVIOUS
  <2>3. Allowed(c) /\ call' = c /\ todo' = Steps(c)
      BY <2>1
  <2> HIDE DEF c
  <2>4. Allowed(call)' /\ todo' = Steps(call')
      BY <2>3
  <2> QED  BY <2>2, <2>3, <2>4 DEF CallTyped
<1>4. call' # NoCall /\ DOMAIN seen' = {"frames", "present"}
  <2>1. call' # NoCall
      BY <1>3 DEF CallTyped, NoCall, Ops
  <2>2. DOMAIN seen = {"frames", "present"}
      BY DEF MemoryInv, MachineInv
  <2> QED  BY <2>1, <2>2 DEF Observe
<1>5. NoMdls' /\ secured' = {} /\ inside' = "caller"
    BY <1>1, <1>2 DEF NoMdls
<1>6. \A s \in Sides : mdl[s].frames = <<>> /\ mdl'[s].frames = <<>> /\ ~HasFrames(s)'
    BY <1>1, <1>2 DEF NoMdls, NoMdl, HasFrames
<1>7. MdlInv'
    BY <1>1, <1>6 DEF MemoryInv, MdlInv
<1>8. LockInv'
    BY <1>1 DEF MemoryInv, LockInv, Count
<1>9. HomeInv'
    BY <1>1, <1>6 DEF MemoryInv, HomeInv
<1>10. MachineInv'
    BY <1>1, <1>4, MachineSame DEF MemoryInv
<1>11. /\ call'.process \in Ranges /\ Len(call'.process) \in Nat \ {0}
       /\ "process" \in Sides /\ "buffer" \in Sides
       /\ <<>> \in Seq(Moves)
  <2>1. call'.process \in Ranges
      BY <1>3 DEF CallTyped
  <2>2. Len(call'.process) \in Nat \ {0}
      BY <2>1, RangeFacts
  <2> QED  BY <2>1, <2>2 DEF Sides
<1>12. ASSUME call'.op \in {"translate", "native", "cr3", "ptePresent"}
       PROVE  PlanInv'
  <2>1. todo' \in CallerPlans \/ (call'.space = "target" /\ todo' \in AttachPlans)
      BY <1>3, <1>12, QuickPlans
  <2>2. QuickAt'
      BY <1>5, <2>1 DEF QuickAt
  <2> QED  BY <1>3, <1>5, <1>12, <2>2 DEF PlanInv
<1>13. ASSUME call'.op = "present"
       PROVE  PlanInv'
  <2>1. todo' = From("process", 0, Len(call'.process), <<>>)
    <3>1. Steps(call') = Checks("process", call'.process)
        BY <1>13 DEF Steps
    <3> QED  BY <1>3, <1>11, <3>1, ChecksAre
  <2>2. 0 \in 0..Len(call'.process) - 1 /\ Seen("process", 0)'
      BY <1>11 DEF Seen
  <2>3. CheckingAt("process", <<>>)'
      BY <1>5, <2>1, <2>2 DEF CheckingAt
  <2>4. QuickAt'
      BY <1>5, <1>13, <2>3 DEF QuickAt
  <2> QED  BY <1>3, <1>5, <1>13, <2>4 DEF PlanInv
<1>14. ASSUME call'.op = "operate"
       PROVE  PlanInv'
  <2>1. Operating' /\ call'.buffer \in Ranges
      BY <1>3, <1>5, <1>14 DEF Operating, CallTyped, Allowed
  <2>2. todo' = OperateProcessMemory(call')
      BY <1>3, <1>14 DEF Steps
  <2>3. OperateProcessMemory(call') = IF IsKernelRange(call'.process)
                                      THEN From("process", 0, Len(call'.process), CheckingBuffer(call'))
                                      ELSE CheckingBuffer(call')
      BY <1>11, <2>1, OperateStarts
  <2>4. OperateAt'
    <3>1. CASE IsKernelRange(call'.process)
      <4>1. 0 \in 0..Len(call'.process) - 1 /\ Seen("process", 0)'
          BY <1>11 DEF Seen
      <4>2. todo' = From("process", 0, Len(call'.process), CheckingBuffer(call'))
          BY <2>2, <2>3, <3>1
      <4>3. CheckingAt("process", CheckingBuffer(call))'
          BY <1>5, <4>1, <4>2 DEF CheckingAt
      <4> QED  BY <3>1, <4>3 DEF OperateAt
    <3>2. CASE ~IsKernelRange(call'.process)
      <4>1. Checked("process")' /\ todo' = CheckingBuffer(call')
          BY <2>2, <2>3, <3>2 DEF Checked
      <4> QED  BY <1>5, <2>1, <4>1, NextPlace DEF Follows
    <3> QED  BY <3>1, <3>2
  <2> QED  BY <2>1, <2>4 DEF PlanInv, Operating
<1>15. PlanInv'
    BY <1>3, <1>12, <1>13, <1>14 DEF CallTyped, Ops
<1> QED  BY <1>7, <1>8, <1>9, <1>10, <1>15 DEF MemoryInv

LEMMA ReturnStep ==
    ASSUME MemoryInv, Return, Observe
    PROVE  MemoryInv'
<1>1. /\ todo = <<>> /\ stopped = "no" /\ call' = NoCall
      /\ UNCHANGED <<mem, home, locks, secured, mdl, todo, inside, stopped, changes>>
    BY DEF Return, osVars, lockVars
<1>2. secured = {} /\ inside = "caller" /\ NoMdls
    BY <1>1, NothingHeld DEF MemoryInv
<1>3. seen' = Nothing
    BY <1>1 DEF Observe
<1>4. PlanInv'
    BY <1>1, <1>2 DEF PlanInv, NoMdls
<1>5. \A s \in Sides : mdl[s].frames = <<>> /\ mdl'[s].frames = <<>> /\ ~HasFrames(s)'
    BY <1>1, <1>2 DEF NoMdls, NoMdl, HasFrames
<1>6. MdlInv'
    BY <1>1, <1>5 DEF MemoryInv, MdlInv
<1>7. LockInv'
    BY <1>1 DEF MemoryInv, LockInv, Count
<1>8. HomeInv'
    BY <1>1, <1>5 DEF MemoryInv, HomeInv
<1>9. MachineInv'
    BY <1>1, <1>3, MachineSame DEF MemoryInv, Nothing
<1> QED  BY <1>4, <1>6, <1>7, <1>8, <1>9 DEF MemoryInv

-----------------------------------------------------------------------------
(***************************************************************************)
(* The steps of the memory manager and the other threads.                  *)
(***************************************************************************)

\* A page that a descriptor list shows is in a locked frame, and its range is
\* secured unless it is of the kernel half.
LEMMA ShownPages ==
    ASSUME MemoryInv, NEW s \in Sides, NEW i \in DOMAIN mdl[s].frames
    PROVE  /\ call[s] \in Ranges /\ i \in 1..Len(call[s])
           /\ call[s][i] \in Pages /\ call[s][i] \in PagesOf(call[s])
           /\ (call[s][i][1] = "kernel") = IsKernelRange(call[s])
           /\ mdl[s].frames[i] \in Frames /\ locks[mdl[s].frames[i]] > 0
           /\ IsKernelRange(call[s]) \/ s \in secured
           /\ Shows(call[s][i], mdl[s].frames[i])
<1> DEFINE fs == mdl[s].frames
           f == mdl[s].frames[i]
<1>1. fs \in Seq(Frames) /\ fs # <<>>
    BY DEF MemoryInv, MdlInv
<1>2. HasFrames(s) /\ Len(fs) = Len(call[s])
    BY <1>1 DEF MemoryInv, MdlInv
<1>3. i \in 1..Len(call[s]) /\ f \in Frames
    BY <1>1, <1>2, ElementOfSeq
<1>4. ~NoMdls /\ mdl[s] # NoMdl
    BY <1>2 DEF HasFrames, NoMdls, NoMdl
<1>5. Operating /\ OperateAt
    BY <1>4 DEF MemoryInv, PlanInv, Operating
<1>6. secured = Users(call)
  <2>1. ~UnsecuringAt /\ \A t, rest : ~SecuringAt(t) /\ ~CheckingAt(t, rest)
      BY <1>4 DEF UnsecuringAt, SecuringAt, CheckingAt
  <2>2. \A t : MdlAt(t) => secured = Users(call)
      BY DEF MdlAt
  <2> QED  BY <1>4, <1>5, <2>1, <2>2 DEF OperateAt, CopyingAt
<1>7. call[s] \in Ranges
    BY <1>5, CallRanges
<1>8. /\ call[s][i] \in Pages /\ call[s][i] \in PagesOf(call[s])
      /\ (call[s][i][1] = "kernel") = IsKernelRange(call[s])
    BY <1>3, <1>7, RangeFacts
<1>9. locks[f] > 0
  <2>1. Count(s, f) # 0
    <3>1. i \in {j \in DOMAIN fs : fs[j] = f}
        OBVIOUS
    <3>2. IsFiniteSet({j \in DOMAIN fs : fs[j] = f})
      <4>1. DOMAIN fs = 1..Len(fs) /\ Len(fs) \in Nat
          BY <1>1
      <4>2. IsFiniteSet(DOMAIN fs)
          BY <4>1, FS_Interval
      <4> QED  BY <4>2, FS_Subset
    <3> QED  BY <3>1, <3>2, FS_EmptySet DEF Count
  <2>2. \A t \in Sides : Count(t, f) \in Nat
      BY CountFacts DEF MemoryInv
  <2>3. locks[f] = Count("process", f) + Count("buffer", f)
      BY <1>3 DEF MemoryInv, LockInv
  <2> QED  BY <2>1, <2>2, <2>3 DEF Sides
<1>10. IsKernelRange(call[s]) \/ s \in secured
    BY <1>6 DEF Users
<1>11. Shows(call[s][i], f)
    BY DEF MemoryInv, HomeInv
<1> QED  BY <1>3, <1>7, <1>8, <1>9, <1>10, <1>11

MemTyped(m) == m \in [Tables -> [Index -> Entries]]

LEMMA EntrySet ==
    ASSUME MemTyped(mem), NEW t, NEW i, NEW e, t \in Tables /\ i \in Index => e \in Entries
    PROVE  MemTyped([mem EXCEPT ![t][i] = e])
<1> DEFINE m == [mem EXCEPT ![t][i] = e]
<1>1. ASSUME NEW u \in Tables
      PROVE  m[u] \in [Index -> Entries]
  <2>1. CASE u = t
    <3>1. m[u] = [mem[u] EXCEPT ![i] = e] /\ mem[u] \in [Index -> Entries]
        BY <2>1 DEF MemTyped
    <3>2. i \in Index => e \in Entries
        BY <2>1
    <3> HIDE DEF m
    <3> QED  BY <3>1, <3>2
  <2>2. CASE u # t
      BY <2>2 DEF MemTyped
  <2> QED  BY <2>1, <2>2
<1>2. m = [u \in Tables |-> m[u]]
    BY DEF MemTyped
<1> HIDE DEF m
<1>3. MemTyped(m)
    BY <1>1, <1>2 DEF MemTyped
<1> QED  BY <1>3 DEF m

\* What the others do to a page that a descriptor list shows.
LEMMA HomeKept ==
    ASSUME MemoryInv, home' \in [Pages -> Frames \union {OnDisk, Nowhere}], UNCHANGED <<mdl, call>>,
           \A s \in Sides : \A i \in DOMAIN mdl[s].frames :
              home'[call[s][i]] # home[call[s][i]] => Shows(call[s][i], mdl[s].frames[i])'
    PROVE  HomeInv'
<1>1. ASSUME NEW s \in Sides, NEW i \in DOMAIN mdl[s].frames
      PROVE  Shows(call[s][i], mdl[s].frames[i])'
  <2>1. Shows(call[s][i], mdl[s].frames[i])
      BY ShownPages
  <2>2. CASE home'[call[s][i]] = home[call[s][i]]
      BY <2>1, <2>2 DEF Shows
  <2>3. CASE home'[call[s][i]] # home[call[s][i]]
      BY <2>3
  <2> QED  BY <2>2, <2>3
<1> QED  BY <1>1 DEF HomeInv

LEMMA Homes ==
    /\ OnDisk \notin Frames /\ Nowhere \notin Frames /\ OnDisk # Nowhere /\ Shared \subseteq Frames
BY ProcessMemoryAssumption DEF OnDisk, Nowhere

LEMMA WriteOutKeeps ==
    ASSUME MemoryInv, NEW page \in Pages, WriteOut(page), UNCHANGED <<mdl, call>>
    PROVE  HomeInv'
<1>1. home' = [home EXCEPT ![page] = OnDisk] /\ home[page] \in Frames /\ locks[home[page]] = 0
    BY DEF WriteOut, Resident
<1>2. home' \in [Pages -> Frames \union {OnDisk, Nowhere}]
    BY <1>1 DEF MemoryInv, HomeInv
<1>3. ASSUME NEW s \in Sides, NEW i \in DOMAIN mdl[s].frames, home'[call[s][i]] # home[call[s][i]]
      PROVE  Shows(call[s][i], mdl[s].frames[i])'
  <2>1. call[s][i] \in Pages /\ locks[mdl[s].frames[i]] > 0 /\ Shows(call[s][i], mdl[s].frames[i])
      BY ShownPages
  <2>2. call[s][i] = page
      BY <1>1, <1>3, <2>1 DEF MemoryInv, HomeInv
  <2>3. mdl[s].frames[i] \in Shared
      BY <1>1, <2>1, <2>2, Homes DEF Shows
  <2> QED  BY <2>3 DEF Shows
<1> QED  BY <1>2, <1>3, HomeKept

LEMMA FaultInKeeps ==
    ASSUME MemoryInv, NEW page \in Pages, FaultIn(page), UNCHANGED <<mdl, call>>
    PROVE  HomeInv'
<1>1. PICK f \in Frames : home' = [home EXCEPT ![page] = f] /\ (Resident(page) => f = home[page])
    BY DEF FaultIn, Free, Resident
<1>2. home' \in [Pages -> Frames \union {OnDisk, Nowhere}] /\ home[page] # Nowhere
    BY <1>1 DEF MemoryInv, HomeInv, FaultIn
<1>3. ASSUME NEW s \in Sides, NEW i \in DOMAIN mdl[s].frames, home'[call[s][i]] # home[call[s][i]]
      PROVE  Shows(call[s][i], mdl[s].frames[i])'
  <2>1. call[s][i] \in Pages /\ mdl[s].frames[i] \in Frames /\ Shows(call[s][i], mdl[s].frames[i])
      BY ShownPages
  <2>2. call[s][i] = page
      BY <1>1, <1>3, <2>1 DEF MemoryInv, HomeInv
  <2>3. ~Resident(page)
      BY <1>1, <1>3, <2>2 DEF MemoryInv, HomeInv
  <2>4. mdl[s].frames[i] \in Shared
      BY <1>2, <2>1, <2>2, <2>3 DEF Shows, Resident
  <2> QED  BY <2>4 DEF Shows
<1> QED  BY <1>2, <1>3, HomeKept

LEMMA CopyOnWriteKeeps ==
    ASSUME MemoryInv, NEW page \in Pages, CopyOnWrite(page), UNCHANGED <<mdl, call>>
    PROVE  HomeInv'
<1>1. PICK f \in Frames : home' = [home EXCEPT ![page] = f]
    BY DEF CopyOnWrite, Free
<1>2. home' \in [Pages -> Frames \union {OnDisk, Nowhere}] /\ home[page] \in Shared
    BY <1>1 DEF MemoryInv, HomeInv, CopyOnWrite
<1>3. ASSUME NEW s \in Sides, NEW i \in DOMAIN mdl[s].frames, home'[call[s][i]] # home[call[s][i]]
      PROVE  Shows(call[s][i], mdl[s].frames[i])'
  <2>1. call[s][i] \in Pages /\ Shows(call[s][i], mdl[s].frames[i])
      BY ShownPages
  <2>2. call[s][i] = page
      BY <1>1, <1>3, <2>1 DEF MemoryInv, HomeInv
  <2>3. mdl[s].frames[i] \in Shared
      BY <1>2, <2>1, <2>2, Homes DEF Shows
  <2> QED  BY <2>3 DEF Shows
<1> QED  BY <1>2, <1>3, HomeKept

LEMMA ReleaseKeeps ==
    ASSUME MemoryInv, NEW page \in Pages, Release(page), UNCHANGED <<mdl, call>>
    PROVE  HomeInv'
<1>1. /\ home' = [home EXCEPT ![page] = Nowhere]
      /\ \A s \in secured : page \notin PagesOf(call[s])
    BY DEF Release
<1>2. home' \in [Pages -> Frames \union {OnDisk, Nowhere}]
    BY <1>1 DEF MemoryInv, HomeInv
<1>3. ASSUME NEW s \in Sides, NEW i \in DOMAIN mdl[s].frames, home'[call[s][i]] # home[call[s][i]]
      PROVE  Shows(call[s][i], mdl[s].frames[i])'
  <2>1. /\ call[s][i] \in Pages /\ call[s][i] \in PagesOf(call[s])
        /\ (call[s][i][1] = "kernel") = IsKernelRange(call[s])
        /\ IsKernelRange(call[s]) \/ s \in secured
      BY ShownPages
  <2>2. call[s][i] = page
      BY <1>1, <1>3, <2>1 DEF MemoryInv, HomeInv
  <2>3. call[s][i][1] = "kernel" /\ home'[call[s][i]] = Nowhere
      BY <1>1, <2>1, <2>2 DEF MemoryInv, HomeInv
  <2> QED  BY <2>3 DEF Shows
<1> QED  BY <1>2, <1>3, HomeKept

LEMMA AllocateLargeKeeps ==
    ASSUME MemoryInv, NEW space \in Spaces, AllocateLarge(space), UNCHANGED <<mdl, call>>
    PROVE  HomeInv'
<1> DEFINE region == {page \in Pages : page[1] = space}
<1>1. /\ home' = [page \in Pages |-> IF page \in region THEN LargeFrame + page[2][4] ELSE home[page]]
      /\ \A page \in region : home[page] = Nowhere
    BY DEF AllocateLarge
<1>2. \A page \in Pages : LargeFrame + page[2][4] \in Frames
  <2> TAKE page \in Pages
  <2>1. page[2] \in Address
      BY ProcessMemoryAssumption
  <2>2. page[2][4] \in 0..Slots - 1 /\ Slots \in Nat \ {0} /\ LargeFrame \in Nat
      BY <2>1, ProcessMemoryAssumption, PageTablesAssumption DEF Address, Index
  <2>3. Slots <= Slots * Slots /\ Slots * Slots \in Nat
    <3>1. \A n \in Nat \ {0} : n <= n * n /\ n * n \in Nat
        OBVIOUS
    <3> QED  BY <2>2, <3>1
  <2> DEFINE q == Slots * Slots
             x == page[2][4]
  <2> HIDE DEF q, x
  <2>4. q \in Nat /\ x \in 0..Slots - 1 /\ Slots \in Nat /\ Slots <= q
      BY <2>2, <2>3 DEF q, x
  <2>5. LargeFrame + x \in LargeFrame..LargeFrame + q - 1
      BY <2>2, <2>4
  <2> QED  BY <2>5, ProcessMemoryAssumption DEF q, x, LargeFrames
<1>3. home' \in [Pages -> Frames \union {OnDisk, Nowhere}]
    BY <1>1, <1>2 DEF MemoryInv, HomeInv
<1>4. ASSUME NEW s \in Sides, NEW i \in DOMAIN mdl[s].frames, home'[call[s][i]] # home[call[s][i]]
      PROVE  Shows(call[s][i], mdl[s].frames[i])'
  <2>1. call[s][i] \in Pages /\ mdl[s].frames[i] \in Frames /\ Shows(call[s][i], mdl[s].frames[i])
      BY ShownPages
  <2>2. home[call[s][i]] = Nowhere /\ call[s][i][1] # "kernel"
      BY <1>1, <1>4, <2>1 DEF Spaces
  <2>3. mdl[s].frames[i] \in Shared
      BY <2>1, <2>2, Homes DEF Shows
  <2> QED  BY <2>3 DEF Shows
<1> QED  BY <1>3, <1>4, HomeKept

\* What the others write into the tables are entries.
LEMMA TablesKept ==
    ASSUME MemTyped(mem), NEW page \in Pages,
           Trim(page) \/ WriteOut(page) \/ FaultIn(page) \/ CopyOnWrite(page) \/ Release(page)
    PROVE  MemTyped(mem')
<1>1. PICK e : SetLeaf(page, e) /\ (LastTable[page[1]] \in Tables => e \in Entries)
  <2>1. CASE Trim(page)
    <3>1. LastTable[page[1]] \in Tables => Leaf(page) \in Entries
      <4>1. page[2][4] \in Index
        <5>1. page[2] \in Address
            BY ProcessMemoryAssumption
        <5> QED  BY <5>1 DEF Address
      <4> QED  BY <4>1 DEF MemTyped, Leaf
    <3>2. LastTable[page[1]] \in Tables => Entry(FALSE, FALSE, FALSE, Leaf(page).pfn) \in Entries
      <4>1. \A e \in Entries : e.pfn \in Nat
          BY DEF Entries
      <4> QED  BY <3>1, <4>1, EntriesAre
    <3> QED  BY <2>1, <3>2 DEF Trim
  <2>2. CASE WriteOut(page)
      BY <2>2, PageTablesAssumption DEF WriteOut
  <2>3. CASE FaultIn(page) \/ CopyOnWrite(page)
    <3>1. PICK f \in Frames : SetLeaf(page, Present(f))
        BY <2>3 DEF FaultIn, CopyOnWrite, Resident, Free
    <3> QED  BY <3>1, EntriesAre
  <2>4. CASE Release(page)
      BY <2>4, EntriesAre DEF Release
  <2> QED  BY <2>1, <2>2, <2>3, <2>4
<1>2. mem' = [mem EXCEPT ![LastTable[page[1]]][page[2][4]] = e]
    BY <1>1 DEF SetLeaf
<1> QED  BY <1>1, <1>2, EntrySet

LEMMA RegionKept ==
    ASSUME MemTyped(mem), NEW space, AllocateLarge(space) \/ ReuseTable(space)
    PROVE  MemTyped(mem')
<1>1. CASE AllocateLarge(space)
  <2> DEFINE t == mem[mem[Root[space]][0].pfn][0].pfn
  <2>1. PICK pat \in BOOLEAN : mem' = [mem EXCEPT ![t][0] = Entry(TRUE, TRUE, pat, LargeFrame)]
      BY <1>1 DEF AllocateLarge
  <2>2. Entry(TRUE, TRUE, pat, LargeFrame) \in Entries
      BY EntriesAre, ProcessMemoryAssumption
  <2> HIDE DEF t
  <2> QED  BY <2>1, <2>2, EntrySet
<1>2. CASE ReuseTable(space)
  <2>1. PICK e \in Entries : mem' = [mem EXCEPT ![LastTable[space]] = [i \in Index |-> e]]
      BY <1>2, PageTablesAssumption DEF ReuseTable
  <2>2. [i \in Index |-> e] \in [Index -> Entries]
      OBVIOUS
  <2> QED  BY <2>1, <2>2 DEF MemTyped
<1> QED  BY <1>1, <1>2

LEMMA OthersStep ==
    ASSUME MemoryInv, Others, Observe
    PROVE  MemoryInv'
<1>1. /\ stopped = "no" /\ todo # <<>> /\ changes < MaxChanges /\ changes' = changes + 1
      /\ UNCHANGED <<locks, secured, mdl, call, todo, inside, stopped>>
    BY DEF Others, lockVars
<1>2. CallTyped /\ call # NoCall /\ DOMAIN seen = {"frames", "present"}
    BY <1>1 DEF MemoryInv, MachineInv, PlanInv, CallTyped, NoCall, Ops
<1>3. DOMAIN seen' = {"frames", "present"}
    BY <1>1, <1>2, SeenGrows
<1>4. PlanInv'
    BY <1>1, <1>2, PlanStands DEF MemoryInv
<1>5. MdlInv' /\ LockInv'
    BY <1>1 DEF MemoryInv, MdlInv, LockInv, HasFrames, Count
<1>6. changes' \in 0..MaxChanges
    BY <1>1, ProcessMemoryAssumption DEF MemoryInv, MachineInv
<1>7. MemTyped(mem)
    BY DEF MemoryInv, MachineInv, MemTyped
<1>8. MemTyped(mem') /\ HomeInv'
  <2>1. CASE \E page \in PagesOf(call.process) \union PagesOf(call.buffer) :
                Trim(page) \/ WriteOut(page) \/ FaultIn(page) \/ CopyOnWrite(page) \/ Release(page)
    <3>1. PICK page \in PagesOf(call.process) \union PagesOf(call.buffer) :
                Trim(page) \/ WriteOut(page) \/ FaultIn(page) \/ CopyOnWrite(page) \/ Release(page)
        BY <2>1
    <3>2. page \in Pages
      <4>1. call.process \in Ranges /\ (call.buffer \in Ranges \/ call.buffer = <<>>)
          BY <1>2 DEF CallTyped
      <4>2. PagesOf(<<>>) = {}
          BY DEF PagesOf
      <4> QED  BY <4>1, <4>2, RangeFacts
    <3>3. MemTyped(mem')
        BY <1>7, <3>1, <3>2, TablesKept
    <3>4. CASE Trim(page)
      <4>1. home' = home
          BY <3>4 DEF Trim
      <4> QED  BY <1>1, <3>3, <4>1 DEF MemoryInv, HomeInv, Shows
    <3> QED  BY <1>1, <3>1, <3>2, <3>3, <3>4, WriteOutKeeps, FaultInKeeps, CopyOnWriteKeeps, ReleaseKeeps
  <2>2. CASE \E space \in {call.process[1][1]} \intersect Spaces : AllocateLarge(space) \/ ReuseTable(space)
    <3>1. PICK space \in Spaces : AllocateLarge(space) \/ ReuseTable(space)
        BY <2>2
    <3>2. MemTyped(mem')
        BY <1>7, <3>1, RegionKept
    <3>3. CASE ReuseTable(space)
      <4>1. home' = home
          BY <3>3 DEF ReuseTable
      <4> QED  BY <1>1, <3>2, <4>1 DEF MemoryInv, HomeInv, Shows
    <3> QED  BY <1>1, <3>1, <3>2, <3>3, AllocateLargeKeeps
  <2> QED  BY <2>1, <2>2 DEF Others
<1>9. MachineInv'
    BY <1>1, <1>3, <1>6, <1>8 DEF MemoryInv, MachineInv, MemTyped
<1> QED  BY <1>4, <1>5, <1>8, <1>9 DEF MemoryInv

-----------------------------------------------------------------------------
(***************************************************************************)
(* The invariant and what follows from it.                                 *)
(***************************************************************************)

LEMMA MemoryStarts ==
    ASSUME Init
    PROVE  MemoryInv
<1>1. NoMdls /\ \A s \in Sides : mdl[s].frames = <<>> /\ ~HasFrames(s) /\ mdl[s].base = "none"
    BY DEF Init, NoMdls, NoMdl, HasFrames
<1>2. PlanInv
    BY <1>1 DEF Init, PlanInv
<1>3. MdlInv
  <2>1. <<>> \in Seq(Frames)
      OBVIOUS
  <2>2. mdl \in [Sides -> [frames : Seq(Frames), base : {"none", "allocated", "locked", "mapped", "null"}]]
      BY <2>1 DEF Init, NoMdl
  <2> QED  BY <1>1, <2>2 DEF MdlInv
<1>4. LockInv
  <2>1. \A s \in Sides : \A f : Count(s, f) = 0
      BY <1>1, <1>3, CountFacts
  <2>2. locks = [f \in Frames |-> 0]
      BY DEF Init
  <2>3. locks \in [Frames -> Nat]
      BY <2>2
  <2>4. \A f \in Frames : locks[f] = 0 /\ Count("process", f) = 0 /\ Count("buffer", f) = 0
      BY <2>1, <2>2 DEF Sides
  <2> QED  BY <2>3, <2>4 DEF LockInv
<1>5. HomeInv /\ mem \in [Tables -> [Index -> Entries]]
    BY <1>1, ProcessMemoryAssumption DEF Init, HomeInv
<1>6. MachineInv
    BY <1>5, ProcessMemoryAssumption DEF Init, MachineInv, Nothing
<1> QED  BY <1>2, <1>3, <1>4, <1>5, <1>6 DEF MemoryInv

LEMMA MemorySame ==
    ASSUME MemoryInv, UNCHANGED vars
    PROVE  MemoryInv'
<1>1. CallTyped' = CallTyped /\ NoMdls' = NoMdls /\ AllChecked' = AllChecked /\ Users(call)' = Users(call)
      /\ \A s : Checked(s)' = Checked(s) /\ \A k : Seen(s, k)' = Seen(s, k)
    BY DEF vars, CallTyped, NoMdls, AllChecked, Checked, Seen, Users
<1>2. OperateAt' = OperateAt /\ QuickAt' = QuickAt
    BY <1>1 DEF vars, OperateAt, QuickAt, CheckingAt, SecuringAt, MdlAt, Beside, CopyingAt, UnsecuringAt
<1>3. PlanInv'
    BY <1>1, <1>2 DEF vars, MemoryInv, PlanInv
<1>4. MdlInv' /\ LockInv' /\ HomeInv'
    BY DEF vars, MemoryInv, MdlInv, LockInv, HomeInv, HasFrames, Count, Shows
<1>5. MachineInv'
    BY <1>1 DEF vars, MemoryInv, MachineInv, Side, OwnRange
<1> QED  BY <1>3, <1>4, <1>5 DEF MemoryInv

\* At every moment of every call the thread is at one of the places of its
\* plan, whatever has failed before, and holds what that place says: the
\* ranges that are secured, the state of the two descriptor lists, the locks
\* their frames stand for and the pages those frames are of (IOCTLHandlers.cpp
\* and MemoryUtils.cpp).
THEOREM MemoryInvariance == Spec => []MemoryInv
<1>1. MemoryInv /\ [Next]_vars => MemoryInv'
  <2> SUFFICES ASSUME MemoryInv, [Next]_vars PROVE MemoryInv'
      OBVIOUS
  <2>1. CASE Begin /\ Observe
      BY <2>1, BeginStep
  <2>2. CASE Return /\ Observe
      BY <2>2, ReturnStep
  <2>3. CASE /\ \/ Attach \/ Detach \/ IsAddressValid \/ GetPhysicalAddress \/ GetProcessCr3
                \/ NativeGetPhysicalAddress \/ PteIsMemoryRangePresent
             /\ Observe
      BY <2>3, QuickStep
  <2>4. CASE CheckPage /\ Observe
      BY <2>4, CheckStep
  <2>5. CASE SecureMemory /\ Observe
      BY <2>5, SecureStep
  <2>6. CASE UnsecureMemory /\ Observe
      BY <2>6, UnsecureStep
  <2>7. CASE AllocateMdl /\ Observe
      BY <2>7, AllocateStep
  <2>8. CASE FreeMdl /\ Observe
      BY <2>8, FreeStep
  <2>9. CASE LockPages /\ Observe
      BY <2>9, LockStep
  <2>10. CASE UnlockPages /\ Observe
      BY <2>10, UnlockStep
  <2>11. CASE MapPages /\ Observe
      BY <2>11, MapStep
  <2>12. CASE UnmapPages /\ Observe
      BY <2>12, UnmapStep
  <2>13. CASE CopyMemory /\ Observe
      BY <2>13, CopyStep
  <2>14. CASE Others /\ Observe
      BY <2>14, OthersStep
  <2>15. CASE UNCHANGED vars
      BY <2>15, MemorySame
  <2> QED
      BY <2>1, <2>2, <2>3, <2>4, <2>5, <2>6, <2>7, <2>8, <2>9, <2>10, <2>11, <2>12, <2>13, <2>14, <2>15
         DEF Next, Thread
<1> QED  BY <1>1, MemoryStarts, PTL DEF Spec

\* A call that has returned keeps no lock, no secured range, no descriptor list
\* and no attachment, by whichever of its returns it has left
\* OperateProcessMemory and the functions that attach.
THEOREM NothingIsKept == Spec => []NothingKept
<1>1. MemoryInv => NothingKept
  <2> SUFFICES ASSUME MemoryInv, todo = <<>>
               PROVE  /\ secured = {} /\ inside = "caller"
                      /\ \A f \in Frames : locks[f] = 0
                      /\ \A s \in Sides : mdl[s] = NoMdl
      BY DEF NothingKept
  <2>1. secured = {} /\ inside = "caller" /\ NoMdls
      BY NothingHeld DEF MemoryInv
  <2>2. \A s \in Sides : \A f : Count(s, f) = 0
      BY <2>1, CountFacts DEF MemoryInv, NoMdls, NoMdl
  <2>3. \A f \in Frames : locks[f] = 0
    <3>1. \A f \in Frames : Count("process", f) = 0 /\ Count("buffer", f) = 0
        BY <2>2 DEF Sides
    <3> QED  BY <3>1 DEF MemoryInv, LockInv
  <2> QED  BY <2>1, <2>3 DEF NoMdls
<1> QED  BY <1>1, MemoryInvariance, PTL

\* The frames that are copied are the frames of the pages of the two ranges:
\* they are locked, a user range is secured, and no change of the tables or of
\* the memory manager's mind takes a page away from its frame meanwhile, but
\* for a page shared copy-on-write and a page of the kernel half that is freed.
THEOREM ViewsAreOfThePages == Spec => []ViewsShowTheirPages
<1>1. MemoryInv => ViewsShowTheirPages
    BY ShownPages DEF ViewsShowTheirPages, Shows
<1> QED  BY <1>1, MemoryInvariance, PTL

\* OperateProcessMemory stops the machine only through a view that the system
\* could not make, or at a page of the kernel half that was present when
\* IsMemoryRangePresent looked at it.
THEOREM OnlyThoseStop == Spec => []OnlyStaleRangesStop
<1>1. MemoryInv => OnlyStaleRangesStop
  <2> SUFFICES ASSUME MemoryInv, stopped = "fault"
               PROVE  PagesOf(OwnRange) \subseteq seen.present
      BY DEF OnlyStaleRangesStop, MemoryInv, MachineInv
  <2> QED  BY DEF MemoryInv, MachineInv, AllChecked, Checked, OwnRange
<1> QED  BY <1>1, MemoryInvariance, PTL

\* The tables hold entries, no frame is unlocked more often than it was locked,
\* and a descriptor list has frames exactly while they are locked.
THEOREM MemoryTypes == Spec => []ProcessMemoryTypeOK
<1>1. MemoryInv => ProcessMemoryTypeOK
  <2> SUFFICES ASSUME MemoryInv PROVE ProcessMemoryTypeOK
      OBVIOUS
  <2>1. secured \subseteq Sides
    <3>1. Users(call) \subseteq Sides
        BY DEF Users
    <3>2. OperateAt => secured \subseteq Sides
        BY <3>1 DEF OperateAt, CheckingAt, SecuringAt, MdlAt, CopyingAt, UnsecuringAt
    <3> QED  BY <3>2 DEF MemoryInv, PlanInv
  <2>2. call.op \in Ops \union {"none"} /\ inside \in Spaces
    <3>1. QuickAt => inside \in Spaces
        BY DEF QuickAt, Spaces
    <3>2. CallTyped => call.op \in Ops
        BY DEF CallTyped
    <3> QED  BY <3>1, <3>2 DEF MemoryInv, PlanInv, NoCall, Spaces
  <2>3. ASSUME NEW s \in Sides
        PROVE  /\ mdl[s].base \in {"none", "allocated", "locked", "mapped", "null"}
               /\ (mdl[s].frames # <<>>) = (mdl[s].base \in {"locked", "mapped", "null"})
    <3>1. mdl[s].base \in {"none", "allocated", "locked", "mapped", "null"}
        BY DEF MemoryInv, MdlInv
    <3>2. CASE ~HasFrames(s)
        BY <3>2 DEF MemoryInv, MdlInv, HasFrames
    <3>3. CASE HasFrames(s)
      <4>1. Len(mdl[s].frames) = Len(call[s])
          BY <3>3 DEF MemoryInv, MdlInv
      <4>2. Operating
          BY <3>3 DEF MemoryInv, PlanInv, Operating, HasFrames, NoMdls, NoMdl
      <4>3. Len(call[s]) # 0
          BY <4>2, CallRanges, RangeFacts
      <4>4. mdl[s].frames # <<>>
          BY <4>1, <4>3
      <4> QED  BY <3>3, <4>4 DEF HasFrames
    <3> QED  BY <3>1, <3>2, <3>3
  <2> QED  BY <2>1, <2>2, <2>3 DEF MemoryInv, HomeInv, LockInv, MachineInv, ProcessMemoryTypeOK
<1> QED  BY <1>1, MemoryInvariance, PTL

-----------------------------------------------------------------------------
(***************************************************************************)
(* What an address is translated to, from the table of each level on.      *)
(***************************************************************************)
At1(m, t, va) == IF m[t][va[4]].p THEN m[t][va[4]].pfn ELSE None
At2(m, t, va) ==
    LET e == m[t][va[3]]
    IN  IF ~e.p THEN None ELSE IF e.ps THEN e.pfn + InLarge(va) ELSE At1(m, e.pfn, va)
At3(m, t, va) ==
    LET e == m[t][va[2]]
    IN  IF ~e.p THEN None ELSE IF e.ps THEN e.pfn + InHuge(va) ELSE At2(m, e.pfn, va)
At4(m, t, va) == IF m[t][va[1]].p THEN At3(m, m[t][va[1]].pfn, va) ELSE None
Onward(m, level, t, va) ==
    IF level = 4 THEN At4(m, t, va) ELSE IF level = 3 THEN At3(m, t, va)
    ELSE IF level = 2 THEN At2(m, t, va) ELSE At1(m, t, va)

\* The walk of an address comes to table t for its entry at a level.
Refers(e, t) == e.p /\ t = e.pfn
On3(m, root, va, t) == Refers(m[root][va[1]], t)
On2(m, root, va, t) ==
    \E u \in Tables : On3(m, root, va, u) /\ Refers(m[u][va[2]], t) /\ ~m[u][va[2]].ps
On1(m, root, va, t) ==
    \E u \in Tables : On2(m, root, va, u) /\ Refers(m[u][va[3]], t) /\ ~m[u][va[3]].ps
Reaches(m, root, va, level, t) ==
    IF level = 4 THEN t = root ELSE IF level = 3 THEN On3(m, root, va, t)
    ELSE IF level = 2 THEN On2(m, root, va, t) ELSE On1(m, root, va, t)

LEMMA TranslationIs ==
    ASSUME NEW m, NEW root, NEW va
    PROVE  Translation(m, root, va) = Onward(m, 4, root, va)
BY DEF Translation, Onward, At4, At3, At2, At1

LEMMA OnwardFrom ==
    ASSUME NEW m, NEW root, NEW va, NEW level \in 1..4, NEW t, Reaches(m, root, va, level, t)
    PROVE  Onward(m, level, t, va) = Translation(m, root, va)
<1>1. Translation(m, root, va) = At4(m, root, va)
    BY TranslationIs DEF Onward
<1>2. ASSUME NEW u, On3(m, root, va, u)
      PROVE  At4(m, root, va) = At3(m, u, va)
    BY <1>2 DEF On3, Refers, At4
<1>3. ASSUME NEW u, On2(m, root, va, u)
      PROVE  At4(m, root, va) = At2(m, u, va)
  <2>1. PICK w \in Tables : On3(m, root, va, w) /\ Refers(m[w][va[2]], u) /\ ~m[w][va[2]].ps
      BY <1>3 DEF On2
  <2>2. At3(m, w, va) = At2(m, u, va)
      BY <2>1 DEF Refers, At3
  <2> QED  BY <1>2, <2>1, <2>2
<1>4. ASSUME NEW u, On1(m, root, va, u)
      PROVE  At4(m, root, va) = At1(m, u, va)
  <2>1. PICK w \in Tables : On2(m, root, va, w) /\ Refers(m[w][va[3]], u) /\ ~m[w][va[3]].ps
      BY <1>4 DEF On1
  <2>2. At2(m, w, va) = At1(m, u, va)
      BY <2>1 DEF Refers, At2
  <2> QED  BY <1>3, <2>1, <2>2
<1> QED  BY <1>1, <1>2, <1>3, <1>4 DEF Reaches, Onward

\* What an entry of tables that are in levels leads to.
LEMMA EntryLeads ==
    ASSUME NEW m, MemTyped(m), InLevels(m), NEW t \in Tables, NEW i \in Index
    PROVE  /\ m[t][i] \in Entries /\ m[t][i].pfn \in Nat
           /\ m[t][i].p \in BOOLEAN /\ m[t][i].ps \in BOOLEAN /\ m[t][i].pat \in BOOLEAN
           /\ Level[t] \in 1..4
           /\ m[t][i].p => m[t][i].pfn # 0
           /\ m[t][i].p /\ (Level[t] = 4 \/ (Level[t] \in {2, 3} /\ ~m[t][i].ps)) =>
                 m[t][i].pfn \in Tables /\ Level[m[t][i].pfn] = Level[t] - 1
<1>1. m[t][i] \in Entries /\ Level[t] \in 1..4
    BY PageTablesAssumption DEF MemTyped
<1>2. References(Level[t], m[t][i])
    BY DEF InLevels
<1> QED  BY <1>1, <1>2 DEF Entries, References, MapsPage

LEMMA InPage ==
    ASSUME NEW va \in Address
    PROVE  /\ \A k \in 1..4 : va[k] \in Index
           /\ InLarge(va) \in Nat /\ InHuge(va) \in Nat
<1>1. va[1] \in Index /\ va[2] \in Index /\ va[3] \in Index /\ va[4] \in Index
    BY DEF Address
<1>2. Index \subseteq Nat /\ Slots \in Nat
    BY PageTablesAssumption DEF Index
<1>3. \A a, b, c \in Nat : a * b + c \in Nat
    OBVIOUS
<1>4. InLarge(va) \in Nat /\ InHuge(va) \in Nat
    BY <1>1, <1>2, <1>3 DEF InLarge, InHuge
<1> QED  BY <1>1, <1>4

Found(f) == f = None \/ f \in Nat \ {0}

LEMMA OnwardFound ==
    ASSUME NEW m, MemTyped(m), InLevels(m), NEW va \in Address, NEW t \in Tables
    PROVE  Found(Onward(m, Level[t], t, va))
<1>1. ASSUME NEW u \in Tables, Level[u] = 1
      PROVE  Found(At1(m, u, va))
    BY <1>1, EntryLeads, InPage DEF At1, Found
<1>2. ASSUME NEW u \in Tables, Level[u] = 2
      PROVE  Found(At2(m, u, va))
    BY <1>1, <1>2, EntryLeads, InPage DEF At2, Found
<1>3. ASSUME NEW u \in Tables, Level[u] = 3
      PROVE  Found(At3(m, u, va))
    BY <1>2, <1>3, EntryLeads, InPage DEF At3, Found
<1>4. ASSUME NEW u \in Tables, Level[u] = 4
      PROVE  Found(At4(m, u, va))
    BY <1>3, <1>4, EntryLeads, InPage DEF At4, Found
<1>5. Level[t] \in 1..4
    BY PageTablesAssumption
<1> QED  BY <1>1, <1>2, <1>3, <1>4, <1>5 DEF Onward

LEMMA TranslationFound ==
    ASSUME NEW m, MemTyped(m), InLevels(m), NEW va \in Address, NEW root \in Tables, Level[root] = 4
    PROVE  Found(Translation(m, root, va))
BY OnwardFound, TranslationIs

\* The walk reads an entry as the processor does, unless it is one of those
\* that Misread names.
LEMMA MaskedIs == \A f \in Nat : f < Reach => Masked(f) = f
<1>1. Reach \in Nat \ {0}
    BY PageTablesAssumption
<1>2. \A f \in Nat : \A r \in Nat \ {0} : f < r => f % r = f
    OBVIOUS
<1> QED  BY <1>1, <1>2 DEF Masked

LEMMA WalkReads ==
    ASSUME NEW m, MemTyped(m), InLevels(m), NEW va \in Address, NEW t \in Tables, NEW level,
           level = Level[t], ~Misread(level, m[t][va[5 - level]])
    PROVE  LET e == m[t][va[5 - level]]
               r == WalkStep(level, e, va)
           IN  IF r.done
               THEN /\ r.frame = 0 => Onward(m, level, t, va) = None
                    /\ r.frame # 0 => Onward(m, level, t, va) = r.frame
               ELSE /\ level \in 2..4 /\ r.frame \in Tables /\ Level[r.frame] = level - 1
                    /\ Onward(m, level - 1, r.frame, va) = Onward(m, level, t, va)
                    /\ \A root : Reaches(m, root, va, level, t) => Reaches(m, root, va, level - 1, r.frame)
<1> DEFINE e == m[t][va[5 - level]]
           r == WalkStep(level, e, va)
<1>1. level \in 1..4 /\ va[5 - level] \in Index
    BY InPage, PageTablesAssumption
<1>2. /\ e \in Entries /\ e.pfn \in Nat /\ e.p \in BOOLEAN /\ e.ps \in BOOLEAN /\ e.pat \in BOOLEAN
      /\ e.p => e.pfn # 0
      /\ e.p /\ (level = 4 \/ (level \in {2, 3} /\ ~e.ps)) => e.pfn \in Tables /\ Level[e.pfn] = level - 1
    BY <1>1, EntryLeads
<1>3. e.p => Masked(e.pfn) = e.pfn
    BY <1>2, MaskedIs, PageTablesAssumption DEF Misread
<1>4. InLarge(va) \in Nat /\ InHuge(va) \in Nat
    BY InPage
<1>5. CASE level = 1
  <2>1. e = m[t][va[4]] /\ r = [done |-> TRUE, frame |-> Masked(e.pfn)]
      BY <1>5 DEF WalkStep, Result
  <2>2. ~e.p => Masked(e.pfn) = 0
      BY <1>5 DEF Misread
  <2>3. Onward(m, level, t, va) = IF e.p THEN e.pfn ELSE None
      BY <1>5, <2>1 DEF Onward, At1
  <2> QED  BY <1>2, <1>3, <2>1, <2>2, <2>3
<1>6. CASE level = 2
  <2>1. e = m[t][va[3]]
      BY <1>6
  <2>2. r = IF ~e.p THEN [done |-> TRUE, frame |-> 0]
            ELSE IF e.ps THEN [done |-> TRUE, frame |-> Masked(e.pfn) + (IF e.pat THEN 1 ELSE 0) + InLarge(va)]
            ELSE [done |-> FALSE, frame |-> Masked(e.pfn)]
      BY <1>6, <1>2 DEF WalkStep, Result, NextTable
  <2>3. e.p /\ e.ps => ~e.pat
      BY <1>6 DEF Misread
  <2>4. Onward(m, level, t, va) =
            IF ~e.p THEN None ELSE IF e.ps THEN e.pfn + InLarge(va) ELSE At1(m, e.pfn, va)
      BY <1>6, <2>1 DEF Onward, At2
  <2>5. \A u : Onward(m, level - 1, u, va) = At1(m, u, va)
      BY <1>6 DEF Onward
  <2>6. \A root : Reaches(m, root, va, level, t) /\ e.p /\ ~e.ps => Reaches(m, root, va, level - 1, e.pfn)
      BY <1>6, <2>1 DEF Reaches, Refers, On1
  <2> HIDE DEF e, r
  <2>7. CASE ~e.p
    <3>1. r = [done |-> TRUE, frame |-> 0] /\ Onward(m, level, t, va) = None
        BY <1>2, <2>2, <2>4, <2>7
    <3> QED  BY <3>1 DEF e, r
  <2>8. CASE e.p /\ e.ps
    <3>0. Masked(e.pfn) = e.pfn /\ ~e.pat /\ e.pfn + 0 + InLarge(va) = e.pfn + InLarge(va)
        BY <1>2, <1>3, <1>4, <2>3, <2>8
    <3>1. r = [done |-> TRUE, frame |-> e.pfn + InLarge(va)] /\ Onward(m, level, t, va) = e.pfn + InLarge(va)
      <4>1. r = [done |-> TRUE, frame |-> e.pfn + 0 + InLarge(va)]
          BY <2>2, <2>8, <3>0
      <4>2. Onward(m, level, t, va) = e.pfn + InLarge(va)
          BY <2>4, <2>8
      <4> QED  BY <3>0, <4>1, <4>2
    <3>2. e.pfn + InLarge(va) # 0
        BY <1>2, <1>4, <2>8
    <3> QED  BY <3>1, <3>2 DEF e, r
  <2>9. CASE e.p /\ ~e.ps
    <3>1. r = [done |-> FALSE, frame |-> e.pfn] /\ e.pfn \in Tables /\ Level[e.pfn] = level - 1
        BY <1>2, <1>3, <1>6, <2>2, <2>9
    <3>2. Onward(m, level - 1, e.pfn, va) = Onward(m, level, t, va)
        BY <1>2, <2>4, <2>5, <2>9
    <3> QED  BY <1>6, <2>6, <2>9, <3>1, <3>2 DEF e, r
  <2> QED  BY <1>2, <2>7, <2>8, <2>9
<1>7. CASE level = 3
  <2>1. e = m[t][va[2]]
      BY <1>7
  <2>2. r = IF ~e.p THEN [done |-> TRUE, frame |-> 0]
            ELSE IF e.ps THEN [done |-> TRUE, frame |-> e.pfn + InHuge(va)]
            ELSE [done |-> FALSE, frame |-> Masked(e.pfn)]
      BY <1>7, <1>2 DEF WalkStep, Result, NextTable
  <2>4. Onward(m, level, t, va) =
            IF ~e.p THEN None ELSE IF e.ps THEN e.pfn + InHuge(va) ELSE At2(m, e.pfn, va)
      BY <1>7, <2>1 DEF Onward, At3
  <2>5. \A u : Onward(m, level - 1, u, va) = At2(m, u, va)
      BY <1>7 DEF Onward
  <2>6. \A root : Reaches(m, root, va, level, t) /\ e.p /\ ~e.ps => Reaches(m, root, va, level - 1, e.pfn)
      BY <1>7, <2>1 DEF Reaches, Refers, On2
  <2> QED  BY <1>2, <1>3, <1>4, <1>7, <2>2, <2>4, <2>5, <2>6
<1>8. CASE level = 4
  <2>1. e = m[t][va[1]]
      BY <1>8
  <2>2. r = IF ~e.p THEN [done |-> TRUE, frame |-> 0] ELSE [done |-> FALSE, frame |-> Masked(e.pfn)]
      BY <1>8, <1>2 DEF WalkStep, Result, NextTable
  <2>4. Onward(m, level, t, va) = IF e.p THEN At3(m, e.pfn, va) ELSE None
      BY <1>8, <2>1 DEF Onward, At4
  <2>5. \A u : Onward(m, level - 1, u, va) = At3(m, u, va)
      BY <1>8 DEF Onward
  <2>6. \A root : Reaches(m, root, va, level, t) /\ e.p => Reaches(m, root, va, level - 1, e.pfn)
      BY <1>8, <2>1 DEF Reaches, Refers, On3
  <2> HIDE DEF e, r
  <2>7. CASE ~e.p
    <3>1. r = [done |-> TRUE, frame |-> 0] /\ Onward(m, level, t, va) = None
        BY <2>2, <2>4, <2>7
    <3> QED  BY <3>1 DEF e, r
  <2>8. CASE e.p
    <3>1. r = [done |-> FALSE, frame |-> e.pfn] /\ e.pfn \in Tables /\ Level[e.pfn] = level - 1
        BY <1>2, <1>3, <1>8, <2>2, <2>8
    <3>2. Onward(m, level - 1, e.pfn, va) = Onward(m, level, t, va)
        BY <2>4, <2>5, <2>8
    <3> QED  BY <1>8, <2>6, <2>8, <3>1, <3>2 DEF e, r
  <2> QED  BY <1>2, <2>7, <2>8
<1>9. level = 1 \/ level = 2 \/ level = 3 \/ level = 4
    BY <1>1
<1> QED  BY <1>5, <1>6, <1>7, <1>8, <1>9, Zenon

-----------------------------------------------------------------------------
(***************************************************************************)
(* A change of one table while an address is walked.                       *)
(***************************************************************************)
LEMMA SameBelow ==
    ASSUME NEW m, MemTyped(m), InLevels(m), NEW va \in Address, NEW t \in Tables,
           NEW n, \A u \in Tables : Level[u] <= Level[t] => n[u] = m[u]
    PROVE  Onward(n, Level[t], t, va) = Onward(m, Level[t], t, va)
<1>1. ASSUME NEW u \in Tables, Level[u] = 1, Level[t] >= 1
      PROVE  At1(n, u, va) = At1(m, u, va)
    BY <1>1, PageTablesAssumption DEF At1
<1>2. ASSUME NEW u \in Tables, Level[u] = 2, Level[t] >= 2
      PROVE  At2(n, u, va) = At2(m, u, va)
  <2>1. n[u] = m[u]
      BY <1>2, PageTablesAssumption
  <2>2. m[u][va[3]].p /\ ~m[u][va[3]].ps => At1(n, m[u][va[3]].pfn, va) = At1(m, m[u][va[3]].pfn, va)
      BY <1>1, <1>2, EntryLeads, InPage, PageTablesAssumption
  <2> QED  BY <2>1, <2>2 DEF At2
<1>3. ASSUME NEW u \in Tables, Level[u] = 3, Level[t] >= 3
      PROVE  At3(n, u, va) = At3(m, u, va)
  <2>1. n[u] = m[u]
      BY <1>3, PageTablesAssumption
  <2>2. m[u][va[2]].p /\ ~m[u][va[2]].ps => At2(n, m[u][va[2]].pfn, va) = At2(m, m[u][va[2]].pfn, va)
      BY <1>2, <1>3, EntryLeads, InPage, PageTablesAssumption
  <2> QED  BY <2>1, <2>2 DEF At3
<1>4. ASSUME NEW u \in Tables, Level[u] = 4, Level[t] >= 4
      PROVE  At4(n, u, va) = At4(m, u, va)
  <2>1. n[u] = m[u]
      BY <1>4, PageTablesAssumption
  <2>2. m[u][va[1]].p => At3(n, m[u][va[1]].pfn, va) = At3(m, m[u][va[1]].pfn, va)
      BY <1>3, <1>4, EntryLeads, InPage, PageTablesAssumption
  <2> QED  BY <2>1, <2>2 DEF At4
<1>5. Level[t] \in 1..4
    BY PageTablesAssumption
<1> QED  BY <1>1, <1>2, <1>3, <1>4, <1>5 DEF Onward

LEMMA OnLevels ==
    ASSUME NEW m, MemTyped(m), InLevels(m), NEW va \in Address, NEW root \in Tables, Level[root] = 4,
           NEW u \in Tables
    PROVE  /\ On3(m, root, va, u) => Level[u] = 3
           /\ On2(m, root, va, u) => Level[u] = 2
<1>1. \A v \in Tables : On3(m, root, va, v) => Level[v] = 3
    BY EntryLeads, InPage DEF On3, Refers
<1>2. ASSUME On2(m, root, va, u)
      PROVE  Level[u] = 2
  <2>1. PICK w \in Tables : On3(m, root, va, w) /\ Refers(m[w][va[2]], u) /\ ~m[w][va[2]].ps
      BY <1>2 DEF On2
  <2>2. Level[w] = 3
      BY <1>1, <2>1
  <2> QED  BY <2>1, <2>2, EntryLeads, InPage DEF Refers
<1> QED  BY <1>1, <1>2

LEMMA ReachesKept ==
    ASSUME NEW m, MemTyped(m), InLevels(m), NEW va \in Address, NEW root \in Tables, Level[root] = 4,
           NEW t \in Tables, NEW level \in 1..4, Reaches(m, root, va, level, t),
           NEW n, \A u \in Tables : Level[u] > level => n[u] = m[u]
    PROVE  Reaches(n, root, va, level, t)
<1>1. ASSUME NEW u, level <= 3, On3(m, root, va, u)
      PROVE  On3(n, root, va, u)
    BY <1>1 DEF On3
<1>2. ASSUME NEW u, level <= 2, On2(m, root, va, u)
      PROVE  On2(n, root, va, u)
  <2>1. PICK w \in Tables : On3(m, root, va, w) /\ Refers(m[w][va[2]], u) /\ ~m[w][va[2]].ps
      BY <1>2 DEF On2
  <2>2. On3(n, root, va, w) /\ n[w] = m[w]
      BY <1>1, <1>2, <2>1, OnLevels
  <2> QED  BY <2>1, <2>2 DEF On2
<1>3. ASSUME NEW u, level <= 1, On1(m, root, va, u)
      PROVE  On1(n, root, va, u)
  <2>1. PICK w \in Tables : On2(m, root, va, w) /\ Refers(m[w][va[3]], u) /\ ~m[w][va[3]].ps
      BY <1>3 DEF On1
  <2>2. On2(n, root, va, w) /\ n[w] = m[w]
      BY <1>2, <1>3, <2>1, OnLevels
  <2> QED  BY <2>1, <2>2 DEF On1
<1> QED  BY <1>1, <1>2, <1>3 DEF Reaches

\* When one table changes while the walk is on its way, what it finds is what
\* the address was translated to before, or what it is translated to now.
LEMMA OneChange ==
    ASSUME NEW m, MemTyped(m), InLevels(m), NEW n, NEW x \in Tables, \A u \in Tables \ {x} : n[u] = m[u],
           NEW va \in Address, NEW root \in Tables, Level[root] = 4,
           NEW t \in Tables, Reaches(m, root, va, Level[t], t)
    PROVE  Onward(n, Level[t], t, va) \in {Translation(m, root, va), Translation(n, root, va)}
<1>1. Level[x] \in 1..4 /\ Level[t] \in 1..4
    BY PageTablesAssumption
<1>2. CASE Level[x] > Level[t]
  <2>1. \A u \in Tables : Level[u] <= Level[t] => n[u] = m[u]
      BY <1>1, <1>2
  <2>2. Onward(n, Level[t], t, va) = Onward(m, Level[t], t, va)
      BY <2>1, SameBelow
  <2> QED  BY <1>1, <2>2, OnwardFrom
<1>3. CASE Level[x] <= Level[t]
  <2>1. \A u \in Tables : Level[u] > Level[t] => n[u] = m[u]
      BY <1>1, <1>3
  <2>2. Reaches(n, root, va, Level[t], t)
      BY <1>1, <2>1, ReachesKept
  <2> QED  BY <1>1, <2>2, OnwardFrom
<1> QED  BY <1>1, <1>2, <1>3

Upper3(m, u, va) ==
    m[u][va[2]].p /\ (m[u][va[2]].ps \/ m[m[u][va[2]].pfn][va[3]].p)

LEMMA UpperIs ==
    ASSUME NEW m, NEW root, NEW va
    PROVE  UpperPresent(m, root, va) <=> m[root][va[1]].p /\ Upper3(m, m[root][va[1]].pfn, va)
BY DEF UpperPresent, Upper3

LEMMA UpperKept ==
    ASSUME NEW m, MemTyped(m), InLevels(m), NEW n, \A u \in Tables : Level[u] >= 2 => n[u] = m[u],
           NEW va \in Address, NEW root \in Tables, Level[root] = 4, UpperPresent(n, root, va)
    PROVE  UpperPresent(m, root, va)
<1>1. /\ n[root] = m[root] /\ m[root][va[1]].p
      /\ Upper3(n, m[root][va[1]].pfn, va)
    BY UpperIs
<1>2. ASSUME NEW u \in Tables, Level[u] = 3, Upper3(n, u, va)
      PROVE  Upper3(m, u, va)
  <2>1. n[u] = m[u]
      BY <1>2
  <2>2. m[u][va[2]].p /\ ~m[u][va[2]].ps => n[m[u][va[2]].pfn] = m[m[u][va[2]].pfn]
      BY <1>2, EntryLeads, InPage
  <2> QED  BY <1>2, <2>1, <2>2 DEF Upper3
<1>3. Upper3(m, m[root][va[1]].pfn, va)
    BY <1>1, <1>2, EntryLeads, InPage
<1> QED  BY <1>1, <1>3, UpperIs

\* IsPagePresent reads the entries of an address as the processor does, where
\* the upper ones are present.
LEMMA PresentThere ==
    ASSUME NEW m, MemTyped(m), InLevels(m), NEW va \in Address, NEW root \in Tables, Level[root] = 4,
           UpperPresent(m, root, va), NEW found \in IsPagePresent(m, root, va), found.present
    PROVE  Translation(m, root, va) # None
<1> DEFINE Pde(e2) ==
               IF e2.ps THEN {Presence(e2, Slots)}
               ELSE Unmapped(e2.pfn) \union {Presence(e, 1) : e \in Through(m, e2.pfn, va[4])}
           Pdpe(e3) ==
               IF ~e3.ps
               THEN Unmapped(e3.pfn) \union UNION {Pde(e) : e \in Through(m, e3.pfn, va[3])}
               ELSE IF e3.p THEN {Presence(e3, Slots * Slots)} ELSE {Absent}
           e4 == m[root][va[1]]
<1>1. e4.p /\ Upper3(m, e4.pfn, va) /\ e4.pfn \in Tables /\ Level[e4.pfn] = 3
    BY UpperIs, EntryLeads, InPage
<1>2. \A f \in Tables : Unmapped(f) = {} /\ \A i : Through(m, f, i) = {m[f][i]}
    BY DEF Unmapped, Through
<1>3. found \in Pdpe(m[e4.pfn][va[2]])
  <2>1. IsPagePresent(m, root, va) =
            IF ~e4.p THEN {Absent}
            ELSE Unmapped(e4.pfn) \union UNION {Pdpe(e) : e \in Through(m, e4.pfn, va[2])}
      BY DEF IsPagePresent
  <2> HIDE DEF Pdpe, e4
  <2> QED  BY <1>1, <1>2, <2>1
<1>4. ASSUME NEW u \in Tables, Level[u] = 2, m[u][va[3]].p, found \in Pde(m[u][va[3]])
      PROVE  At2(m, u, va) # None
  <2> DEFINE e2 == m[u][va[3]]
  <2>1. e2.pfn \in Nat /\ e2.p /\ (~e2.ps => e2.pfn \in Tables /\ Level[e2.pfn] = 1)
      BY <1>4, EntryLeads, InPage
  <2>2. CASE e2.ps
      BY <2>1, <2>2, InPage DEF At2, None
  <2>3. CASE ~e2.ps
    <3>1. found = Presence(m[e2.pfn][va[4]], 1)
      <4>1. found \in Unmapped(e2.pfn) \union {Presence(e, 1) : e \in Through(m, e2.pfn, va[4])}
          BY <1>4, <2>3
      <4>2. e2.pfn \in Tables
          BY <2>1, <2>3
      <4> HIDE DEF e2
      <4>3. Unmapped(e2.pfn) = {} /\ Through(m, e2.pfn, va[4]) = {m[e2.pfn][va[4]]}
          BY <1>2, <4>2
      <4> QED  BY <4>1, <4>3
    <3>2. m[e2.pfn][va[4]].p
        BY <3>1 DEF Presence
    <3>3. m[e2.pfn][va[4]].pfn \in Nat
        BY <2>1, <2>3, EntryLeads, InPage
    <3>4. At1(m, e2.pfn, va) # None
      <4>1. At1(m, e2.pfn, va) = m[e2.pfn][va[4]].pfn
          BY <3>2 DEF At1
      <4> HIDE DEF e2
      <4> QED  BY <3>3, <4>1 DEF None
    <3>5. At2(m, u, va) = At1(m, e2.pfn, va)
        BY <2>1, <2>3 DEF At2
    <3> QED  BY <3>4, <3>5
  <2> QED  BY <2>2, <2>3
<1>5. ASSUME NEW u \in Tables, Level[u] = 3, Upper3(m, u, va), found \in Pdpe(m[u][va[2]])
      PROVE  At3(m, u, va) # None
  <2> DEFINE e3 == m[u][va[2]]
  <2>1. e3.pfn \in Nat /\ e3.p /\ (~e3.ps => e3.pfn \in Tables /\ Level[e3.pfn] = 2)
    <3>1. va[2] \in Index
        BY InPage
    <3>2. /\ e3.pfn \in Nat
          /\ e3.p /\ Level[u] \in {2, 3} /\ ~e3.ps => e3.pfn \in Tables /\ Level[e3.pfn] = Level[u] - 1
        BY <3>1, EntryLeads
    <3>3. e3.p
        BY <1>5 DEF Upper3
    <3> QED  BY <1>5, <3>2, <3>3
  <2>2. CASE e3.ps
      BY <2>1, <2>2, InPage DEF At3, None
  <2>3. CASE ~e3.ps
    <3>1. m[e3.pfn][va[3]].p
        BY <1>5, <2>3 DEF Upper3
    <3>2. found \in Pde(m[e3.pfn][va[3]])
      <4>1. found \in Unmapped(e3.pfn) \union UNION {Pde(e) : e \in Through(m, e3.pfn, va[3])}
          BY <1>5, <2>3
      <4> HIDE DEF e3, Pde
      <4> QED  BY <1>2, <2>1, <2>3, <4>1
    <3>3. At2(m, e3.pfn, va) # None
        BY <1>4, <2>1, <2>3, <3>1, <3>2
    <3> QED  BY <2>1, <2>3, <3>3 DEF At3
  <2> QED  BY <2>2, <2>3
<1>6. At3(m, e4.pfn, va) # None
    BY <1>1, <1>3, <1>5
<1>7. Translation(m, root, va) = At4(m, root, va)
    BY TranslationIs DEF Onward
<1> QED  BY <1>1, <1>6, <1>7 DEF At4

-----------------------------------------------------------------------------
(***************************************************************************)
(* What the calls that answer have found at each place of their plans.     *)
(***************************************************************************)
AskThere == <<<<"attach">>, <<"valid">>, <<"get">>, <<"detach">>>>
PteThere == <<<<"attach">>, <<"pte">>, <<"detach">>>>
Asks == {<<<<"valid">>, <<"get">>, <<"detach">>>>, <<<<"get">>, <<"detach">>>>,
         <<<<"valid">>, <<"get">>>>, <<<<"get">>>>}
PteAsks == {<<<<"pte">>, <<"detach">>>>, <<<<"pte">>>>}
Ends == {<<<<"detach">>>>, <<>>}
WalkPlan(level) ==
    IF level = 4 THEN <<<<"entry", 4>>, <<"entry", 3>>, <<"entry", 2>>, <<"entry", 1>>>>
    ELSE IF level = 3 THEN <<<<"entry", 3>>, <<"entry", 2>>, <<"entry", 1>>>>
    ELSE IF level = 2 THEN <<<<"entry", 2>>, <<"entry", 1>>>> ELSE <<<<"entry", 1>>>>

\* What the address is translated to at the moment, and an answer that agrees
\* with one of the moments of the call.
Here == Translation(mem, Root[Where(call.space)], Va)
Told == IF answer = 0 THEN None \in seen.frames ELSE answer \in seen.frames

TreeInv == InLevels(mem) /\ OneKernelHalf(mem)
SeenInv == call.op \in {"translate", "native"} => Here \in seen.frames

TranslateInv ==
    call.op = "translate" =>
        \/ todo = AskThere /\ call.space = "target" /\ answer = 0
        \/ todo \in Asks /\ inside = Where(call.space) /\ answer = 0
        \/ todo \in Ends /\ Told

\* The walk has still to find what the address was translated to at some moment
\* of the call, from the table it has come to; before the first change, the
\* processor's own walk comes to that table as well.
WalkAt(level) ==
    /\ cursor.at \in Tables /\ Level[cursor.at] = level
    /\ Onward(mem, level, cursor.at, Va) \in seen.frames
    /\ changes = 0 => Reaches(mem, Root[call.space], Va, level, cursor.at)
Followed == ~cursor.misread /\ changes <= 1
NativeInv ==
    call.op = "native" =>
        \/ todo = <<>> /\ (Followed => Told)
        \/ \E level \in 1..4 : todo = WalkPlan(level) /\ (Followed => WalkAt(level))

PresentInv ==
    call.op = "present" =>
        \/ todo # <<>> /\ answer = 0 /\ inside = "caller" /\ CheckingAt("process", <<>>)
        \/ todo = <<>> /\ (answer = 1 => PagesOf(call.process) \subseteq seen.present)

PteInv ==
    call.op = "ptePresent" =>
        \/ todo = PteThere /\ call.space = "target" /\ answer = 0
        \/ todo \in PteAsks /\ inside = call.space /\ answer = 0
        \/ /\ todo \in Ends
           /\ (answer = 1 /\ UpperPresent(mem, Root[call.space], Va)) =>
                 call.process[1] \in seen.present

OpInv == TranslateInv /\ NativeInv /\ PresentInv /\ PteInv
AnswerInv == TreeInv /\ SeenInv /\ OpInv

LEMMA PlansLead ==
    /\ AskThere # <<>> /\ Head(AskThere)[1] = "attach" /\ Tail(AskThere) \in Asks
    /\ PteThere # <<>> /\ Head(PteThere)[1] = "attach" /\ Tail(PteThere) \in PteAsks
    /\ \A p \in Asks : /\ p # <<>>
                       /\ \/ Head(p)[1] = "valid" /\ Tail(p) \in Asks /\ Tail(Tail(p)) \in Ends
                          \/ Head(p)[1] = "get" /\ Tail(p) \in Ends
    /\ \A p \in PteAsks : p # <<>> /\ Head(p)[1] = "pte" /\ Tail(p) \in Ends
    /\ \A p \in Ends : p = <<>> \/ (Head(p)[1] = "detach" /\ Tail(p) \in Ends)
<1> DEFINE at == <<"attach">>  dt == <<"detach">>  va == <<"valid">>  ge == <<"get">>  pt == <<"pte">>
           t1 == <<va, ge, dt>>
           t2 == <<ge, dt>>
           c1 == <<va, ge>>
           c2 == <<ge>>
           p1 == <<pt, dt>>
           p2 == <<pt>>
           e1 == <<dt>>
<1>1. at[1] = "attach" /\ dt[1] = "detach" /\ va[1] = "valid" /\ ge[1] = "get" /\ pt[1] = "pte"
    OBVIOUS
<1>2. /\ AskThere = <<at, va, ge, dt>> /\ PteThere = <<at, pt, dt>>
      /\ Asks = {t1, t2, c1, c2} /\ PteAsks = {p1, p2} /\ Ends = {e1, <<>>}
    BY DEF AskThere, PteThere, Asks, PteAsks, Ends
<1> HIDE DEF at, dt, va, ge, pt
<1>3. /\ Head(<<at, va, ge, dt>>) = at /\ Head(<<at, pt, dt>>) = at
      /\ <<at, va, ge, dt>> # <<>> /\ <<at, pt, dt>> # <<>>
      /\ Head(t1) = va /\ Head(t2) = ge /\ Head(c1) = va /\ Head(c2) = ge
      /\ Head(p1) = pt /\ Head(p2) = pt /\ Head(e1) = dt
      /\ t1 # <<>> /\ t2 # <<>> /\ c1 # <<>> /\ c2 # <<>> /\ p1 # <<>> /\ p2 # <<>>
    OBVIOUS
<1>4. /\ Tail(<<at, va, ge, dt>>) = t1 /\ Tail(<<at, pt, dt>>) = p1
      /\ Tail(t1) = t2 /\ Tail(t2) = e1 /\ Tail(c1) = c2 /\ Tail(c2) = <<>>
      /\ Tail(p1) = e1 /\ Tail(p2) = <<>> /\ Tail(e1) = <<>>
    BY Tails
<1> HIDE DEF t1, t2, c1, c2, p1, p2, e1
<1>5. /\ AskThere # <<>> /\ Head(AskThere)[1] = "attach" /\ Tail(AskThere) \in Asks
      /\ PteThere # <<>> /\ Head(PteThere)[1] = "attach" /\ Tail(PteThere) \in PteAsks
    BY <1>1, <1>2, <1>3, <1>4
<1>6. /\ t1 # <<>> /\ Head(t1)[1] = "valid" /\ Tail(t1) \in Asks /\ Tail(Tail(t1)) \in Ends
      /\ t2 # <<>> /\ Head(t2)[1] = "get" /\ Tail(t2) \in Ends
      /\ c1 # <<>> /\ Head(c1)[1] = "valid" /\ Tail(c1) \in Asks /\ Tail(Tail(c1)) \in Ends
      /\ c2 # <<>> /\ Head(c2)[1] = "get" /\ Tail(c2) \in Ends
    BY <1>1, <1>2, <1>3, <1>4
<1>7. /\ p1 # <<>> /\ Head(p1)[1] = "pte" /\ Tail(p1) \in Ends
      /\ p2 # <<>> /\ Head(p2)[1] = "pte" /\ Tail(p2) \in Ends
      /\ Head(e1)[1] = "detach" /\ Tail(e1) \in Ends
    BY <1>1, <1>2, <1>3, <1>4
<1> DEFINE Ok(p) == /\ p # <<>>
                    /\ \/ Head(p)[1] = "valid" /\ Tail(p) \in Asks /\ Tail(Tail(p)) \in Ends
                       \/ Head(p)[1] = "get" /\ Tail(p) \in Ends
<1>8. Ok(t1) /\ Ok(t2) /\ Ok(c1) /\ Ok(c2)
    BY <1>6, Zenon
<1> HIDE DEF Ok
<1>9. \A p \in Asks : Ok(p)
    BY <1>2, <1>8
<1>10. \A p \in PteAsks : p # <<>> /\ Head(p)[1] = "pte" /\ Tail(p) \in Ends
    BY <1>2, <1>7
<1>11. \A p \in Ends : p = <<>> \/ (Head(p)[1] = "detach" /\ Tail(p) \in Ends)
    BY <1>2, <1>7
<1> QED  BY <1>5, <1>9, <1>10, <1>11 DEF Ok

LEMMA WalkLeads ==
    ASSUME NEW level \in 1..4
    PROVE  /\ WalkPlan(level) # <<>> /\ Head(WalkPlan(level)) = <<"entry", level>>
           /\ level # 1 => Tail(WalkPlan(level)) = WalkPlan(level - 1)
<1> DEFINE en(i) == <<"entry", i>>
           w4 == <<en(4), en(3), en(2), en(1)>>
           w3 == <<en(3), en(2), en(1)>>
           w2 == <<en(2), en(1)>>
           w1 == <<en(1)>>
<1>1. WalkPlan(4) = w4 /\ WalkPlan(3) = w3 /\ WalkPlan(2) = w2 /\ WalkPlan(1) = w1
    BY DEF WalkPlan
<1>2. en(level) = <<"entry", level>>
    OBVIOUS
<1> HIDE DEF en
<1>3. /\ w4 # <<>> /\ w3 # <<>> /\ w2 # <<>> /\ w1 # <<>>
      /\ Head(w4) = en(4) /\ Head(w3) = en(3) /\ Head(w2) = en(2) /\ Head(w1) = en(1)
    OBVIOUS
<1>4. Tail(w4) = w3 /\ Tail(w3) = w2 /\ Tail(w2) = w1
    BY Tails
<1> HIDE DEF w1, w2, w3, w4
<1>5. level = 1 \/ level = 2 \/ level = 3 \/ level = 4
    OBVIOUS
<1>6. CASE level = 4
  <2>1. WalkPlan(level) = w4 /\ WalkPlan(level - 1) = w3
      BY <1>1, <1>6
  <2>2. Head(w4) = <<"entry", level>>
      BY <1>2, <1>3, <1>6
  <2>3. w4 # <<>> /\ Tail(w4) = w3
      BY <1>3, <1>4
  <2> QED  BY <2>1, <2>2, <2>3
<1>7. CASE level = 3
  <2>1. WalkPlan(level) = w3 /\ WalkPlan(level - 1) = w2
      BY <1>1, <1>7
  <2>2. Head(w3) = <<"entry", level>>
      BY <1>2, <1>3, <1>7
  <2>3. w3 # <<>> /\ Tail(w3) = w2
      BY <1>3, <1>4
  <2> QED  BY <2>1, <2>2, <2>3
<1>8. CASE level = 2
  <2>1. WalkPlan(level) = w2 /\ WalkPlan(level - 1) = w1
      BY <1>1, <1>8
  <2>2. Head(w2) = <<"entry", level>>
      BY <1>2, <1>3, <1>8
  <2>3. w2 # <<>> /\ Tail(w2) = w1
      BY <1>3, <1>4
  <2> QED  BY <2>1, <2>2, <2>3
<1>9. CASE level = 1
    BY <1>1, <1>2, <1>3, <1>9
<1> QED  BY <1>5, <1>6, <1>7, <1>8, <1>9

\* How each of these calls begins.
LEMMA PlansStart ==
    ASSUME NEW c
    PROVE  /\ c.op = "translate" => IF c.space = "target" THEN Steps(c) = AskThere ELSE Steps(c) \in Asks
           /\ c.op = "ptePresent" => IF c.space = "target" THEN Steps(c) = PteThere ELSE Steps(c) \in PteAsks
           /\ c.op = "native" => Steps(c) = WalkPlan(4)
           /\ c.op = "present" => Steps(c) = Checks("process", c.process)
<1> DEFINE at == <<"attach">>  dt == <<"detach">>  va == <<"valid">>  ge == <<"get">>  pt == <<"pte">>
<1>1. /\ c.op = "translate" => Steps(c) = IF c.space = "target" THEN <<at>> \o <<va, ge>> \o <<dt>> ELSE <<va, ge>>
      /\ c.op = "ptePresent" => Steps(c) = IF c.space = "target" THEN <<at>> \o <<pt>> \o <<dt>> ELSE <<pt>>
      /\ c.op = "native" => Steps(c) = <<<<"entry", 4>>, <<"entry", 3>>, <<"entry", 2>>, <<"entry", 1>>>>
      /\ c.op = "present" => Steps(c) = Checks("process", c.process)
    BY DEF Steps, Attached
<1>2. WalkPlan(4) = <<<<"entry", 4>>, <<"entry", 3>>, <<"entry", 2>>, <<"entry", 1>>>>
    BY DEF WalkPlan
<1>3. /\ AskThere = <<at, va, ge, dt>> /\ PteThere = <<at, pt, dt>>
      /\ <<va, ge>> \in Asks /\ <<pt>> \in PteAsks
    BY DEF AskThere, PteThere, Asks, PteAsks
<1> HIDE DEF at, dt, va, ge, pt
<1>4. /\ <<at>> \o <<va, ge>> \o <<dt>> = <<at, va, ge, dt>>
      /\ <<at>> \o <<pt>> \o <<dt>> = <<at, pt, dt>>
  <2>1. <<at>> \o <<va, ge>> \o <<dt>> = <<at, va, ge, dt>>
      BY AttachedIs, ZenonT(40)
  <2>2. <<at>> \o <<pt>> \o <<dt>> = <<at, pt, dt>>
      BY AttachedIs, ZenonT(40)
  <2> QED  BY <2>1, <2>2, Zenon
<1> QED  BY <1>1, <1>2, <1>3, <1>4, Zenon

-----------------------------------------------------------------------------
(***************************************************************************)
(* The tables stay in levels, whoever writes to them.                      *)
(***************************************************************************)
LEMMA RootsAre == \A s \in Spaces : Root[s] \in Tables /\ Level[Root[s]] = 4
BY ProcessMemoryAssumption, LevelsAssumption

LEMMA TreeWritten ==
    ASSUME TreeInv,
           \A u \in Tables, i \in Index :
              mem'[u][i] = mem[u][i] \/ (Level[u] # 4 /\ References(Level[u], mem'[u][i]))
    PROVE  TreeInv'
<1>1. InLevels(mem')
    BY DEF TreeInv, InLevels
<1>2. OneKernelHalf(mem')
  <2>1. \A s \in {"caller", "target"}, i \in Index : mem'[Root[s]][i] = mem[Root[s]][i]
      BY RootsAre DEF Spaces
  <2> QED  BY <2>1 DEF TreeInv, OneKernelHalf
<1> QED  BY <1>1, <1>2 DEF TreeInv

\* An entry of a last table.
LastEntry(e) == e.p => e.pfn # 0

LEMMA LastEntries ==
    /\ \A e : LastEntry(e) => References(1, e)
    /\ \A f \in Frames : LastEntry(Present(f))
    /\ \A e \in Junk : LastEntry(e)
    /\ LastEntry(Zero) /\ \A f : LastEntry(Entry(FALSE, FALSE, FALSE, f))
<1>1. \A e : LastEntry(e) => References(1, e)
    BY DEF LastEntry, References, MapsPage
<1>2. \A f \in Frames : LastEntry(Present(f))
    BY LevelsAssumption DEF LastEntry, Present, Entry
<1>3. \A e \in Junk : LastEntry(e)
    BY LevelsAssumption DEF LastEntry
<1>4. LastEntry(Zero) /\ \A f : LastEntry(Entry(FALSE, FALSE, FALSE, f))
    BY DEF LastEntry, Zero, Entry
<1> QED  BY <1>1, <1>2, <1>3, <1>4

\* One table changes.
OnlyTable(x) == x \in Tables /\ \A u \in Tables \ {x} : mem'[u] = mem[u]

LEMMA PageWritten ==
    ASSUME MemTyped(mem), TreeInv, NEW page \in Pages,
           Trim(page) \/ WriteOut(page) \/ FaultIn(page) \/ CopyOnWrite(page) \/ Release(page)
    PROVE  TreeInv' /\ \E x : OnlyTable(x) /\ Level[x] = 1
<1>1. PICK e : SetLeaf(page, e) /\ LastEntry(e)
  <2>1. CASE Trim(page)
      BY <2>1, LastEntries DEF Trim
  <2>2. CASE WriteOut(page)
      BY <2>2, LastEntries DEF WriteOut
  <2>3. CASE FaultIn(page) \/ CopyOnWrite(page)
    <3>1. PICK f \in Frames : SetLeaf(page, Present(f))
        BY <2>3 DEF FaultIn, CopyOnWrite, Resident, Free
    <3> QED  BY <3>1, LastEntries
  <2>4. CASE Release(page)
      BY <2>4, LastEntries DEF Release
  <2> QED  BY <2>1, <2>2, <2>3, <2>4
<1> DEFINE x == LastTable[page[1]]
           k == page[2][4]
<1>2. x \in Tables /\ Level[x] = 1
  <2>1. page[1] \in Spaces \union {"kernel"}
      BY ProcessMemoryAssumption DEF Spaces
  <2> QED  BY <2>1, LevelsAssumption
<1>3. mem' = [mem EXCEPT ![x][k] = e]
    BY <1>1 DEF SetLeaf
<1> HIDE DEF x, k
<1>4. \A u \in Tables : mem'[u] = IF u = x THEN [mem[u] EXCEPT ![k] = e] ELSE mem[u]
    BY <1>3 DEF MemTyped
<1>5. \A i \in Index : mem'[x][i] = IF i = k THEN e ELSE mem[x][i]
    BY <1>2, <1>4 DEF MemTyped
<1>6. OnlyTable(x)
    BY <1>2, <1>4 DEF OnlyTable
<1>7. \A u \in Tables, i \in Index :
         mem'[u][i] = mem[u][i] \/ (Level[u] # 4 /\ References(Level[u], mem'[u][i]))
  <2> TAKE u \in Tables, i \in Index
  <2>1. CASE u # x
      BY <1>4, <2>1
  <2>2. CASE u = x /\ i # k
      BY <1>5, <2>2
  <2>3. CASE u = x /\ i = k
    <3>1. mem'[u][i] = e
        BY <1>5, <2>3
    <3> QED  BY <1>1, <1>2, <2>3, <3>1, LastEntries
  <2> QED  BY <2>1, <2>2, <2>3
<1>8. TreeInv'
    BY <1>7, TreeWritten
<1> QED  BY <1>2, <1>6, <1>8

LEMMA ReuseWritten ==
    ASSUME MemTyped(mem), TreeInv, NEW space \in Spaces, ReuseTable(space)
    PROVE  TreeInv' /\ \E x : OnlyTable(x) /\ Level[x] = 1
<1> DEFINE x == LastTable[space]
<1>1. x \in Tables /\ Level[x] = 1
    BY LevelsAssumption
<1>2. PICK e \in Junk : mem' = [mem EXCEPT ![x] = [i \in Index |-> e]]
    BY DEF ReuseTable
<1> HIDE DEF x
<1>3. \A u \in Tables : mem'[u] = IF u = x THEN [i \in Index |-> e] ELSE mem[u]
    BY <1>2 DEF MemTyped
<1>4. OnlyTable(x)
    BY <1>1, <1>3 DEF OnlyTable
<1>5. \A u \in Tables, i \in Index :
         mem'[u][i] = mem[u][i] \/ (Level[u] # 4 /\ References(Level[u], mem'[u][i]))
    BY <1>1, <1>3, LastEntries
<1>6. TreeInv'
    BY <1>5, TreeWritten
<1> QED  BY <1>1, <1>4, <1>6

LEMMA LargeWritten ==
    ASSUME MemTyped(mem), TreeInv, NEW space \in Spaces, AllocateLarge(space),
           NEW page \in Pages, page[1] = space
    PROVE  /\ TreeInv' /\ \E x : OnlyTable(x)
           /\ UpperPresent(mem, Root[space], page[2])
<1> DEFINE r == Root[space]
           t3 == mem[r][0].pfn
           t2 == mem[t3][0].pfn
<1>1. r \in Tables /\ Level[r] = 4 /\ 0 \in Index
    BY RootsAre, PageTablesAssumption DEF Index
<1>2. \A j \in 1..3 : page[2][j] = 0
    BY LevelsAssumption
<1>3. mem[r][0].p /\ mem[t3][0].p /\ ~mem[t3][0].ps /\ mem[t2][0].p /\ ~mem[t2][0].ps
  <2>1. HasLeaf(page) /\ page[1] # "kernel"
      BY DEF AllocateLarge, Spaces
  <2>2. page[2][1] = 0 /\ page[2][2] = 0 /\ page[2][3] = 0
      BY <1>2
  <2> QED  BY <2>1, <2>2 DEF HasLeaf
<1>4. PICK pat \in BOOLEAN : mem' = [mem EXCEPT ![t2][0] = Entry(TRUE, TRUE, pat, LargeFrame)]
    BY DEF AllocateLarge
<1>5. UpperPresent(mem, r, page[2])
  <2>1. page[2][1] = 0 /\ page[2][2] = 0 /\ page[2][3] = 0
      BY <1>2
  <2> QED  BY <1>3, <2>1 DEF UpperPresent
<1>6. InLevels(mem)
    BY DEF TreeInv
<1> HIDE DEF r
<1>7. t3 \in Tables /\ Level[t3] = 3
  <2>1. mem[r][0].p
      BY <1>3
  <2> QED  BY <1>1, <1>6, <2>1, EntryLeads
<1> HIDE DEF t3
<1>8. t2 \in Tables /\ Level[t2] = 2
    BY <1>1, <1>3, <1>6, <1>7, EntryLeads
<1> HIDE DEF t2
<1> DEFINE e == Entry(TRUE, TRUE, pat, LargeFrame)
<1>9. References(2, e)
  <2>1. LargeFrame # 0
    <3>1. Slots * Slots \in Nat \ {0}
      <4>1. \A n \in Nat \ {0} : n * n \in Nat \ {0}
          OBVIOUS
      <4> QED  BY <4>1, PageTablesAssumption
    <3> DEFINE q == Slots * Slots
    <3> HIDE DEF q
    <3>2. q \in Nat \ {0}
        BY <3>1 DEF q
    <3>3. LargeFrame \in LargeFrame..LargeFrame + q - 1
        BY <3>2, ProcessMemoryAssumption
    <3>4. LargeFrame \in Frames
        BY <3>3, ProcessMemoryAssumption DEF LargeFrames, q
    <3> QED  BY <3>4, LevelsAssumption
  <2> QED  BY <2>1 DEF References, MapsPage, Entry
<1> HIDE DEF e
<1>10. mem' = [mem EXCEPT ![t2][0] = e]
    BY <1>4 DEF e
<1>11. \A u \in Tables : mem'[u] = IF u = t2 THEN [mem[u] EXCEPT ![0] = e] ELSE mem[u]
    BY <1>10 DEF MemTyped
<1>12. \A i \in Index : mem'[t2][i] = IF i = 0 THEN e ELSE mem[t2][i]
    BY <1>8, <1>11 DEF MemTyped
<1>13. OnlyTable(t2)
    BY <1>8, <1>11 DEF OnlyTable
<1>14. \A u \in Tables, i \in Index :
         mem'[u][i] = mem[u][i] \/ (Level[u] # 4 /\ References(Level[u], mem'[u][i]))
  <2> TAKE u \in Tables, i \in Index
  <2>1. CASE u # t2
      BY <1>11, <2>1
  <2>2. CASE u = t2 /\ i # 0
      BY <1>12, <2>2
  <2>3. CASE u = t2 /\ i = 0
      BY <1>8, <1>9, <1>12, <2>3
  <2> QED  BY <2>1, <2>2, <2>3
<1>15. TreeInv'
    BY <1>14, TreeWritten
<1> QED  BY <1>5, <1>13, <1>15 DEF r

\* What the others change of the tables is one table, and none above the last
\* ones unless the address had its own page.
LEMMA OthersWrite ==
    ASSUME MemTyped(mem), TreeInv, CallTyped, Others
    PROVE  /\ TreeInv'
           /\ \E x : OnlyTable(x) /\ (Level[x] = 1 \/ (/\ call.process[1][1] \in Spaces
                                           /\ UpperPresent(mem, Root[call.process[1][1]], Va)))
<1>1. /\ call.process \in Ranges /\ (call.buffer \in Ranges \/ call.buffer = <<>>)
      /\ call.process[1] \in Pages
  <2>1. call.process \in Ranges /\ (call.buffer \in Ranges \/ call.buffer = <<>>)
      BY DEF CallTyped
  <2>2. Len(call.process) \in Nat \ {0} /\ \A i \in 1..Len(call.process) : call.process[i] \in Pages
      BY <2>1, RangeFacts
  <2> QED  BY <2>1, <2>2
<1>2. CASE \E page \in PagesOf(call.process) \union PagesOf(call.buffer) :
              Trim(page) \/ WriteOut(page) \/ FaultIn(page) \/ CopyOnWrite(page) \/ Release(page)
  <2>1. PICK page \in PagesOf(call.process) \union PagesOf(call.buffer) :
              Trim(page) \/ WriteOut(page) \/ FaultIn(page) \/ CopyOnWrite(page) \/ Release(page)
      BY <1>2
  <2>2. page \in Pages
    <3>1. PagesOf(<<>>) = {}
        BY DEF PagesOf
    <3> QED  BY <1>1, <3>1, RangeFacts
  <2> QED  BY <2>1, <2>2, PageWritten
<1>3. CASE \E space \in {call.process[1][1]} \intersect Spaces : AllocateLarge(space) \/ ReuseTable(space)
  <2>1. PICK space \in Spaces : space = call.process[1][1] /\ (AllocateLarge(space) \/ ReuseTable(space))
      BY <1>3
  <2>2. CASE AllocateLarge(space)
      BY <1>1, <2>1, <2>2, LargeWritten DEF Va
  <2>3. CASE ReuseTable(space)
      BY <2>1, <2>3, ReuseWritten
  <2> QED  BY <2>1, <2>2, <2>3
<1> QED  BY <1>2, <1>3 DEF Others

\* MmProbeAndLockPages writes entries of last tables.
LEMMA ProbeWritten ==
    ASSUME MemTyped(mem), TreeInv, PagesOf(OwnRange) \subseteq Pages, ProbeAndLock
    PROVE  TreeInv'
<1> DEFINE ps == PagesOf(OwnRange)
<1>1. PICK h \in [ps -> Frames] :
         mem' = [t \in Tables |-> [i \in Index |->
             IF \E page \in ps : HasLeaf(page) /\ LastTable[page[1]] = t /\ page[2][4] = i
             THEN Present((CHOOSE page \in {<<q, h[q]>> : q \in ps} :
                              LastTable[page[1][1]] = t /\ page[1][2][4] = i)[2])
             ELSE mem[t][i]]]
    BY DEF ProbeAndLock
<1>2. ASSUME NEW t \in Tables, NEW i \in Index, NEW page \in ps, LastTable[page[1]] = t, page[2][4] = i
      PROVE  (CHOOSE x \in {<<q, h[q]>> : q \in ps} : LastTable[x[1][1]] = t /\ x[1][2][4] = i)[2] \in Frames
  <2> DEFINE X == {<<q, h[q]>> : q \in ps}
             OK(x) == LastTable[x[1][1]] = t /\ x[1][2][4] = i
  <2>1. <<page, h[page]>> \in X /\ OK(<<page, h[page]>>)
      BY <1>2
  <2>2. \A x \in X : x[2] \in Frames
      OBVIOUS
  <2> HIDE DEF X, OK
  <2>3. (CHOOSE x \in X : OK(x)) \in X
      BY <2>1
  <2>4. (CHOOSE x \in X : OK(x))[2] \in Frames
      BY <2>2, <2>3
  <2> QED  BY <2>4 DEF X, OK
<1>3. ASSUME NEW t \in Tables, NEW i \in Index
      PROVE  mem'[t][i] = mem[t][i] \/ (Level[t] = 1 /\ LastEntry(mem'[t][i]))
  <2> DEFINE c == CHOOSE page \in {<<q, h[q]>> : q \in ps} :
                      LastTable[page[1][1]] = t /\ page[1][2][4] = i
             found == \E page \in ps : HasLeaf(page) /\ LastTable[page[1]] = t /\ page[2][4] = i
  <2>1. mem'[t][i] = IF found THEN Present(c[2]) ELSE mem[t][i]
      BY <1>1
  <2>2. found => c[2] \in Frames
      BY <1>2
  <2>3. found => Level[t] = 1
    <3>1. \A page \in Pages : page[1] \in Spaces \union {"kernel"}
        BY ProcessMemoryAssumption DEF Spaces
    <3> QED  BY <3>1, LevelsAssumption
  <2> HIDE DEF c, found
  <2> QED  BY <2>1, <2>2, <2>3, LastEntries
<1>4. \A u \in Tables, i \in Index :
         mem'[u][i] = mem[u][i] \/ (Level[u] # 4 /\ References(Level[u], mem'[u][i]))
    BY <1>3, LastEntries
<1> QED  BY <1>4, TreeWritten

-----------------------------------------------------------------------------
(***************************************************************************)
(* The steps of the calls that answer.                                     *)
(***************************************************************************)

\* A step of a call is the one its plan names.
LEMMA ThreadMoves ==
    ASSUME Thread, call # NoCall, ~Return
    PROVE  LET name == Head(todo)[1]
           IN  /\ todo # <<>> /\ stopped = "no" /\ UNCHANGED <<call, changes>>
               /\ name = "attach" => Attach
               /\ name = "detach" => Detach
               /\ name = "valid" => IsAddressValid
               /\ name = "get" => GetPhysicalAddress
               /\ name = "entry" => NativeGetPhysicalAddress
               /\ name = "check" => CheckPage
               /\ name = "pte" => PteIsMemoryRangePresent
               /\ name = "lock" => LockPages
               /\ name # "lock" => mem' = mem
<1> DEFINE name == Head(todo)[1]
           Is(move) == /\ todo # <<>> /\ stopped = "no" /\ UNCHANGED <<call, changes>>
                       /\ name = move
<1>1. ASSUME \/ Attach \/ Detach \/ IsAddressValid \/ GetPhysicalAddress \/ GetProcessCr3
             \/ NativeGetPhysicalAddress \/ CheckPage \/ PteIsMemoryRangePresent
      PROVE  /\ mem' = mem
             /\ \/ Is("attach") /\ Attach
                \/ Is("detach") /\ Detach
                \/ Is("valid") /\ IsAddressValid
                \/ Is("get") /\ GetPhysicalAddress
                \/ Is("cr3")
                \/ Is("entry") /\ NativeGetPhysicalAddress
                \/ Is("check") /\ CheckPage
                \/ Is("pte") /\ PteIsMemoryRangePresent
    BY <1>1 DEF Attach, Detach, IsAddressValid, GetPhysicalAddress, GetProcessCr3, NativeGetPhysicalAddress,
                CheckPage, PteIsMemoryRangePresent, Step, osVars
<1>2. ASSUME SecureMemory \/ UnsecureMemory \/ AllocateMdl \/ FreeMdl \/ UnlockPages
             \/ MapPages \/ UnmapPages \/ CopyMemory
      PROVE  /\ mem' = mem
             /\ \/ Is("secure") \/ Is("unsecure") \/ Is("allocate") \/ Is("free") \/ Is("unlock")
                \/ Is("map") \/ Is("unmap") \/ Is("copy")
    BY <1>2 DEF SecureMemory, UnsecureMemory, AllocateMdl, FreeMdl, UnlockPages, MapPages, UnmapPages,
                CopyMemory, Step, osVars
<1>3. ASSUME LockPages
      PROVE  Is("lock") /\ LockPages
    BY <1>3 DEF LockPages, Step
<1>4. ~Begin
    BY DEF Begin
<1> HIDE DEF name
<1>5. /\ todo # <<>> /\ stopped = "no" /\ UNCHANGED <<call, changes>>
      /\ name = "attach" => Attach
      /\ name = "detach" => Detach
      /\ name = "valid" => IsAddressValid
      /\ name = "get" => GetPhysicalAddress
      /\ name = "entry" => NativeGetPhysicalAddress
      /\ name = "check" => CheckPage
      /\ name = "pte" => PteIsMemoryRangePresent
      /\ name = "lock" => LockPages
      /\ name # "lock" => mem' = mem
    BY <1>1, <1>2, <1>3, <1>4 DEF Thread
<1> QED  BY <1>5 DEF name

\* What the spaces of a call are.
LEMMA CallSpace ==
    ASSUME CallTyped
    PROVE  /\ call # NoCall /\ call.process \in Ranges /\ call.process[1] \in Pages
           /\ call.process[1] \in PagesOf(call.process)
           /\ Va \in Address /\ Va = call.process[1][2]
           /\ Where(call.space) \in Spaces
           /\ call.op # "translate" => call.space \in Spaces /\ Where(call.space) = call.space
           /\ call.op \in {"native", "ptePresent"} => call.process[1][1] \in {call.space, "kernel"}
<1>1. call # NoCall /\ call.process \in Ranges /\ Allowed(call) /\ call.space \in Spaces \union {"unknown"}
    BY DEF CallTyped, NoCall, Ops
<1>2. call.process[1] \in Pages /\ call.process[1] \in PagesOf(call.process)
  <2>1. 1 \in 1..Len(call.process)
      BY <1>1, RangeFacts
  <2> QED  BY <1>1, <2>1, RangeFacts
<1>3. Va \in Address /\ Va = call.process[1][2]
    BY <1>2, ProcessMemoryAssumption DEF Va
<1>4. /\ Where(call.space) \in Spaces
      /\ call.op # "translate" => call.space \in Spaces /\ Where(call.space) = call.space
    BY <1>1 DEF Allowed, Where, Spaces
<1>5. call.op \in {"native", "ptePresent"} => call.process[1][1] \in {call.space, "kernel"}
    BY <1>1 DEF Allowed
<1> QED  BY <1>1, <1>2, <1>3, <1>4, <1>5

\* What was seen of a call stays seen, and what is so now is seen.
LEMMA SeenNow ==
    ASSUME Observe, DOMAIN seen = {"frames", "present"}, CallTyped, call' = call
    PROVE  /\ SeenInv'
           /\ seen.present \subseteq seen'.present
           /\ seen.frames \subseteq seen'.frames
<1>1. call # NoCall
    BY CallSpace
<1>2. seen.present \subseteq seen'.present /\ seen.frames \subseteq seen'.frames
    BY <1>1 DEF Observe
<1>3. ASSUME call.op \in {"translate", "native"}
      PROVE  Here' \in seen'.frames
    BY <1>1, <1>3 DEF Observe, Here, Va
<1> QED  BY <1>2, <1>3 DEF SeenInv

LEMMA SeenStarts ==
    ASSUME Observe, DOMAIN seen = {"frames", "present"}, CallTyped'
    PROVE  SeenInv'
<1>1. call' # NoCall
    BY DEF CallTyped, NoCall, Ops
<1>2. ASSUME call'.op \in {"translate", "native"}
      PROVE  Here' \in seen'.frames
    BY <1>1, <1>2 DEF Observe, Here, Va
<1> QED  BY <1>2 DEF SeenInv

LEMMA ToldKept ==
    ASSUME Told, answer' = answer, seen.frames \subseteq seen'.frames
    PROVE  Told'
BY DEF Told

\* What is so before each step of a call, and after it.
Calling ==
    /\ MemoryInv /\ AnswerInv /\ CallTyped /\ call' = call /\ Observe
    /\ SeenInv' /\ seen.present \subseteq seen'.present /\ seen.frames \subseteq seen'.frames

LEMMA CallingFacts ==
    ASSUME Calling
    PROVE  /\ MemTyped(mem) /\ InLevels(mem) /\ OneKernelHalf(mem) /\ changes \in Nat
           /\ DOMAIN seen = {"frames", "present"}
           /\ \A s \in Spaces : Found(Translation(mem, Root[s], Va))
<1>1. /\ MemTyped(mem) /\ InLevels(mem) /\ OneKernelHalf(mem) /\ changes \in Nat
      /\ DOMAIN seen = {"frames", "present"}
    BY ProcessMemoryAssumption DEF Calling, MemoryInv, MachineInv, MemTyped, AnswerInv, TreeInv
<1>2. \A s \in Spaces : Found(Translation(mem, Root[s], Va))
    BY <1>1, TranslationFound, RootsAre, CallSpace DEF Calling
<1> QED  BY <1>1, <1>2

LEMMA TranslateStep ==
    ASSUME Calling, call.op = "translate", Thread, ~Return
    PROVE  TranslateInv'
<1>1. /\ todo # <<>> /\ UNCHANGED call
      /\ Head(todo)[1] = "attach" => Attach
      /\ Head(todo)[1] = "detach" => Detach
      /\ Head(todo)[1] = "valid" => IsAddressValid
      /\ Head(todo)[1] = "get" => GetPhysicalAddress
    BY ThreadMoves, CallSpace DEF Calling
<1>2. Here \in seen.frames /\ Here \in seen'.frames /\ Found(Here)
    BY CallingFacts, CallSpace DEF Calling, AnswerInv, SeenInv, Here
<1>3. CASE todo = AskThere /\ call.space = "target" /\ answer = 0
  <2>1. Attach /\ Tail(todo) \in Asks
      BY <1>1, <1>3, PlansLead
  <2>2. todo' \in Asks /\ inside' = call'.space /\ answer' = 0
      BY <1>1, <1>3, <2>1 DEF Attach, Succeed
  <2> QED  BY <1>1, <1>3, <2>2 DEF TranslateInv, Where
<1>4. CASE todo \in Asks /\ inside = Where(call.space) /\ answer = 0
  <2>1. Now = Here
      BY <1>4 DEF Now, Here
  <2>2. CASE Head(todo)[1] = "valid" /\ Tail(todo) \in Asks /\ Tail(Tail(todo)) \in Ends
    <3>1. IsAddressValid
        BY <1>1, <2>2
    <3>2. CASE Now = None
      <4>1. todo' \in Ends /\ answer' = 0
          BY <1>4, <2>2, <3>1, <3>2 DEF IsAddressValid
      <4>2. Told'
          BY <1>2, <2>1, <3>2, <4>1 DEF Told
      <4> QED  BY <4>1, <4>2 DEF TranslateInv
    <3>3. CASE Now # None
      <4>1. todo' \in Asks /\ answer' = 0 /\ inside' = inside
          BY <1>4, <2>2, <3>1, <3>3 DEF IsAddressValid
      <4> QED  BY <1>1, <1>4, <4>1 DEF TranslateInv
    <3> QED  BY <3>2, <3>3
  <2>3. CASE Head(todo)[1] = "get" /\ Tail(todo) \in Ends
    <3>1. GetPhysicalAddress
        BY <1>1, <2>3
    <3>2. todo' \in Ends /\ answer' = IF Now = None THEN 0 ELSE Now
        BY <2>3, <3>1 DEF GetPhysicalAddress, Succeed
    <3>3. Told'
        BY <1>2, <2>1, <3>2 DEF Told, Found
    <3> QED  BY <3>2, <3>3 DEF TranslateInv
  <2> QED  BY <1>4, <2>2, <2>3, PlansLead
<1>5. CASE todo \in Ends /\ Told
  <2>1. Detach /\ Tail(todo) \in Ends
      BY <1>1, <1>5, PlansLead
  <2>2. todo' \in Ends /\ answer' = answer
      BY <2>1 DEF Detach, Succeed
  <2>3. Told'
      BY <1>5, <2>2, ToldKept DEF Calling
  <2> QED  BY <2>2, <2>3 DEF TranslateInv
<1> QED  BY <1>3, <1>4, <1>5 DEF Calling, AnswerInv, OpInv, TranslateInv

LEMMA NativeStep ==
    ASSUME Calling, call.op = "native", Thread, ~Return
    PROVE  NativeInv'
<1>1. /\ todo # <<>> /\ UNCHANGED <<call, changes>>
      /\ Head(todo)[1] = "entry" => NativeGetPhysicalAddress
      /\ Head(todo)[1] = "entry" => mem' = mem
    BY ThreadMoves, CallSpace DEF Calling
<1>2. PICK level \in 1..4 : todo = WalkPlan(level) /\ (Followed => WalkAt(level))
    BY <1>1 DEF Calling, AnswerInv, OpInv, NativeInv
<1>3. Head(todo) = <<"entry", level>> /\ (level # 1 => Tail(todo) = WalkPlan(level - 1))
    BY <1>2, WalkLeads
<1>4. NativeGetPhysicalAddress /\ mem' = mem /\ Head(todo)[2] = level
    BY <1>1, <1>3
<1> DEFINE r(e) == WalkStep(level, e, Va)
<1>5. PICK e \in ReadPhysical(mem, cursor.at, Va[5 - level]) :
         /\ cursor' = [at |-> IF r(e).done THEN 0 ELSE r(e).frame,
                       misread |-> cursor.misread \/ Misread(level, e)]
         /\ IF r(e).done THEN todo' = <<>> /\ answer' = r(e).frame
            ELSE todo' = Tail(todo) /\ UNCHANGED answer
    BY <1>4 DEF NativeGetPhysicalAddress, Succeed
<1>6. level = 1 => r(e).done
    BY DEF WalkStep, Result
<1>7. ASSUME Followed'
      PROVE  /\ Followed /\ WalkAt(level) /\ ~Misread(level, e)
             /\ e = mem[cursor.at][Va[5 - level]]
  <2>1. Followed /\ ~Misread(level, e)
      BY <1>1, <1>5, <1>7 DEF Followed
  <2>2. cursor.at \in Tables
      BY <1>2, <2>1 DEF WalkAt
  <2> QED  BY <1>2, <1>5, <2>1, <2>2 DEF ReadPhysical
<1>8. ASSUME Followed'
      PROVE  IF r(e).done
             THEN /\ r(e).frame = 0 => Onward(mem, level, cursor.at, Va) = None
                  /\ r(e).frame # 0 => Onward(mem, level, cursor.at, Va) = r(e).frame
             ELSE /\ level \in 2..4 /\ r(e).frame \in Tables /\ Level[r(e).frame] = level - 1
                  /\ Onward(mem, level - 1, r(e).frame, Va) = Onward(mem, level, cursor.at, Va)
                  /\ \A root : Reaches(mem, root, Va, level, cursor.at) =>
                                  Reaches(mem, root, Va, level - 1, r(e).frame)
  <2>1. cursor.at \in Tables /\ Level[cursor.at] = level
      BY <1>7, <1>8 DEF WalkAt
  <2> QED  BY <1>7, <1>8, <2>1, WalkReads, CallingFacts, CallSpace DEF Calling
<1> HIDE DEF r
<1>9. ASSUME Followed'
      PROVE  /\ Onward(mem, level, cursor.at, Va) \in seen'.frames
             /\ changes = 0 => Reaches(mem, Root[call.space], Va, level, cursor.at)
    BY <1>7, <1>9 DEF Calling, WalkAt
<1>10. CASE r(e).done
  <2>1. todo' = <<>> /\ answer' = r(e).frame
      BY <1>5, <1>10
  <2>2. Followed' => Told'
      BY <1>8, <1>9, <1>10, <2>1 DEF Told
  <2> QED  BY <2>1, <2>2 DEF NativeInv
<1>11. CASE ~r(e).done
  <2>1. level - 1 \in 1..4 /\ todo' = WalkPlan(level - 1) /\ cursor'.at = r(e).frame
    <3>1. level # 1
        BY <1>6, <1>11
    <3>2. todo' = WalkPlan(level - 1) /\ cursor'.at = r(e).frame
        BY <1>3, <1>5, <1>11, <3>1
    <3> QED  BY <3>1, <3>2
  <2>2. ASSUME Followed'
        PROVE  WalkAt(level - 1)'
    <3>1. /\ cursor'.at \in Tables /\ Level[cursor'.at] = level - 1
          /\ Onward(mem, level - 1, cursor'.at, Va) \in seen'.frames
          /\ changes = 0 => Reaches(mem, Root[call.space], Va, level - 1, cursor'.at)
        BY <1>8, <1>9, <1>11, <2>1, <2>2
    <3>2. Va' = Va
        BY <1>1 DEF Va
    <3> QED  BY <1>1, <1>4, <3>1, <3>2 DEF WalkAt
  <2> QED  BY <2>1, <2>2 DEF NativeInv
<1> QED  BY <1>10, <1>11

LEMMA ChecksLeft ==
    ASSUME NEW n \in Nat, NEW k \in 0..n - 1
    PROVE  From("process", k, n, <<>>) # <<>>
<1>1. "process" \in Sides /\ <<>> \in Seq(Moves)
    BY DEF Sides
<1>2. Begins(From("process", k, n, <<>>), <<"check", "process", k + 1>>, From("process", k + 1, n, <<>>))
    BY <1>1, ChecksBegin
<1> QED  BY <1>2 DEF Begins

LEMMA PresentStep ==
    ASSUME Calling, call.op = "present", Thread, ~Return
    PROVE  PresentInv'
<1> DEFINE n == Len(call.process)
<1>1. /\ todo # <<>> /\ UNCHANGED call
      /\ Head(todo)[1] = "check" => CheckPage /\ mem' = mem
    BY ThreadMoves, CallSpace DEF Calling
<1>2. answer = 0 /\ inside = "caller" /\ CheckingAt("process", <<>>)
    BY <1>1 DEF Calling, AnswerInv, OpInv, PresentInv
<1>3. n \in Nat \ {0} /\ "process" \in Sides /\ <<>> \in Seq(Moves)
  <2>1. n \in Nat \ {0}
      BY CallSpace, RangeFacts DEF Calling
  <2> QED  BY <2>1 DEF Sides
<1>4. PICK k \in 0..n - 1 : todo = From("process", k, n, <<>>) /\ Seen("process", k)
    BY <1>2 DEF CheckingAt
<1>5. /\ Begins(todo, <<"check", "process", k + 1>>, From("process", k + 1, n, <<>>))
      /\ From("process", n, n, <<>>) = <<>>
    BY <1>3, <1>4, ChecksBegin
<1>6. /\ Head(todo) = <<"check", "process", k + 1>> /\ Tail(todo) = From("process", k + 1, n, <<>>)
      /\ CheckPage /\ mem' = mem /\ Side = "process" /\ OwnRange = call.process /\ Head(todo)[3] = k + 1
    BY <1>1, <1>5 DEF Begins, Side, OwnRange
<1>7. k + 1 \in 1..n /\ inside' = inside /\ secured' = secured /\ mdl' = mdl
    BY <1>3, <1>6 DEF CheckPage, lockVars
<1>8. CASE Translation(mem, Root[inside], OwnRange[Head(todo)[3]][2]) = None
  <2>1. todo' = Undo(<<"check", "process", k + 1>>, call) /\ answer' = 0
      BY <1>6, <1>8 DEF CheckPage, Fail
  <2>2. todo' = <<>>
      BY <1>3, <2>1, UndoIs
  <2> QED  BY <2>1, <2>2 DEF PresentInv
<1>9. CASE Translation(mem, Root[inside], OwnRange[Head(todo)[3]][2]) # None
  <2>1. Translation(mem, Root["caller"], call.process[k + 1][2]) # None
      BY <1>2, <1>6, <1>9
  <2>2. call.process[k + 1] \in seen'.present
      BY <1>1, <1>3, <1>6, <1>7, <2>1, CheckSees, CallingFacts DEF Calling
  <2>3. Seen("process", k + 1)'
    <3>1. \A i \in 1..k + 1 : i \in 1..k \/ i = k + 1
        BY <1>4
    <3> QED  BY <1>1, <1>4, <2>2, <3>1 DEF Seen, Calling
  <2>4. /\ todo' = From("process", k + 1, n, <<>>)
        /\ answer' = IF Tail(todo) = <<>> THEN 1 ELSE answer
      BY <1>6, <1>9 DEF CheckPage, Succeed
  <2>5. CASE k + 1 = n
    <3>1. todo' = <<>>
        BY <1>5, <2>4, <2>5
    <3>2. PagesOf(call.process) \subseteq seen'.present
        BY <1>1, <2>3, <2>5 DEF Seen, PagesOf
    <3> QED  BY <1>1, <3>1, <3>2 DEF PresentInv
  <2>6. CASE k + 1 # n
    <3>1. k + 1 \in 0..n - 1
        BY <1>3, <1>4, <2>6
    <3>2. From("process", k + 1, n, <<>>) # <<>>
        BY <1>3, <3>1, ChecksLeft
    <3>3. todo' # <<>> /\ answer' = 0
        BY <1>2, <1>6, <2>4, <3>2
    <3>4. CheckingAt("process", <<>>)'
        BY <1>1, <1>2, <1>7, <2>3, <2>4, <3>1 DEF CheckingAt, NoMdls
    <3> QED  BY <1>1, <1>2, <1>7, <3>3, <3>4 DEF PresentInv
  <2> QED  BY <2>5, <2>6
<1> QED  BY <1>8, <1>9

\* The page that IsPagePresent finds is present in the space of the call.
LEMMA PteSees ==
    ASSUME Calling, call.op = "ptePresent", mem' = mem,
           Translation(mem, Root[call.space], Va) # None
    PROVE  call.process[1] \in seen'.present
<1> DEFINE page == call.process[1]
           Is(p) == Translation(mem', Root[IF p[1] = "target" THEN p[1] ELSE "caller"], p[2])
<1>1. /\ CallTyped /\ call # NoCall /\ page \in Pages /\ page \in PagesOf(call.process) /\ Va \in Address
      /\ call.space \in Spaces /\ page[1] \in {call.space, "kernel"} /\ Va = page[2]
    BY CallSpace DEF Calling
<1>2. CASE page[1] = call.space
  <2>1. Is(page) # None
      BY <1>1, <1>2 DEF Spaces
  <2> QED  BY <1>1, <2>1 DEF Calling, Observe, Watched
<1>3. CASE page[1] = "kernel"
  <2>1. 2 * Va[1] >= Slots /\ Va[1] \in Index
      BY <1>1, <1>3, ProcessMemoryAssumption, InPage DEF IsKernelAddress
  <2>2. mem[Root["target"]][Va[1]] = mem[Root["caller"]][Va[1]]
      BY <2>1, CallingFacts DEF OneKernelHalf
  <2>3. Translation(mem, Root["caller"], Va) = Translation(mem, Root["target"], Va)
      BY <2>2, TranslationIs DEF Onward, At4
  <2>4. Is(page) # None
      BY <1>1, <1>3, <2>3 DEF Spaces
  <2> QED  BY <1>1, <2>4 DEF Calling, Observe, Watched
<1> QED  BY <1>1, <1>2, <1>3

LEMMA PteStep ==
    ASSUME Calling, call.op = "ptePresent", Thread, ~Return
    PROVE  PteInv'
<1>1. /\ todo # <<>> /\ UNCHANGED call
      /\ Head(todo)[1] = "attach" => Attach
      /\ Head(todo)[1] = "detach" => Detach /\ mem' = mem
      /\ Head(todo)[1] = "pte" => PteIsMemoryRangePresent /\ mem' = mem
    BY ThreadMoves, CallSpace DEF Calling
<1>2. CASE todo = PteThere /\ call.space = "target" /\ answer = 0
  <2>1. Attach /\ Tail(todo) \in PteAsks
      BY <1>1, <1>2, PlansLead
  <2>2. todo' \in PteAsks /\ inside' = call'.space /\ answer' = 0
      BY <1>1, <1>2, <2>1 DEF Attach, Succeed
  <2> QED  BY <2>2 DEF PteInv
<1>3. CASE todo \in PteAsks /\ inside = call.space /\ answer = 0
  <2>1. PteIsMemoryRangePresent /\ mem' = mem /\ Tail(todo) \in Ends
      BY <1>1, <1>3, PlansLead
  <2>2. PICK found \in IsPagePresent(mem, Root[inside], Va) :
           \/ todo' = Tail(todo) /\ answer' = 0
           \/ UNCHANGED <<todo, answer>>
           \/ todo' = Tail(todo) /\ answer' = 1 /\ found.present
      BY <2>1 DEF PteIsMemoryRangePresent, Succeed
  <2>3. inside' = inside
      BY <2>1 DEF PteIsMemoryRangePresent
  <2>4. CASE todo' = Tail(todo) /\ answer' = 0
      BY <2>1, <2>4 DEF PteInv
  <2>5. CASE UNCHANGED <<todo, answer>>
      BY <1>1, <1>3, <2>3, <2>5 DEF PteInv
  <2>6. CASE todo' = Tail(todo) /\ answer' = 1 /\ found.present
    <3>1. ASSUME UpperPresent(mem, Root[call.space], Va)
          PROVE  call.process[1] \in seen'.present
      <4>1. /\ MemTyped(mem) /\ InLevels(mem) /\ Va \in Address
            /\ Root[call.space] \in Tables /\ Level[Root[call.space]] = 4
          BY CallingFacts, CallSpace, RootsAre DEF Calling
      <4>2. Translation(mem, Root[call.space], Va) # None
          BY <1>3, <2>6, <3>1, <4>1, PresentThere
      <4> QED  BY <2>1, <4>2, PteSees
    <3>2. Va' = Va
        BY <1>1 DEF Va
    <3> QED  BY <1>1, <2>1, <2>6, <3>1, <3>2 DEF PteInv
  <2> QED  BY <2>2, <2>4, <2>5, <2>6
<1>4. CASE /\ todo \in Ends
           /\ (answer = 1 /\ UpperPresent(mem, Root[call.space], Va)) => call.process[1] \in seen.present
  <2>1. Detach /\ mem' = mem /\ Tail(todo) \in Ends
      BY <1>1, <1>4, PlansLead
  <2>2. todo' \in Ends /\ answer' = answer /\ Va' = Va
      BY <1>1, <2>1 DEF Detach, Succeed, Va
  <2> QED  BY <1>1, <1>4, <2>1, <2>2 DEF PteInv, Calling
<1> QED  BY <1>2, <1>3, <1>4 DEF Calling, AnswerInv, OpInv, PteInv

LEMMA OthersAnswer ==
    ASSUME Calling, Others, MemTyped(mem')
    PROVE  AnswerInv'
<1>1. /\ todo # <<>> /\ changes' = changes + 1
      /\ UNCHANGED <<secured, mdl, call, todo, inside, cursor, answer>>
    BY DEF Others, lockVars
<1>2. /\ MemTyped(mem) /\ InLevels(mem) /\ changes \in Nat /\ Va \in Address
      /\ CallTyped /\ call # NoCall /\ DOMAIN seen = {"frames", "present"}
      /\ Va' = Va /\ Where(call.space)' = Where(call.space)
    BY <1>1, CallingFacts, CallSpace DEF Calling, Va
<1>3. PICK x : /\ OnlyTable(x)
               /\ Level[x] = 1 \/ (/\ call.process[1][1] \in Spaces
                                   /\ UpperPresent(mem, Root[call.process[1][1]], Va))
    BY <1>2, OthersWrite DEF Calling, AnswerInv
<1>4. TreeInv'
    BY <1>2, OthersWrite DEF Calling, AnswerInv
<1>5. TranslateInv'
  <2>1. Told => Told'
      BY <1>1, ToldKept DEF Calling
  <2> QED  BY <1>1, <1>2, <2>1 DEF TranslateInv, Calling, AnswerInv, OpInv
<1>6. ASSUME call.op = "native"
      PROVE  NativeInv'
  <2>1. PICK level \in 1..4 : todo = WalkPlan(level) /\ (Followed => WalkAt(level))
      BY <1>1, <1>6 DEF Calling, AnswerInv, OpInv, NativeInv
  <2>2. ASSUME Followed'
        PROVE  WalkAt(level)'
    <3> DEFINE root == Root[call.space]
    <3>1. changes = 0 /\ WalkAt(level)
        BY <1>1, <1>2, <2>1, <2>2 DEF Followed
    <3>2. /\ cursor.at \in Tables /\ Level[cursor.at] = level
          /\ Reaches(mem, root, Va, level, cursor.at)
        BY <3>1 DEF WalkAt
    <3>3. root \in Tables /\ Level[root] = 4 /\ Where(call.space) = call.space
        BY <1>2, <1>6, CallSpace, RootsAre
    <3>4. Onward(mem', level, cursor.at, Va) \in {Translation(mem, root, Va), Translation(mem', root, Va)}
      <4>1. x \in Tables /\ \A u \in Tables \ {x} : mem'[u] = mem[u]
          BY <1>3 DEF OnlyTable
      <4> HIDE DEF root
      <4> QED  BY <1>2, <3>2, <3>3, <4>1, OneChange
    <3>5. Translation(mem, root, Va) \in seen'.frames
        BY <1>6, <3>3 DEF Calling, AnswerInv, SeenInv, Here
    <3>6. Translation(mem', root, Va) \in seen'.frames
        BY <1>1, <1>2, <1>6, <3>3 DEF Calling, SeenInv, Here
    <3>7. Onward(mem', level, cursor.at, Va) \in seen'.frames
        BY <3>4, <3>5, <3>6
    <3>8. changes' # 0
        BY <1>1, <3>1
    <3> QED  BY <1>1, <1>2, <3>2, <3>7, <3>8 DEF WalkAt
  <2> QED  BY <1>1, <2>1, <2>2 DEF NativeInv
<1>7. PresentInv'
  <2>1. CheckingAt("process", <<>>) => CheckingAt("process", <<>>)'
      BY <1>1 DEF CheckingAt, NoMdls, Seen, Calling
  <2> QED  BY <1>1, <2>1 DEF PresentInv, Calling, AnswerInv, OpInv
<1>8. ASSUME call.op = "ptePresent"
      PROVE  PteInv'
  <2> DEFINE root == Root[call.space]
  <2>1. /\ root \in Tables /\ Level[root] = 4
        /\ call.process[1][1] \in Spaces => call.process[1][1] = call.space
      BY <1>2, <1>8, CallSpace, RootsAre DEF Spaces
  <2>2. ASSUME UpperPresent(mem', root, Va)
        PROVE  UpperPresent(mem, root, Va)
    <3>1. CASE Level[x] = 1
      <4>1. \A u \in Tables : Level[u] >= 2 => mem'[u] = mem[u]
          BY <1>3, <3>1 DEF OnlyTable
      <4> HIDE DEF root
      <4> QED  BY <1>2, <2>1, <2>2, <4>1, UpperKept
    <3>2. CASE Level[x] # 1
        BY <1>3, <2>1, <3>2
    <3> QED  BY <3>1, <3>2
  <2>3. PteInv
      BY DEF Calling, AnswerInv, OpInv
  <2>4. CASE todo \in Ends /\ ((answer = 1 /\ UpperPresent(mem, root, Va)) => call.process[1] \in seen.present)
      BY <1>1, <1>2, <2>2, <2>4 DEF PteInv, Calling
  <2>5. CASE \/ todo = PteThere /\ call.space = "target" /\ answer = 0
             \/ todo \in PteAsks /\ inside = call.space /\ answer = 0
      BY <1>1, <2>5 DEF PteInv
  <2> QED  BY <1>8, <2>3, <2>4, <2>5 DEF PteInv
<1>9. OpInv'
    BY <1>1, <1>5, <1>6, <1>7, <1>8 DEF OpInv, NativeInv, PteInv
<1> QED  BY <1>4, <1>9 DEF Calling, AnswerInv

LEMMA TreeKept ==
    ASSUME Calling, Thread, ~Return
    PROVE  TreeInv'
<1>1. /\ todo # <<>> /\ (Head(todo)[1] = "lock" => LockPages) /\ (Head(todo)[1] # "lock" => mem' = mem)
    BY ThreadMoves, CallSpace DEF Calling
<1>2. CASE mem' = mem
    BY <1>2 DEF Calling, AnswerInv, TreeInv
<1>3. CASE Head(todo)[1] = "lock" /\ mem' # mem
  <2>1. ProbeAndLock
      BY <1>1, <1>3 DEF LockPages, osVars
  <2>2. PICK s \in Sides : AtMdl(s)
      BY <1>1, <1>3, StepPlace DEF Calling, MemoryInv, OperateMoves
  <2>3. Operating
      BY <1>1, <1>3, StepPlace DEF Calling, MemoryInv, OperateMoves
  <2>4. Side = s
      BY <1>1, <1>3, <2>2, MdlPlace DEF Side
  <2>5. PagesOf(OwnRange) \subseteq Pages
      BY <2>3, <2>4, CallRanges, RangeFacts DEF OwnRange
  <2> QED  BY <2>1, <2>5, ProbeWritten, CallingFacts DEF Calling, AnswerInv
<1> QED  BY <1>1, <1>2, <1>3

LEMMA ThreadAnswer ==
    ASSUME Calling, Thread, ~Return
    PROVE  AnswerInv'
<1>1. call' = call
    BY DEF Calling
<1>2. OpInv'
    BY <1>1, TranslateStep, NativeStep, PresentStep, PteStep
       DEF OpInv, TranslateInv, NativeInv, PresentInv, PteInv
<1> QED  BY <1>2, TreeKept DEF AnswerInv, Calling

LEMMA BeginAnswer ==
    ASSUME MemoryInv, AnswerInv, Begin, Observe
    PROVE  AnswerInv'
<1>1. /\ call = NoCall /\ answer' = 0 /\ UNCHANGED <<mem, secured, mdl, inside, changes>>
    BY DEF Begin, osVars, lockVars
<1>2. inside = "caller" /\ secured = {} /\ NoMdls
    BY <1>1 DEF MemoryInv, PlanInv, CallTyped, NoCall, Ops
<1>3. CallTyped' /\ todo' = Steps(call') /\ (call'.op = "native" => cursor'.at = Root[call'.space])
  <2>1. PICK op \in Ops, space \in Spaces \union {"unknown"}, r \in Ranges, b \in Ranges \union {<<>>} :
            LET c == [op |-> op, space |-> space, process |-> r, buffer |-> b]
            IN  /\ Allowed(c) /\ call' = c /\ todo' = Steps(c)
                /\ cursor' = [at |-> IF op = "native" THEN Root[space] ELSE InHuge(r[1][2]),
                              misread |-> FALSE]
      BY DEF Begin
  <2> DEFINE c == [op |-> op, space |-> space, process |-> r, buffer |-> b]
  <2>2. c \in [op : Ops, space : Spaces \union {"unknown"}, process : Ranges, buffer : Ranges \union {<<>>}]
      OBVIOUS
  <2>3. Allowed(c) /\ call' = c /\ todo' = Steps(c)
      BY <2>1
  <2>4. c.op = "native" => cursor'.at = Root[c.space]
      BY <2>1
  <2> HIDE DEF c
  <2>5. Allowed(call)' /\ todo' = Steps(call') /\ (call'.op = "native" => cursor'.at = Root[call'.space])
      BY <2>3, <2>4
  <2> QED  BY <2>2, <2>3, <2>5 DEF CallTyped
<1>4. /\ call'.process \in Ranges /\ Len(call'.process) \in Nat \ {0} /\ Va' \in Address
      /\ Where(call'.space) \in Spaces
      /\ call'.op # "translate" => call'.space \in Spaces /\ Where(call'.space) = call'.space
  <2>1. call'.process \in Ranges /\ Allowed(call)' /\ call'.space \in Spaces \union {"unknown"}
      BY <1>3 DEF CallTyped
  <2>2. Len(call'.process) \in Nat \ {0} /\ call'.process[1] \in Pages
    <3>1. \A r \in Ranges : Len(r) \in Nat \ {0} /\ \A i \in 1..Len(r) : r[i] \in Pages
        BY RangeFacts
    <3> QED  BY <2>1, <3>1
  <2>3. Va' \in Address
      BY <2>2, ProcessMemoryAssumption DEF Va
  <2> QED  BY <2>1, <2>2, <2>3 DEF Allowed, Where, Spaces
<1>5. SeenInv' /\ TreeInv'
    BY <1>1, <1>3, SeenStarts DEF MemoryInv, MachineInv, AnswerInv, TreeInv
<1>6. TranslateInv'
  <2>1. call'.op = "translate" => IF call'.space = "target" THEN todo' = AskThere ELSE todo' \in Asks
      BY <1>3, PlansStart
  <2> QED  BY <1>1, <1>2, <2>1 DEF TranslateInv, Where
<1>7. ASSUME call'.op = "native"
      PROVE  NativeInv'
  <2>1. todo' = WalkPlan(4) /\ cursor'.at = Root[call'.space] /\ call'.space \in Spaces
      BY <1>3, <1>4, <1>7, PlansStart
  <2>2. Onward(mem', 4, cursor'.at, Va') \in seen'.frames
      BY <1>4, <1>5, <1>7, <2>1, TranslationIs DEF SeenInv, Here
  <2>3. WalkAt(4)'
      BY <2>1, <2>2, RootsAre DEF WalkAt, Reaches
  <2> QED  BY <2>1, <2>3 DEF NativeInv
<1>8. ASSUME call'.op = "present"
      PROVE  PresentInv'
  <2>1. "process" \in Sides /\ <<>> \in Seq(Moves)
      BY DEF Sides
  <2>2. todo' = From("process", 0, Len(call'.process), <<>>)
    <3>1. Steps(call') = Checks("process", call'.process)
        BY <1>8, PlansStart
    <3> QED  BY <1>3, <1>4, <2>1, <3>1, ChecksAre
  <2>3. 0 \in 0..Len(call'.process) - 1 /\ Seen("process", 0)'
      BY <1>4 DEF Seen
  <2>4. todo' # <<>>
      BY <1>4, <2>2, <2>3, ChecksLeft
  <2>5. CheckingAt("process", <<>>)'
      BY <1>1, <1>2, <2>2, <2>3 DEF CheckingAt, NoMdls
  <2> QED  BY <1>1, <1>2, <2>4, <2>5 DEF PresentInv
<1>9. PteInv'
  <2>1. call'.op = "ptePresent" => IF call'.space = "target" THEN todo' = PteThere ELSE todo' \in PteAsks
      BY <1>3, PlansStart
  <2>2. call'.op = "ptePresent" => call'.space \in Spaces
      BY <1>4
  <2> QED  BY <1>1, <1>2, <2>1, <2>2 DEF PteInv, Spaces
<1>10. OpInv'
    BY <1>6, <1>7, <1>8, <1>9 DEF OpInv, NativeInv, PresentInv
<1> QED  BY <1>5, <1>10 DEF AnswerInv

LEMMA NoCallAnswer ==
    ASSUME call' = NoCall, UNCHANGED mem, TreeInv
    PROVE  AnswerInv'
<1>1. call'.op = "none"
    BY DEF NoCall
<1>2. SeenInv' /\ OpInv'
    BY <1>1 DEF SeenInv, OpInv, TranslateInv, NativeInv, PresentInv, PteInv
<1> QED  BY <1>2 DEF AnswerInv, TreeInv

LEMMA AnswerSame ==
    ASSUME AnswerInv, UNCHANGED vars
    PROVE  AnswerInv'
<1>1. /\ UNCHANGED <<mem, secured, call, todo, inside, mdl, cursor, answer, changes, seen>>
      /\ Va' = Va /\ Here' = Here /\ Told' = Told /\ Followed' = Followed
      /\ \A level : WalkAt(level)' = WalkAt(level)
      /\ CheckingAt("process", <<>>)' = CheckingAt("process", <<>>)
    BY DEF vars, Va, Here, Told, Followed, WalkAt, CheckingAt, NoMdls, Seen
<1>2. TreeInv' /\ SeenInv' /\ TranslateInv' /\ NativeInv' /\ PresentInv' /\ PteInv'
    BY <1>1 DEF AnswerInv, TreeInv, SeenInv, OpInv, TranslateInv, NativeInv, PresentInv, PteInv
<1> QED  BY <1>2 DEF AnswerInv, OpInv

LEMMA AnswersStart ==
    ASSUME Init
    PROVE  AnswerInv
<1>1. call.op = "none" /\ TreeInv
    BY LevelsAssumption DEF Init, NoCall, TreeInv
<1>2. SeenInv /\ OpInv
    BY <1>1 DEF SeenInv, OpInv, TranslateInv, NativeInv, PresentInv, PteInv
<1> QED  BY <1>1, <1>2 DEF AnswerInv

LEMMA AnswerStep ==
    ASSUME MemoryInv, MemoryInv', AnswerInv, [Next]_vars
    PROVE  AnswerInv'
<1>1. CASE Begin /\ Observe
    BY <1>1, BeginAnswer
<1>2. CASE Return /\ Observe
    BY <1>2, NoCallAnswer DEF Return, osVars, AnswerInv
<1>3. CASE UNCHANGED vars
    BY <1>3, AnswerSame
<1>4. CASE Others /\ Observe
  <2>1. CallTyped /\ call' = call
      BY <1>4 DEF Others, MemoryInv, PlanInv
  <2>2. Calling
      BY <1>4, <2>1, SeenNow DEF Calling, MemoryInv, MachineInv
  <2>3. MemTyped(mem')
      BY DEF MemoryInv, MachineInv, MemTyped
  <2> QED  BY <1>4, <2>2, <2>3, OthersAnswer
<1>5. CASE Thread /\ ~Begin /\ ~Return /\ Observe
  <2>1. todo # <<>> /\ call' = call
      BY <1>5 DEF Thread, Attach, Detach, IsAddressValid, GetPhysicalAddress, GetProcessCr3,
                  NativeGetPhysicalAddress, CheckPage, PteIsMemoryRangePresent, SecureMemory,
                  UnsecureMemory, AllocateMdl, FreeMdl, LockPages, UnlockPages, MapPages, UnmapPages,
                  CopyMemory, Step
  <2>2. CallTyped
      BY <2>1 DEF MemoryInv, PlanInv
  <2>3. Calling
      BY <1>5, <2>1, <2>2, SeenNow DEF Calling, MemoryInv, MachineInv
  <2> QED  BY <1>5, <2>3, ThreadAnswer
<1> QED  BY <1>1, <1>2, <1>3, <1>4, <1>5 DEF Next, Thread

\* At every moment of a call that answers, the walk or the check has found
\* nothing but what was so at some moment of the call, and the tables stay in
\* levels whoever writes to them.
THEOREM AnswerInvariance == Spec => []AnswerInv
<1>1. MemoryInv /\ MemoryInv' /\ AnswerInv /\ [Next]_vars => AnswerInv'
    BY AnswerStep
<1> QED  BY <1>1, AnswersStart, MemoryInvariance, PTL DEF Spec

\* What a call says of memory was so at some moment of the call: both
\* translations, the check of a range, and the check in Pte for its first page.
THEOREM AnswersAreTrue == Spec => []AnswersWereTrue
<1>1. MemoryInv /\ AnswerInv => AnswersWereTrue
  <2> SUFFICES ASSUME MemoryInv, AnswerInv, todo = <<>>
               PROVE  /\ call.op = "translate" => Told
                      /\ call.op = "native" /\ Followed => Told
                      /\ answer = 1 =>
                            /\ call.op = "present" => PagesOf(call.process) \subseteq seen.present
                            /\ (call.op = "ptePresent" /\ UpperPresent(mem, Root[call.space], Va)) =>
                                  call.process[1] \in seen.present
      BY DEF AnswersWereTrue, Told, Followed
  <2>1. todo # AskThere /\ todo \notin Asks /\ todo # PteThere /\ todo \notin PteAsks
      BY PlansLead
  <2>2. \A level \in 1..4 : todo # WalkPlan(level)
      BY WalkLeads
  <2> QED
      BY <2>1, <2>2 DEF AnswerInv, OpInv, TranslateInv, NativeInv, PresentInv, PteInv
<1> QED  BY <1>1, MemoryInvariance, AnswerInvariance, PTL
=============================================================================
