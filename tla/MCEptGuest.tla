----------------------------- MODULE MCEptGuest -----------------------------
(* Small instances of EptGuest for TLC. *)
EXTENDS EptGuest, TLC

CONSTANTS F, A, B, t0, t1, t2

MCLargePages == {F, A, B}
MCIndex == 1..2
MCTables == {t0, t1, t2}
FreeBlocks == Permutations({t1, t2})
MCHolderOf == [t \in MCTables |-> IF t = t0 THEN A ELSE B]
MCTypeOf == [l \in MCLargePages |-> IF l = A THEN "WT" ELSE "WB"]

\* One page of A, which holds code, and one page of B, which holds data.
MCHookPages == {<<A, 1>>, <<B, 1>>}

Args(r, w, x, rx, wx) ==
    [read |-> r, write |-> w, execute |-> x, executeRead |-> rx, executeWrite |-> wx]

\* Five different frames, as in the example's TestHvPageInterception; reads
\* and writes to one frame and no self-modification.
AllApart == Args(<<B, 2>>, <<F, 1>>, <<A, 1>>, <<A, 2>>, <<F, 2>>)
DataHook == Args(<<B, 2>>, <<B, 2>>, <<A, 1>>, <<A, 1>>, Null)
TwoHooks == {AllApart, DataHook}
OneHook == {AllApart}

\* The way of Trace::EnableOn: a frame to execute and nothing else.
CodeOnly == Args(Null, Null, <<A, 2>>, Null, Null)
\* One frame to read and execute, another for what is written.
WriteElsewhere == Args(<<B, 2>>, <<F, 1>>, <<B, 2>>, <<F, 1>>, <<F, 1>>)
AnyHook == {WriteElsewhere, CodeOnly}

Instr(page, tail, r, w, rmw, br) ==
    [page |-> page, ripPa |-> page, code |-> {page} \union tail, reads |-> r,
     writes |-> w, rmw |-> rmw, branches |-> br]

\* The same instruction in a large page.
FoundAt(i, pa) == [i EXCEPT !.ripPa = pa]

\* Straight-line instructions that read or write (or read and write, at once
\* or not) one intercepted page, their own or another.
OneAccess ==
    {Instr(p, {}, r, w, rmw, FALSE) : p \in {<<A, 1>>, <<A, 2>>}, r \in SUBSET MCHookPages,
                                      w \in SUBSET MCHookPages, rmw \in SUBSET MCHookPages}
OneStep == {i \in OneAccess : \E q \in MCHookPages :
               /\ i.reads \union i.writes \subseteq {q}
               /\ i.rmw \subseteq i.reads \intersect i.writes
               /\ ~(q = i.page /\ q \in i.reads \intersect i.writes)}

\* Any number of accesses, straight on or elsewhere; one that reads and writes
\* at once; one that lies across the end of the code page; one in a large page,
\* taken for one in a data page.
AnyInstruction ==
    {Instr(p, {}, r, w, {}, TRUE) : p \in {<<A, 1>>, <<A, 2>>},
                                    r \in {{}, {<<B, 1>>}},
                                    w \in SUBSET MCHookPages}
        \union {Instr(p, {}, {q}, {q}, {q}, FALSE) : p, q \in MCHookPages}
        \union {Instr(<<A, 1>>, {<<A, 2>>}, {<<B, 1>>}, {}, {}, FALSE),
                FoundAt(Instr(<<A, 1>>, {}, {<<A, 1>>, <<B, 1>>}, {}, {}, FALSE), <<B, 1>>)}

\* Several accesses that take rights from one another: a read and a write of
\* one page, at once or not, of the own page and another; an instruction across
\* a page end, with data in its second page; and one in a large page.
Contending ==
    {Instr(<<A, 1>>, {}, {<<A, 1>>, <<B, 1>>}, {<<A, 1>>, <<B, 1>>}, {}, FALSE),
     Instr(<<A, 2>>, {}, {<<A, 1>>, <<B, 1>>}, {<<A, 1>>}, {<<A, 1>>}, TRUE),
     Instr(<<A, 2>>, {<<A, 1>>}, {<<A, 1>>}, {<<B, 1>>}, {}, FALSE),
     FoundAt(Instr(<<A, 1>>, {}, {<<B, 1>>}, {<<A, 1>>}, {}, FALSE), <<B, 1>>)}

MCNextRip == [r \in 1..2 |-> 3 - r]
=============================================================================
