---------------------------- MODULE MCEptHandler ----------------------------
(* Small instances of EptHandler for TLC. *)
EXTENDS EptHandler, TLC

CONSTANTS F, A, B, t0, t1, t2

MCLargePages == {F, A, B}
MCIndex == 1..2
MCTables == {t0, t1, t2}

\* Free blocks are interchangeable.
FreeBlocks == Permutations({t1, t2})

\* The tables built at start lie in A, the layouts allocated later in B.
MCHolderOf == [t \in MCTables |-> IF t = t0 THEN A ELSE B]

\* F and B are write-back memory, A is write-through.
MCTypeOf == [l \in MCLargePages |-> IF l = A THEN "WT" ELSE "WB"]

\* Two neighbours in A, and one page of the first large page.
MCHookPages == {<<A, 1>>, <<A, 2>>, <<F, 1>>}

Args(r, w, x, rx, wx) ==
    [read |-> r, write |-> w, execute |-> x, executeRead |-> rx, executeWrite |-> wx]

\* Two ways to intercept a page: with another frame for every access, and the
\* way of Trace::EnableOn, with a frame to execute and nothing else.
Elsewhere == Args(<<B, 2>>, <<B, 2>>, <<B, 2>>, <<B, 2>>, <<B, 2>>)
CodeOnly == Args(Null, Null, <<A, 2>>, Null, Null)
MCHooks == {Elsewhere, CodeOnly}
=============================================================================
