--------------------------- MODULE MCProcessMemory ---------------------------
(* A small instance of ProcessMemory for TLC: tables of two entries, one    *)
(* table of each level for the target, the caller and the kernel half.      *)
EXTENDS ProcessMemory

MCTables == 1..11
MCLevel == [t \in MCTables |-> CASE t \in {1, 5} -> 4 [] t \in {2, 6, 9} -> 3
                                [] t \in {3, 7, 10} -> 2 [] OTHER -> 1]
MCRoot == [s \in {"caller", "target"} |-> IF s = "target" THEN 1 ELSE 5]
MCLastTable == [s \in {"caller", "target", "kernel"} |->
                  CASE s = "target" -> 4 [] s = "caller" -> 8 [] OTHER -> 11]

V0 == <<"target", <<0, 0, 0, 0>>>>
V1 == <<"target", <<0, 0, 0, 1>>>>
B1 == <<"caller", <<0, 0, 0, 1>>>>
K0 == <<"kernel", <<1, 0, 0, 0>>>>
K1 == <<"kernel", <<1, 0, 0, 1>>>>
MCPages == {V0, V1, B1, K0, K1}
MCRanges == {<<V1>>, <<V0, V1>>, <<B1>>, <<K0>>, <<K0, K1>>}

\* A frame beyond the reach of the walk, a shared one, a large page at 20.
MCFrames == {12, 13, 14, 15, 16, 17, 18, 20, 21, 22, 23, 34}
MCShared == {16}
MCJunk == {Zero, Entry(FALSE, FALSE, FALSE, 3), Present(18)}

Table(e0, e1) == [i \in {0, 1} |-> IF i = 0 THEN e0 ELSE e1]
Memory(pdpte, pde, leaf0, leaf1, k1) ==
    [t \in MCTables |->
       CASE t \in {1, 5} -> Table(Present(t + 1), Present(9))
         [] t = 2 -> Table(pdpte, Zero)
         [] t = 3 -> Table(pde, Zero)
         [] t = 4 -> Table(leaf0, leaf1)
         [] t = 8 -> Table(Zero, Present(14))
         [] t = 11 -> Table(Present(15), IF k1 THEN Present(17) ELSE Zero)
         [] OTHER -> Table(Present(t + 1), Zero)]
Homes(v0, v1, k1) == [p \in MCPages |-> CASE p = V0 -> v0 [] p = V1 -> v1 [] p = B1 -> 14
                                      [] p = K0 -> 15 [] OTHER -> IF k1 THEN 17 ELSE Nowhere]
Layout(pdpte, pde, leaf0, leaf1, v0, v1, k1) ==
    [mem |-> Memory(pdpte, pde, leaf0, leaf1, k1), home |-> Homes(v0, v1, k1)]
Small(f) == Layout(Present(3), Present(4), Present(12), Present(f), 12, f, TRUE)

\* Small pages, one of them shared or high; a kernel page that is not there;
\* nothing allocated; a large page; a huge one; a last table that is not present.
MCLayouts ==
    {Small(13), Small(16), Small(34),
     Layout(Present(3), Present(4), Present(12), Present(13), 12, 13, FALSE),
     Layout(Present(3), Present(4), Zero, Zero, Nowhere, Nowhere, TRUE),
     Layout(Present(3), Entry(TRUE, TRUE, FALSE, 20), Zero, Zero, 20, 21, TRUE),
     Layout(Entry(TRUE, TRUE, FALSE, 20), Zero, Zero, Zero, 20, 21, TRUE),
     Layout(Present(3), Entry(FALSE, FALSE, FALSE, 18), Zero, Zero, OnDisk, OnDisk, TRUE)}
=============================================================================
