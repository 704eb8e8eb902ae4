------------------------------ MODULE PageTables ------------------------------
(***************************************************************************)
(* The page tables of a processor in long mode and the functions that read *)
(* them in software (PTE.hpp, PteUtils.cpp, MemoryUtils.cpp).  An address  *)
(* is its four table indices; the offset into the page is left out, and a  *)
(* physical address is the number of its frame.                            *)
(***************************************************************************)
EXTENDS Integers, FiniteSets

CONSTANTS
    Tables, \* the frames that hold page tables
    Level,  \* the level of each: 4 for a top table, 1 for a last one
    Slots,  \* entries of a table: 512 in the hardware
    Reach,  \* frames below it are those PMASK keeps: 2^24 in the code
    Junk    \* what a frame that holds no table may read as

Index == 0..Slots - 1
Address == Index \X Index \X Index \X Index

None == -1 \* no translation

\* What the functions look at of an entry.
Entry(p, ps, pat, pfn) == [p |-> p, ps |-> ps, pat |-> pat, pfn |-> pfn]
Entries == [p : BOOLEAN, ps : BOOLEAN, pat : BOOLEAN, pfn : Nat]
Zero == Entry(FALSE, FALSE, FALSE, 0)
Present(pfn) == Entry(TRUE, FALSE, FALSE, pfn)

ASSUME PageTablesAssumption ==
    /\ Slots \in Nat \ {0} /\ Reach \in Nat \ {0}
    /\ Tables \subseteq 1..Reach - 1 /\ Level \in [Tables -> 1..4]
    /\ Junk \subseteq Entries

\* An entry references a table one level down unless it maps a page.
MapsPage(level, e) == level = 1 \/ (level \in {2, 3} /\ e.ps)
References(level, e) ==
    e.p => /\ e.pfn # 0
           /\ MapsPage(level, e) \/ (e.pfn \in Tables /\ Level[e.pfn] = level - 1)
InLevels(mem) == \A t \in Tables, i \in Index : References(Level[t], mem[t][i])

\* AddressRange::IsKernelAddress: the upper half.
IsKernelAddress(va) == 2 * va[1] >= Slots

\* Where in a large page an address lies.
InLarge(va) == va[4]
InHuge(va) == Slots * va[3] + va[4]

\* What the processor makes of an address: the reference.
Translation(mem, root, va) ==
    LET e4 == mem[root][va[1]]
        e3 == mem[e4.pfn][va[2]]
        e2 == mem[e3.pfn][va[3]]
        e1 == mem[e2.pfn][va[4]]
    IN  IF ~e4.p \/ ~e3.p THEN None
        ELSE IF e3.ps THEN e3.pfn + InHuge(va)
        ELSE IF ~e2.p THEN None
        ELSE IF e2.ps THEN e2.pfn + InLarge(va)
        ELSE IF e1.p THEN e1.pfn ELSE None

-----------------------------------------------------------------------------
(* NativeGetPhysicalAddress reads one entry a step.                        *)

\* WinApiReadPhysicalAddress: the entry stays 0 when the frame is no memory.
ReadPhysical(mem, f, i) == IF f \in Tables THEN {mem[f][i]} ELSE Junk \union {Zero}

\* PMASK keeps 36 bits of the address.
Masked(pfn) == pfn % Reach

NextTable(e) == [done |-> FALSE, frame |-> Masked(e.pfn)]
Result(f) == [done |-> TRUE, frame |-> f]

\* Mutant: a 2 MB entry is taken for a table.
WalkStepSmall(level, e, va) ==
    CASE level = 1 -> Result(Masked(e.pfn))
      [] level > 1 /\ ~e.p -> Result(0)
      [] level = 3 /\ e.p /\ e.ps -> Result(e.pfn + InHuge(va))
      [] OTHER -> NextTable(e)

\* What one step of the walk at a level makes of the entry it has read: the
\* frame of the next table, or the function's result.  The present bit of the
\* last entry is not looked at, and bit 12 of a 2 MB entry is taken as address.
WalkStep(level, e, va) ==
    CASE level = 1 -> Result(Masked(e.pfn))
      [] level > 1 /\ ~e.p -> Result(0)
      [] level = 2 /\ e.p /\ e.ps ->
           Result(Masked(e.pfn) + (IF e.pat THEN 1 ELSE 0) + InLarge(va))
      [] level = 3 /\ e.p /\ e.ps -> Result(e.pfn + InHuge(va))
      [] OTHER -> NextTable(e)

\* The entries the walk does not read as the processor does: a last entry that
\* is not present and not empty, a 2 MB entry with its PAT bit, a frame beyond
\* the mask.
Misread(level, e) ==
    \/ level = 1 /\ ~e.p /\ Masked(e.pfn) # 0
    \/ level = 2 /\ e.p /\ e.ps /\ e.pat
    \/ (e.p /\ e.pfn >= Reach)

-----------------------------------------------------------------------------
(* Pte::GetPageTables and Pte::IsPagePresent.                              *)

\* What IsPagePresent answers from the entry that maps the page, with the
\* page's size; Absent when the tables lead nowhere.
Presence(e, pages) == [present |-> e.p, pages |-> pages]
Absent == Presence(Zero, 0)

\* A table is read through GetVirtualForPhysical, which may know no address of
\* a frame that holds none: the entries read at an index, and the answer when
\* there is no address.
Through(mem, f, i) == IF f \in Tables THEN {mem[f][i]} ELSE Junk
Unmapped(f) == IF f \in Tables THEN {} ELSE {Absent}

\* GetPageTables and the answers it leads to.  The present bits of a PDPE that
\* is no large page and of a PDE are not looked at.
IsPagePresent(mem, root, va) ==
    LET Pde(e2) ==
            IF e2.ps THEN {Presence(e2, Slots)}
            ELSE Unmapped(e2.pfn) \union {Presence(e, 1) : e \in Through(mem, e2.pfn, va[4])}
        Pdpe(e3) ==
            IF ~e3.ps
            THEN Unmapped(e3.pfn) \union UNION {Pde(e) : e \in Through(mem, e3.pfn, va[3])}
            ELSE IF e3.p THEN {Presence(e3, Slots * Slots)} ELSE {Absent}
        e4 == mem[root][va[1]]
    IN  IF ~e4.p THEN {Absent}
        ELSE Unmapped(e4.pfn) \union UNION {Pdpe(e) : e \in Through(mem, e4.pfn, va[2])}

\* The upper entries of the address are present down to the one that maps it.
UpperPresent(mem, root, va) ==
    LET e4 == mem[root][va[1]]
        e3 == mem[e4.pfn][va[2]]
        e2 == mem[e3.pfn][va[3]]
    IN  e4.p /\ e3.p /\ (e3.ps \/ e2.p)
=============================================================================
