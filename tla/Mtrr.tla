-------------------------------- MODULE Mtrr --------------------------------
(***************************************************************************)
(* The memory types of the EPT entries: GetMtrrMemoryType with its helpers *)
(* and the loops of InitializeEptTables (include/HyperVisor/Ept.cpp) that  *)
(* give every entry the type the memory type range registers (MTRRs) give  *)
(* the memory it maps, as InitMtrr (HyperVisor.cpp) read them.             *)
(*                                                                         *)
(* An entry maps 4 KB page frames: one frame in the first large page, all  *)
(* frames of a large page everywhere else.  What the base and mask of a    *)
(* variable MTRR select is a set of frames.                                *)
(***************************************************************************)
EXTENDS Naturals, Sequences

CONSTANTS
    Frames,         \* the page frames of physical memory
    FirstMegabyte,  \* those below 1 MB
    FixedRanges,    \* FixedRanges[i][j]: the frames of subrange j of fixed MTRR i
    Entries,        \* the frames each entry maps, in the order they are built
    Settings        \* what the MTRRs may hold

\* Intel::MTRR_MEMORY_TYPE
Types == {"UC", "WC", "WT", "WP", "WB"}

FixedIndex == DOMAIN FixedRanges

\* VMX::MTRR_INFO: are the MTRRs enabled, are the fixed ones there and enabled,
\* the default type, the types of the fixed subranges, and the VCNT variable
\* MTRRs (InitMtrr leaves those it has no room for out, see Assumption).
Setting ==
    [enabled: BOOLEAN, fixedEnabled: BOOLEAN, default: Types,
     fixed: [FixedIndex -> Seq(Types)],
     variable: Seq([valid: BOOLEAN, frames: SUBSET Frames, type: Types])]

\* GetMtrrMemoryType reads VCNT variable MTRRs, InitMtrr fills at most ten: the
\* settings are those with no more than that.
ASSUME MtrrAssumption ==
    /\ FirstMegabyte \subseteq Frames
    /\ FixedRanges \in Seq(Seq(SUBSET Frames))
    /\ Entries \in Seq(SUBSET Frames)
    /\ Settings \subseteq Setting
    /\ \A m \in Settings :
          /\ Len(m.variable) <= 10
          /\ \A i \in FixedIndex : Len(m.fixed[i]) = Len(FixedRanges[i])

\* Mutant: two different types that allow caching mix to write-back.
MixMtrrTypesUp(t, u) ==
    IF t = u THEN t
    ELSE IF {t, u} = {"WT", "WB"} THEN "WB"
    ELSE "UC"

\* MixMtrrTypes; conflicting types, for which it returns false, are left to its
\* callers, which all make them uncacheable.
MixMtrrTypes(t, u) ==
    IF t = u THEN t
    ELSE IF {t, u} = {"WT", "WB"} THEN "WT"
    ELSE "UC"
-----------------------------------------------------------------------------
VARIABLES
    mtrr,      \* the MTRRs, read once
    types,     \* the types of the entries built so far
    at,        \* "next", "fixed", "variable" or "return"
    i, j,      \* the fixed or variable MTRR, the fixed subrange
    part,      \* the type found in fixed MTRR i so far, or "none"
    memType,   \* MemType
    init       \* IsMemTypeInitialized

vars == <<mtrr, types, at, i, j, part, memType, init>>

\* PhysRange: the frames of the entry whose type is being computed.
Span == Entries[Len(types) + 1]

Init ==
    /\ mtrr \in Settings
    /\ types = <<>>
    /\ at = "next"
    /\ i = 1 /\ j = 1
    /\ part = "none"
    /\ memType = "UC"
    /\ init = FALSE

\* The call of GetMtrrMemoryType for the next entry.
Begin ==
    /\ at = "next"
    /\ Len(types) < Len(Entries)
    /\ i' = 1 /\ j' = 1
    /\ part' = "none"
    /\ init' = FALSE
    /\ IF ~mtrr.enabled
       THEN memType' = "UC" /\ at' = "return"
       ELSE /\ memType' = mtrr.default
            /\ at' = IF Span \intersect FirstMegabyte # {} /\ mtrr.fixedEnabled
                     THEN "fixed" ELSE "variable"
    /\ UNCHANGED <<mtrr, types>>

Return(t) ==
    /\ memType' = t
    /\ at' = "return"
    /\ UNCHANGED <<mtrr, types, i, j, part, init>>

\* The type found in one MTRR is mixed with what the earlier ones gave.
Found(t) ==
    LET mixed == IF init THEN MixMtrrTypes(memType, t) ELSE t
    IN  IF mixed = "UC"
        THEN Return("UC")
        ELSE /\ memType' = mixed
             /\ init' = TRUE
             /\ i' = i + 1
             /\ j' = 1
             /\ part' = "none"
             /\ UNCHANGED <<mtrr, types, at>>

\* One pass of the loop of CalcMemoryTypeByFixedMtrr.
FixedSubrange ==
    /\ at = "fixed"
    /\ i \in FixedIndex
    /\ j <= Len(FixedRanges[i])
    /\ IF Span \intersect FixedRanges[i][j] = {}
       THEN j' = j + 1 /\ UNCHANGED <<mtrr, types, at, i, part, memType, init>>
       ELSE LET t == mtrr.fixed[i][j]
                mixed == IF part = "none" THEN t ELSE MixMtrrTypes(part, t)
            IN  IF mixed = "UC"
                THEN Return("UC")
                ELSE /\ part' = mixed
                     /\ j' = j + 1
                     /\ UNCHANGED <<mtrr, types, at, i, memType, init>>

\* The end of one fixed MTRR; the span may lie outside it.
FixedRange ==
    /\ at = "fixed"
    /\ i \in FixedIndex
    /\ j > Len(FixedRanges[i])
    /\ IF part = "none"
       THEN /\ i' = i + 1
            /\ j' = 1
            /\ UNCHANGED <<mtrr, types, at, part, memType, init>>
       ELSE Found(part)

FixedDone ==
    /\ at = "fixed"
    /\ i \notin FixedIndex
    /\ at' = "variable"
    /\ i' = 1
    /\ UNCHANGED <<mtrr, types, j, part, memType, init>>

\* Mutant: a variable MTRR replaces what was found before.
VariableReplaces ==
    /\ at = "variable"
    /\ i \in DOMAIN mtrr.variable
    /\ LET v == mtrr.variable[i]
       IN  IF v.valid /\ Span \intersect v.frames # {}
           THEN /\ memType' = v.type
                /\ init' = TRUE
                /\ i' = i + 1
                /\ UNCHANGED <<mtrr, types, at, j, part>>
           ELSE i' = i + 1 /\ UNCHANGED <<mtrr, types, at, j, part, memType, init>>

\* A variable MTRR.  The loop over the frames of the span mixes its one type
\* with itself, so it comes to whether the MTRR selects any of them.
Variable ==
    /\ at = "variable"
    /\ i \in DOMAIN mtrr.variable
    /\ LET v == mtrr.variable[i]
       IN  IF v.valid /\ Span \intersect v.frames # {}
           THEN Found(v.type)
           ELSE i' = i + 1 /\ UNCHANGED <<mtrr, types, at, j, part, memType, init>>

VariableDone ==
    /\ at = "variable"
    /\ i \notin DOMAIN mtrr.variable
    /\ Return(memType)

\* The type is written to the entry.
Store ==
    /\ at = "return"
    /\ types' = Append(types, memType)
    /\ at' = "next"
    /\ UNCHANGED <<mtrr, i, j, part, memType, init>>

Next ==
    \/ Begin
    \/ FixedSubrange
    \/ FixedRange
    \/ FixedDone
    \/ Variable
    \/ VariableDone
    \/ Store

Spec == Init /\ [][Next]_vars
-----------------------------------------------------------------------------
(***************************************************************************)
(* Properties.                                                             *)
(***************************************************************************)

\* The variables have their types.
MtrrTypeOK ==
    /\ mtrr \in Settings
    /\ types \in Seq(Types)
    /\ Len(types) <= Len(Entries)
    /\ at \in {"next", "fixed", "variable", "return"}
    /\ i \in Nat \ {0} /\ j \in Nat \ {0}
    /\ part \in Types \union {"none"}
    /\ memType \in Types
    /\ init \in BOOLEAN

\* A type that caches no more than another, so that it can stand in for it.
Below(t, u) == t = u \/ t = "UC" \/ (t = "WT" /\ u = "WB")

\* The memory types the MTRRs give the frames of s.
FixedTypes(s) ==
    IF s \intersect FirstMegabyte # {} /\ mtrr.fixedEnabled
    THEN {t \in Types : \E m \in FixedIndex : \E n \in DOMAIN FixedRanges[m] :
             s \intersect FixedRanges[m][n] # {} /\ t = mtrr.fixed[m][n]}
    ELSE {}
VariableTypes(s) ==
    {t \in Types : \E n \in DOMAIN mtrr.variable :
        /\ mtrr.variable[n].valid
        /\ s \intersect mtrr.variable[n].frames # {}
        /\ t = mtrr.variable[n].type}

\* The most cacheable type that no type in S forbids.
GreatestBelow(t, S) ==
    /\ \A u \in S : Below(t, u)
    /\ \A w \in Types : (\A u \in S : Below(w, u)) => Below(w, t)

\* The type that s is due.
Due(t, s) ==
    LET S == FixedTypes(s) \union VariableTypes(s)
    IN  IF ~mtrr.enabled THEN t = "UC"
        ELSE IF S = {} THEN t = mtrr.default
        ELSE GreatestBelow(t, S)

\* Every entry is given the most cacheable type that none of the MTRRs that
\* touch its frames forbids, in whatever order they are scanned and wherever
\* the scan stops early.
EntriesAreDue == \A n \in DOMAIN types : Due(types[n], Entries[n])
=============================================================================
