----------------------------- MODULE MtrrProofs -----------------------------
(***************************************************************************)
(* Every entry of the EPT tables gets the type it is due, for any number   *)
(* of MTRRs and entries.                                                   *)
(***************************************************************************)
EXTENDS Mtrr, TLAPS

(***************************************************************************)
(* MixMtrrTypes is the meet of the order it induces on the memory types,   *)
(* with UC at the bottom.                                                  *)
(***************************************************************************)
LEMMA MixType == ASSUME NEW t \in Types, NEW u \in Types
                 PROVE  MixMtrrTypes(t, u) \in Types
    BY DEF Types, MixMtrrTypes

LEMMA Reflexive == ASSUME NEW t \in Types PROVE Below(t, t)
    BY DEF Types, Below

LEMMA Bottom == ASSUME NEW t \in Types PROVE Below("UC", t)
    BY DEF Types, Below

LEMMA Transitive == ASSUME NEW t \in Types, NEW u \in Types, NEW w \in Types,
                           Below(t, u), Below(u, w)
                    PROVE  Below(t, w)
    BY DEF Types, Below

LEMMA MixIsBelow == ASSUME NEW t \in Types, NEW u \in Types
                    PROVE  /\ Below(MixMtrrTypes(t, u), t)
                           /\ Below(MixMtrrTypes(t, u), u)
    BY DEF Types, MixMtrrTypes, Below

LEMMA MixIsGreatest == ASSUME NEW t \in Types, NEW u \in Types, NEW w \in Types,
                              Below(w, t), Below(w, u)
                       PROVE  Below(w, MixMtrrTypes(t, u))
    BY DEF Types, MixMtrrTypes, Below

\* What one type allows, that type allows.
LEMMA GreatestOfOne == ASSUME NEW t \in Types PROVE GreatestBelow(t, {t})
    BY Reflexive DEF GreatestBelow

\* Mixing the greatest types below two sets gives that below their union.
LEMMA GreatestOfUnion ==
    ASSUME NEW S \in SUBSET Types, NEW T \in SUBSET Types,
           NEW t \in Types, NEW u \in Types,
           GreatestBelow(t, S), GreatestBelow(u, T)
    PROVE  GreatestBelow(MixMtrrTypes(t, u), S \union T)
<1> DEFINE m == MixMtrrTypes(t, u)
<1>1. m \in Types /\ Below(m, t) /\ Below(m, u)
    BY MixType, MixIsBelow
<1>2. \A x \in S \union T : Below(m, x)
    BY <1>1, Transitive DEF GreatestBelow
<1>3. ASSUME NEW w \in Types, \A x \in S \union T : Below(w, x)
      PROVE  Below(w, m)
    BY <1>3, MixIsGreatest DEF GreatestBelow
<1> QED
    BY <1>2, <1>3 DEF GreatestBelow

\* A scan that comes to UC may stop: whatever else there is, UC is due.
LEMMA UncacheableAbsorbs ==
    ASSUME NEW S \in SUBSET Types, NEW T \in SUBSET Types, S \subseteq T,
           GreatestBelow("UC", S)
    PROVE  GreatestBelow("UC", T)
<1>1. "UC" \in Types
    BY DEF Types
<1>2. \A x \in T : Below("UC", x)
    BY Bottom
<1> QED
    BY <1>1, <1>2 DEF GreatestBelow
-----------------------------------------------------------------------------
(***************************************************************************)
(* The scan: what it has seen before MTRR i, and in fixed MTRR i before    *)
(* subrange j.                                                             *)
(***************************************************************************)
SeenFixed(k) ==
    {t \in Types : \E m \in FixedIndex : \E n \in DOMAIN FixedRanges[m] :
        m < k /\ Span \intersect FixedRanges[m][n] # {} /\ t = mtrr.fixed[m][n]}
SeenPart(k) ==
    {t \in Types : \E n \in DOMAIN FixedRanges[i] :
        n < k /\ Span \intersect FixedRanges[i][n] # {} /\ t = mtrr.fixed[i][n]}
SeenVariable(k) ==
    {t \in Types : \E n \in DOMAIN mtrr.variable :
        /\ n < k
        /\ mtrr.variable[n].valid
        /\ Span \intersect mtrr.variable[n].frames # {}
        /\ t = mtrr.variable[n].type}

MemTypeOf(S) ==
    IF init THEN S # {} /\ GreatestBelow(memType, S)
            ELSE S = {} /\ memType = mtrr.default
PartOf(S) ==
    IF part = "none" THEN S = {} ELSE S # {} /\ GreatestBelow(part, S)

FixedInv ==
    at = "fixed" =>
        /\ Span \intersect FirstMegabyte # {} /\ mtrr.fixedEnabled
        /\ i <= Len(FixedRanges) + 1
        /\ MemTypeOf(SeenFixed(i))
        /\ IF i \in FixedIndex
           THEN j <= Len(FixedRanges[i]) + 1 /\ PartOf(SeenPart(j))
           ELSE part = "none"
VariableInv ==
    at = "variable" =>
        /\ part = "none"
        /\ i <= Len(mtrr.variable) + 1
        /\ MemTypeOf(FixedTypes(Span) \union SeenVariable(i))
ScanInv ==
    /\ at # "next" => Len(types) < Len(Entries)
    /\ at \in {"fixed", "variable"} => mtrr.enabled
    /\ FixedInv
    /\ VariableInv
    /\ at = "return" => Due(memType, Span)

MtrrInv == MtrrTypeOK /\ ScanInv /\ EntriesAreDue

\* What the assumption says of the MTRRs' types.
LEMMA SettingTypes ==
    ASSUME NEW m \in Settings
    PROVE  /\ m.default \in Types
           /\ m.variable \in Seq([valid: BOOLEAN, frames: SUBSET Frames, type: Types])
           /\ \A k \in DOMAIN m.variable : m.variable[k].type \in Types
           /\ \A k \in FixedIndex : \A n \in DOMAIN FixedRanges[k] :
                 m.fixed[k][n] \in Types
<1>1. m \in Setting
    BY MtrrAssumption
<1>2. m.default \in Types /\ m.fixed \in [FixedIndex -> Seq(Types)]
      /\ m.variable \in Seq([valid: BOOLEAN, frames: SUBSET Frames, type: Types])
    BY <1>1 DEF Setting
<1>3. ASSUME NEW k \in DOMAIN m.variable PROVE m.variable[k].type \in Types
  <2> DEFINE R == [valid: BOOLEAN, frames: SUBSET Frames, type: Types]
  <2>1. m.variable[k] \in R
    <3> HIDE DEF R
    <3>1. m.variable \in Seq(R)
      BY <1>2 DEF R
    <3> QED
      BY <3>1
  <2> QED
    BY <2>1
<1>4. ASSUME NEW k \in FixedIndex, NEW n \in DOMAIN FixedRanges[k]
      PROVE  m.fixed[k][n] \in Types
  <2>1. m.fixed[k] \in Seq(Types) /\ Len(m.fixed[k]) = Len(FixedRanges[k])
    BY <1>2, MtrrAssumption
  <2>2. FixedRanges[k] \in Seq(SUBSET Frames)
    BY MtrrAssumption DEF FixedIndex
  <2>3. n \in DOMAIN m.fixed[k]
    BY <2>1, <2>2
  <2> QED
    BY <2>1, <2>3
<1> QED
    BY <1>2, <1>3, <1>4

LEMMA TypeCorrect == MtrrTypeOK /\ ScanInv /\ [Next]_vars => MtrrTypeOK'
<1> SUFFICES ASSUME MtrrTypeOK, ScanInv, [Next]_vars PROVE MtrrTypeOK'
    OBVIOUS
<1> USE DEF MtrrTypeOK
<1>0. mtrr.default \in Types /\ "UC" \in Types
    BY SettingTypes DEF Types
<1>1. CASE Begin
  <2>1. memType' \in Types /\ at' \in {"fixed", "variable", "return"}
    <3>1. CASE mtrr.enabled
      BY <1>0, <1>1, <3>1 DEF Begin
    <3>2. CASE ~mtrr.enabled
      BY <1>0, <1>1, <3>2 DEF Begin
    <3> QED
      BY <3>1, <3>2
  <2>2. mtrr' = mtrr /\ types' = types /\ i' = 1 /\ j' = 1 /\ part' = "none" /\ init' = FALSE
    BY <1>1 DEF Begin
  <2>3. mtrr' \in Settings /\ types' \in Seq(Types) /\ Len(types') <= Len(Entries)
    BY <2>2
  <2>4. at' \in {"next", "fixed", "variable", "return"}
    BY <2>1
  <2>5. i' \in Nat \ {0} /\ j' \in Nat \ {0} 
    BY <2>2
  <2>6. part' \in Types \union {"none"}
    BY <2>2
  <2>7. init' \in BOOLEAN
    BY <2>2
  <2> QED
    BY <2>1, <2>3, <2>4, <2>5, <2>6, <2>7
<1>2. CASE FixedSubrange
  <2>1. FixedRanges[i] \in Seq(SUBSET Frames)
    BY <1>2, MtrrAssumption DEF FixedSubrange, FixedIndex
  <2>2. j \in DOMAIN FixedRanges[i]
    BY <1>2, <2>1 DEF FixedSubrange
  <2>3. mtrr.fixed[i][j] \in Types
    BY <1>2, <2>2, SettingTypes DEF FixedSubrange
  <2> DEFINE mixed == IF part = "none" THEN mtrr.fixed[i][j]
                      ELSE MixMtrrTypes(part, mtrr.fixed[i][j])
  <2>4. mixed \in Types
    BY <2>3, MixType
  <2> QED
    BY <1>0, <1>2, <2>4 DEF FixedSubrange, Return
<1>3. ASSUME NEW t \in Types, Found(t) PROVE MtrrTypeOK'
  <2> DEFINE mixed == IF init THEN MixMtrrTypes(memType, t) ELSE t
  <2>1. mixed \in Types
    BY MixType
  <2>2. CASE mixed = "UC"
    BY <1>0, <1>3, <2>2 DEF Found, Return
  <2>3. CASE mixed # "UC"
    <3>1. /\ memType' = mixed /\ init' = TRUE /\ i' = i + 1 /\ j' = 1
          /\ part' = "none" /\ UNCHANGED <<mtrr, types, at>>
      BY <1>3, <2>3 DEF Found
    <3> QED
      BY <2>1, <3>1
  <2> QED
    BY <2>2, <2>3
<1>4. CASE FixedRange
    BY <1>3, <1>4 DEF FixedRange
<1>5. CASE FixedDone
    BY <1>5 DEF FixedDone
<1>6. CASE Variable
  <2>1. mtrr.variable[i].type \in Types
    BY <1>6, SettingTypes DEF Variable
  <2> QED
    BY <1>3, <1>6, <2>1 DEF Variable
<1>7. CASE VariableDone
    BY <1>7 DEF VariableDone, Return
<1>8. CASE Store
  <2>1. Len(types) < Len(Entries)
    BY <1>8 DEF Store, ScanInv
  <2>2. types' \in Seq(Types) /\ Len(types') = Len(types) + 1
    BY <1>8 DEF Store
  <2>3. Len(Entries) \in Nat
    BY MtrrAssumption
  <2> QED
    BY <1>8, <2>1, <2>2, <2>3 DEF Store
<1>9. CASE UNCHANGED vars
    BY <1>9 DEF vars
<1> QED
    BY <1>1, <1>2, <1>4, <1>5, <1>6, <1>7, <1>8, <1>9 DEF Next
-----------------------------------------------------------------------------
(***************************************************************************)
(* What one more subrange, fixed MTRR or variable MTRR adds to what has    *)
(* been seen.                                                              *)
(***************************************************************************)
LEMMA SeenTypes ==
    ASSUME NEW k
    PROVE  /\ SeenFixed(k) \subseteq Types /\ SeenPart(k) \subseteq Types
           /\ SeenVariable(k) \subseteq Types
    BY DEF SeenFixed, SeenPart, SeenVariable

LEMMA SeenNothing ==
    ASSUME MtrrTypeOK
    PROVE  /\ SeenFixed(1) = {}
           /\ i \in FixedIndex => SeenPart(1) = {}
           /\ SeenVariable(1) = {}
<1>1. SeenFixed(1) = {}
    BY MtrrAssumption DEF SeenFixed, FixedIndex
<1>2. ASSUME i \in FixedIndex PROVE SeenPart(1) = {}
  <2>1. FixedRanges[i] \in Seq(SUBSET Frames)
    BY <1>2, MtrrAssumption DEF FixedIndex
  <2> QED
    BY <2>1 DEF SeenPart
<1>3. SeenVariable(1) = {}
    BY SettingTypes DEF SeenVariable, MtrrTypeOK
<1> QED
    BY <1>1, <1>2, <1>3

LEMMA SeenSubrange ==
    ASSUME MtrrTypeOK, i \in FixedIndex, j <= Len(FixedRanges[i])
    PROVE  SeenPart(j + 1) = SeenPart(j) \union
               (IF Span \intersect FixedRanges[i][j] = {} THEN {} ELSE {mtrr.fixed[i][j]})
<1>1. FixedRanges[i] \in Seq(SUBSET Frames)
    BY MtrrAssumption DEF FixedIndex
<1>2. j \in DOMAIN FixedRanges[i]
    BY <1>1 DEF MtrrTypeOK
<1>3. mtrr.fixed[i][j] \in Types
    BY <1>2, SettingTypes DEF MtrrTypeOK
<1>4. \A n \in DOMAIN FixedRanges[i] : n < j + 1 <=> n < j \/ n = j
    BY <1>1 DEF MtrrTypeOK
<1> QED
    BY <1>2, <1>3, <1>4 DEF SeenPart

LEMMA SeenFixedRange ==
    ASSUME MtrrTypeOK, i \in FixedIndex
    PROVE  SeenFixed(i + 1) = SeenFixed(i) \union SeenPart(Len(FixedRanges[i]) + 1)
<1>1. FixedRanges[i] \in Seq(SUBSET Frames)
    BY MtrrAssumption DEF FixedIndex
<1>2. \A n \in DOMAIN FixedRanges[i] : n < Len(FixedRanges[i]) + 1
    BY <1>1
<1>3. \A m \in FixedIndex : m < i + 1 <=> m < i \/ m = i
    BY MtrrAssumption DEF MtrrTypeOK, FixedIndex
<1> QED
    BY <1>2, <1>3 DEF SeenPart, SeenFixed

LEMMA SeenVariableRange ==
    ASSUME MtrrTypeOK, i \in DOMAIN mtrr.variable
    PROVE  SeenVariable(i + 1) = SeenVariable(i) \union
               (IF mtrr.variable[i].valid /\ Span \intersect mtrr.variable[i].frames # {}
                THEN {mtrr.variable[i].type} ELSE {})
<1>1. mtrr.variable[i].type \in Types
    BY SettingTypes DEF MtrrTypeOK
<1>2. \A n \in DOMAIN mtrr.variable : n < i + 1 <=> n < i \/ n = i
    BY SettingTypes DEF MtrrTypeOK
<1> QED
    BY <1>1, <1>2 DEF SeenVariable

LEMMA SeenAll ==
    ASSUME MtrrTypeOK, NEW k \in Nat
    PROVE  /\ SeenVariable(k) \subseteq VariableTypes(Span)
           /\ k > Len(mtrr.variable) => SeenVariable(k) = VariableTypes(Span)
           /\ Span \intersect FirstMegabyte # {} /\ mtrr.fixedEnabled =>
                 /\ SeenFixed(k) \subseteq FixedTypes(Span)
                 /\ i \in FixedIndex => SeenPart(k) \subseteq FixedTypes(Span)
                 /\ k > Len(FixedRanges) => SeenFixed(k) = FixedTypes(Span)
<1>1. mtrr.variable \in Seq([valid: BOOLEAN, frames: SUBSET Frames, type: Types])
    BY SettingTypes DEF MtrrTypeOK
<1>2. k > Len(mtrr.variable) => \A n \in DOMAIN mtrr.variable : n < k
    BY <1>1
<1>3. k > Len(FixedRanges) => \A m \in FixedIndex : m < k
    BY MtrrAssumption DEF FixedIndex
<1>4. /\ SeenVariable(k) \subseteq VariableTypes(Span)
      /\ k > Len(mtrr.variable) => SeenVariable(k) = VariableTypes(Span)
    BY <1>2 DEF SeenVariable, VariableTypes
<1>5. ASSUME Span \intersect FirstMegabyte # {} /\ mtrr.fixedEnabled
      PROVE  /\ SeenFixed(k) \subseteq FixedTypes(Span)
             /\ i \in FixedIndex => SeenPart(k) \subseteq FixedTypes(Span)
             /\ k > Len(FixedRanges) => SeenFixed(k) = FixedTypes(Span)
    BY <1>3, <1>5 DEF SeenFixed, SeenPart, FixedTypes
<1> QED
    BY <1>4, <1>5
-----------------------------------------------------------------------------
(***************************************************************************)
(* The scan keeps the invariant.                                           *)
(***************************************************************************)

\* Once UC is found for some of what there is, UC is due.
LEMMA UncacheableIsDue ==
    ASSUME NEW S, S \subseteq FixedTypes(Span) \union VariableTypes(Span),
           S # {}, GreatestBelow("UC", S), mtrr.enabled
    PROVE  Due("UC", Span)
<1>1. FixedTypes(Span) \union VariableTypes(Span) \in SUBSET Types
    BY DEF FixedTypes, VariableTypes
<1>2. GreatestBelow("UC", FixedTypes(Span) \union VariableTypes(Span))
    BY <1>1, UncacheableAbsorbs
<1> QED
    BY <1>2 DEF Due

\* Found(t) mixes the type below what one MTRR gives with what was there.
LEMMA FoundMixes ==
    ASSUME MtrrTypeOK, NEW S \in SUBSET Types, NEW T \in SUBSET Types, T # {},
           MemTypeOf(S), NEW t \in Types, GreatestBelow(t, T), Found(t)
    PROVE  LET mixed == IF init THEN MixMtrrTypes(memType, t) ELSE t
           IN  /\ GreatestBelow(mixed, S \union T)
               /\ IF mixed = "UC"
                  THEN Return("UC")
                  ELSE /\ memType' = mixed /\ init' = TRUE /\ i' = i + 1 /\ j' = 1
                       /\ part' = "none" /\ UNCHANGED <<mtrr, types, at>>
<1> DEFINE mixed == IF init THEN MixMtrrTypes(memType, t) ELSE t
<1>1. CASE init
  <2>1. GreatestBelow(memType, S) /\ memType \in Types
    BY <1>1 DEF MemTypeOf, MtrrTypeOK
  <2> QED
    BY <1>1, <2>1, GreatestOfUnion DEF Found
<1>2. CASE ~init
  <2>1. S \union T = T
    BY <1>2 DEF MemTypeOf
  <2> QED
    BY <1>2, <2>1 DEF Found
<1> QED
    BY <1>1, <1>2

LEMMA BeginInv == MtrrTypeOK /\ ScanInv /\ Begin => ScanInv'
<1> SUFFICES ASSUME MtrrTypeOK, ScanInv, Begin PROVE ScanInv'
    OBVIOUS
<1>1. UNCHANGED <<mtrr, types>> /\ i' = 1 /\ j' = 1 /\ part' = "none" /\ ~init'
    BY DEF Begin
<1>2. Len(types') < Len(Entries) /\ Span' = Span
    BY <1>1 DEF Begin, Span
<1>3. SeenFixed(1)' = {} /\ (1 \in FixedIndex => SeenPart(1)' = {}) /\ SeenVariable(1)' = {}
  <2>1. SeenFixed(1)' = SeenFixed(1) /\ SeenVariable(1)' = SeenVariable(1)
    BY <1>1, <1>2 DEF SeenFixed, SeenVariable
  <2>2. ASSUME 1 \in FixedIndex PROVE SeenPart(1)' = {}
    <3>1. FixedRanges[1] \in Seq(SUBSET Frames)
      BY <2>2, MtrrAssumption DEF FixedIndex
    <3> QED
      BY <1>1, <3>1 DEF SeenPart
  <2> QED
    BY <2>1, <2>2, SeenNothing
<1>4. CASE ~mtrr.enabled
    BY <1>1, <1>2, <1>4 DEF Begin, ScanInv, FixedInv, VariableInv, Due
<1>5. CASE mtrr.enabled /\ Span \intersect FirstMegabyte # {} /\ mtrr.fixedEnabled
  <2>1. at' = "fixed" /\ memType' = mtrr.default
    BY <1>5 DEF Begin
  <2>2. 1 \in FixedIndex => 1 <= Len(FixedRanges[1]) + 1
    BY MtrrAssumption DEF FixedIndex
  <2> QED
    BY <1>1, <1>2, <1>3, <1>5, <2>1, <2>2, MtrrAssumption
    DEF ScanInv, FixedInv, VariableInv, MemTypeOf, PartOf
<1>6. CASE mtrr.enabled /\ ~(Span \intersect FirstMegabyte # {} /\ mtrr.fixedEnabled)
  <2>1. at' = "variable" /\ memType' = mtrr.default
    BY <1>6 DEF Begin
  <2>2. FixedTypes(Span)' = {}
    BY <1>1, <1>2, <1>6 DEF FixedTypes
  <2>3. 1 <= Len(mtrr.variable) + 1
    BY SettingTypes DEF MtrrTypeOK
  <2> QED
    BY <1>1, <1>2, <1>3, <1>6, <2>1, <2>2, <2>3
    DEF ScanInv, FixedInv, VariableInv, MemTypeOf
<1> QED
    BY <1>4, <1>5, <1>6

LEMMA FixedSubrangeInv == MtrrTypeOK /\ ScanInv /\ FixedSubrange => ScanInv'
<1> SUFFICES ASSUME MtrrTypeOK, ScanInv, FixedSubrange PROVE ScanInv'
    OBVIOUS
<1>1. /\ i \in FixedIndex /\ j <= Len(FixedRanges[i]) /\ mtrr.enabled
      /\ Span \intersect FirstMegabyte # {} /\ mtrr.fixedEnabled
      /\ i <= Len(FixedRanges) + 1
      /\ MemTypeOf(SeenFixed(i)) /\ PartOf(SeenPart(j))
      /\ Len(types) < Len(Entries)
    BY DEF FixedSubrange, ScanInv, FixedInv
<1>2. FixedRanges[i] \in Seq(SUBSET Frames)
    BY <1>1, MtrrAssumption DEF FixedIndex
<1>3. mtrr.fixed[i][j] \in Types
    BY <1>1, <1>2, SettingTypes DEF MtrrTypeOK
<1> DEFINE hit == Span \intersect FixedRanges[i][j] # {}
           t == mtrr.fixed[i][j]
           mixed == IF part = "none" THEN t ELSE MixMtrrTypes(part, t)
<1>4. CASE ~hit
  <2>1. j' = j + 1 /\ UNCHANGED <<mtrr, types, at, i, part, memType, init>>
    BY <1>4 DEF FixedSubrange
  <2>2. SeenPart(j + 1) = SeenPart(j)
    BY <1>1, <1>4, SeenSubrange
  <2>3. Span' = Span /\ SeenPart(j)' = SeenPart(j + 1) /\ SeenFixed(i)' = SeenFixed(i)
    BY <2>1 DEF Span, SeenPart, SeenFixed
  <2>4. j + 1 <= Len(FixedRanges[i]) + 1 /\ at = "fixed"
    BY <1>1, <1>2 DEF MtrrTypeOK, FixedSubrange
  <2> QED
    BY <1>1, <2>1, <2>2, <2>3, <2>4
    DEF ScanInv, FixedInv, VariableInv, MemTypeOf, PartOf
<1>5. CASE hit
  <2>1. SeenPart(j + 1) = SeenPart(j) \union {t}
    BY <1>1, <1>5, SeenSubrange
  <2>2. GreatestBelow(mixed, SeenPart(j + 1))
    <3>1. CASE part = "none"
      BY <1>1, <1>3, <2>1, <3>1, GreatestOfOne DEF PartOf
    <3>2. CASE part # "none"
      <4>1. part \in Types /\ GreatestBelow(part, SeenPart(j))
        BY <1>1, <3>2 DEF MtrrTypeOK, PartOf
      <4>2. GreatestBelow(t, {t})
        BY <1>3, GreatestOfOne
      <4> QED
        BY <1>3, <2>1, <3>2, <4>1, <4>2, GreatestOfUnion, SeenTypes
    <3> QED
      BY <3>1, <3>2
  <2>3. CASE mixed = "UC"
    <3>1. Return("UC")
      BY <1>5, <2>3 DEF FixedSubrange
    <3>2. SeenPart(j + 1) \subseteq FixedTypes(Span)
      BY <1>1, SeenAll DEF MtrrTypeOK
    <3>3. Due("UC", Span)
      BY <1>1, <2>1, <2>2, <2>3, <3>2, UncacheableIsDue
    <3>4. Due("UC", Span)'
      BY <3>1, <3>3 DEF Return, Due, Span, FixedTypes, VariableTypes
    <3> QED
      BY <1>1, <3>1, <3>4 DEF Return, ScanInv, FixedInv, VariableInv
  <2>4. CASE mixed # "UC"
    <3>1. part' = mixed /\ j' = j + 1 /\ UNCHANGED <<mtrr, types, at, i, memType, init>>
      BY <1>5, <2>4 DEF FixedSubrange
    <3>2. Span' = Span /\ SeenPart(j)' = SeenPart(j + 1) /\ SeenFixed(i)' = SeenFixed(i)
      BY <3>1 DEF Span, SeenPart, SeenFixed
    <3>3. j + 1 <= Len(FixedRanges[i]) + 1 /\ at = "fixed"
      BY <1>1, <1>2 DEF MtrrTypeOK, FixedSubrange
    <3>4. mixed # "none"
      BY <1>3, MixType DEF MtrrTypeOK, Types
    <3>5. MemTypeOf(SeenFixed(i))'
      BY <1>1, <3>1, <3>2 DEF MemTypeOf
    <3>6. PartOf(SeenPart(j))'
      BY <2>1, <2>2, <3>1, <3>2, <3>4 DEF PartOf
    <3> QED
      BY <1>1, <3>1, <3>2, <3>3, <3>5, <3>6 DEF ScanInv, FixedInv, VariableInv
  <2> QED
    BY <2>3, <2>4
<1> QED
    BY <1>4, <1>5

\* A step to "return" with a type that is due keeps the invariant.
LEMMA ReturnInv ==
    ASSUME NEW t, ScanInv, at # "next", Due(t, Span), Return(t)
    PROVE  ScanInv'
<1>1. Due(memType, Span)'
    BY DEF Return, Due, Span, FixedTypes, VariableTypes, GreatestBelow
<1> QED
    BY <1>1 DEF Return, ScanInv, FixedInv, VariableInv

\* The next fixed MTRR, with nothing seen of it.
LEMMA NextFixedRange ==
    ASSUME MtrrTypeOK, ScanInv, at = "fixed", i \in FixedIndex,
           UNCHANGED <<mtrr, types, at>>, i' = i + 1, j' = 1, part' = "none",
           MemTypeOf(SeenFixed(i))'
    PROVE  ScanInv'
<1>1. Span' = Span
    BY DEF Span
<1>2. i + 1 \in FixedIndex =>
         1 <= Len(FixedRanges[i + 1]) + 1 /\ SeenPart(1)' = {}
  <2>1. ASSUME i + 1 \in FixedIndex
        PROVE  FixedRanges[i + 1] \in Seq(SUBSET Frames)
    BY <2>1, MtrrAssumption DEF FixedIndex
  <2> QED
    BY <2>1 DEF SeenPart
<1>3. i + 1 <= Len(FixedRanges) + 1
    BY MtrrAssumption DEF FixedIndex
<1> QED
    BY <1>1, <1>2, <1>3 DEF ScanInv, FixedInv, VariableInv, PartOf

LEMMA FixedRangeInv == MtrrTypeOK /\ ScanInv /\ FixedRange => ScanInv'
<1> SUFFICES ASSUME MtrrTypeOK, ScanInv, FixedRange PROVE ScanInv'
    OBVIOUS
<1> DEFINE seen == SeenPart(Len(FixedRanges[i]) + 1)
<1>1. /\ i \in FixedIndex /\ mtrr.enabled /\ at = "fixed"
      /\ Span \intersect FirstMegabyte # {} /\ mtrr.fixedEnabled
      /\ MemTypeOf(SeenFixed(i))
    BY DEF FixedRange, ScanInv, FixedInv
<1>2. PartOf(seen) /\ seen \subseteq FixedTypes(Span)
  <2>1. FixedRanges[i] \in Seq(SUBSET Frames)
    BY <1>1, MtrrAssumption DEF FixedIndex
  <2>2. j = Len(FixedRanges[i]) + 1
    BY <1>1, <2>1 DEF FixedRange, ScanInv, FixedInv, MtrrTypeOK
  <2> QED
    BY <1>1, <2>1, <2>2, SeenAll DEF ScanInv, FixedInv
<1>3. SeenFixed(i + 1) = SeenFixed(i) \union seen
    BY <1>1, SeenFixedRange
<1>4. SeenFixed(i) \in SUBSET Types /\ seen \in SUBSET Types
    BY SeenTypes
<1>5. CASE part = "none"
  <2>1. /\ i' = i + 1 /\ j' = 1 /\ UNCHANGED <<mtrr, types, at, part, memType, init>>
    BY <1>5 DEF FixedRange
  <2>2. SeenFixed(i)' = SeenFixed(i)
    BY <1>2, <1>3, <1>5, <2>1 DEF PartOf, SeenFixed, Span
  <2>3. MemTypeOf(SeenFixed(i))'
    BY <1>1, <2>1, <2>2 DEF MemTypeOf
  <2> QED
    BY <1>1, <1>5, <2>1, <2>3, NextFixedRange
<1>6. CASE part # "none"
  <2> DEFINE mixed == IF init THEN MixMtrrTypes(memType, part) ELSE part
  <2>1. part \in Types /\ GreatestBelow(part, seen) /\ seen # {} /\ Found(part)
    BY <1>2, <1>6 DEF PartOf, MtrrTypeOK, FixedRange
  <2>2. /\ GreatestBelow(mixed, SeenFixed(i + 1))
        /\ IF mixed = "UC"
           THEN Return("UC")
           ELSE /\ memType' = mixed /\ init' = TRUE /\ i' = i + 1 /\ j' = 1
                /\ part' = "none" /\ UNCHANGED <<mtrr, types, at>>
    BY <1>1, <1>3, <1>4, <2>1, FoundMixes
  <2>3. CASE mixed = "UC"
    <3>1. SeenFixed(i + 1) \subseteq FixedTypes(Span)
      BY <1>1, <1>2, <1>3, SeenAll DEF MtrrTypeOK
    <3>2. Due("UC", Span)
      BY <1>1, <1>3, <2>1, <2>2, <2>3, <3>1, UncacheableIsDue
    <3> QED
      BY <1>1, <2>2, <2>3, <3>2, ReturnInv
  <2>4. CASE mixed # "UC"
    <3>1. SeenFixed(i)' = SeenFixed(i + 1)
      BY <2>2, <2>4 DEF SeenFixed, Span
    <3>2. MemTypeOf(SeenFixed(i))'
      BY <1>3, <2>1, <2>2, <2>4, <3>1 DEF MemTypeOf
    <3> QED
      BY <1>1, <2>2, <2>4, <3>2, NextFixedRange
  <2> QED
    BY <2>3, <2>4
<1> QED
    BY <1>5, <1>6

LEMMA FixedDoneInv == MtrrTypeOK /\ ScanInv /\ FixedDone => ScanInv'
<1> SUFFICES ASSUME MtrrTypeOK, ScanInv, FixedDone PROVE ScanInv'
    OBVIOUS
<1>1. /\ i \notin FixedIndex /\ at = "fixed" /\ at' = "variable" /\ i' = 1
      /\ UNCHANGED <<mtrr, types, j, part, memType, init>>
    BY DEF FixedDone
<1>2. /\ Span \intersect FirstMegabyte # {} /\ mtrr.fixedEnabled /\ mtrr.enabled
      /\ MemTypeOf(SeenFixed(i)) /\ part = "none"
    BY <1>1 DEF ScanInv, FixedInv
<1>3. i > Len(FixedRanges)
    BY <1>1, MtrrAssumption DEF MtrrTypeOK, FixedIndex
<1>4. SeenFixed(i) = FixedTypes(Span)
    BY <1>2, <1>3, SeenAll DEF MtrrTypeOK
<1>5. Span' = Span /\ FixedTypes(Span)' = FixedTypes(Span) /\ SeenVariable(i)' = {}
  <2>1. SeenVariable(1)' = SeenVariable(1)
    BY <1>1 DEF SeenVariable, Span
  <2> QED
    BY <1>1, <2>1, SeenNothing DEF Span, FixedTypes
<1>6. MemTypeOf(FixedTypes(Span) \union SeenVariable(i))'
    BY <1>1, <1>2, <1>4, <1>5 DEF MemTypeOf
<1>7. 1 <= Len(mtrr.variable) + 1
    BY SettingTypes DEF MtrrTypeOK
<1> QED
    BY <1>1, <1>2, <1>6, <1>7 DEF ScanInv, FixedInv, VariableInv

LEMMA VariableStepInv == MtrrTypeOK /\ ScanInv /\ Variable => ScanInv'
<1> SUFFICES ASSUME MtrrTypeOK, ScanInv, Variable PROVE ScanInv'
    OBVIOUS
<1> DEFINE v == mtrr.variable[i]
           S == FixedTypes(Span) \union SeenVariable(i)
<1>1. /\ i \in DOMAIN mtrr.variable /\ mtrr.enabled /\ at = "variable" /\ part = "none"
      /\ MemTypeOf(S)
    BY DEF Variable, ScanInv, VariableInv
<1>2. S \in SUBSET Types /\ v.type \in Types
    BY <1>1, SeenTypes, SettingTypes DEF FixedTypes, MtrrTypeOK
<1>3. i + 1 <= Len(mtrr.variable) + 1
    BY <1>1, SettingTypes DEF MtrrTypeOK
<1>4. UNCHANGED <<mtrr, types>> /\ i' = i + 1 =>
         (FixedTypes(Span) \union SeenVariable(i))' = FixedTypes(Span) \union SeenVariable(i + 1)
    BY DEF FixedTypes, SeenVariable, Span
<1>5. CASE ~(v.valid /\ Span \intersect v.frames # {})
  <2>1. i' = i + 1 /\ UNCHANGED <<mtrr, types, at, j, part, memType, init>>
    BY <1>5 DEF Variable
  <2>2. (FixedTypes(Span) \union SeenVariable(i))' = S
    BY <1>1, <1>4, <1>5, <2>1, SeenVariableRange
  <2>3. MemTypeOf(FixedTypes(Span) \union SeenVariable(i))'
    BY <1>1, <2>1, <2>2 DEF MemTypeOf
  <2> QED
    BY <1>1, <1>3, <2>1, <2>3 DEF ScanInv, FixedInv, VariableInv, Span
<1>6. CASE v.valid /\ Span \intersect v.frames # {}
  <2> DEFINE mixed == IF init THEN MixMtrrTypes(memType, v.type) ELSE v.type
  <2>1. Found(v.type) /\ GreatestBelow(v.type, {v.type})
    BY <1>2, <1>6, GreatestOfOne DEF Variable
  <2>2. FixedTypes(Span) \union SeenVariable(i + 1) = S \union {v.type}
    BY <1>1, <1>6, SeenVariableRange
  <2>3. /\ GreatestBelow(mixed, S \union {v.type})
        /\ IF mixed = "UC"
           THEN Return("UC")
           ELSE /\ memType' = mixed /\ init' = TRUE /\ i' = i + 1 /\ j' = 1
                /\ part' = "none" /\ UNCHANGED <<mtrr, types, at>>
    BY <1>1, <1>2, <2>1, FoundMixes
  <2>4. CASE mixed = "UC"
    <3>1. S \union {v.type} \subseteq FixedTypes(Span) \union VariableTypes(Span)
      BY <2>2, SeenAll DEF MtrrTypeOK
    <3>2. Due("UC", Span)
      BY <1>1, <2>3, <2>4, <3>1, UncacheableIsDue
    <3> QED
      BY <1>1, <2>3, <2>4, <3>2, ReturnInv
  <2>5. CASE mixed # "UC"
    <3>1. MemTypeOf(FixedTypes(Span) \union SeenVariable(i))'
      BY <1>4, <2>2, <2>3, <2>5 DEF MemTypeOf
    <3> QED
      BY <1>1, <1>3, <2>3, <2>5, <3>1 DEF ScanInv, FixedInv, VariableInv, Span
  <2> QED
    BY <2>4, <2>5
<1> QED
    BY <1>5, <1>6

LEMMA VariableDoneInv == MtrrTypeOK /\ ScanInv /\ VariableDone => ScanInv'
<1> SUFFICES ASSUME MtrrTypeOK, ScanInv, VariableDone PROVE ScanInv'
    OBVIOUS
<1>1. /\ i \notin DOMAIN mtrr.variable /\ mtrr.enabled /\ at = "variable"
      /\ Return(memType) /\ MemTypeOf(FixedTypes(Span) \union SeenVariable(i))
    BY DEF VariableDone, ScanInv, VariableInv
<1>2. i > Len(mtrr.variable)
    BY <1>1, SettingTypes DEF MtrrTypeOK
<1>3. MemTypeOf(FixedTypes(Span) \union VariableTypes(Span))
    BY <1>1, <1>2, SeenAll DEF MtrrTypeOK
<1>4. Due(memType, Span)
    BY <1>1, <1>3 DEF Due, MemTypeOf
<1> QED
    BY <1>1, <1>4, ReturnInv

LEMMA StoreInv ==
    MtrrTypeOK /\ ScanInv /\ EntriesAreDue /\ Store => ScanInv' /\ EntriesAreDue'
<1> SUFFICES ASSUME MtrrTypeOK, ScanInv, EntriesAreDue, Store
             PROVE  ScanInv' /\ EntriesAreDue'
    OBVIOUS
<1>1. /\ types' = Append(types, memType) /\ at' = "next" /\ mtrr' = mtrr
      /\ Due(memType, Entries[Len(types) + 1])
    BY DEF Store, ScanInv, Span
<1>2. ASSUME NEW n \in DOMAIN types' PROVE Due(types'[n], Entries[n])
  <2>1. CASE n = Len(types) + 1
    BY <1>1, <2>1 DEF MtrrTypeOK
  <2>2. CASE n # Len(types) + 1
    <3>1. n \in DOMAIN types /\ types'[n] = types[n]
      BY <1>1, <1>2, <2>2 DEF MtrrTypeOK
    <3> QED
      BY <3>1 DEF EntriesAreDue
  <2> QED
    BY <2>1, <2>2
<1>3. EntriesAreDue'
  <2>1. ASSUME NEW n \in DOMAIN types' PROVE Due(types[n], Entries[n])'
    <3>1. Due(types'[n], Entries[n])
      BY <1>2
    <3> QED
      BY <1>1, <3>1 DEF Due, FixedTypes, VariableTypes, GreatestBelow
  <2> QED
    BY <2>1 DEF EntriesAreDue
<1> QED
    BY <1>1, <1>3 DEF ScanInv, FixedInv, VariableInv

\* The entries built so far stay due while the next one is computed.
LEMMA EntriesStay ==
    EntriesAreDue /\ UNCHANGED <<mtrr, types>> => EntriesAreDue'
    BY DEF EntriesAreDue, Due, FixedTypes, VariableTypes, GreatestBelow
-----------------------------------------------------------------------------
LEMMA MtrrInvStart == Init => MtrrInv
<1> SUFFICES ASSUME Init PROVE MtrrInv
    OBVIOUS
<1>1. types = <<>> /\ types \in Seq(Types) /\ Len(types) = 0 /\ Len(Entries) \in Nat
    BY MtrrAssumption DEF Init
<1>2. MtrrTypeOK
  <2>1. init \in BOOLEAN
    BY DEF Init
  <2>4. memType \in Types
    BY DEF Init, Types
  <2>5. Len(types) <= Len(Entries)
    BY <1>1
  <2>2. at \in {"next", "fixed", "variable", "return"} /\ part \in Types \union {"none"}
    BY DEF Init
  <2>3. mtrr \in Settings /\ i \in Nat \ {0} /\ j \in Nat \ {0}
    BY DEF Init
  <2> QED
    BY <1>1, <2>1, <2>2, <2>3, <2>4, <2>5 DEF MtrrTypeOK
<1>3. ScanInv
    BY DEF Init, ScanInv, FixedInv, VariableInv
<1>4. EntriesAreDue
    BY <1>1 DEF EntriesAreDue
<1> QED
    BY <1>2, <1>3, <1>4 DEF MtrrInv

LEMMA MtrrInvStep == MtrrInv /\ [Next]_vars => MtrrInv'
<1> SUFFICES ASSUME MtrrInv, [Next]_vars PROVE MtrrInv'
    OBVIOUS
<1>1. MtrrTypeOK /\ ScanInv /\ EntriesAreDue /\ MtrrTypeOK'
    BY TypeCorrect DEF MtrrInv
<1>2. CASE Begin
    BY <1>1, <1>2, BeginInv, EntriesStay DEF Begin, MtrrInv
<1>3. CASE FixedSubrange
    BY <1>1, <1>3, FixedSubrangeInv, EntriesStay DEF FixedSubrange, Return, MtrrInv
<1>4. CASE FixedRange
    BY <1>1, <1>4, FixedRangeInv, EntriesStay DEF FixedRange, Found, Return, MtrrInv
<1>5. CASE FixedDone
    BY <1>1, <1>5, FixedDoneInv, EntriesStay DEF FixedDone, MtrrInv
<1>6. CASE Variable
    BY <1>1, <1>6, VariableStepInv, EntriesStay DEF Variable, Found, Return, MtrrInv
<1>7. CASE VariableDone
    BY <1>1, <1>7, VariableDoneInv, EntriesStay DEF VariableDone, Return, MtrrInv
<1>8. CASE Store
    BY <1>1, <1>8, StoreInv DEF MtrrInv
<1>9. CASE UNCHANGED vars
  <2>1. FixedInv'
      BY <1>1, <1>9 DEF vars, ScanInv, FixedInv, Span, GreatestBelow, MemTypeOf, PartOf,
         SeenFixed, SeenPart
  <2>2. VariableInv'
      BY <1>1, <1>9 DEF vars, ScanInv, VariableInv, Span, GreatestBelow, FixedTypes, MemTypeOf,
         SeenVariable
  <2>3. Due(memType, Span)' <=> Due(memType, Span)
      BY <1>9 DEF vars, Span, Due, FixedTypes, VariableTypes, GreatestBelow
  <2>4. ScanInv'
      BY <1>1, <1>9, <2>1, <2>2, <2>3 DEF vars, ScanInv
  <2> QED
      BY <1>1, <1>9, <2>4, EntriesStay DEF vars, MtrrInv
<1> QED
    BY <1>2, <1>3, <1>4, <1>5, <1>6, <1>7, <1>8, <1>9 DEF Next

\* Whatever the MTRRs hold, in every order and with every early end of the
\* scan, each entry gets the most cacheable type that no MTRR touching its
\* frames forbids.
THEOREM MtrrCorrect == Spec => []EntriesAreDue
<1>1. MtrrInv => EntriesAreDue
    BY DEF MtrrInv
<1> QED
    BY <1>1, MtrrInvStart, MtrrInvStep, PTL DEF Spec

\* The variables keep their types: the scan never leaves the entries, the
\* MTRRs or their subranges.
THEOREM MtrrTypes == Spec => []MtrrTypeOK
<1>1. MtrrInv => MtrrTypeOK
    BY DEF MtrrInv
<1> QED
    BY <1>1, MtrrInvStart, MtrrInvStep, PTL DEF Spec
=============================================================================
