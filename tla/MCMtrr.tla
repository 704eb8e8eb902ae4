------------------------------- MODULE MCMtrr -------------------------------
(* A small instance of Mtrr for TLC. *)
EXTENDS Mtrr

\* Eight frames: a first large page mapped frame by frame, half of it below
\* 1 MB, and two more large pages of two frames each.
MCFrames == 0..7
MCFirstMegabyte == {0, 1}
MCFixedRanges == <<<<{0}, {1}>>>>
MCEntries == <<{0}, {1}, {2}, {3}, {4, 5}, {6, 7}>>

\* What a base and a mask can select: blocks of a power of two of frames.
Blocks == {{0, 1, 2, 3, 4, 5, 6, 7}, {4, 5, 6, 7}, {4, 5}, {5}, {0, 1}}

Ranges(b, t) == [valid: {TRUE}, frames: b, type: t]
               \union {[valid |-> FALSE, frames |-> {5}, type |-> "UC"]}

Setups(d, f, v, w) ==
    {[enabled |-> TRUE, fixedEnabled |-> e, default |-> k, fixed |-> <<<<"WB", u>>>>,
      variable |-> <<x, y>>] : e \in BOOLEAN, k \in d, u \in f, x \in v, y \in w}

MCSettings ==
    Setups({"UC", "WB"}, {"UC", "WT"}, Ranges(Blocks, Types),
           Ranges({{4, 5}, {5}, {0, 1}}, {"WB", "WT", "WC"}))
        \union {[enabled |-> FALSE, fixedEnabled |-> TRUE, default |-> "WB",
                 fixed |-> <<<<"WB", "WT">>>>, variable |-> <<>>]}
=============================================================================
