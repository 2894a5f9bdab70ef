----------------------------- MODULE MCFetchPath -----------------------------
EXTENDS FetchPath

None == {}

(***************************************************************************)
(* An outer and an inner loop, then straight code that wraps around, each  *)
(* with compressed and full instructions that begin at even and at odd     *)
(* half words, and a denied word that no loop reaches.  A trap returns     *)
(* into a loop, to the end of one or behind them.                          *)
(***************************************************************************)
Mixed     == {4, 5, 11, 16, 19}
TwoLoops  == {[at |-> 0, reg |-> 1, end |-> 12, count |-> 2],
              [at |-> 2, reg |-> 0, end |-> 8, count |-> 3]}
Resumed   == {0, 5, 8, 17}
Fence     == {20}

\* A loop whose last instruction straddles two words.
Upper     == {6}
EndsOdd   == {[at |-> 0, reg |-> 0, end |-> 7, count |-> 2]}
StartOrEnd == {0, 7}

(* The loops of the long run are ones the theorems of FetchProofs are for, *)
(* the one that straddles two words is not.                                *)
ASSUME HypothesisHolds == LoopsBehave <=> Setups = TwoLoops
=============================================================================
