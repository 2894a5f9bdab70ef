------------------------ MODULE LbistControllerProofs ------------------------
(***************************************************************************)
(* Theorems about the BIST controller, for all values of its constants.    *)
(***************************************************************************)
EXTENDS LbistController, TLAPS

(***************************************************************************)
(* A seed is only requested after the previous seed's patterns: the reseed *)
(* state is entered with a cleared pattern counter and a counted reseed.   *)
(***************************************************************************)
ReseedIsCounted == currState = "S_Reseed" => cnt = 0 /\ cnt_reseed > 0

\* A verdict is only given with exhausted counters.
GoIsLast == currState = "S_Go" => Exhausted

\* The inductive invariant.
Inv == TypeOK /\ FillsAreWhole /\ ReseedIsCounted /\ GoIsLast

LEMMA InitInv == Init => Inv
  BY CntMaxAssumption, CntChainMaxAssumption, CntReseedMaxAssumption
  DEF Init, Inv, TypeOK, StateType, FillsAreWhole, ReseedIsCounted, GoIsLast,
      Exhausted

LEMMA NextInv == Inv /\ [Next]_vars => Inv'
<1> SUFFICES ASSUME Inv, [Next]_vars PROVE Inv'
  OBVIOUS
<1> USE CntMaxAssumption, CntChainMaxAssumption, CntReseedMaxAssumption
<1> USE DEF Inv, TypeOK, StateType, FillsAreWhole, ReseedIsCounted, GoIsLast
<1>1. CASE UNCHANGED vars
  BY <1>1 DEF vars, Exhausted
<1>2. CASE Inputs /\ Reset
  BY <1>2 DEF Inputs, Reset
<1>3. CASE Inputs /\ StayWaiting
  BY <1>3 DEF Inputs, StayWaiting, regs
<1>4. CASE Inputs /\ Start
  BY <1>4 DEF Inputs, Start
<1>5. CASE Inputs /\ Shift
  BY <1>5 DEF Inputs, Shift
<1>6. CASE Inputs /\ LastShift
  BY <1>6 DEF Inputs, LastShift
<1>7. CASE Inputs /\ Capture
  BY <1>7 DEF Inputs, Capture
<1>8. CASE Inputs /\ AbortTest
  BY <1>8 DEF Inputs, AbortTest, CountPattern
<1>9. CASE Inputs /\ NextPattern
  <2>1. TypeOK' /\ FillsAreWhole' /\ GoIsLast'
    BY <1>9 DEF Inputs, NextPattern, CountPattern
  <2>2. ReseedIsCounted'
    BY <1>9 DEF Inputs, NextPattern, CountPattern
  <2> QED BY <2>1, <2>2
<1>10. CASE Inputs /\ Finish
  BY <1>10 DEF Inputs, Finish, Exhausted
<1>11. CASE Inputs /\ AbortReseed
  BY <1>11 DEF Inputs, AbortReseed
<1>12. CASE Inputs /\ Reseed
  BY <1>12 DEF Inputs, Reseed
<1>13. CASE Inputs /\ Report
  BY <1>13 DEF Inputs, Report
<1> QED
  BY <1>1, <1>2, <1>3, <1>4, <1>5, <1>6, <1>7, <1>8, <1>9, <1>10, <1>11,
     <1>12, <1>13 DEF Next, Clock

(***************************************************************************)
(* Every reachable state is well typed, whatever the tester does: the      *)
(* counters stay within their limits.                                      *)
(***************************************************************************)
THEOREM TypeCorrect == Spec => []TypeOK
  BY InitInv, NextInv, PTL DEF Spec, Inv

(***************************************************************************)
(* Every fill starts at chain position zero and so shifts exactly          *)
(* CntChainMax + 1 times, also after an abort.                             *)
(***************************************************************************)
THEOREM WholeFills == Spec => []FillsAreWhole
  BY InitInv, NextInv, PTL DEF Spec, Inv

-----------------------------------------------------------------------------
(* Arithmetic of the two nested counters.                                  *)

LEMMA TimesNat == ASSUME NEW a \in Nat, NEW c \in Nat PROVE a * c \in Nat
  OBVIOUS

LEMMA TimesPred ==
  ASSUME NEW a \in Int, NEW c \in Int PROVE (a - 1) * c = a * c - c
  OBVIOUS

LEMMA TimesMono ==
  ASSUME NEW a \in Nat, NEW b \in Nat, NEW c \in Nat, a <= b
  PROVE  a * c <= b * c
  OBVIOUS

LEMMA TimesZero ==
  ASSUME NEW a \in Nat, NEW c \in Nat, c > 0, a * c = 0 PROVE a = 0
  OBVIOUS

\* What the counters encode is zero exactly when they are exhausted.
LEMMA LeftZero == Inv => (PatternsLeft \in Nat /\ (PatternsLeft = 0 <=> Exhausted))
<1> SUFFICES ASSUME Inv
             PROVE  PatternsLeft \in Nat /\ (PatternsLeft = 0 <=> Exhausted)
  OBVIOUS
<1> DEFINE a == CntReseedMax - cnt_reseed
           c == CntMax + 1
<1>1. a \in Nat /\ c \in Nat /\ c > 0 /\ CntMax - cnt \in Nat
  BY CntMaxAssumption, CntReseedMaxAssumption DEF Inv, TypeOK
<1>2. a * c \in Nat
  BY <1>1, TimesNat
<1>3. PatternsLeft = a * c + (CntMax - cnt)
  BY DEF PatternsLeft
<1>4. ASSUME PatternsLeft = 0 PROVE Exhausted
  <2>1. a * c = 0 /\ CntMax - cnt = 0
    BY <1>1, <1>2, <1>3, <1>4
  <2>2. a = 0
    BY <1>1, <2>1, TimesZero
  <2> QED
    BY <2>1, <2>2, CntMaxAssumption, CntReseedMaxAssumption
    DEF Exhausted, Inv, TypeOK
<1>5. ASSUME Exhausted PROVE PatternsLeft = 0
  <2>1. a = 0 /\ CntMax - cnt = 0
    BY <1>5, CntMaxAssumption, CntReseedMaxAssumption DEF Exhausted
  <2>2. 0 * c = 0
    BY <1>1
  <2> QED
    BY <2>1, <2>2, <1>3
<1> QED
  BY <1>1, <1>2, <1>3, <1>4, <1>5

\* Counting a pattern takes one off what is left.
LEMMA CountTakesOne ==
  ASSUME Inv, CountPattern
  PROVE  PatternsLeft > 0 /\ PatternsLeft' = PatternsLeft - 1
<1>1. CASE cnt < CntMax /\ cnt' = cnt + 1 /\ UNCHANGED cnt_reseed
  <2> DEFINE p == (CntReseedMax - cnt_reseed) * (CntMax + 1)
  <2>1. p \in Nat
    BY TimesNat, CntMaxAssumption, CntReseedMaxAssumption DEF Inv, TypeOK
  <2>2. PatternsLeft = p + (CntMax - cnt) /\ PatternsLeft' = p + (CntMax - cnt')
    BY <1>1 DEF PatternsLeft
  <2> QED
    BY <1>1, <2>1, <2>2, CntMaxAssumption DEF Inv, TypeOK
<1>2. CASE /\ cnt >= CntMax /\ cnt_reseed < CntReseedMax
           /\ cnt' = 0 /\ cnt_reseed' = cnt_reseed + 1
  <2> DEFINE a == CntReseedMax - cnt_reseed
             c == CntMax + 1
  <2>1. a \in Nat /\ a - 1 \in Nat /\ c \in Nat /\ cnt = CntMax
    BY <1>2, CntMaxAssumption, CntReseedMaxAssumption DEF Inv, TypeOK
  <2>2. (a - 1) * c = a * c - c /\ (a - 1) * c \in Nat /\ a * c \in Nat
    BY <2>1, TimesPred, TimesNat
  <2>3. CntReseedMax - cnt_reseed' = a - 1
    BY <1>2, CntReseedMaxAssumption DEF Inv, TypeOK
  <2>4. PatternsLeft = a * c + 0 /\ PatternsLeft' = (a - 1) * c + CntMax
    BY <1>2, <2>1, <2>3, CntMaxAssumption DEF PatternsLeft
  <2> QED
    BY <2>1, <2>2, <2>4, CntMaxAssumption
<1> QED
  BY <1>1, <1>2 DEF CountPattern

LEMMA SameCountersSameLeft ==
  ASSUME UNCHANGED <<cnt, cnt_reseed>> PROVE UNCHANGED PatternsLeft
  BY DEF PatternsLeft

-----------------------------------------------------------------------------
\* With no patterns left, a step that is no reset and ends no reseed starts
\* none and leaves none.
LEMMA NoneStaysNone ==
  ASSUME Inv, [Next]_vars, PatternsLeft = 0, currState # "S_Reseed", ~rst'
  PROVE  \/ UNCHANGED vars
         \/ /\ currState' \notin {"S_capture", "S_Reseed"}
            /\ PatternsLeft' = 0
<1>1. ~CountPattern
  BY CountTakesOne
<1>2. CASE UNCHANGED vars
  BY <1>2
<1>3. CASE AbortTest
  BY <1>1, <1>3, SameCountersSameLeft DEF AbortTest
<1>4. CASE NextPattern
  BY <1>1, <1>4 DEF NextPattern
<1>5. CASE StayWaiting \/ Start \/ Shift \/ LastShift \/ Finish \/ Report
  BY <1>5, SameCountersSameLeft
  DEF StayWaiting, Start, Shift, LastShift, Finish, Report, regs
<1>6. CASE Capture
  BY <1>6, SameCountersSameLeft DEF Capture
<1> QED
  BY <1>2, <1>3, <1>4, <1>5, <1>6
  DEF Next, Clock, Reset, AbortReseed, Reseed

(***************************************************************************)
(* A session after the last one finds stale counters: with no patterns     *)
(* left the controller captures and reseeds no more until it is reset.     *)
(***************************************************************************)
THEOREM NoneAfterEnd == Spec => NoPatternAfterEnd
<1>1. Inv /\ [Next]_vars
        => [PatternsLeft = 0 /\ currState # "S_Reseed" /\ ~rst'
              => /\ currState' \notin {"S_capture", "S_Reseed"}
                 /\ PatternsLeft' = 0]_vars
  BY NoneStaysNone
<1> QED
  BY <1>1, InitInv, NextInv, PTL DEF Spec, NoPatternAfterEnd

-----------------------------------------------------------------------------
(* The controller implements the abstract session.                         *)

TotalPatterns == (CntReseedMax + 1) * (CntMax + 1) - 1

LEMMA WholeSession ==
  (CntReseedMax - 0) * (CntMax + 1) + (CntMax - 0) = TotalPatterns
<1> DEFINE c == CntMax + 1
<1>1. c \in Nat /\ CntReseedMax \in Nat
  BY CntMaxAssumption, CntReseedMaxAssumption
<1>2. (CntReseedMax + 1 - 1) * c = (CntReseedMax + 1) * c - c
  BY <1>1, TimesPred
<1>3. CntReseedMax * c \in Nat /\ (CntReseedMax + 1) * c \in Nat
  BY <1>1, TimesNat
<1>4. CntReseedMax - 0 = CntReseedMax /\ CntMax - 0 = CntMax
  BY CntMaxAssumption, CntReseedMaxAssumption
<1> QED
  BY <1>1, <1>2, <1>3, <1>4, CntMaxAssumption DEF TotalPatterns

\* Cleared counters leave the whole session.
LEMMA FreshLeft ==
  /\ cnt = 0 /\ cnt_reseed = 0 => PatternsLeft = TotalPatterns
  /\ cnt' = 0 /\ cnt_reseed' = 0 => PatternsLeft' = TotalPatterns
  BY WholeSession DEF PatternsLeft

LEMMA InitSession == Init => Session!Init
  BY FreshLeft DEF Init, Session!Init, Phase, TotalPatterns

LEMMA StepSession == Inv /\ Inv' /\ [Next]_vars => [Session!Next]_(Session!vars)
<1> SUFFICES ASSUME Inv, Inv', [Next]_vars
             PROVE  [Session!Next]_(Session!vars)
  OBVIOUS
<1> USE DEF Session!Next, Session!vars, Phase
<1>0. PatternsLeft \in Nat
  BY LeftZero
<1>1. CASE UNCHANGED vars
  BY <1>1 DEF vars, PatternsLeft
<1>2. CASE Reset
  BY <1>2, FreshLeft DEF Reset, Session!Reset, TotalPatterns
<1>3. CASE StayWaiting
  BY <1>3, SameCountersSameLeft DEF StayWaiting, regs
<1>4. CASE Start
  BY <1>4, SameCountersSameLeft DEF Start, Session!Start
<1>5. CASE Shift \/ LastShift \/ Capture \/ Reseed
  BY <1>5, SameCountersSameLeft DEF Shift, LastShift, Capture, Reseed
<1>6. CASE AbortTest
  BY <1>6, SameCountersSameLeft, CountTakesOne
  DEF AbortTest, Session!Interrupt
<1>7. CASE NextPattern
  BY <1>7, CountTakesOne DEF NextPattern, Session!Apply
<1>8. CASE Finish
  <2>1. PatternsLeft = 0
    BY <1>8, LeftZero, CntMaxAssumption, CntReseedMaxAssumption
    DEF Finish, Exhausted, Inv, TypeOK
  <2> QED
    BY <1>8, <2>1, SameCountersSameLeft DEF Finish, Session!Finish
<1>9. CASE AbortReseed
  BY <1>9, SameCountersSameLeft DEF AbortReseed, Session!Interrupt
<1>10. CASE Report
  BY <1>10, SameCountersSameLeft DEF Report, Session!Close
<1> QED
  BY <1>1, <1>2, <1>3, <1>4, <1>5, <1>6, <1>7, <1>8, <1>9, <1>10
  DEF Next, Clock

(***************************************************************************)
(* The controller implements the abstract session for every tester: it     *)
(* applies each pattern once, may be interrupted only between two of them, *)
(* and gives a verdict only when none is left.                             *)
(***************************************************************************)
THEOREM Refinement == Spec => ImplementsSession
  BY InitInv, NextInv, InitSession, StepSession, PTL
  DEF Spec, ImplementsSession, Session!Spec
=============================================================================
