--------------------------- MODULE LbistBenchProofs ---------------------------
(***************************************************************************)
(* Theorems about the self-tested core under its testbench, for every      *)
(* core, every limit of the counters and every width of the registers.     *)
(***************************************************************************)
EXTENDS LbistBench, WellFoundedInduction, TLAPS

Types ==
  /\ bench \in {"waiting", "sampling", "done", "absent"}
  /\ currState \in Ctl!StateType
  /\ cnt \in 0..CntMax /\ cnt_reseed \in 0..CntReseedMax

\* The verdict is not there before the testbench has seen the end pulse.
NoVerdictYet == bench = "waiting" => currState # "S_Go"

\* The inductive invariant.
Inv == Types /\ NoVerdictYet /\ SampleInGo /\ VerdictIsComparison

LEMMA InitInv == BenchInit => Inv
  BY CountersAssumption
  DEF BenchInit, Init, Inv, Types, Ctl!StateType, NoVerdictYet, SampleInGo, VerdictIsComparison

(***************************************************************************)
(* The controller keeps its counters within their limits, whatever its     *)
(* inputs.                                                                 *)
(***************************************************************************)
LEMMA ClockTypes ==
  ASSUME Types, Ctl!Clock
  PROVE  /\ currState' \in Ctl!StateType
         /\ cnt' \in 0..CntMax /\ cnt_reseed' \in 0..CntReseedMax
<1> USE CountersAssumption DEF Types, Ctl!StateType
<1>1. CASE Ctl!Reset
  BY <1>1 DEF Ctl!Reset
<1>2. CASE Ctl!StayWaiting \/ Ctl!Start \/ Ctl!Shift \/ Ctl!LastShift \/ Ctl!Capture
  BY <1>2 DEF Ctl!StayWaiting, Ctl!Start, Ctl!Shift, Ctl!LastShift, Ctl!Capture, Ctl!regs
<1>3. CASE Ctl!AbortTest \/ Ctl!NextPattern
  BY <1>3 DEF Ctl!AbortTest, Ctl!NextPattern, Ctl!CountPattern
<1>4. CASE Ctl!Finish \/ Ctl!AbortReseed \/ Ctl!Reseed \/ Ctl!Report
  BY <1>4 DEF Ctl!Finish, Ctl!AbortReseed, Ctl!Reseed, Ctl!Report
<1> QED BY <1>1, <1>2, <1>3, <1>4 DEF Ctl!Clock

(***************************************************************************)
(* With test_mode held, S_Go is entered from S_Test only, with exhausted   *)
(* counters, and then always.                                              *)
(***************************************************************************)
LEMMA GoFollowsEnd ==
  ASSUME Types, Ctl!Clock, test_mode' = TRUE, rst' = FALSE, currState # "S_Go"
  PROVE  currState' = "S_Go" <=> (currState = "S_Test" /\ Ctl!Exhausted)
<1> USE CountersAssumption DEF Types, Ctl!Exhausted
<1>1. CASE Ctl!StayWaiting \/ Ctl!Start \/ Ctl!Shift \/ Ctl!LastShift \/ Ctl!Capture
  BY <1>1 DEF Ctl!StayWaiting, Ctl!Start, Ctl!Shift, Ctl!LastShift, Ctl!Capture, Ctl!regs
<1>2. CASE Ctl!NextPattern
  BY <1>2 DEF Ctl!NextPattern, Ctl!CountPattern
<1>3. CASE Ctl!Finish
  BY <1>3 DEF Ctl!Finish
<1>4. CASE Ctl!Reset \/ Ctl!AbortTest \/ Ctl!AbortReseed \/ Ctl!Reseed \/ Ctl!Report
  BY <1>4 DEF Ctl!Reset, Ctl!AbortTest, Ctl!AbortReseed, Ctl!Reseed, Ctl!Report
<1> QED BY <1>1, <1>2, <1>3, <1>4 DEF Ctl!Clock

\* A signature register that is not enabled keeps its signature.
LEMMA SignatureHolds ==
  ASSUME Edge, test_mode' = FALSE, rst' = FALSE
  PROVE  reg_outs' = reg_outs
  BY DEF Edge, Sig!MisrAfterEdge

LEMMA StepInv == ASSUME Inv, [BenchNext]_benchVars PROVE Inv'
<1>1. CASE UNCHANGED benchVars
  <2>1. UNCHANGED <<bench, failed, currState, cnt, cnt_reseed, reg_outs>>
    BY <1>1 DEF benchVars, topVars, control
  <2> QED
    BY <2>1 DEF Inv, Types, Ctl!StateType, NoVerdictYet, SampleInGo, VerdictIsComparison, Sig!Signature
<1>2. CASE BenchNext
  <2> USE DEF Inv, Types, NoVerdictYet, SampleInGo, VerdictIsComparison
  <2>1. /\ currState' \in Ctl!StateType
        /\ cnt' \in 0..CntMax /\ cnt_reseed' \in 0..CntReseedMax
    BY <1>2, ClockTypes DEF BenchNext, Edge
  <2>2. CASE KeepWaiting /\ rst' = FALSE
    <3>1. ~(currState = "S_Test" /\ Ctl!Exhausted)
      BY <2>2 DEF KeepWaiting, Ctl!GO
    <3>2. currState' # "S_Go"
      BY <1>2, <2>2, <3>1, GoFollowsEnd DEF KeepWaiting, BenchNext, Edge
    <3> QED BY <2>1, <2>2, <3>2 DEF KeepWaiting
  <2>3. CASE SeeEnd /\ rst' = FALSE
    <3>1. currState = "S_Test" /\ Ctl!Exhausted
      BY <2>3 DEF SeeEnd, Ctl!GO
    <3>2. currState' = "S_Go"
      BY <1>2, <2>3, <3>1, GoFollowsEnd DEF SeeEnd, BenchNext, Edge
    <3> QED BY <2>1, <2>3, <3>2 DEF SeeEnd
  <2>4. CASE Sample /\ rst' = FALSE
    <3>1. failed' <=> Sig!Signature(reg_outs) # GOLDEN_SIGNATURE
      BY <2>4 DEF Sample, Ctl!GO
    <3>2. reg_outs' = reg_outs
      BY <1>2, <2>4, SignatureHolds DEF Sample, BenchNext
    <3> QED BY <2>1, <2>4, <3>1, <3>2 DEF Sample, Sig!Signature
  <2>5. CASE Rest /\ rst' = FALSE
    <3>1. reg_outs' = reg_outs
      BY <1>2, <2>5, SignatureHolds DEF Rest, BenchNext
    <3> QED BY <2>1, <2>5, <3>1 DEF Rest, Sig!Signature
  <2>6. CASE NoTestbench
    BY <2>1, <2>6 DEF NoTestbench
  <2> QED BY <1>2, <2>2, <2>3, <2>4, <2>5, <2>6 DEF BenchNext, Testbench
<1> QED BY <1>1, <1>2

LEMMA Always == BenchSpec => []Inv
  BY InitInv, StepInv, PTL DEF BenchSpec

(***************************************************************************)
(* One and a half periods after the end pulse the controller is in S_Go,   *)
(* for every core and every length of the session.                         *)
(***************************************************************************)
THEOREM SamplesVerdict == BenchSpec => []SampleInGo
  BY Always, PTL DEF Inv

(***************************************************************************)
(* The testbench fails the core exactly when its signature is wrong.       *)
(***************************************************************************)
THEOREM VerdictCompares == BenchSpec => []VerdictIsComparison
  BY Always, PTL DEF Inv

-----------------------------------------------------------------------------
(***************************************************************************)
(* Induction over the naturals, for a set instead of a predicate.          *)
(***************************************************************************)
LEMMA NatIsWellFounded == IsWellFoundedOn({p \in Nat \X Nat : p[1] < p[2]}, Nat)
  BY NatLessThanWellFounded DEF OpToRel

LEMMA LeastNatural ==
  ASSUME NEW T, T \subseteq Nat, T # {} PROVE \E m \in T : \A k \in T : ~(k < m)
<1> DEFINE R == {p \in Nat \X Nat : p[1] < p[2]}
<1>1. IsWellFoundedOn(R, Nat)
  BY NatIsWellFounded
<1> HIDE DEF R
<1>2. \E x \in T : \A y \in T : ~(<<y, x>> \in R)
  BY <1>1, WFMin
<1> QED
  BY <1>2 DEF R

LEMMA SetInduction ==
  ASSUME NEW S, 0 \in S, \A n \in Nat : n \in S => n + 1 \in S
  PROVE  \A n \in Nat : n \in S
<1> DEFINE T == {n \in Nat : n \notin S}
<1> SUFFICES ASSUME T # {} PROVE FALSE
  OBVIOUS
<1>1. PICK m \in T : \A k \in T : ~(k < m)
  BY LeastNatural
<1>2. m # 0 /\ m \in Nat
  BY <1>1
<1>3. m - 1 \in Nat /\ m - 1 < m
  BY <1>2
<1>4. m - 1 \in S
  BY <1>1, <1>3
<1> QED
  BY <1>1, <1>3, <1>4

(***************************************************************************)
(* ShiftedBy is what its name says: the recursion has a solution for every *)
(* number of shifts, and the solutions for different numbers agree.        *)
(***************************************************************************)
Shifts(w, n, g) == g = [k \in 0..n |-> IF k = 0 THEN w ELSE Gen!Shifted(g[k - 1])]

LEMMA ShiftsExist == ASSUME NEW w PROVE \A n \in Nat : \E g : Shifts(w, n, g)
<1> DEFINE S == {n \in Nat : \E g : Shifts(w, n, g)}
<1>1. 0 \in S
  <2> DEFINE g == [k \in 0..0 |-> w]
  <2>1. Shifts(w, 0, g)
    BY DEF Shifts
  <2> QED BY <2>1
<1>2. ASSUME NEW n \in Nat, n \in S PROVE n + 1 \in S
  <2>1. PICK g : Shifts(w, n, g)
    BY <1>2
  <2> DEFINE h == [k \in 0..(n + 1) |-> IF k <= n THEN g[k] ELSE Gen!Shifted(g[n])]
  <2>2. ASSUME NEW k \in 0..(n + 1) PROVE h[k] = IF k = 0 THEN w ELSE Gen!Shifted(h[k - 1])
    <3>1. CASE k = 0
      BY <2>1, <3>1 DEF Shifts
    <3>2. CASE k \in 1..n
      <4>1. h[k] = g[k] /\ h[k - 1] = g[k - 1]
        BY <3>2
      <4>2. g[k] = Gen!Shifted(g[k - 1])
        BY <2>1, <3>2 DEF Shifts
      <4> QED BY <3>2, <4>1, <4>2
    <3>3. CASE k = n + 1
      BY <3>3
    <3> QED BY <3>1, <3>2, <3>3
  <2>3. Shifts(w, n + 1, h)
    BY <2>2 DEF Shifts
  <2> QED BY <2>3
<1> HIDE DEF S
<1>3. \A n \in Nat : n \in S
  BY <1>1, <1>2, SetInduction
<1> QED BY <1>3 DEF S

LEMMA ShiftsAgree ==
  ASSUME NEW w, NEW n \in Nat, NEW m \in Nat, NEW g, NEW h, Shifts(w, n, g), Shifts(w, m, h)
  PROVE  \A k \in Nat : k <= n /\ k <= m => g[k] = h[k]
<1> DEFINE S == {k \in Nat : k <= n /\ k <= m => g[k] = h[k]}
<1>1. 0 \in S
  BY DEF Shifts
<1>2. ASSUME NEW k \in Nat, k \in S PROVE k + 1 \in S
  <2> SUFFICES ASSUME k + 1 <= n, k + 1 <= m PROVE g[k + 1] = h[k + 1]
    OBVIOUS
  <2>1. g[k + 1] = Gen!Shifted(g[k]) /\ h[k + 1] = Gen!Shifted(h[k])
    BY DEF Shifts
  <2> QED BY <1>2, <2>1
<1> HIDE DEF S
<1>3. \A k \in Nat : k \in S
  BY <1>1, <1>2, SetInduction
<1> QED BY <1>3 DEF S

LEMMA ShiftedByStep ==
  ASSUME NEW w
  PROVE  /\ ShiftedBy(w, 0) = w
         /\ \A n \in Nat : ShiftedBy(w, n + 1) = Gen!Shifted(ShiftedBy(w, n))
<1> DEFINE F(n) == CHOOSE g : Shifts(w, n, g)
<1>1. \A n \in Nat : Shifts(w, n, F(n))
  BY ShiftsExist
<1>2. \A n \in Nat : ShiftedBy(w, n) = F(n)[n]
  BY DEF ShiftedBy, Shifts
<1> HIDE DEF F
<1>3. ShiftedBy(w, 0) = w
  BY <1>1, <1>2 DEF Shifts
<1>4. ASSUME NEW n \in Nat PROVE ShiftedBy(w, n + 1) = Gen!Shifted(ShiftedBy(w, n))
  <2>1. F(n + 1)[n] = F(n)[n]
    BY <1>1, ShiftsAgree
  <2>2. F(n + 1)[n + 1] = Gen!Shifted(F(n + 1)[n])
    BY <1>1 DEF Shifts
  <2> QED BY <1>2, <2>1, <2>2
<1> QED BY <1>3, <1>4

-----------------------------------------------------------------------------
(***************************************************************************)
(* The stimulus.  Until test_mode is dropped, the LFSR stands at the end   *)
(* of a known number of shifts, and what has been shifted into the chains  *)
(* is known with it.                                                       *)
(***************************************************************************)

\* What the phase shifter drives into chain c from word w.
Driven(w, c) == ~(w[N - 1 - c] <=> w[N - 1 - ((c + 1) % N)])

\* A session starts with fresh counters and the LFSR's reset value.
FreshStart ==
  currState = "S_Wait" => cnt = 0 /\ cnt_reseed = 0 /\ t_prn = Gen!ResetWord

\* A new seed starts with pattern 0.
FreshSeed == currState = "S_Reseed" => cnt = 0 /\ cnt_reseed # 0

\* The cells already shifted into hold what was driven into them.
FilledSoFar ==
  currState = "S_fill" =>
    \A c \in Sig!Lines : \A j \in 1..ChainLen[c] :
      j <= cnt_chain =>
        chains[c][j] = Driven(ShiftedBy(SeedInUse, ShiftsSinceSeed - j), c)

Schedule ==
  Steady => FreshStart /\ FreshSeed /\ FilledSoFar /\ StimulusIsScheduled /\ WholePatterns

Counting ==
  /\ Types
  /\ cnt_chain \in 0..CntChainMax /\ Ctl!FillsAreWhole
  /\ drops \in Nat

\* The inductive invariant.
ScheduleInv == Counting /\ Schedule


LEMMA InitSchedule == BenchInit => ScheduleInv
<1> SUFFICES ASSUME BenchInit PROVE ScheduleInv
  OBVIOUS
<1>1. Types
  BY InitInv DEF Inv
<1>2. Counting
  BY <1>1, CountersAssumption DEF BenchInit, Init, Counting, Ctl!FillsAreWhole
<1>3. Schedule
  BY DEF BenchInit, Init, Schedule, FreshStart, FreshSeed, FilledSoFar, StimulusIsScheduled, WholePatterns
<1> QED BY <1>2, <1>3 DEF ScheduleInv

\* The chain counter stays within its limit and is zero outside of a fill.
LEMMA ClockChain ==
  ASSUME Counting, Ctl!Clock
  PROVE  cnt_chain' \in 0..CntChainMax /\ (currState' # "S_fill" => cnt_chain' = 0)
<1> USE CountersAssumption DEF Counting, Types, Ctl!StateType, Ctl!FillsAreWhole
<1>1. CASE Ctl!Reset
  BY <1>1 DEF Ctl!Reset
<1>2. CASE Ctl!StayWaiting \/ Ctl!Start \/ Ctl!Shift \/ Ctl!LastShift \/ Ctl!Capture
  BY <1>2 DEF Ctl!StayWaiting, Ctl!Start, Ctl!Shift, Ctl!LastShift, Ctl!Capture, Ctl!regs
<1>3. CASE Ctl!AbortTest \/ Ctl!NextPattern
  BY <1>3 DEF Ctl!AbortTest, Ctl!NextPattern
<1>4. CASE Ctl!Finish \/ Ctl!AbortReseed \/ Ctl!Reseed \/ Ctl!Report
  BY <1>4 DEF Ctl!Finish, Ctl!AbortReseed, Ctl!Reseed, Ctl!Report
<1> QED BY <1>1, <1>2, <1>3, <1>4 DEF Ctl!Clock

LEMMA StepCounting ==
  ASSUME Counting, BenchNext PROVE Counting'
<1>1. Ctl!Clock
  BY DEF BenchNext, Edge
<1>2. /\ currState' \in Ctl!StateType
      /\ cnt' \in 0..CntMax /\ cnt_reseed' \in 0..CntReseedMax
  BY <1>1, ClockTypes DEF Counting
<1>3. cnt_chain' \in 0..CntChainMax /\ Ctl!FillsAreWhole'
  BY <1>1, ClockChain DEF Ctl!FillsAreWhole
<1>4. drops' \in Nat
  BY DEF BenchNext, Testbench, NoTestbench, AnyTester, Observe, Counting
<1>5. bench' \in {"waiting", "sampling", "done", "absent"}
  BY DEF BenchNext, Testbench, NoTestbench, KeepWaiting, SeeEnd, Sample, Rest, Counting, Types
<1> QED BY <1>2, <1>3, <1>4, <1>5 DEF Counting, Types

\* A session that is steady after an edge was steady before, and test_mode
\* was high at that edge, or the session had not begun.
LEMMA SteadyBefore ==
  ASSUME drops \in Nat, Observe, ~rst', Steady'
  PROVE  Steady /\ currState # "S_Go" /\ (test_mode' \/ currState = "S_Wait")
<1>1. drops' = 0 /\ ~reported'
  BY DEF Steady
<1>2. ~reported /\ currState # "S_Go"
  BY <1>1, Zenon DEF Observe
<1>3. test_mode' \/ currState = "S_Wait"
  <2> SUFFICES ASSUME ~test_mode', currState # "S_Wait" PROVE FALSE
    OBVIOUS
  <2>1. drops' = drops + 1
    BY Zenon DEF Observe
  <2> QED BY <1>1, <2>1
<1>4. drops' = drops
  BY <1>3, Zenon DEF Observe
<1> QED BY <1>1, <1>2, <1>3, <1>4 DEF Steady

\* The index of the neighbouring line is the index of a line.
LEMMA NeighbourIsLine == \A c \in Sig!Lines : (c + 1) % N \in Sig!Lines
  BY WidthAssumption DEF Sig!Lines

LEMMA GridDrives == \A c \in Sig!Lines : grid_out[c] = Driven(t_prn, c)
<1> SUFFICES ASSUME NEW c \in Sig!Lines PROVE grid_out[c] = Driven(t_prn, c)
  OBVIOUS
<1>1. (c + 1) % N \in Sig!Lines
  BY NeighbourIsLine
<1>2. lfsr_out[c] = t_prn[N - 1 - c] /\ lfsr_out[(c + 1) % N] = t_prn[N - 1 - ((c + 1) % N)]
  BY <1>1 DEF lfsr_out
<1>3. grid_out[c] = ~(lfsr_out[c] <=> lfsr_out[(c + 1) % N])
  BY DEF grid_out, Sig!PREG_OUT
<1> QED BY <1>2, <1>3 DEF Driven


\* While patterns are being applied the LFSR is where the schedule says; a
\* session that waits stands at the beginning of the schedule.
LEMMA OnSchedule ==
  ASSUME ScheduleInv, Steady, currState \notin {"S_Reseed", "S_Go"}
  PROVE  /\ ShiftsSinceSeed \in Nat
         /\ t_prn = ShiftedBy(SeedInUse, ShiftsSinceSeed)
<1> USE CountersAssumption DEF ScheduleInv, Counting, Types, Ctl!StateType
<1>1. cnt * PatternClocks \in Nat
  BY DEF PatternClocks
<1>2. ShiftsSinceSeed \in Nat
  BY <1>1 DEF ShiftsSinceSeed
<1>3. CASE currState = "S_Wait"
  <2>1. cnt = 0 /\ cnt_reseed = 0 /\ t_prn = Gen!ResetWord
    BY <1>3 DEF Schedule, FreshStart
  <2>2. 0 * PatternClocks = 0
    BY DEF PatternClocks
  <2>3. ShiftsSinceSeed = 0
    BY <1>3, <2>1, <2>2 DEF ShiftsSinceSeed
  <2>4. SeedInUse = Gen!ResetWord
    BY <2>1 DEF SeedInUse
  <2> QED BY <1>2, <2>1, <2>3, <2>4, ShiftedByStep
<1>4. CASE currState \in {"S_capture", "S_fill", "S_Test"}
  BY <1>2, <1>4 DEF Schedule, StimulusIsScheduled
<1> QED BY <1>3, <1>4

\* One clock is one shift in the schedule, the waiting state included.
LEMMA OneShift ==
  ASSUME ScheduleInv, Counting', Steady,
         currState \notin {"S_Reseed", "S_Go"}, t_prn' = Gen!Shifted(t_prn),
         cnt_reseed' = cnt_reseed, ShiftsSinceSeed' = ShiftsSinceSeed + 1
  PROVE  t_prn' = ShiftedBy(SeedInUse', ShiftsSinceSeed')
<1>1. ShiftsSinceSeed \in Nat /\ t_prn = ShiftedBy(SeedInUse, ShiftsSinceSeed)
  BY OnSchedule
<1>2. ShiftedBy(SeedInUse, ShiftsSinceSeed + 1) = Gen!Shifted(ShiftedBy(SeedInUse, ShiftsSinceSeed))
  BY <1>1, ShiftedByStep
<1>3. SeedInUse' = SeedInUse
  BY DEF SeedInUse
<1> QED BY <1>1, <1>2, <1>3

\* The LFSR shifts at an edge with test_mode, but takes the seed in S_Reseed.
LEMMA LfsrMoves ==
  ASSUME Edge, ~rst'
  PROVE  /\ test_mode' /\ currState # "S_Reseed" => t_prn' = Gen!Shifted(t_prn)
         /\ test_mode' /\ currState = "S_Reseed" => t_prn' = Seeds[cnt_reseed]
         /\ ~test_mode' => t_prn' = t_prn
  BY Zenon DEF Edge, Gen!AfterEdge, Ctl!LFSR_LD

\* In a fill every chain takes one bit and moves by one cell.
LEMMA ChainsMove ==
  ASSUME Edge, ~rst', currState = "S_fill"
  PROVE  \A c \in Sig!Lines : \A j \in 1..ChainLen[c] :
           chains'[c][j] = IF j = 1 THEN Driven(t_prn, c) ELSE chains[c][j - 1]
<1>1. chains' = ShiftedChains
  BY DEF Edge, Ctl!TEST_SCAN_EN
<1> QED BY <1>1, GridDrives DEF ShiftedChains

\* After the shift the filled part of each chain is one cell longer.
LEMMA FillGrows ==
  ASSUME ScheduleInv, Steady, Edge, ~rst', currState = "S_fill",
         cnt_reseed' = cnt_reseed, ShiftsSinceSeed' = ShiftsSinceSeed + 1,
         NEW c \in Sig!Lines, NEW j \in 1..ChainLen[c], j <= cnt_chain + 1
  PROVE  chains'[c][j] = Driven(ShiftedBy(SeedInUse', ShiftsSinceSeed' - j), c)
<1>1. ShiftsSinceSeed \in Nat /\ t_prn = ShiftedBy(SeedInUse, ShiftsSinceSeed)
  BY OnSchedule
<1>2. SeedInUse' = SeedInUse
  BY DEF SeedInUse
<1>3. ChainLen[c] \in Nat /\ j \in Nat /\ cnt_chain \in Nat
  BY ChainLenAssumption, CountersAssumption DEF ScheduleInv, Counting
<1>4. CASE j = 1
  <2>1. ShiftsSinceSeed' - j = ShiftsSinceSeed
    BY <1>1, <1>4
  <2> QED BY <1>1, <1>2, <1>4, <2>1, ChainsMove
<1>5. CASE j # 1
  <2>1. /\ j - 1 \in 1..ChainLen[c] /\ j - 1 <= cnt_chain
        /\ ShiftsSinceSeed' - j = ShiftsSinceSeed - (j - 1)
    BY <1>1, <1>3, <1>5
  <2>2. chains[c][j - 1] = Driven(ShiftedBy(SeedInUse, ShiftsSinceSeed - (j - 1)), c)
    BY <2>1 DEF ScheduleInv, Schedule, FilledSoFar
  <2>3. chains'[c][j] = chains[c][j - 1]
    BY <1>5, ChainsMove
  <2> QED BY <1>2, <2>1, <2>2, <2>3
<1> QED BY <1>4, <1>5


\* The count of shifts along the edges of a steady session.
LEMMA ShiftsCounted ==
  ASSUME Counting, ~rst', currState # "S_Reseed",
         Ctl!Start \/ Ctl!Shift \/ Ctl!LastShift \/ Ctl!Capture
           \/ (Ctl!NextPattern /\ cnt < CntMax)
  PROVE  cnt_reseed' = cnt_reseed /\ ShiftsSinceSeed' = ShiftsSinceSeed + 1
<1> USE CountersAssumption DEF Counting, Types, Ctl!FillsAreWhole
<1>1. cnt * PatternClocks \in Nat
  BY DEF PatternClocks
<1>2. CASE Ctl!Start \/ Ctl!Shift \/ Ctl!LastShift \/ Ctl!Capture
  <2>1. cnt' = cnt /\ cnt_reseed' = cnt_reseed
    BY <1>2 DEF Ctl!Start, Ctl!Shift, Ctl!LastShift, Ctl!Capture
  <2>2. PatternClocks' = PatternClocks
    BY DEF PatternClocks
  <2>3. cnt' * PatternClocks' = cnt * PatternClocks
    BY <2>1, <2>2
  <2>4. CASE Ctl!Start \/ Ctl!Capture
    BY <1>1, <2>1, <2>3, <2>4 DEF Ctl!Start, Ctl!Capture, ShiftsSinceSeed
  <2>5. CASE Ctl!Shift \/ Ctl!LastShift
    BY <1>1, <2>1, <2>3, <2>5 DEF Ctl!Shift, Ctl!LastShift, ShiftsSinceSeed
  <2> QED BY <1>2, <2>4, <2>5
<1>3. CASE Ctl!NextPattern /\ cnt < CntMax
  <2>1. /\ cnt' = cnt + 1 /\ cnt_reseed' = cnt_reseed
        /\ currState = "S_Test" /\ currState' = "S_capture"
    BY <1>3 DEF Ctl!NextPattern, Ctl!CountPattern
  <2>2. (cnt + 1) * PatternClocks = cnt * PatternClocks + CntChainMax + 3
    BY DEF PatternClocks
  <2> QED BY <1>1, <2>1, <2>2 DEF ShiftsSinceSeed, PatternClocks
<1> QED BY <1>2, <1>3

\* A shift that enters or stays in a fill, or ends it.
LEMMA PatternStep ==
  ASSUME ScheduleInv, Counting', Steady, Steady', Edge, ~rst', test_mode',
         currState # "S_Reseed",
         Ctl!Start \/ Ctl!Shift \/ Ctl!LastShift \/ Ctl!Capture
           \/ (Ctl!NextPattern /\ cnt < CntMax)
  PROVE  Schedule'
<1> USE DEF ScheduleInv, Counting
<1>1. cnt_reseed' = cnt_reseed /\ ShiftsSinceSeed' = ShiftsSinceSeed + 1
  BY ShiftsCounted
<1>2. /\ currState \notin {"S_Reseed", "S_Go"}
      /\ currState' \in {"S_fill", "S_Test", "S_capture"}
  BY DEF Ctl!Start, Ctl!Shift, Ctl!LastShift, Ctl!Capture, Ctl!NextPattern
<1>3. t_prn' = Gen!Shifted(t_prn)
  BY LfsrMoves
<1>4. t_prn' = ShiftedBy(SeedInUse', ShiftsSinceSeed')
  BY <1>1, <1>2, <1>3, OneShift
<1>5. FilledSoFar'
  <2> SUFFICES ASSUME currState' = "S_fill",
                      NEW c \in Sig!Lines, NEW j \in 1..ChainLen[c], j <= cnt_chain'
               PROVE  chains'[c][j] = Driven(ShiftedBy(SeedInUse', ShiftsSinceSeed' - j), c)
    BY DEF FilledSoFar
  <2>1. ChainLen[c] \in Nat /\ j \in Nat /\ j >= 1
    BY ChainLenAssumption, CountersAssumption
  <2>2. CASE Ctl!Shift
    BY <1>1, <2>2, FillGrows DEF Ctl!Shift
  <2>3. CASE Ctl!Start \/ Ctl!Capture
    BY <2>1, <2>3 DEF Ctl!Start, Ctl!Capture, Ctl!FillsAreWhole
  <2> QED BY <2>2, <2>3 DEF Ctl!LastShift, Ctl!NextPattern
<1>6. WholePatterns'
  <2> SUFFICES ASSUME currState' = "S_Test", NEW c \in Sig!Lines, NEW j \in 1..ChainLen[c]
               PROVE  chains'[c][j] = Driven(ShiftedBy(SeedInUse', ShiftsSinceSeed' - j), c)
    BY DEF WholePatterns, Driven
  <2>1. currState = "S_fill" /\ cnt_chain >= CntChainMax
    BY DEF Ctl!Start, Ctl!Shift, Ctl!LastShift, Ctl!Capture, Ctl!NextPattern
  <2>2. j <= cnt_chain + 1
    BY <2>1, ChainLenAssumption, CountersAssumption
  <2> QED BY <1>1, <2>1, <2>2, FillGrows
<1> QED
  BY <1>2, <1>4, <1>5, <1>6 DEF Schedule, FreshStart, FreshSeed, StimulusIsScheduled

\* The seed is requested with pattern 0 and taken one edge later.
LEMMA SeedStep ==
  ASSUME ScheduleInv, Counting', Steady, Steady', Edge, ~rst', test_mode',
         Ctl!Reseed \/ Ctl!Finish \/ (Ctl!NextPattern /\ ~(cnt < CntMax))
  PROVE  Schedule'
<1> USE DEF ScheduleInv, Counting, Types
<1>1. CASE Ctl!Reseed
  <2>1. /\ currState = "S_Reseed" /\ currState' = "S_capture"
        /\ cnt' = cnt /\ cnt_reseed' = cnt_reseed
    BY <1>1 DEF Ctl!Reseed
  <2>2. cnt = 0 /\ cnt_reseed # 0
    BY <2>1 DEF Schedule, FreshSeed
  <2>3. t_prn' = Seeds[cnt_reseed]
    BY <2>1, LfsrMoves
  <2>4. SeedInUse' = Seeds[cnt_reseed]
    BY <2>1, <2>2 DEF SeedInUse
  <2>5. 0 * PatternClocks' = 0
    BY CountersAssumption DEF PatternClocks
  <2>6. ShiftsSinceSeed' = 0
    BY <2>1, <2>2, <2>5 DEF ShiftsSinceSeed
  <2>7. t_prn' = ShiftedBy(SeedInUse', ShiftsSinceSeed')
    BY <2>3, <2>4, <2>6, ShiftedByStep
  <2> QED
    BY <2>1, <2>7 DEF Schedule, FreshStart, FreshSeed, FilledSoFar, StimulusIsScheduled, WholePatterns
<1>2. CASE Ctl!Finish
  <2>1. currState' = "S_Go"
    BY <1>2 DEF Ctl!Finish
  <2> QED
    BY <2>1 DEF Schedule, FreshStart, FreshSeed, FilledSoFar, StimulusIsScheduled, WholePatterns
<1>3. CASE Ctl!NextPattern /\ ~(cnt < CntMax)
  <2>1. currState' = "S_Reseed" /\ cnt' = 0 /\ cnt_reseed' = cnt_reseed + 1
    BY <1>3, CountersAssumption DEF Ctl!NextPattern, Ctl!CountPattern
  <2>2. cnt_reseed' # 0
    BY <2>1, CountersAssumption
  <2> QED
    BY <2>1, <2>2
    DEF Schedule, FreshStart, FreshSeed, FilledSoFar, StimulusIsScheduled, WholePatterns
<1> QED BY <1>1, <1>2, <1>3

\* While test_mode is low the session that has not begun stays fresh.
LEMMA WaitStep ==
  ASSUME ScheduleInv, Steady, Edge, ~rst', ~test_mode', Ctl!StayWaiting
  PROVE  Schedule'
<1>1. currState = "S_Wait" /\ currState' = "S_Wait" /\ cnt' = cnt /\ cnt_reseed' = cnt_reseed
  BY DEF Ctl!StayWaiting, Ctl!regs
<1>2. t_prn' = t_prn
  BY LfsrMoves
<1> QED
  BY <1>1, <1>2
  DEF ScheduleInv, Schedule, FreshStart, FreshSeed, FilledSoFar, StimulusIsScheduled, WholePatterns

\* A reset starts a session from the beginning.
LEMMA ResetStep ==
  ASSUME Edge, rst' PROVE Schedule'
<1>1. currState' = "S_Wait" /\ cnt' = 0 /\ cnt_reseed' = 0
  BY DEF Edge, Ctl!Clock, Ctl!Reset, Ctl!StayWaiting, Ctl!Start, Ctl!Shift, Ctl!LastShift,
    Ctl!Capture, Ctl!AbortTest, Ctl!NextPattern, Ctl!Finish, Ctl!AbortReseed, Ctl!Reseed,
    Ctl!Report
<1>2. t_prn' = Gen!ResetWord
  BY Zenon DEF Edge
<1> QED
  BY <1>1, <1>2
  DEF Schedule, FreshStart, FreshSeed, FilledSoFar, StimulusIsScheduled, WholePatterns, Gen!ResetWord, Gen!Bits

LEMMA StepSchedule ==
  ASSUME ScheduleInv, [BenchNext]_benchVars PROVE ScheduleInv'
<1>1. CASE UNCHANGED benchVars
  <2>1. /\ UNCHANGED <<bench, failed, currState, cnt, cnt_reseed, cnt_chain>>
        /\ UNCHANGED <<t_prn, reg_outs, chains, drops, reported>>
    BY <1>1 DEF benchVars, topVars, control, tester
  <2>2. Counting'
    BY <2>1 DEF ScheduleInv, Counting, Types, Ctl!StateType, Ctl!FillsAreWhole
  <2>3. ShiftsSinceSeed' = ShiftsSinceSeed /\ SeedInUse' = SeedInUse /\ Steady' = Steady
    BY <2>1 DEF ShiftsSinceSeed, SeedInUse, Steady, PatternClocks
  <2>4. Schedule'
    BY <2>1, <2>3
    DEF ScheduleInv, Schedule, FreshStart, FreshSeed, FilledSoFar, StimulusIsScheduled, WholePatterns
  <2> QED BY <2>2, <2>4 DEF ScheduleInv
<1>2. CASE BenchNext
  <2>1. Edge /\ Observe
    BY <1>2 DEF BenchNext, Testbench, NoTestbench, AnyTester
  <2>2. Counting'
    BY <1>2, StepCounting DEF ScheduleInv
  <2>3. CASE rst'
    BY <2>1, <2>2, <2>3, ResetStep DEF ScheduleInv
  <2>4. CASE ~rst' /\ Steady'
    <3>1. drops \in Nat
      BY DEF ScheduleInv, Counting
    <3>2. Steady /\ currState # "S_Go" /\ (test_mode' \/ currState = "S_Wait")
      BY <2>1, <2>4, <3>1, SteadyBefore
    <3>3. Ctl!Clock
      BY <2>1 DEF Edge
    <3>4. CASE ~test_mode'
      <4>1. Ctl!StayWaiting
        BY <2>4, <3>2, <3>3, <3>4, Zenon
        DEF Ctl!Clock, Ctl!Reset, Ctl!Start, Ctl!Shift, Ctl!LastShift, Ctl!Capture,
          Ctl!AbortTest, Ctl!NextPattern, Ctl!Finish, Ctl!AbortReseed, Ctl!Reseed, Ctl!Report
      <4> QED BY <2>1, <2>2, <2>4, <3>2, <3>4, <4>1, WaitStep DEF ScheduleInv
    <3>5. CASE test_mode'
      <4>1. \/ Ctl!Start \/ Ctl!Shift \/ Ctl!LastShift \/ Ctl!Capture
            \/ Ctl!NextPattern \/ Ctl!Finish \/ Ctl!Reseed
        BY <2>4, <3>2, <3>3, <3>5, Zenon
        DEF Ctl!Clock, Ctl!Reset, Ctl!StayWaiting, Ctl!AbortTest, Ctl!AbortReseed, Ctl!Report
      <4>2. CASE Ctl!Start \/ Ctl!Shift \/ Ctl!LastShift \/ Ctl!Capture
        <5>1. currState # "S_Reseed"
          BY <4>2 DEF Ctl!Start, Ctl!Shift, Ctl!LastShift, Ctl!Capture
        <5> QED BY <2>1, <2>2, <2>4, <3>2, <3>5, <4>2, <5>1, PatternStep DEF ScheduleInv
      <4>3. CASE Ctl!NextPattern
        <5>1. currState # "S_Reseed"
          BY <4>3 DEF Ctl!NextPattern
        <5> QED BY <2>1, <2>2, <2>4, <3>2, <3>5, <4>3, <5>1, PatternStep, SeedStep DEF ScheduleInv
      <4>4. CASE Ctl!Finish \/ Ctl!Reseed
        BY <2>1, <2>2, <2>4, <3>2, <3>5, <4>4, SeedStep DEF ScheduleInv
      <4> QED BY <4>1, <4>2, <4>3, <4>4
    <3> QED BY <3>4, <3>5
  <2>5. CASE ~Steady'
    BY <2>2, <2>5 DEF ScheduleInv, Schedule
  <2> QED BY <2>3, <2>4, <2>5
<1> QED BY <1>1, <1>2

LEMMA AlwaysScheduled == BenchSpec => []ScheduleInv
  BY InitSchedule, StepSchedule, PTL DEF BenchSpec

LEMMA ScheduleImplies == ScheduleInv => StimulusIsScheduled /\ WholePatterns
  BY DEF ScheduleInv, Schedule, StimulusIsScheduled, WholePatterns

(***************************************************************************)
(* The LFSR runs on a schedule: in a session without a drop of test_mode   *)
(* it holds what the seed in use has become after as many shifts as the    *)
(* counters of the controller say, for every width, every limit of the     *)
(* counters, every seed and every core.                                    *)
(***************************************************************************)
THEOREM StimulusScheduled == BenchSpec => []StimulusIsScheduled
  BY AlwaysScheduled, ScheduleImplies, PTL

(***************************************************************************)
(* When a pattern is applied every cell of every chain holds the bit the   *)
(* phase shifter drove for it, whatever the core answered before and       *)
(* however short the chain is.                                             *)
(***************************************************************************)
THEOREM PatternsWhole == BenchSpec => []WholePatterns
  BY AlwaysScheduled, ScheduleImplies, PTL

===============================================================================
