------------------------------- MODULE LbistTop -------------------------------
(***************************************************************************)
(* The core with its built-in self test (bist/riscv_core_bist.vhd): the    *)
(* controller, the pattern generator and its phase shifter, the scan       *)
(* chains of the core, and the signature register, all on one clock, under *)
(* a tester that may raise and drop test_mode and rst at every edge.       *)
(*                                                                         *)
(* The core itself is external: what a functional clock does to its scan   *)
(* cells is the operator Respond, its functional inputs are held.  Chain c *)
(* is a sequence of bits, scan input first; its last cell drives line c of *)
(* the response, as the scan-out pins of the scan-inserted netlist do.     *)
(***************************************************************************)
EXTENDS Integers, Sequences

CONSTANTS
  CntMax, CntChainMax, CntReseedMax,  \* the constants of the controller
  N, Tap, Xnor, MisrTaps,             \* width and taps of LFSR and MISR
  Seeds,             \* Seeds[k]: the seed the reseeder gives for cnt_reseed = k
  GOLDEN_SIGNATURE,
  ChainLen,          \* ChainLen[c]: number of cells of chain c
  ResetCells,        \* the chains after a reset of the core
  Respond(_, _),     \* Respond(chains, d): the chains after a functional clock
  Defects, NoDefect, \* what may be wrong with the core; NoDefect when nothing
  MaxDrops           \* bound: how often the tester drops test_mode in a session

VARIABLES
  currState, cnt, cnt_reseed, cnt_chain,  \* the controller
  t_prn,      \* the LFSR
  reg_outs,   \* the MISR
  chains,     \* the scan cells
  defect,     \* what is wrong with this core
  test_mode, rst,
  delayed,    \* since reset, test_mode was low at an edge in S_Wait
  drops,      \* since reset, edges at which test_mode was low outside S_Wait
  reported    \* since reset, a verdict was given

Gen == INSTANCE Lfsr WITH N_LFSR <- N
Sig == INSTANCE Misr WITH N_MISR <- N
Ctl == INSTANCE LbistController
         WITH Signatures <- Sig!DataWords, TEST <- test_mode,
              MISR_OUT <- Sig!Signature(reg_outs)

ASSUME CountersAssumption ==
  /\ CntMax \in Nat /\ CntMax <= 65535
  /\ CntChainMax \in Nat /\ CntChainMax <= 63
  /\ CntReseedMax \in Nat /\ CntReseedMax <= 15
ASSUME WidthAssumption == N \in Nat /\ N > 1
ASSUME SeedsAssumption == Seeds \in [0..15 -> Gen!Words]
ASSUME GoldenWidthAssumption == GOLDEN_SIGNATURE \in Sig!DataWords
\* The chains of the netlist have 47 or 48 cells, a fill shifts 48 times.
ASSUME ChainLenAssumption == ChainLen \in [Sig!Lines -> 1..(CntChainMax + 1)]
ASSUME ResetCellsAssumption ==
  \A c \in Sig!Lines : ResetCells[c] \in [1..ChainLen[c] -> BOOLEAN]
ASSUME DefectsAssumption == NoDefect \in Defects

control == <<currState, cnt, cnt_reseed, cnt_chain>>
tester  == <<test_mode, rst, delayed, drops, reported>>
topVars == <<control, t_prn, reg_outs, chains, defect, tester>>

Init ==
  /\ currState = "S_Wait" /\ cnt = 0 /\ cnt_reseed = 0 /\ cnt_chain = 0
  /\ t_prn = Gen!ResetWord
  /\ reg_outs = Sig!Seed
  /\ chains = ResetCells
  /\ defect \in Defects
  /\ test_mode = FALSE /\ rst = TRUE
  /\ delayed = FALSE /\ drops = 0 /\ reported = FALSE

-----------------------------------------------------------------------------
\* Mutant: the two index directions are confused.
lfsr_out_Straight == [i \in Sig!Lines |-> t_prn[i]]

\* The LFSR is declared (0 to 63), the phase shifter takes (63 downto 0).
lfsr_out == [i \in Sig!Lines |-> t_prn[N - 1 - i]]

grid_out == Sig!PREG_OUT(lfsr_out)

\* With test_scan_en the multiplexer feeds the phase shifter to the scan
\* inputs and every chain moves by one cell.
ShiftedChains ==
  [c \in Sig!Lines |->
     [j \in 1..ChainLen[c] |->
        IF j = 1 THEN grid_out[c] ELSE chains[c][j - 1]]]

scan_out == [c \in Sig!Lines |-> chains[c][ChainLen[c]]]

\* A rising edge of clk in every block.
Edge ==
  /\ Ctl!Clock
  /\ t_prn' = IF rst' THEN Gen!ResetWord
              ELSE Gen!AfterEdge(t_prn, Ctl!LFSR_LD(test_mode'), test_mode',
                                 Seeds[cnt_reseed])
  /\ reg_outs' = Sig!MisrAfterEdge(reg_outs, rst', test_mode', scan_out)
  /\ chains' = IF rst' THEN ResetCells
               ELSE IF Ctl!TEST_SCAN_EN THEN ShiftedChains
               ELSE Respond(chains, defect)
  /\ UNCHANGED defect

\* What the tester has done since the last reset.
Observe ==
  IF rst' THEN delayed' = FALSE /\ drops' = 0 /\ reported' = FALSE
  ELSE LET low == ~test_mode' IN
       /\ delayed' = (delayed \/ (low /\ currState = "S_Wait"))
       /\ drops' = IF low /\ currState # "S_Wait" THEN drops + 1 ELSE drops
       /\ reported' = (reported \/ currState = "S_Go")

\* A tester that does anything, with at most MaxDrops low edges.
AnyTester ==
  /\ test_mode' \in BOOLEAN
  /\ rst' \in BOOLEAN
  /\ Observe
  /\ drops' <= MaxDrops

-----------------------------------------------------------------------------
\* test_mode was high at every edge of the session but while waiting.
Steady == drops = 0 /\ ~reported

\* ShiftedBy[n]: the LFSR n shifts after w.
ShiftedBy(w, n) ==
  LET f[k \in 0..n] == IF k = 0 THEN w ELSE Gen!Shifted(f[k - 1]) IN f[n]

PatternClocks == CntChainMax + 3  \* clocks from a capture to the next one

\* Shifts of the LFSR since its seed, read off the controller.
ShiftsSinceSeed ==
  cnt * PatternClocks + CASE currState = "S_fill" -> cnt_chain + 1
                          [] currState = "S_Test" -> CntChainMax + 2
                          [] OTHER -> 0

SeedInUse == IF cnt_reseed = 0 THEN Gen!ResetWord ELSE Seeds[cnt_reseed]

(***************************************************************************)
(* The stimulus schedule: in a steady session the LFSR is a function of    *)
(* the controller's counters, so two cores tested with different waiting   *)
(* times get the same patterns.  The first seed is the LFSR's own reset    *)
(* value: the reseeder's seed for cnt_reseed = 0 is never loaded.          *)
(***************************************************************************)
StimulusIsScheduled ==
  Steady /\ currState \in {"S_capture", "S_fill", "S_Test"}
    => t_prn = ShiftedBy(SeedInUse, ShiftsSinceSeed)

(***************************************************************************)
(* Whole patterns: when a steady session reaches S_Test, cell j of every   *)
(* chain holds what the phase shifter gave j clocks earlier, in chains     *)
(* shorter than the fill too; nothing of the last response is left.        *)
(***************************************************************************)
WholePatterns ==
  Steady /\ currState = "S_Test"
    => \A c \in Sig!Lines : \A j \in 1..ChainLen[c] :
         LET w == ShiftedBy(SeedInUse, ShiftsSinceSeed - j)
         IN  chains[c][j] = ~(w[N - 1 - c] <=> w[N - 1 - ((c + 1) % N)])

(***************************************************************************)
(* A core without defect passes, if the tester raises test_mode with the   *)
(* end of reset and holds it.                                              *)
(***************************************************************************)
GoodCorePasses ==
  Steady /\ ~delayed /\ defect = NoDefect /\ currState = "S_Go"
    => Ctl!GO(test_mode)
=============================================================================
