--------------------------- MODULE LbistController ---------------------------
(***************************************************************************)
(* The controller of the logic BIST (bist/CONTROLLER/controller.vhd): a    *)
(* finite state machine with three counters that fills the scan chains,    *)
(* pulses functional clocks, reseeds the pattern generator and finally     *)
(* compares the signature with the golden one.                             *)
(*                                                                         *)
(* A step is one rising edge of clk.  TEST and rst are the input levels at *)
(* the previous edge, TEST' and rst' the levels sampled by this edge: an   *)
(* input may move once between two edges.  That matters because the        *)
(* combinational process assigns next_cnt and next_cnt_reseed only in some *)
(* branches, so they are latches: when TEST is high at the beginning of an *)
(* S_Test cycle and low at its end, the state goes to S_Wait but the       *)
(* counters still take the latched, advanced values.                       *)
(***************************************************************************)
EXTENDS Integers

CONSTANTS
  CntMax,           \* cnt_max: patterns per seed, minus one
  CntChainMax,      \* cnt_chain_max: shifts per fill, minus one
  CntReseedMax,     \* cnt_reseed_max: number of reseedings
  Signatures,       \* the values MISR_OUT may have
  GOLDEN_SIGNATURE  \* the generic of the entity

\* The counters are unsigned registers of 16, 6 and 4 bits.
ASSUME CntMaxAssumption       == CntMax \in Nat /\ CntMax <= 65535
ASSUME CntChainMaxAssumption  == CntChainMax \in Nat /\ CntChainMax <= 63
ASSUME CntReseedMaxAssumption == CntReseedMax \in Nat /\ CntReseedMax <= 15
ASSUME GoldenAssumption       == GOLDEN_SIGNATURE \in Signatures

VARIABLES
  currState,   \* state register
  cnt,         \* patterns of this seed already started
  cnt_reseed,  \* seeds already requested
  cnt_chain,   \* shifts of this fill already done
  TEST,        \* level of the TEST input
  rst,         \* level of the reset input
  MISR_OUT     \* the signature input

regs == <<currState, cnt, cnt_reseed, cnt_chain>>
vars == <<currState, cnt, cnt_reseed, cnt_chain, TEST, rst, MISR_OUT>>

StateType == {"S_Wait", "S_capture", "S_fill", "S_Test", "S_Reseed", "S_Go"}

TypeOK ==
  /\ currState \in StateType
  /\ cnt \in 0..CntMax
  /\ cnt_reseed \in 0..CntReseedMax
  /\ cnt_chain \in 0..CntChainMax
  /\ TEST \in BOOLEAN
  /\ rst \in BOOLEAN
  /\ MISR_OUT \in Signatures

-----------------------------------------------------------------------------
(* Outputs, functions of the state and of the current input levels.        *)

TEST_SCAN_EN == currState = "S_fill"

\* Every pattern of every seed has been started.
Exhausted == cnt = CntMax /\ cnt_reseed = CntReseedMax

\* Mutant: the seed is loaded one state late.
LFSR_LD_Late(test) == currState = "S_capture" /\ test

LFSR_LD(test) == currState = "S_Reseed" /\ test

\* Mutant: the end pulse in every S_Test.
GO_EveryTest(test) ==
  \/ currState = "S_Test" /\ test
  \/ currState = "S_Go" /\ MISR_OUT = GOLDEN_SIGNATURE

\* Mutant: the signature is not compared.
GO_AlwaysPass(test) ==
  \/ currState = "S_Test" /\ test /\ Exhausted
  \/ currState = "S_Go"

\* GO means "finished" in S_Test and "passed" in S_Go.
GO(test) ==
  \/ currState = "S_Test" /\ test /\ Exhausted
  \/ currState = "S_Go" /\ MISR_OUT = GOLDEN_SIGNATURE

-----------------------------------------------------------------------------
(* A behaviour starts after the reset edge every tester gives first.       *)
Init ==
  /\ currState = "S_Wait"
  /\ cnt = 0 /\ cnt_reseed = 0 /\ cnt_chain = 0
  /\ TEST \in BOOLEAN
  /\ rst \in BOOLEAN
  /\ MISR_OUT \in Signatures

-----------------------------------------------------------------------------
(* One action per branch of the two processes; the input levels of the     *)
(* edge are chosen by Clock below.                                          *)

Reset ==
  /\ rst'
  /\ currState' = "S_Wait"
  /\ cnt' = 0 /\ cnt_reseed' = 0 /\ cnt_chain' = 0

StayWaiting ==
  /\ ~rst' /\ currState = "S_Wait" /\ ~TEST'
  /\ UNCHANGED regs

\* Mutant: TEST is not looked at.
Start_Untested ==
  /\ ~rst' /\ currState = "S_Wait"
  /\ currState' = "S_fill"
  /\ UNCHANGED <<cnt, cnt_reseed, cnt_chain>>

Start ==
  /\ ~rst' /\ currState = "S_Wait" /\ TEST'
  /\ currState' = "S_fill"
  /\ UNCHANGED <<cnt, cnt_reseed, cnt_chain>>

Shift ==
  /\ ~rst' /\ currState = "S_fill" /\ cnt_chain < CntChainMax
  /\ cnt_chain' = cnt_chain + 1
  /\ UNCHANGED <<currState, cnt, cnt_reseed>>

\* Mutant: the chain counter is not cleared.
LastShift_KeepCounter ==
  /\ ~rst' /\ currState = "S_fill" /\ cnt_chain >= CntChainMax
  /\ currState' = "S_Test"
  /\ UNCHANGED <<cnt, cnt_reseed, cnt_chain>>

LastShift ==
  /\ ~rst' /\ currState = "S_fill" /\ cnt_chain >= CntChainMax
  /\ cnt_chain' = 0
  /\ currState' = "S_Test"
  /\ UNCHANGED <<cnt, cnt_reseed>>

Capture ==
  /\ ~rst' /\ currState = "S_capture"
  /\ currState' = "S_fill"
  /\ UNCHANGED <<cnt, cnt_reseed, cnt_chain>>

\* Mutant: one pattern too many.
CountPattern_OneMore ==
  \/ /\ cnt <= CntMax
     /\ cnt' = cnt + 1
     /\ UNCHANGED cnt_reseed
  \/ /\ cnt > CntMax /\ cnt_reseed < CntReseedMax
     /\ cnt' = 0
     /\ cnt_reseed' = cnt_reseed + 1

\* Mutant: a reseed is not counted.
CountPattern_SameSeed ==
  \/ /\ cnt < CntMax
     /\ cnt' = cnt + 1
     /\ UNCHANGED cnt_reseed
  \/ /\ cnt >= CntMax /\ cnt_reseed < CntReseedMax
     /\ cnt' = 0
     /\ UNCHANGED cnt_reseed

\* What S_Test writes to next_cnt and next_cnt_reseed once TEST is high.
CountPattern ==
  \/ /\ cnt < CntMax
     /\ cnt' = cnt + 1
     /\ UNCHANGED cnt_reseed
  \/ /\ cnt >= CntMax /\ cnt_reseed < CntReseedMax
     /\ cnt' = 0
     /\ cnt_reseed' = cnt_reseed + 1

\* TEST is low at the edge; when it fell in this very cycle, the latches
\* have already taken the advanced counters.
AbortTest ==
  /\ ~rst' /\ currState = "S_Test" /\ ~TEST'
  /\ currState' = "S_Wait"
  /\ \/ TEST /\ CountPattern
     \/ (~TEST \/ Exhausted) /\ UNCHANGED <<cnt, cnt_reseed>>
  /\ UNCHANGED cnt_chain

NextPattern ==
  /\ ~rst' /\ currState = "S_Test" /\ TEST'
  /\ CountPattern
  /\ currState' = IF cnt < CntMax THEN "S_capture" ELSE "S_Reseed"
  /\ UNCHANGED cnt_chain

Finish ==
  /\ ~rst' /\ currState = "S_Test" /\ TEST'
  /\ cnt >= CntMax /\ cnt_reseed >= CntReseedMax
  /\ currState' = "S_Go"
  /\ UNCHANGED <<cnt, cnt_reseed, cnt_chain>>

AbortReseed ==
  /\ ~rst' /\ currState = "S_Reseed" /\ ~TEST'
  /\ currState' = "S_Wait"
  /\ UNCHANGED <<cnt, cnt_reseed, cnt_chain>>

Reseed ==
  /\ ~rst' /\ currState = "S_Reseed" /\ TEST'
  /\ currState' = "S_capture"
  /\ UNCHANGED <<cnt, cnt_reseed, cnt_chain>>

\* Mutant: the verdict clears the counters.
Report_Clear ==
  /\ ~rst' /\ currState = "S_Go"
  /\ currState' = "S_Wait"
  /\ cnt' = 0 /\ cnt_reseed' = 0
  /\ UNCHANGED cnt_chain

Report ==
  /\ ~rst' /\ currState = "S_Go"
  /\ currState' = "S_Wait"
  /\ UNCHANGED <<cnt, cnt_reseed, cnt_chain>>

\* A rising edge of clk, for input levels fixed by the caller.
Clock ==
  \/ Reset \/ StayWaiting \/ Start \/ Shift \/ LastShift \/ Capture
  \/ AbortTest \/ NextPattern \/ Finish \/ AbortReseed \/ Reseed \/ Report

\* The environment moves the inputs at will.
Inputs ==
  /\ TEST' \in BOOLEAN
  /\ rst' \in BOOLEAN
  /\ MISR_OUT' \in Signatures

Next == Inputs /\ Clock

Spec == Init /\ [][Next]_vars

\* The clock never stops.
FairSpec == Spec /\ WF_vars(Next)

-----------------------------------------------------------------------------
(***************************************************************************)
(* A fill always starts from chain position zero, whatever was aborted     *)
(* before it: the chain counter is zero in every state but S_fill, so each *)
(* fill shifts exactly CntChainMax + 1 times.                              *)
(***************************************************************************)
FillsAreWhole == currState # "S_fill" => cnt_chain = 0

(***************************************************************************)
(* Patterns still to be started: what the counters encode.                 *)
(***************************************************************************)
PatternsLeft == (CntReseedMax - cnt_reseed) * (CntMax + 1) + (CntMax - cnt)

(***************************************************************************)
(* The counters are never cleared but by rst, so once a session has run to *)
(* its end every later one applies no pattern: with no patterns left, the  *)
(* controller captures nothing (a reseed already under way apart) and none *)
(* ever become left again.                                                 *)
(***************************************************************************)
NoPatternAfterEnd ==
  [][PatternsLeft = 0 /\ currState # "S_Reseed" /\ ~rst'
       => /\ currState' \notin {"S_capture", "S_Reseed"}
          /\ PatternsLeft' = 0]_vars

(***************************************************************************)
(* The abstract session the controller implements.                         *)
(***************************************************************************)
Phase == CASE currState = "S_Wait" -> "idle"
           [] currState = "S_Go" -> "verdict"
           [] OTHER -> "running"

Session == INSTANCE LbistSession
             WITH phase <- Phase, left <- PatternsLeft,
                  Total <- (CntReseedMax + 1) * (CntMax + 1) - 1

\* Every behaviour of the controller is a behaviour of the abstract session.
ImplementsSession == Session!Spec

(***************************************************************************)
(* A tester that holds TEST high and rst low gets a "finished" GO again    *)
(* and again, whatever it did before.                                      *)
(***************************************************************************)
HeldTestFinishes ==
  <>[](TEST /\ ~rst) => []<>(currState = "S_Test" /\ GO(TEST))

(***************************************************************************)
(* TEST is ignored while the chains are filled, but a tester that drops it *)
(* for good brings the controller back to S_Wait.                          *)
(***************************************************************************)
DroppedTestStops == <>[](~TEST) => <>[](currState = "S_Wait")
=============================================================================
