------------------------------ MODULE LbistBench ------------------------------
(***************************************************************************)
(* The self-tested core under its own testbench (process checker of        *)
(* bist/riscv_bist_testbench.vhd): test_mode rises with the end of reset,  *)
(* go_nogo is awaited, sampled one and a half periods later, and test_mode *)
(* falls.  The clock's edges and the testbench's waits interleave: the end *)
(* pulse is seen in the cycle of S_Test, the sample is taken in the middle *)
(* of the next cycle.  Where the testbench is absent a tester drives the   *)
(* core as it likes.                                                       *)
(***************************************************************************)
EXTENDS LbistTop

VARIABLES
  bench,  \* where the process is: "waiting", "sampling" or "done"; or "absent"
  failed  \* its assertion has reported "test failed"

benchVars == <<topVars, bench, failed>>

BenchInit ==
  /\ Init
  /\ bench \in {"waiting", "absent"}
  /\ failed = FALSE

\* go_nogo is low in the cycle that ends.
KeepWaiting ==
  /\ bench = "waiting" /\ ~Ctl!GO(TRUE)
  /\ test_mode' = TRUE
  /\ UNCHANGED <<bench, failed>>

\* go_nogo rose in the cycle that ends.
SeeEnd ==
  /\ bench = "waiting" /\ Ctl!GO(TRUE)
  /\ test_mode' = TRUE
  /\ bench' = "sampling"
  /\ UNCHANGED failed

\* In the middle of the cycle the assertion looks at go_nogo, and test_mode
\* falls.
Sample ==
  /\ bench = "sampling"
  /\ failed' = ~Ctl!GO(test_mode)
  /\ test_mode' = FALSE
  /\ bench' = "done"

Rest ==
  /\ bench = "done"
  /\ test_mode' = FALSE
  /\ UNCHANGED <<bench, failed>>

Testbench ==
  /\ KeepWaiting \/ SeeEnd \/ Sample \/ Rest
  /\ rst' = FALSE
  /\ Observe

NoTestbench ==
  /\ bench = "absent"
  /\ AnyTester
  /\ UNCHANGED <<bench, failed>>

BenchNext == (Testbench \/ NoTestbench) /\ Edge

\* The clock never stops.
BenchSpec == BenchInit /\ [][BenchNext]_benchVars /\ WF_benchVars(BenchNext)

-----------------------------------------------------------------------------
(***************************************************************************)
(* The one-cycle margins are right: the sample falls into S_Go, where GO   *)
(* means "passed", never into S_Test, where GO means "finished".           *)
(***************************************************************************)
SampleInGo == bench = "sampling" => currState = "S_Go"

(***************************************************************************)
(* The testbench fails the core exactly when the signature it can still    *)
(* read from the register is not the golden one.                           *)
(***************************************************************************)
VerdictIsComparison ==
  bench = "done" =>
    (failed <=> Sig!Signature(reg_outs) # GOLDEN_SIGNATURE)

\* The testbench comes to its end, for every defect.
BenchEnds == bench = "waiting" ~> bench = "done"
=============================================================================
