------------------------------ MODULE LfsrFreeRun ------------------------------
(***************************************************************************)
(* An LFSR that is reset once and then clocked with EN = '1' and LD = '0', *)
(* as instance lfsri of bist/riscv_bist_testbench.vhd, which drives the    *)
(* functional inputs of the core during the test.                          *)
(***************************************************************************)
EXTENDS Lfsr

VARIABLES
  t_prn,  \* the register
  age     \* shifts since the register last held ResetWord, up to MaxAge

freeRunVars == <<t_prn, age>>

\* Bound of age: one more than the longest period a register can have.
MaxAge == 2^N_LFSR

FreeRunInit ==
  /\ t_prn = ResetWord
  /\ age = 0

FreeRunNext ==
  /\ t_prn' = AfterEdge(t_prn, FALSE, TRUE, LockUp)
  /\ age' = IF t_prn' = ResetWord THEN 0
            ELSE IF age < MaxAge THEN age + 1 ELSE age

FreeRunSpec == FreeRunInit /\ [][FreeRunNext]_freeRunVars /\ WF_freeRunVars(FreeRunNext)

-----------------------------------------------------------------------------
\* The register never reaches the word it could not leave.
NeverLocked == t_prn # LockUp

(***************************************************************************)
(* The taps give the longest period a register of this width can have:     *)
(* the register comes back to its reset value after 2^N_LFSR - 1 shifts,   *)
(* having met every word but LockUp, and not before.                       *)
(***************************************************************************)
FullPeriod == [][t_prn' = ResetWord <=> age = 2^N_LFSR - 2]_freeRunVars
=============================================================================
