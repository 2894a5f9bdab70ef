---------------------------- MODULE MCBistRegisters ----------------------------
(***************************************************************************)
(* The two registers of the self test, each on its own: the LFSR running   *)
(* freely and a pair of MISRs.  Neither drives the other here, so one      *)
(* moves while the other is as after the reset.                            *)
(***************************************************************************)
EXTENDS LfsrFreeRun, MisrAliasing

RegistersInit == Init /\ FreeRunInit

RegistersNext ==
  \/ age = 0 /\ Next /\ UNCHANGED freeRunVars
  \/ good = Seed /\ faulty = Seed /\ errors = 0 /\ FreeRunNext /\ UNCHANGED vars

RegistersSpec == RegistersInit /\ [][RegistersNext]_<<vars, freeRunVars>>

-----------------------------------------------------------------------------
\* The taps of the 16 bit configuration of lfsr.vhd.
MCTap == <<15, 4, 2, 1>>

\* A 4 bit MISR with an untapped line, tapped lines and the feedback line.
MCTaps == {1, 3}
===============================================================================
