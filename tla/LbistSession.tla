---------------------------- MODULE LbistSession ----------------------------
(***************************************************************************)
(* What a user of the logic BIST is promised: a session applies a fixed    *)
(* number of patterns, one after the other, may be interrupted between two *)
(* patterns and resumed later, announces its end only when no pattern is   *)
(* left, and then gives its verdict exactly once.                          *)
(***************************************************************************)
EXTENDS Integers

CONSTANT Total  \* patterns of a whole session

VARIABLES
  phase,  \* "idle", "running" or "verdict"
  left,   \* patterns still to be started
  rst     \* the reset input, which the user drives

\* What the session itself decides.
vars == <<phase, left>>

TypeOK ==
  /\ phase \in {"idle", "running", "verdict"}
  /\ left \in 0..Total

Init == phase = "idle" /\ left = Total

\* Only a reset makes patterns left again.
Reset == rst' /\ phase' = "idle" /\ left' = Total

Start ==
  /\ ~rst'
  /\ phase = "idle" /\ phase' = "running"
  /\ UNCHANGED left

\* The next pattern is applied.
Apply ==
  /\ ~rst'
  /\ phase = "running" /\ left > 0
  /\ left' = left - 1
  /\ UNCHANGED phase

\* The tester interrupts; the pattern it interrupts may count as applied.
Interrupt ==
  /\ ~rst'
  /\ phase = "running"
  /\ phase' = "idle"
  /\ \/ UNCHANGED left
     \/ left > 0 /\ left' = left - 1

Finish ==
  /\ ~rst'
  /\ phase = "running" /\ left = 0
  /\ phase' = "verdict"
  /\ UNCHANGED left

Close ==
  /\ ~rst'
  /\ phase = "verdict" /\ phase' = "idle"
  /\ UNCHANGED left

Next == Reset \/ Start \/ Apply \/ Interrupt \/ Finish \/ Close

Spec == Init /\ [][Next]_vars
=============================================================================
