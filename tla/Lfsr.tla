--------------------------------- MODULE Lfsr ---------------------------------
(***************************************************************************)
(* The linear feedback shift register of bist/LFSR/lfsr.vhd.  A bit is a   *)
(* Boolean, a register a function on its indices; index 0 is the bit the   *)
(* feedback enters, N_LFSR - 1 the one that falls out (std_logic_vector    *)
(* (0 to N_LFSR-1)).  The code has two configurations: 64 bits with taps   *)
(* 63, 62, 60, 59 joined by xnor, and 16 bits with taps 15, 4, 2, 1 joined *)
(* by xor.                                                                 *)
(***************************************************************************)
EXTENDS Integers

CONSTANTS
  N_LFSR,  \* width of the register
  Tap,     \* Tap[1..4], the four taps
  Xnor     \* TRUE when the feedback gates are xnor, FALSE when they are xor

Bits == 0..(N_LFSR - 1)

ASSUME WidthAssumption == N_LFSR \in Nat /\ N_LFSR > 1
\* In both configurations the last bit is the first tap and no other tap.
ASSUME TapAssumption ==
  /\ Tap \in [1..4 -> Bits]
  /\ Tap[1] = N_LFSR - 1
  /\ \A k \in 2..4 : Tap[k] # N_LFSR - 1
ASSUME GateAssumption == Xnor \in BOOLEAN

Words == [Bits -> BOOLEAN]

\* Mutant: the two kinds of gates are swapped.
Gate_Swapped(a, b) == IF Xnor THEN ~(a <=> b) ELSE a <=> b

Gate(a, b) == IF Xnor THEN a <=> b ELSE ~(a <=> b)

\* Mutant: a tap is forgotten.
Feedback_ThreeTaps(t_prn) ==
  Gate(Gate(t_prn[Tap[1]], t_prn[Tap[2]]), t_prn[Tap[3]])

Feedback(t_prn) ==
  Gate(Gate(Gate(t_prn[Tap[1]], t_prn[Tap[2]]), t_prn[Tap[3]]), t_prn[Tap[4]])

Shifted(t_prn) ==
  [i \in Bits |-> IF i = 0 THEN Feedback(t_prn) ELSE t_prn[i - 1]]

\* to_unsigned(1): only the rightmost bit is set.
ResetWord == [i \in Bits |-> i = N_LFSR - 1]

\* What a rising edge leaves in the register; a load has priority.
AfterEdge(t_prn, LD, EN, DIN) ==
  IF LD THEN DIN ELSE IF EN THEN Shifted(t_prn) ELSE t_prn

\* The one word a shift never leaves: all ones with xnor, all zeros with xor.
LockUp == [i \in Bits |-> Xnor]
=============================================================================
