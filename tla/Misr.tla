--------------------------------- MODULE Misr ---------------------------------
(***************************************************************************)
(* The multiple input signature register of bist/MISR/misr.vhd and the     *)
(* phase shifter of bist/PHSHIFT/xorGrid.vhd.  A bit is a Boolean; both    *)
(* are downto vectors, so index 0 is the rightmost bit.  The register has  *)
(* one bit more than the signature: reg_outs(0) is never shifted.          *)
(***************************************************************************)
EXTENDS Integers

CONSTANTS
  N_MISR,   \* width of the data and of the signature
  MisrTaps  \* the bits that also get the last bit: {60, 61, 63} for 64 bits

Lines == 0..(N_MISR - 1)

ASSUME MisrWidthAssumption == N_MISR \in Nat \ {0}
ASSUME MisrTapsAssumption == MisrTaps \subseteq Lines \ {0}

DataWords == [Lines -> BOOLEAN]
Registers == [0..N_MISR -> BOOLEAN]

\* The generic SEED.
Seed == [i \in 0..N_MISR |-> FALSE]

\* Mutant: line 0 forgets the feedback.
Xnors_NoFeedback(reg_outs, DATA_IN, i) ==
  IF i = 0 THEN DATA_IN[0]
  ELSE IF i \in MisrTaps
  THEN (reg_outs[N_MISR] <=> DATA_IN[i]) <=> reg_outs[i]
  ELSE reg_outs[i] <=> DATA_IN[i]

\* The combinational process: bit i of xnors.
Xnors(reg_outs, DATA_IN, i) ==
  IF i = 0 THEN reg_outs[N_MISR] <=> DATA_IN[0]
  ELSE IF i \in MisrTaps
  THEN (reg_outs[N_MISR] <=> DATA_IN[i]) <=> reg_outs[i]
  ELSE reg_outs[i] <=> DATA_IN[i]

Compacted(reg_outs, DATA_IN) ==
  [i \in 0..N_MISR |->
     IF i = 0 THEN reg_outs[0] ELSE Xnors(reg_outs, DATA_IN, i - 1)]

\* What a rising edge leaves in the register.
MisrAfterEdge(reg_outs, rst, EN_i, DATA_IN) ==
  IF rst THEN Seed
  ELSE IF EN_i THEN Compacted(reg_outs, DATA_IN) ELSE reg_outs

Signature(reg_outs) == [i \in Lines |-> reg_outs[i + 1]]

-----------------------------------------------------------------------------
\* The phase shifter: line i carries the exclusive or of two neighbours.
PREG_OUT(LFSR_OUT) ==
  [i \in Lines |-> ~(LFSR_OUT[i] <=> LFSR_OUT[(i + 1) % N_MISR])]
=============================================================================
