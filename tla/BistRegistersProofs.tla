--------------------------- MODULE BistRegistersProofs ---------------------------
(***************************************************************************)
(* Theorems about the two registers of the self test, for every width and  *)
(* every choice of taps: the LFSR never locks up, the MISR never hides a   *)
(* single wrong response, whatever follows it.                             *)
(***************************************************************************)
EXTENDS LfsrFreeRun, MisrAliasing, TLAPS

(***************************************************************************)
(* The pattern generator, for both kinds of gates and taps that have the   *)
(* last bit once.                                                          *)
(***************************************************************************)
LEMMA ShiftedType ==
  ASSUME NEW w \in Words PROVE Shifted(w) \in Words
<1>1. Feedback(w) \in BOOLEAN
  BY DEF Feedback, Gate
<1>2. \A i \in Bits : i # 0 => i - 1 \in Bits
  BY WidthAssumption DEF Bits
<1> QED
  BY <1>1, <1>2 DEF Shifted, Words

\* All bits but the last move up by one, the feedback enters at bit zero.
LEMMA ShiftedBits ==
  ASSUME NEW w \in Words
  PROVE  /\ Shifted(w)[0] = Feedback(w)
         /\ \A i \in Bits : i # N_LFSR - 1 => Shifted(w)[i + 1] = w[i]
<1>1. 0 \in Bits
  BY WidthAssumption DEF Bits
<1>2. \A i \in Bits : i # N_LFSR - 1
        => i + 1 \in Bits /\ i + 1 # 0 /\ (i + 1) - 1 = i
  BY WidthAssumption DEF Bits
<1> QED
  BY <1>1, <1>2 DEF Shifted

(***************************************************************************)
(* Only the lock-up word shifts to the lock-up word: its other bits are    *)
(* given by the shift, and its last bit by the feedback.                   *)
(***************************************************************************)
LEMMA LockUpOnlyFromLockUp ==
  ASSUME NEW w \in Words, Shifted(w) = LockUp PROVE w = LockUp
<1>1. \A i \in Bits : i # N_LFSR - 1 => w[i] = Xnor
  <2> SUFFICES ASSUME NEW i \in Bits, i # N_LFSR - 1 PROVE w[i] = Xnor
    OBVIOUS
  <2>1. i + 1 \in Bits
    BY WidthAssumption DEF Bits
  <2>2. LockUp[i + 1] = Xnor
    BY <2>1 DEF LockUp
  <2> QED
    BY <2>2, ShiftedBits
<1>2. w[Tap[2]] = Xnor /\ w[Tap[3]] = Xnor /\ w[Tap[4]] = Xnor
  BY <1>1, TapAssumption
<1>3. Feedback(w) = Xnor
  <2>1. 0 \in Bits
    BY WidthAssumption DEF Bits
  <2>2. LockUp[0] = Xnor
    BY <2>1 DEF LockUp
  <2> QED
    BY <2>2, ShiftedBits
<1>4. w[N_LFSR - 1] \in BOOLEAN
  BY WidthAssumption DEF Words, Bits
<1>5. w[N_LFSR - 1] = Xnor
  <2>1. Gate(Gate(Gate(w[N_LFSR - 1], Xnor), Xnor), Xnor) = Xnor
    BY <1>2, <1>3, TapAssumption DEF Feedback
  <2>2. CASE Xnor = TRUE
    BY <2>1, <2>2, <1>4 DEF Gate
  <2>3. CASE Xnor = FALSE
    BY <2>1, <2>3, <1>4 DEF Gate
  <2> QED
    BY <2>2, <2>3, GateAssumption
<1>6. \A i \in Bits : w[i] = Xnor
  BY <1>1, <1>5
<1>7. w = [i \in Bits |-> w[i]]
  BY DEF Words
<1> QED
  BY <1>6, <1>7, Zenon DEF LockUp

\* The reset value is a word and not the lock-up word.
LEMMA ResetNotLocked == ResetWord \in Words /\ ResetWord # LockUp
<1>1. 0 \in Bits /\ N_LFSR - 1 \in Bits /\ N_LFSR - 1 # 0
  BY WidthAssumption DEF Bits
<1>2. ResetWord[0] = FALSE /\ ResetWord[N_LFSR - 1] = TRUE
  BY <1>1 DEF ResetWord
<1>3. LockUp[0] = LockUp[N_LFSR - 1]
  BY <1>1 DEF LockUp
<1>4. ResetWord \in Words
  BY DEF ResetWord, Words
<1> QED
  BY <1>2, <1>3, <1>4

-----------------------------------------------------------------------------
LfsrInv == t_prn \in Words /\ NeverLocked

LEMMA InitLfsr == FreeRunInit => LfsrInv
  BY ResetNotLocked DEF FreeRunInit, LfsrInv, NeverLocked

LEMMA NextLfsr == LfsrInv /\ [FreeRunNext]_freeRunVars => LfsrInv'
<1> SUFFICES ASSUME LfsrInv, [FreeRunNext]_freeRunVars PROVE LfsrInv'
  OBVIOUS
<1>1. CASE UNCHANGED freeRunVars
  BY <1>1 DEF freeRunVars, LfsrInv, NeverLocked
<1>2. CASE FreeRunNext
  <2>1. t_prn' = Shifted(t_prn)
    BY <1>2 DEF FreeRunNext, AfterEdge
  <2> QED
    BY <2>1, ShiftedType, LockUpOnlyFromLockUp DEF LfsrInv, NeverLocked
<1> QED
  BY <1>1, <1>2

(***************************************************************************)
(* A register that was reset never reaches the word it could not leave.    *)
(***************************************************************************)
THEOREM NeverLocksUp == FreeRunSpec => []NeverLocked
  BY InitLfsr, NextLfsr, PTL DEF FreeRunSpec, LfsrInv

-----------------------------------------------------------------------------
(***************************************************************************)
(* The signature register.                                                 *)
(***************************************************************************)
LEMMA CompactedType ==
  ASSUME NEW r \in Registers, NEW d \in DataWords
  PROVE  Compacted(r, d) \in Registers
<1>1. \A i \in Lines : Xnors(r, d, i) \in BOOLEAN
  BY DEF Xnors, Lines
<1>2. \A i \in 0..N_MISR : i # 0 => i - 1 \in Lines
  BY MisrWidthAssumption DEF Lines
<1> QED
  BY <1>1, <1>2 DEF Compacted, Registers

\* Line i of the compacted word is bit i + 1 of the register.
LEMMA CompactedLine ==
  ASSUME NEW r, NEW d, NEW i \in Lines
  PROVE  Compacted(r, d)[i + 1] = Xnors(r, d, i)
<1>1. i + 1 \in 0..N_MISR /\ i + 1 # 0 /\ (i + 1) - 1 = i
  BY MisrWidthAssumption DEF Lines
<1> QED
  BY <1>1 DEF Compacted

\* Bit zero is kept.
LEMMA CompactedZero ==
  ASSUME NEW r, NEW d PROVE Compacted(r, d)[0] = r[0]
  BY MisrWidthAssumption DEF Compacted

\* Equal words have equal bits, and registers with equal bits are equal.
LEMMA SameBits ==
  ASSUME NEW r \in Registers, NEW s \in Registers,
         r[0] = s[0], \A i \in Lines : r[i + 1] = s[i + 1]
  PROVE  r = s
<1>1. \A k \in 0..N_MISR : r[k] = s[k]
  <2> SUFFICES ASSUME NEW k \in 0..N_MISR, k # 0 PROVE r[k] = s[k]
    OBVIOUS
  <2>1. k - 1 \in Lines /\ (k - 1) + 1 = k
    BY MisrWidthAssumption DEF Lines
  <2> QED
    BY <2>1
<1>2. /\ r = [k \in 0..N_MISR |-> r[k]]
      /\ s = [k \in 0..N_MISR |-> s[k]]
  BY DEF Registers
<1> QED
  BY <1>1, <1>2, Zenon

(***************************************************************************)
(* A shift loses nothing: for the same data, different registers become    *)
(* different registers.                                                    *)
(***************************************************************************)
LEMMA StateInjective ==
  ASSUME NEW r \in Registers, NEW s \in Registers, NEW d \in DataWords,
         r[0] = s[0], Compacted(r, d) = Compacted(s, d)
  PROVE  r = s
<1>1. \A i \in Lines : Xnors(r, d, i) = Xnors(s, d, i)
  BY CompactedLine
<1>2. 0 \in Lines /\ N_MISR \in 0..N_MISR
  BY MisrWidthAssumption DEF Lines
<1>3. r[N_MISR] = s[N_MISR]
  <2>1. (r[N_MISR] <=> d[0]) = (s[N_MISR] <=> d[0])
    BY <1>1, <1>2 DEF Xnors
  <2>2. r[N_MISR] \in BOOLEAN /\ s[N_MISR] \in BOOLEAN /\ d[0] \in BOOLEAN
    BY <1>2 DEF Registers, DataWords
  <2> QED
    BY <2>1, <2>2
<1>4. \A i \in Lines : i # 0 => r[i] = s[i]
  <2> SUFFICES ASSUME NEW i \in Lines, i # 0 PROVE r[i] = s[i]
    OBVIOUS
  <2>1. i \in 0..N_MISR
    BY MisrWidthAssumption DEF Lines
  <2>2. r[i] \in BOOLEAN /\ s[i] \in BOOLEAN /\ d[i] \in BOOLEAN
    BY <2>1 DEF Registers, DataWords
  <2>3. s[N_MISR] \in BOOLEAN
    BY <1>2 DEF Registers
  <2>4. CASE i \in MisrTaps
    <3>1. ((s[N_MISR] <=> d[i]) <=> r[i]) = ((s[N_MISR] <=> d[i]) <=> s[i])
      BY <1>1, <1>3, <2>4 DEF Xnors
    <3> QED
      BY <3>1, <2>2, <2>3
  <2>5. CASE i \notin MisrTaps
    <3>1. (r[i] <=> d[i]) = (s[i] <=> d[i])
      BY <1>1, <2>5 DEF Xnors
    <3> QED
      BY <3>1, <2>2
  <2> QED
    BY <2>4, <2>5
<1>5. \A i \in Lines : r[i + 1] = s[i + 1]
  <2> SUFFICES ASSUME NEW i \in Lines PROVE r[i + 1] = s[i + 1]
    OBVIOUS
  <2>1. i + 1 = N_MISR \/ (i + 1 \in Lines /\ i + 1 # 0)
    BY MisrWidthAssumption DEF Lines
  <2> QED
    BY <2>1, <1>3, <1>4
<1> QED
  BY <1>5, SameBits

(***************************************************************************)
(* No response bit is ignored: for the same register, different data give  *)
(* different registers.                                                    *)
(***************************************************************************)
LEMMA DataInjective ==
  ASSUME NEW r \in Registers, NEW d \in DataWords, NEW e \in DataWords,
         Compacted(r, d) = Compacted(r, e)
  PROVE  d = e
<1>1. \A i \in Lines : d[i] = e[i]
  <2> SUFFICES ASSUME NEW i \in Lines PROVE d[i] = e[i]
    OBVIOUS
  <2>1. Xnors(r, d, i) = Xnors(r, e, i)
    BY CompactedLine
  <2>2. i \in 0..N_MISR /\ N_MISR \in 0..N_MISR
    BY MisrWidthAssumption DEF Lines
  <2>3. r[i] \in BOOLEAN /\ r[N_MISR] \in BOOLEAN
    BY <2>2 DEF Registers
  <2>4. d[i] \in BOOLEAN /\ e[i] \in BOOLEAN
    BY DEF DataWords
  <2>5. CASE i = 0
    <3>1. (r[N_MISR] <=> d[i]) = (r[N_MISR] <=> e[i])
      BY <2>1, <2>5 DEF Xnors
    <3> QED
      BY <3>1, <2>3, <2>4
  <2>6. CASE i # 0 /\ i \in MisrTaps
    <3>1. ((r[N_MISR] <=> d[i]) <=> r[i]) = ((r[N_MISR] <=> e[i]) <=> r[i])
      BY <2>1, <2>6 DEF Xnors
    <3> QED
      BY <3>1, <2>3, <2>4
  <2>7. CASE i # 0 /\ i \notin MisrTaps
    <3>1. (r[i] <=> d[i]) = (r[i] <=> e[i])
      BY <2>1, <2>7 DEF Xnors
    <3> QED
      BY <3>1, <2>3, <2>4
  <2> QED
    BY <2>5, <2>6, <2>7
<1> QED
  BY <1>1 DEF DataWords

-----------------------------------------------------------------------------
(***************************************************************************)
(* The inductive invariant keeps the two registers themselves apart, not   *)
(* only the signatures: that is what the injectivity lemmas preserve.  Bit *)
(* 0 is in no signature, so it must be known not to tell them apart.       *)
(***************************************************************************)
BitZeroUnused == good[0] = faulty[0] /\ ~good[0]

\* No error, no difference: both must start alike for a single error.
NoFalseAlarm == errors = 0 => good = faulty

PairInv ==
  /\ TypeOK
  /\ BitZeroUnused
  /\ NoFalseAlarm
  /\ errors = 1 => good # faulty

LEMMA SeedType == Seed \in Registers
  BY DEF Seed, Registers

LEMMA InitPair == Init => PairInv
<1>1. ~Seed[0]
  BY MisrWidthAssumption DEF Seed
<1> QED
  BY <1>1, SeedType, MaxErrorsAssumption
  DEF Init, PairInv, TypeOK, BitZeroUnused, NoFalseAlarm

LEMMA NextPair == PairInv /\ [Next]_vars => PairInv'
<1> SUFFICES ASSUME PairInv, [Next]_vars PROVE PairInv'
  OBVIOUS
<1> USE DEF PairInv, TypeOK, BitZeroUnused, NoFalseAlarm
<1>1. CASE UNCHANGED vars
  BY <1>1 DEF vars
<1>2. CASE SameData
  <2>1. PICK d \in DataWords : /\ good' = Compacted(good, d)
                               /\ faulty' = Compacted(faulty, d)
                               /\ errors' = errors
    BY <1>2 DEF SameData, MisrAfterEdge
  <2>2. good' \in Registers /\ faulty' \in Registers
    BY <2>1, CompactedType
  <2>3. good'[0] = good[0] /\ faulty'[0] = faulty[0]
    BY <2>1, CompactedZero
  <2>4. good # faulty => good' # faulty'
    BY <2>1, StateInjective
  <2> QED
    BY <2>1, <2>2, <2>3, <2>4
<1>3. CASE WrongData
  <2>1. PICK d \in DataWords, e \in DataWords :
           /\ d # e
           /\ good' = Compacted(good, d)
           /\ faulty' = Compacted(faulty, e)
           /\ errors < MaxErrors /\ errors' = errors + 1
    BY <1>3 DEF WrongData, MisrAfterEdge
  <2>2. good' \in Registers /\ faulty' \in Registers
    BY <2>1, CompactedType
  <2>3. good'[0] = good[0] /\ faulty'[0] = faulty[0]
    BY <2>1, CompactedZero
  <2>4. good = faulty => good' # faulty'
    BY <2>1, DataInjective
  <2>5. errors' \in 0..MaxErrors /\ errors' # 0 /\ (errors' = 1 => errors = 0)
    BY <2>1, MaxErrorsAssumption
  <2> QED
    BY <2>2, <2>3, <2>4, <2>5
<1>4. CASE Hold
  BY <1>4 DEF Hold, MisrAfterEdge
<1>5. CASE Clear
  <2>1. good' = Seed /\ faulty' = Seed /\ errors' = 0
    BY <1>5 DEF Clear, MisrAfterEdge
  <2>2. ~Seed[0]
    BY MisrWidthAssumption DEF Seed
  <2> QED
    BY <2>1, <2>2, SeedType, MaxErrorsAssumption
<1> QED
  BY <1>1, <1>2, <1>3, <1>4, <1>5 DEF Next

\* Registers that agree in bit zero and differ have different signatures.
LEMMA DifferentSignatures == PairInv => SingleErrorIsSeen
<1> SUFFICES ASSUME PairInv, errors = 1, Signature(good) = Signature(faulty)
             PROVE  FALSE
  BY DEF SingleErrorIsSeen
<1>1. \A i \in Lines : good[i + 1] = faulty[i + 1]
  BY DEF Signature
<1>2. good = faulty
  BY <1>1, SameBits DEF PairInv, TypeOK, BitZeroUnused
<1> QED
  BY <1>2 DEF PairInv

(***************************************************************************)
(* A response that is wrong in a single clock is never hidden by the       *)
(* signature, whatever the width, the taps and the responses that follow.  *)
(***************************************************************************)
THEOREM SingleErrorSeen == Spec => []SingleErrorIsSeen
  BY InitPair, NextPair, DifferentSignatures, PTL DEF Spec
================================================================================
