----------------------------- MODULE MisrAliasing -----------------------------
(***************************************************************************)
(* Two machines under test, a good one and a faulty one, each with its     *)
(* MISR.  At every clock the two see the same data or, while there are     *)
(* errors left, data that differ.  The question is which error sequences   *)
(* the signature can hide.                                                 *)
(***************************************************************************)
EXTENDS Misr

CONSTANT MaxErrors  \* bound: clocks with a wrong response

ASSUME MaxErrorsAssumption == MaxErrors \in Nat

VARIABLES
  good,    \* reg_outs of the fault free machine
  faulty,  \* reg_outs of the machine under test
  errors   \* clocks with a wrong response so far

vars == <<good, faulty, errors>>

TypeOK ==
  /\ good \in Registers
  /\ faulty \in Registers
  /\ errors \in 0..MaxErrors

Init ==
  /\ good = Seed
  /\ faulty = Seed
  /\ errors = 0

\* Both machines answer d, and the answers are compacted.
SameData ==
  \E d \in DataWords :
    /\ good' = MisrAfterEdge(good, FALSE, TRUE, d)
    /\ faulty' = MisrAfterEdge(faulty, FALSE, TRUE, d)
    /\ UNCHANGED errors

WrongData ==
  \E d, e \in DataWords :
    /\ d # e
    /\ errors < MaxErrors
    /\ good' = MisrAfterEdge(good, FALSE, TRUE, d)
    /\ faulty' = MisrAfterEdge(faulty, FALSE, TRUE, e)
    /\ errors' = errors + 1

\* The test input is low: the registers hold.
Hold ==
  \E d, e \in DataWords :
    /\ good' = MisrAfterEdge(good, FALSE, FALSE, d)
    /\ faulty' = MisrAfterEdge(faulty, FALSE, FALSE, e)
    /\ UNCHANGED errors

\* A reset clears both.
Clear ==
  \E d, e \in DataWords :
    /\ good' = MisrAfterEdge(good, TRUE, TRUE, d)
    /\ faulty' = MisrAfterEdge(faulty, TRUE, TRUE, e)
    /\ errors' = 0

Next == SameData \/ WrongData \/ Hold \/ Clear

Spec == Init /\ [][Next]_vars

-----------------------------------------------------------------------------
(***************************************************************************)
(* A response that was wrong in a single clock, in any number of bits, is  *)
(* never hidden, however many right responses follow: the signatures       *)
(* differ for ever.  Only a second wrong response may cancel the first.    *)
(***************************************************************************)
SingleErrorIsSeen ==
  errors = 1 => Signature(good) # Signature(faulty)
=============================================================================
