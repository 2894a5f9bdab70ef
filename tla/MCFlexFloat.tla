----------------------------- MODULE MCFlexFloat -----------------------------
(***************************************************************************)
(* Two suites: an operation on numbers made from any word, after another   *)
(* on the first of them or not, and sessions of operations on objects of   *)
(* every format whose numbers do not matter, for the statistics.           *)
(***************************************************************************)
EXTENDS FlexFloat

CONSTANTS a, b, c

\* The first two collide in the tables, the third does not.
Format ==
  (a :> [exp_bits |-> 3, frac_bits |-> 2]) @@ (b :> [exp_bits |-> 3, frac_bits |-> 1])
    @@ (c :> [exp_bits |-> 2, frac_bits |-> 3])

MCTypes == {Format[o] : o \in {a, b, c}}

Indifferent == PACK(0, INF_EXP, 16)   \* a NaN

\* For the second operand, a small and a large number and a NaN.
Second == {PACK(1, 4, 24), PACK(0, 8, 24), Indifferent}

MCWords(o) == CASE o = a -> Word [] o = b -> Second [] o = c -> {Indifferent}

VARIABLE suite

MCInit ==
  /\ Init
  /\ \/ suite = "numbers" /\ left \in {1, 2}
     \/ suite = "statistics" /\ left = MaxOps /\ mode = FE_TONEAREST

\* Numbers: a and then b of one format, and one counted operation; before b is
\* made there may be a cast of a in place.
Numbers ==
  /\ suite = "numbers"
  /\ obj[c] = Unmade /\ Next /\ obj'[c] = Unmade
  /\ obj' # obj \/ left' < left
  /\ left = 2 => obj'[b] = Unmade /\ (left' < left => obj'[a].desc # obj[a].desc)
  /\ (obj'[b] # obj[b] /\ left' = left) => (Made(a) /\ obj'[b].desc = obj[a].desc)

\* Sessions: every object in its format and one and the same NaN.
Sessions ==
  /\ suite = "statistics"
  /\ IF \A o \in Objects : Made(o) THEN Next
     ELSE /\ Make /\ UNCHANGED mode
          /\ \A o \in Objects :
               obj'[o] # obj[o] => obj'[o] = [value |-> Indifferent, desc |-> Format[o]]

MCNext == (Numbers \/ Sessions) /\ UNCHANGED suite

MCSpec == MCInit /\ [][MCNext]_<<vars, suite>>
===============================================================================
