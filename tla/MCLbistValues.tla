---------------------------- MODULE MCLbistValues ----------------------------
(***************************************************************************)
(* A small self test: four chains of one or two cells, three seeds, a core *)
(* whose functional clock mixes neighbouring chains, and stuck-at defects  *)
(* of the first cell of a chain.                                           *)
(***************************************************************************)
EXTENDS Integers, TLC

MCTap == <<3, 2, 0, 0>>
MCMisrTaps == {1, 3}
MCChainLen == (0 :> 2) @@ (1 :> 1) @@ (2 :> 2) @@ (3 :> 2)
MCResetCells == [c \in 0..3 |-> [j \in 1..MCChainLen[c] |-> FALSE]]

Word(a, b, c, d) == (0 :> a) @@ (1 :> b) @@ (2 :> c) @@ (3 :> d)

\* Seed 0 is never loaded; the others have every position in use.
MCSeeds ==
  [k \in 0..15 |->
     CASE k = 1 -> Word(TRUE, FALSE, FALSE, FALSE)
       [] k = 2 -> Word(FALSE, TRUE, TRUE, FALSE)
       [] OTHER -> Word(FALSE, FALSE, TRUE, TRUE)]

\* The signature of the core without defect after a steady session.
MCGolden == Word(FALSE, TRUE, FALSE, FALSE)

MCNoDefect == <<4, FALSE>>  \* there is no chain 4
MCDefects == {MCNoDefect} \cup ((0..3) \X BOOLEAN)

\* A functional clock: cells take non-linear functions of their neighbours;
\* defect <<c, v>> makes the first cell of chain c stick at v.
MCRespond(ch, d) ==
  [c \in 0..3 |->
     [j \in 1..MCChainLen[c] |->
        IF d = <<c, FALSE>> /\ j = 1 THEN FALSE
        ELSE IF d = <<c, TRUE>> /\ j = 1 THEN TRUE
        ELSE LET r == ch[(c + 1) % 4]
                 l == ch[(c + 3) % 4]
             IN  (r[1] /\ ch[c][1]) # ~l[MCChainLen[(c + 3) % 4]]]]
=============================================================================
