-------------------------- MODULE MCMemoryPipeline --------------------------
(* Programs for MemoryPipeline.  The memory is 12 bytes (3 words) with     *)
(* distinct bytes, some of them negative; x and y hold distinct bytes too. *)
EXTENDS MemoryPipeline

MCMem  == [k \in 0..11 |-> IF k % 3 = 1 THEN 200 + k ELSE 20 + k]
MCRegs == {"x", "y"}
MCData == [r \in MCRegs |-> [l \in Lane |-> IF r = "x" THEN 101 + l ELSE 151 + l]]

LoadOf(t, s, p, o, r)  == [op |-> "load", type |-> t, sext |-> s, post |-> p, off |-> o, reg |-> r]
StoreOf(t, p, o, r)    == [op |-> "store", type |-> t, post |-> p, off |-> o, reg |-> r]
MoveOf(d, s)           == [op |-> "move", dst |-> d, src |-> s]
PointTo(a)             == [op |-> "point", val |-> a]
NotTaken               == [op |-> "branch"]

(* Every size, sign and alignment, plain and post-incremented; a word has  *)
(* no sign to extend.                                                      *)
Kinds == { k \in Types \X BOOLEAN : k[1] = "W" => ~k[2] }
Accesses ==
    { LoadOf(k[1], k[2], FALSE, o, "x") : k \in Kinds, o \in {0, 1, 2, 3} } \cup
    { LoadOf(k[1], k[2], TRUE, 3, "x")  : k \in Kinds } \cup
    { StoreOf(t, FALSE, o, "x")   : t \in Types, o \in {0, 1, 2, 3} } \cup
    { StoreOf(t, TRUE, 3, "x")    : t \in Types } \cup
    { PointTo(11) }

(* Few addresses, every dependency between neighbouring instructions.      *)
Hazards ==
    { LoadOf("W", FALSE, FALSE, 0, "x"), LoadOf("H", TRUE, TRUE, 3, "y"),
      LoadOf("B", TRUE, FALSE, 1, "y"), StoreOf("W", FALSE, 5, "x"),
      StoreOf("H", TRUE, 1, "y"), MoveOf("x", "y"), MoveOf("y", "x"), PointTo(7), NotTaken }

(* One run for two suites of programs, told apart by a variable that never *)
(* changes: two accesses of any kind, or four instructions in each other's *)
(* way.                                                                    *)
VARIABLE suite

Program == [accesses |-> Accesses, hazards |-> Hazards]
Length  == [accesses |-> 2, hazards |-> 4]

MCInstrs == Accesses \cup Hazards

MCInit == Init /\ suite \in DOMAIN Program

MCCycle(g, v, n) ==
    /\ n # Bubble => issued < Length[suite]
    /\ Cycle(g, v, n)
    /\ n # Bubble => issued' < Length[suite]
    /\ UNCHANGED suite

MCNext     == \E g, v \in BOOLEAN : \E n \in Program[suite] \cup {Bubble} : MCCycle(g, v, n)
MCGranted  == \E v \in BOOLEAN : \E n \in Program[suite] \cup {Bubble} : MCCycle(TRUE, v, n)
MCAnswered == \E g \in BOOLEAN : \E n \in Program[suite] \cup {Bubble} : MCCycle(g, TRUE, n)

mcVars == <<vars, suite>>

MCSpec == /\ MCInit /\ [][MCNext]_mcVars
          /\ WF_mcVars(MCNext) /\ SF_mcVars(MCGranted) /\ SF_mcVars(MCAnswered)
=============================================================================
