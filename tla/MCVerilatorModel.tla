--------------------------- MODULE MCVerilatorModel ---------------------------
(***************************************************************************)
(* The model as it is built and as its testbench takes it to be built.     *)
(***************************************************************************)
EXTENDS VerilatorModel

\* top.sv leaves the core its own halt address and wires hart 0; main spins 2.
AsBuilt == [haltAddress |-> 437323776, hartId |-> 0, pulse |-> 2]

\* The halt address of the debug ROM, with either hart and a pulse that is too
\* short, long enough without a bubble, or with one.
AsMeant == [haltAddress : {STARTdebugPROGaddr}, hartId : {0, TestHart}, pulse : {2, 3, 4}]

MCWirings == {AsBuilt} \cup AsMeant
===============================================================================
