-------------------------- MODULE InstructionStream --------------------------
(***************************************************************************)
(* What the fetch path promises the rest of the core: instructions are     *)
(* executed in program order.  The next one is at the address the last     *)
(* change of the PC gave, or behind the last instruction executed, or,     *)
(* when that was the last of a hardware loop that still has iterations,    *)
(* at the start of the loop.                                               *)
(***************************************************************************)
EXTENDS Naturals

CONSTANTS Halves, Compressed, Setups

VARIABLES
    at,         \* the last instruction (done), or the next one
    start, end, count   \* the registers of the two hardware loops

vars == <<at, start, end, count>>

Addr == 0..(Halves - 1)
After(a) == (a + IF a \in Compressed THEN 1 ELSE 2) % Halves

Ending == {k \in 0..1 : at.done /\ at.pc = end[k] /\ count[k] > 1}
Jumping == IF 0 \in Ending THEN 0 ELSE 1

Following ==
    IF Ending # {} THEN start[Jumping] ELSE IF at.done THEN After(at.pc) ELSE at.pc

Counted ==
    IF Ending # {} THEN [count EXCEPT ![Jumping] = @ - 1] ELSE count

Init ==
    /\ at = [pc |-> 0, done |-> FALSE]
    /\ start = [k \in 0..1 |-> 0] /\ end = [k \in 0..1 |-> 0] /\ count = [k \in 0..1 |-> 0]

SetupAt(a) == {s \in Setups : s.at = a}

\* The registers of the loops after a loop instruction s, on counters c.
Write(s, c) ==
    /\ start' = [start EXCEPT ![s.reg] = After(s.at)]
    /\ end'   = [end EXCEPT ![s.reg] = s.end]
    /\ count' = [c EXCEPT ![s.reg] = s.count]
Keep(c) == count' = c /\ UNCHANGED <<start, end>>

Execute ==
    /\ at' = [pc |-> Following, done |-> TRUE]
    /\ IF SetupAt(Following) = {} THEN Keep(Counted)
       ELSE \E s \in SetupAt(Following) : Write(s, Counted)

\* The next instruction is stopped before it is executed; a loop
\* instruction may have written the registers, and will write them again.
Stop ==
    /\ at' = [pc |-> Following, done |-> FALSE]
    /\ Keep(Counted) \/ \E s \in SetupAt(Following) : Write(s, Counted)

\* A loop instruction that is not done yet has written the registers.
SetUp ==
    /\ \E s \in SetupAt(Following) : Write(s, count)
    /\ UNCHANGED at

\* The next instruction is a jump, or the PC is set from outside.
Redirect ==
    /\ \E a \in Addr : at' = [pc |-> a, done |-> FALSE]
    /\ Keep(Counted)

Next == Execute \/ Stop \/ SetUp \/ Redirect

Spec == Init /\ [][Next]_vars
=============================================================================
