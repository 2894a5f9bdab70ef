------------------------------ MODULE HartProgram ------------------------------
(***************************************************************************)
(* The programs the controller is examined with.  An instruction is what   *)
(* the decoder tells the controller about it (op) and the address at which *)
(* the program goes on (to); what stands at an address of the program is   *)
(* left open, so that every program over these instructions is covered.    *)
(* Addresses count instructions: the program, which goes round, then a     *)
(* handler of exceptions that skips the instruction and returns, one of    *)
(* interrupts that returns, and the debug ROM.                             *)
(***************************************************************************)
EXTENDS Integers

CONSTANTS
  Main,     \* length of the program
  MainOps,  \* what stands in it
  RomOps,   \* what stands at the start of the debug ROM
  Targets   \* of its jumps and branches

Ops == {"op", "mem", "jump", "branch", "set", "clear", "fencei", "wfi", "elw",
        "illegal", "ecall", "ebreak", "mret", "dret", "skip", "stepon", "stepoff"}

ASSUME ProgramAssumption ==
  /\ Main \in Nat \ {0}
  /\ MainOps \subseteq Ops \ {"mret", "dret", "skip", "stepon", "stepoff"}
  /\ RomOps \subseteq {"op", "mem", "wfi", "stepon", "stepoff"}
  /\ Targets \subseteq 0 .. Main - 1

ExcHandler == Main
IrqHandler == Main + 2
HaltAddress == Main + 3
Addr == 0 .. Main + 5

After(a) == IF a = Main - 1 THEN 0 ELSE a + 1

OpsAt(a) ==
  CASE a < Main -> MainOps
    [] a = ExcHandler -> {"skip"}
    [] a \in {ExcHandler + 1, IrqHandler} -> {"mret"}
    [] a = HaltAddress -> RomOps
    [] a = HaltAddress + 1 -> {"dret", "ebreak"}
    [] OTHER -> {}

\* A branch is not taken when it goes on behind itself.
Successors(op, a) ==
  CASE op = "jump" -> Targets
    [] op = "branch" -> Targets \cup {After(a)}
    [] OTHER -> {After(a)}

InsnsAt(a) == UNION {{[op |-> o, to |-> t] : t \in Successors(o, a)} : o \in OpsAt(a)}

\* mstatus.mie after an instruction that may write it.
MieAfter(op, mie) == CASE op = "set" -> TRUE [] op = "clear" -> FALSE [] OTHER -> mie
===============================================================================
