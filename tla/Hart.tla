---------------------------------- MODULE Hart ----------------------------------
(***************************************************************************)
(* What the core promises its program, whatever is in the pipeline: the    *)
(* instruction at pc is executed once, in program order; a trap finds in   *)
(* mepc, a debugger in dpc, the address of the first instruction that has  *)
(* not been executed; interrupts respect mstatus.mie and debug mode.       *)
(***************************************************************************)
EXTENDS HartProgram

VARIABLES
  pc,         \* the instruction to execute next
  debug,      \* debug mode
  mie, mpie,  \* of mstatus
  mepc, depc

vars == <<pc, debug, mie, mpie, mepc, depc>>

Init ==
  /\ pc = 0 /\ debug = FALSE
  /\ mie = FALSE /\ mpie = FALSE
  /\ mepc = 0 /\ depc = 0

\* Everything but returns, exceptions and what enters debug mode.
Execute ==
  /\ \E i \in InsnsAt(pc) :
        /\ i.op \notin {"illegal", "ecall", "ebreak", "mret", "dret"}
        /\ pc' = i.to
        /\ mie' = MieAfter(i.op, mie)
        /\ mepc' = IF i.op = "skip" THEN After(mepc) ELSE mepc
  /\ UNCHANGED <<debug, mpie, depc>>

Trap(handler) ==
  /\ mepc' = pc /\ pc' = handler
  /\ mpie' = mie /\ mie' = FALSE
  /\ UNCHANGED <<debug, depc>>

Exception ==
  /\ \E i \in InsnsAt(pc) : i.op \in {"illegal", "ecall", "ebreak"}
  /\ ~debug
  /\ Trap(ExcHandler)

Interrupt == mie /\ ~debug /\ Trap(IrqHandler)

Mret ==
  /\ \E i \in InsnsAt(pc) : i.op = "mret"
  /\ pc' = mepc
  /\ mie' = mpie /\ mpie' = TRUE
  /\ UNCHANGED <<debug, mepc, depc>>

Dret ==
  /\ debug /\ \E i \in InsnsAt(pc) : i.op = "dret"
  /\ pc' = depc /\ debug' = FALSE
  /\ UNCHANGED <<mie, mpie, mepc, depc>>

EnterDebug ==
  /\ ~debug /\ debug' = TRUE
  /\ depc' = pc /\ pc' = HaltAddress
  /\ UNCHANGED <<mie, mpie, mepc>>

\* ebreak in debug mode goes back to the start of the debug ROM.
Park ==
  /\ debug /\ \E i \in InsnsAt(pc) : i.op = "ebreak"
  /\ pc' = HaltAddress
  /\ UNCHANGED <<debug, mie, mpie, mepc, depc>>

Next ==
  Execute \/ Exception \/ Interrupt \/ Mret \/ Dret \/ EnterDebug \/ Park

Spec == Init /\ [][Next]_vars
===============================================================================
