---------------------------- MODULE CoreController ----------------------------
(***************************************************************************)
(* The main controller (rtl/riscv_controller.sv), the interrupt controller *)
(* (rtl/riscv_int_controller.sv) and what they do to the pipeline: which   *)
(* instruction leaves ID, which PC is saved and where the core goes on.    *)
(* The core stays in machine mode and no fetch or data access is refused:  *)
(* that is PULP_SECURE = 0, or a program that sets up neither user mode    *)
(* nor memory protection.  Operands, the IF stage's buffers and the stages *)
(* behind EX are reduced to when they are ready, which is open.            *)
(***************************************************************************)
EXTENDS HartProgram

CONSTANT Requests  \* what the environment does, see Pins

ASSUME ControllerAssumption ==
  Requests \subseteq {"irq", "halt", "withdraw while busy", "halt while stepping"}

VARIABLES
  ctrl_fsm_cs, debug_mode_q, illegal_insn_q, jump_done_q,
  instr_valid_irq_flush_q,   \* the instruction in ID is to be decoded again
  exc_ctrl_cs,               \* the interrupt controller
  mie, mpie, mepc, depc, step,
  id,     \* the IF/ID registers: valid, pc and the instruction
  pc_if,  \* the address IF has or fetches
  ex,     \* the instruction in EX
  wb,     \* an access in WB has no answer yet
  irq_i, debug_req_i,
  due,    \* history: the instruction that must be executed next
  elw,    \* history: the p.elw in ID has left it and was not replayed
  since   \* history: instructions executed since a single step began, up to 2

fsmVars == <<ctrl_fsm_cs, debug_mode_q, illegal_insn_q, jump_done_q, instr_valid_irq_flush_q, exc_ctrl_cs>>
csrVars == <<mie, mpie, mepc, depc, step>>
pipeVars == <<id, pc_if, ex, wb>>
history == <<due, elw, since>>
coreVars == <<fsmVars, csrVars, pipeVars, history>>
vars == <<coreVars, irq_i, debug_req_i>>

Bubble == [op |-> "none", taken |-> FALSE, to |-> 0]

Init ==
  /\ ctrl_fsm_cs = "RESET" /\ debug_mode_q = FALSE /\ illegal_insn_q = FALSE
  /\ jump_done_q = FALSE /\ instr_valid_irq_flush_q = FALSE
  /\ exc_ctrl_cs = "IDLE"
  /\ mie = FALSE /\ mpie = FALSE /\ mepc = 0 /\ depc = 0 /\ step = FALSE
  /\ id = [valid |-> FALSE, pc |-> 0, op |-> "op", to |-> 0]
  /\ pc_if = 0 /\ ex = Bubble /\ wb = FALSE
  /\ irq_i = FALSE /\ debug_req_i = FALSE
  /\ due = 0 /\ elw = FALSE /\ since = 0

-----------------------------------------------------------------------------
(***************************************************************************)
(* The wires of a cycle.  Its inputs i: done, the access in EX is granted; *)
(* rvalid, the answer in WB is there; stall, the instruction in ID waits   *)
(* for an operand, jr, for the target it jumps to; fetched, IF has an      *)
(* instruction.                                                            *)
(***************************************************************************)
Inputs == [done : BOOLEAN, rvalid : BOOLEAN, stall : BOOLEAN, jr : BOOLEAN, fetched : BOOLEAN]

IsSlow(op) == op \in {"mem", "elw"}

Possible(i) ==
  /\ i.done => IsSlow(ex.op)
  /\ i.rvalid => wb
  /\ i.stall => IsSlow(ex.op) \/ (wb /\ ~i.rvalid) \/ i.jr
  /\ i.jr => i.stall /\ id.op = "jump" /\ (wb \/ ex.op # "none")
  /\ i.fetched => ctrl_fsm_cs \in {"DECODE", "FIRST_FETCH"}   \* IF is halted or redirected in the others

ExValid(i) == (IsSlow(ex.op) => i.done) /\ (wb => i.rvalid)
ExReady(i) == ExValid(i) \/ ex.op = "branch"
IdReady(i) == ExReady(i) /\ ~i.stall

BranchTaken == ex.op = "branch" /\ ex.taken

\* What the controller tells the stages.
Wires(halt_if, halt_id, decoding, set, target) ==
  [halt_if |-> halt_if, halt_id |-> halt_id, decoding |-> decoding, set |-> set, target |-> target]
Halted == Wires(TRUE, TRUE, FALSE, FALSE, 0)
Redirected(target) == Wires(TRUE, TRUE, FALSE, TRUE, target)
Running == Wires(FALSE, FALSE, FALSE, FALSE, 0)
SetPc(target) == Wires(FALSE, FALSE, FALSE, TRUE, target)

Takes(i, w) == i.fetched /\ IdReady(i) /\ ~w.halt_if /\ ~w.set

NextId(i, w, insn) ==
  IF Takes(i, w) THEN [valid |-> TRUE, pc |-> pc_if, op |-> insn.op, to |-> insn.to]
  ELSE IF IdReady(i) \/ w.halt_id \/ BranchTaken THEN [id EXCEPT !.valid = FALSE]
  ELSE id

NextPcIf(i, w) == IF w.set THEN w.target ELSE IF Takes(i, w) THEN After(pc_if) ELSE pc_if

Issues(i, w) == IdReady(i) /\ ~w.halt_id /\ w.decoding

\* A branch takes its target along, the handler the address it returns to.
Issued ==
  [op |-> id.op, taken |-> id.op = "branch" /\ id.to # After(id.pc),
   to |-> CASE id.op = "branch" -> id.to [] id.op = "skip" -> After(mepc) [] OTHER -> 0]

NextEx(i, w) ==
  IF Issues(i, w) THEN Issued
  ELSE IF ExReady(i) THEN Bubble ELSE ex

NextWb(i) == IF wb /\ ~i.rvalid THEN TRUE ELSE IsSlow(ex.op) /\ i.done

Pipeline(i, w) ==
  /\ \/ ~Takes(i, w) /\ id' = NextId(i, w, id)
     \/ Takes(i, w) /\ \E insn \in InsnsAt(pc_if) : id' = NextId(i, w, insn)
  /\ pc_if' = NextPcIf(i, w)
  /\ ex' = NextEx(i, w)
  /\ wb' = NextWb(i)

-----------------------------------------------------------------------------
(***************************************************************************)
(* The interrupt controller, and the registers that instructions in EX     *)
(* write.                                                                  *)
(***************************************************************************)
Interrupts(ack, kill) ==
  exc_ctrl_cs' =
    CASE exc_ctrl_cs = "IDLE" -> IF mie /\ irq_i THEN "IRQ_PENDING" ELSE "IDLE"
      [] exc_ctrl_cs = "IRQ_PENDING" ->
           IF ack THEN "IRQ_DONE" ELSE IF kill THEN "IDLE" ELSE "IRQ_PENDING"
      [] exc_ctrl_cs = "IRQ_DONE" -> "IDLE"

Quiet == Interrupts(FALSE, FALSE)
IrqReq == exc_ctrl_cs = "IRQ_PENDING"

MepcAfterEx == IF ex.op = "skip" THEN ex.to ELSE mepc
StepAfterEx == CASE ex.op = "stepon" -> TRUE [] ex.op = "stepoff" -> FALSE [] OTHER -> step

WriteStep == step' = StepAfterEx
WriteCsrs == mie' = MieAfter(ex.op, mie) /\ mepc' = MepcAfterEx /\ WriteStep /\ UNCHANGED <<mpie, depc>>

\* A trap's save goes before a write.
Save(address) ==
  /\ mepc' = address
  /\ mpie' = mie /\ mie' = FALSE
  /\ WriteStep /\ UNCHANGED depc

SaveDebug(address) ==
  /\ depc' = address
  /\ mie' = MieAfter(ex.op, mie) /\ mepc' = MepcAfterEx /\ WriteStep /\ UNCHANGED mpie

RestoreMret ==
  /\ mie' = mpie /\ mpie' = TRUE
  /\ mepc' = MepcAfterEx /\ WriteStep /\ UNCHANGED depc

NoReplay == instr_valid_irq_flush_q' = FALSE

\* Mutant: the instruction that was halted for the interrupt is not decoded again.
Replays_Never(taken) == instr_valid_irq_flush_q' = FALSE

Replays(taken) == instr_valid_irq_flush_q' = ~taken

Stepping == step /\ ~debug_mode_q

\* The instruction in ID takes effect; out of turn it leads nowhere.
Astray == -1
Executed(next) ==
  /\ due' = IF id.pc = due THEN next ELSE Astray
  /\ elw' = FALSE
  /\ since' = IF Stepping THEN IF since < 2 THEN since + 1 ELSE 2 ELSE 0
Trapped(handler) == due' = handler /\ elw' = FALSE /\ UNCHANGED since
NothingExecuted == UNCHANGED history

-----------------------------------------------------------------------------
(***************************************************************************)
(* DECODE, in the order of the code.                                       *)
(***************************************************************************)
Decodes == ctrl_fsm_cs = "DECODE" /\ ~BranchTaken /\ (id.valid \/ instr_valid_irq_flush_q)
TakesIrq == IrqReq /\ mie /\ ~debug_req_i /\ ~debug_mode_q
TakesDebug == debug_req_i /\ ~debug_mode_q
DecodesInsn == Decodes /\ ~TakesIrq /\ ~TakesDebug

DecodeBranchTaken(i) ==
  /\ ctrl_fsm_cs = "DECODE" /\ BranchTaken
  /\ Pipeline(i, SetPc(ex.to))
  /\ jump_done_q' = (jump_done_q /\ ~IdReady(i))
  /\ NoReplay /\ Quiet /\ WriteCsrs /\ NothingExecuted
  /\ UNCHANGED <<ctrl_fsm_cs, debug_mode_q, illegal_insn_q>>

DecodeNothing(i) ==
  /\ ctrl_fsm_cs = "DECODE" /\ ~BranchTaken /\ ~Decodes
  /\ Pipeline(i, Running)
  /\ jump_done_q' = (jump_done_q /\ ~IdReady(i))
  /\ NoReplay /\ Quiet /\ WriteCsrs /\ NothingExecuted
  /\ UNCHANGED <<ctrl_fsm_cs, debug_mode_q, illegal_insn_q>>

DecodeRequest(i) ==
  /\ Decodes /\ (TakesIrq \/ TakesDebug)
  /\ ctrl_fsm_cs' = IF TakesIrq THEN "IRQ_FLUSH" ELSE "DBG_FLUSH"
  /\ Pipeline(i, Wires(TRUE, TRUE, TRUE, FALSE, 0))
  /\ jump_done_q' = (jump_done_q /\ ~IdReady(i))
  /\ NoReplay /\ Quiet /\ WriteCsrs /\ NothingExecuted
  /\ UNCHANGED <<debug_mode_q, illegal_insn_q>>

\* Instructions that do not leave ID: the pipeline is flushed for them.
Stops == {"illegal", "ecall", "ebreak", "wfi", "fencei", "mret", "dret"}
Faults == {"illegal", "ecall", "ebreak"}
Parks == id.op = "ebreak" /\ debug_mode_q

\* A single step leaves for the debugger when the instruction is through.
Stepped(i, next) ==
  IF ~(Stepping /\ IdReady(i)) THEN next
  ELSE IF id.op \in Faults \cup {"mret"} THEN "FLUSH_EX"
  ELSE IF id.op = "branch" THEN "DBG_WAIT_BRANCH"
  ELSE "DBG_FLUSH"

DecodeStop(i) ==
  /\ DecodesInsn /\ id.op \in Stops
  /\ ctrl_fsm_cs' = IF Parks THEN "DBG_FLUSH" ELSE Stepped(i, "FLUSH_EX")
  /\ illegal_insn_q' = (illegal_insn_q \/ id.op = "illegal")
  /\ Pipeline(i, Wires(TRUE, TRUE, TRUE, FALSE, 0))
  /\ CASE id.op \in Faults /\ ~Parks -> Save(id.pc) /\ Executed(ExcHandler)
       [] id.op \in {"wfi", "fencei"} -> WriteCsrs /\ Executed(id.to)
       [] OTHER -> WriteCsrs /\ NothingExecuted
  /\ jump_done_q' = (jump_done_q /\ ~IdReady(i))
  /\ NoReplay /\ Interrupts(FALSE, IrqReq)
  /\ UNCHANGED debug_mode_q

\* CSR accesses (csr_status_i) and p.elw leave ID with IF halted.
Drains == {"set", "clear", "stepon", "stepoff", "elw"}

Jumps(i) == id.op = "jump" /\ ~i.jr /\ ~jump_done_q

DecodeRun(i) ==
  /\ DecodesInsn /\ id.op \notin Stops
  /\ ctrl_fsm_cs' =
       Stepped(i, IF id.op \in Drains /\ IdReady(i)
                  THEN IF id.op = "elw" THEN "ELW_EXE" ELSE "FLUSH_EX" ELSE "DECODE")
  /\ Pipeline(i, Wires(id.op \in Drains \/ Stepping, FALSE, TRUE, Jumps(i), id.to))
  /\ jump_done_q' = ((jump_done_q \/ Jumps(i)) /\ ~IdReady(i))
  /\ CASE IdReady(i) /\ id.op # "elw" -> Executed(id.to)
       [] IdReady(i) /\ id.op = "elw" -> elw' = TRUE /\ UNCHANGED <<due, since>>
       [] OTHER -> NothingExecuted
  /\ NoReplay /\ Interrupts(FALSE, IrqReq) /\ WriteCsrs
  /\ UNCHANGED <<debug_mode_q, illegal_insn_q>>

Decode(i) ==
  \/ DecodeBranchTaken(i) \/ DecodeNothing(i) \/ DecodeRequest(i)
  \/ DecodeStop(i) \/ DecodeRun(i)

-----------------------------------------------------------------------------
(***************************************************************************)
(* The other states.                                                       *)
(***************************************************************************)
\* FLUSH_EX waits for EX, ELW_EXE for the event that p.elw loads.
FlushEx(i) ==
  /\ ctrl_fsm_cs \in {"FLUSH_EX", "ELW_EXE"}
  /\ ctrl_fsm_cs' = CASE ctrl_fsm_cs = "FLUSH_EX" /\ ExValid(i) -> "FLUSH_WB"
                      [] ctrl_fsm_cs = "ELW_EXE" /\ IdReady(i) -> IF TakesDebug THEN "DBG_FLUSH" ELSE "IRQ_FLUSH"
                      [] OTHER -> ctrl_fsm_cs
  /\ Pipeline(i, Halted)
  /\ Quiet /\ WriteCsrs /\ NothingExecuted
  /\ UNCHANGED <<debug_mode_q, illegal_insn_q>>

\* Mutant: a single step over a trap or a return goes on.
AfterTrap_Runs == "DECODE"

AfterTrap == IF Stepping THEN "DBG_TAKEN_IF" ELSE "DECODE"

FlushWb(i) ==
  /\ ctrl_fsm_cs = "FLUSH_WB"
  /\ illegal_insn_q' = FALSE
  /\ LET faulted == illegal_insn_q \/ id.op \in {"ebreak", "ecall"}
     IN /\ ctrl_fsm_cs' =
             CASE faulted -> AfterTrap
               [] ~faulted /\ id.op \in {"mret", "dret"} -> "XRET_JUMP"
               [] ~faulted /\ id.op = "wfi" -> "WAIT_SLEEP"
               [] OTHER -> "DECODE"
        /\ Pipeline(i, CASE faulted -> Redirected(ExcHandler)
                         [] ~faulted /\ id.op = "fencei" -> Redirected(After(id.pc))
                         [] OTHER -> Halted)
        /\ IF ~faulted /\ id.op = "mret" THEN RestoreMret /\ Executed(mepc)
           ELSE WriteCsrs /\ NothingExecuted
  /\ Quiet
  /\ UNCHANGED debug_mode_q

XretJump(i) ==
  /\ ctrl_fsm_cs = "XRET_JUMP"
  /\ ctrl_fsm_cs' = AfterTrap
  /\ IF id.op = "mret"
     THEN Pipeline(i, SetPc(mepc)) /\ NothingExecuted /\ UNCHANGED debug_mode_q
     ELSE Pipeline(i, SetPc(depc)) /\ Executed(depc) /\ debug_mode_q' = FALSE
  /\ Quiet /\ WriteCsrs
  /\ UNCHANGED illegal_insn_q

IrqFlush(i) ==
  /\ ctrl_fsm_cs = "IRQ_FLUSH"
  /\ ctrl_fsm_cs' = IF irq_i /\ mie THEN "IRQ_TAKEN_ID" ELSE "DECODE"
  /\ Replays(irq_i /\ mie)
  /\ Interrupts(FALSE, ~(irq_i /\ mie))
  /\ Pipeline(i, Halted)
  /\ IF elw /\ ~(irq_i /\ mie) THEN Executed(id.to) ELSE NothingExecuted
  /\ WriteCsrs
  /\ UNCHANGED <<debug_mode_q, illegal_insn_q>>

IrqTaken(i) ==
  /\ ctrl_fsm_cs \in {"IRQ_TAKEN_ID", "IRQ_TAKEN_IF"}
  /\ ctrl_fsm_cs' = "DECODE"
  /\ Save(IF ctrl_fsm_cs = "IRQ_TAKEN_ID" THEN id.pc ELSE pc_if)
  /\ Pipeline(i, SetPc(IrqHandler))
  /\ Interrupts(TRUE, FALSE)
  /\ Trapped(IrqHandler)
  /\ UNCHANGED <<debug_mode_q, illegal_insn_q>>

DbgWaitBranch(i) ==
  /\ ctrl_fsm_cs = "DBG_WAIT_BRANCH"
  /\ ctrl_fsm_cs' = "DBG_FLUSH"
  /\ Pipeline(i, Wires(TRUE, FALSE, FALSE, BranchTaken, ex.to))
  /\ Quiet /\ WriteCsrs /\ NothingExecuted
  /\ UNCHANGED <<debug_mode_q, illegal_insn_q>>

DbgFlush(i) ==
  /\ ctrl_fsm_cs = "DBG_FLUSH"
  /\ ctrl_fsm_cs' = IF step /\ ~debug_mode_q /\ id.op # "elw" THEN "DBG_TAKEN_IF" ELSE "DBG_TAKEN_ID"
  /\ Pipeline(i, Halted)
  /\ Quiet /\ WriteCsrs /\ NothingExecuted
  /\ UNCHANGED <<debug_mode_q, illegal_insn_q>>

\* The PC of ID is saved only for a request that is still there.
DbgTaken(i) ==
  /\ ctrl_fsm_cs \in {"DBG_TAKEN_ID", "DBG_TAKEN_IF"}
  /\ ctrl_fsm_cs' = "DECODE" /\ debug_mode_q' = TRUE
  /\ CASE ctrl_fsm_cs = "DBG_TAKEN_IF" -> SaveDebug(pc_if)
       [] ctrl_fsm_cs = "DBG_TAKEN_ID" /\ TakesDebug -> SaveDebug(id.pc)
       [] OTHER -> WriteCsrs
  /\ Pipeline(i, SetPc(HaltAddress))
  /\ due' = HaltAddress /\ elw' = FALSE /\ since' = 0
  /\ Quiet
  /\ UNCHANGED illegal_insn_q

Start(i) ==
  /\ \/ ctrl_fsm_cs = "RESET" /\ ctrl_fsm_cs' \in {"RESET", "BOOT_SET"} /\ Pipeline(i, Halted)
     \/ ctrl_fsm_cs = "BOOT_SET" /\ ctrl_fsm_cs' = "FIRST_FETCH" /\ Pipeline(i, SetPc(0))
  /\ Quiet /\ WriteCsrs /\ NothingExecuted
  /\ UNCHANGED <<debug_mode_q, illegal_insn_q>>

FirstFetch(i) ==
  /\ ctrl_fsm_cs = "FIRST_FETCH"
  /\ ctrl_fsm_cs' = CASE TakesDebug -> "DBG_TAKEN_IF"
                      [] ~TakesDebug /\ IrqReq /\ mie -> "IRQ_TAKEN_IF"
                      [] OTHER -> IF IdReady(i) THEN "DECODE" ELSE "FIRST_FETCH"
  /\ Pipeline(i, IF TakesDebug \/ (IrqReq /\ mie) THEN Halted ELSE Running)
  /\ Quiet /\ WriteCsrs /\ NothingExecuted
  /\ UNCHANGED <<debug_mode_q, illegal_insn_q>>

\* Mutant: a debugger does not wake the core.
Wakes_NotHalt == irq_i \/ debug_mode_q \/ step

Wakes == irq_i \/ debug_req_i \/ debug_mode_q \/ step

Sleep(i) ==
  /\ \/ ctrl_fsm_cs = "WAIT_SLEEP" /\ ctrl_fsm_cs' = "SLEEP"
     \/ /\ ctrl_fsm_cs = "SLEEP"
        /\ ctrl_fsm_cs' = IF Wakes THEN "FIRST_FETCH" ELSE "SLEEP"
  /\ Pipeline(i, Halted)
  /\ Quiet /\ WriteCsrs /\ NothingExecuted
  /\ UNCHANGED <<debug_mode_q, illegal_insn_q>>

Others(i) ==
  \/ FlushEx(i) \/ FlushWb(i) \/ XretJump(i) \/ IrqTaken(i) \/ DbgWaitBranch(i)
  \/ DbgFlush(i) \/ DbgTaken(i) \/ Start(i) \/ FirstFetch(i) \/ Sleep(i)

Clock(i) ==
  \/ Decode(i)
  \/ /\ (Others(i) /\ NoReplay) \/ IrqFlush(i)
     /\ jump_done_q' = (jump_done_q /\ ~IdReady(i))

(***************************************************************************)
(* A debugger holds its request until the core is in debug mode.  Two      *)
(* things the controller does not stand are options: an interrupt that is  *)
(* withdrawn in IRQ_FLUSH while EX or WB may hold up the replay, and a     *)
(* halt request during a single step.                                      *)
(***************************************************************************)
Pins ==
  /\ irq_i' \in IF "irq" \in Requests THEN BOOLEAN ELSE {FALSE}
  /\ debug_req_i' \in IF "halt" \in Requests THEN BOOLEAN ELSE {FALSE}
  /\ debug_req_i /\ ~debug_mode_q => debug_req_i'
  /\ debug_req_i' /\ step' => "halt while stepping" \in Requests
  /\ ctrl_fsm_cs' = "IRQ_FLUSH" /\ ~irq_i' =>
       "withdraw while busy" \in Requests \/ ~(IsSlow(ex'.op) \/ wb')

Tick(i) == Possible(i) /\ Clock(i) /\ Pins

Next == \E i \in Inputs : Tick(i)

Spec == Init /\ [][Next]_vars

\* All that a cycle may wait for has come.
Best ==
  [done |-> IsSlow(ex.op), rvalid |-> wb, stall |-> FALSE, jr |-> FALSE,
   fetched |-> ctrl_fsm_cs \in {"DECODE", "FIRST_FETCH"}]

\* The clock goes on; nothing makes the pins change.
FairSpec == Spec /\ WF_coreVars(Tick(Best) /\ ctrl_fsm_cs' # "RESET")

-----------------------------------------------------------------------------
(***************************************************************************)
(* Whatever is in the pipeline, the core does what Hart promises: each     *)
(* instruction takes effect once and in its turn, and an interrupt, an     *)
(* exception or a halt saves the address of the first one that has not.    *)
(* A CSR has the value that an instruction in EX is about to write.        *)
(***************************************************************************)
Architecture == INSTANCE Hart
  WITH pc <- due, debug <- debug_mode_q, mie <- MieAfter(ex.op, mie), mepc <- MepcAfterEx
ImplementsHart == Architecture!Spec

\* A single step executes one instruction: jumps, returns and those that trap included.
StepIsOne == Stepping => since <= 1

(***************************************************************************)
(* No halt request and no single step lasts for ever outside debug mode,   *)
(* which the debugger waits for and only a debugger ends a step in; and no *)
(* interrupt that stays is ignored while it is enabled, asleep or not.     *)
(***************************************************************************)
RequestsAreServed ==
  /\ []<>(debug_req_i => debug_mode_q)
  /\ []<>~Stepping
  /\ []<>~(irq_i /\ mie /\ ~debug_mode_q)
===============================================================================
