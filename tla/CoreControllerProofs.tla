--------------------------- MODULE CoreControllerProofs --------------------------
(***************************************************************************)
(* A single step executes one instruction: for every program, every order  *)
(* of interrupts and halt requests, every delay of memory and fetch.       *)
(* And the controller implements Hart: for every program without p.elw,    *)
(* with no wfi in the debug ROM, under every request of the interface.     *)
(***************************************************************************)
EXTENDS CoreController, TLAPS

PipeTypes ==
  /\ id \in [valid : BOOLEAN, pc : Int, op : Ops, to : Int]
  /\ ex \in [op : Ops \cup {"none"}, taken : BOOLEAN, to : Int]
  /\ pc_if \in Int /\ wb \in BOOLEAN

CsrTypes == mepc \in Int /\ depc \in Int /\ step \in BOOLEAN

Values ==
  /\ PipeTypes /\ CsrTypes
  /\ debug_mode_q \in BOOLEAN /\ illegal_insn_q \in BOOLEAN
  /\ instr_valid_irq_flush_q \in BOOLEAN
  /\ elw \in BOOLEAN /\ since \in 0 .. 2

DebugStates == {"DBG_WAIT_BRANCH", "DBG_FLUSH", "DBG_TAKEN_ID", "DBG_TAKEN_IF"}

\* ID holds an instruction, or one that is to be decoded again, in DECODE only.
IdInDecode == id.valid \/ instr_valid_irq_flush_q => ctrl_fsm_cs = "DECODE"

\* Nothing is in EX when it has been flushed.
ExFlushed == ctrl_fsm_cs \in {"FLUSH_WB", "XRET_JUMP"} => ex = Bubble

\* Single steps are turned on in FLUSH_EX, before anything is stepped.
StepBegins == ex.op = "stepon" /\ ~step => ctrl_fsm_cs = "FLUSH_EX" /\ since = 0

\* Where the controller may be with a p.elw that has left ID.
ElwPlace ==
  elw => ctrl_fsm_cs \in {"ELW_EXE", "IRQ_FLUSH", "IRQ_TAKEN_ID", "DBG_FLUSH",
                          "DBG_TAKEN_ID", "DBG_TAKEN_IF"}
NoElwStepped == Stepping => ctrl_fsm_cs # "ELW_EXE" /\ ~(ctrl_fsm_cs = "IRQ_FLUSH" /\ elw)

(***************************************************************************)
(* The instruction that is stepped finds nothing in EX or WB it would have *)
(* to wait for: a wfi or fence.i that did would not lead to the debugger.  *)
(***************************************************************************)
SteppedAlone ==
  Stepping /\ ctrl_fsm_cs \notin DebugStates => ~IsSlow(ex.op) /\ ex.op \notin {"branch", "stepoff"}
WbEmpty ==
  Stepping /\ (ctrl_fsm_cs = "IRQ_FLUSH" \/ id.valid \/ instr_valid_irq_flush_q) => ~wb

\* Once it has been executed, the controller is on its way to the debugger.
Faulted == illegal_insn_q \/ id.op \in {"ebreak", "ecall"}
Leaving ==
  \/ ctrl_fsm_cs \in DebugStates
  \/ ctrl_fsm_cs \in {"FLUSH_EX", "FLUSH_WB"} /\ Faulted
  \/ ctrl_fsm_cs = "XRET_JUMP" /\ id.op = "mret"
OnlyLeaves == Stepping /\ since # 0 => since = 1 /\ Leaving

\* The inductive invariant.
Places ==
  /\ IdInDecode /\ ExFlushed /\ StepBegins /\ ElwPlace
  /\ NoElwStepped /\ SteppedAlone /\ WbEmpty /\ OnlyLeaves
IInv == Values /\ Places

LEMMA BubbleType == Bubble \in [op : Ops \cup {"none"}, taken : BOOLEAN, to : Int] /\ Bubble.op = "none"
  BY DEF Bubble

LEMMA InitInv == Init => IInv
<1> SUFFICES ASSUME Init PROVE IInv
  OBVIOUS
<1>1. Values
  <2>1. "op" \in Ops
    BY DEF Ops
  <2>2. /\ FALSE \in BOOLEAN /\ 0 \in Int /\ 0 \in 0 .. 2
        /\ [valid |-> FALSE, pc |-> 0, op |-> "op", to |-> 0]
             \in [valid : BOOLEAN, pc : Int, op : Ops, to : Int]
    BY <2>1
  <2> QED
    BY <2>2, BubbleType, Zenon DEF Init, Values, PipeTypes, CsrTypes
<1>2. ex.op = "none" /\ ~Stepping
  BY DEF Init, Bubble, Stepping
<1>3. IdInDecode /\ ElwPlace /\ ExFlushed
  BY DEF Init, IdInDecode, ElwPlace, ExFlushed
<1> QED
  BY <1>1, <1>2, <1>3
  DEF IInv, Places, StepBegins, NoElwStepped, SteppedAlone, WbEmpty, OnlyLeaves

LEMMA InvGivesStepIsOne == IInv => StepIsOne
  BY DEF IInv, Values, Places, OnlyLeaves, StepIsOne

-----------------------------------------------------------------------------
(***************************************************************************)
(* What a cycle does to the pipeline, for the wires of each kind of state. *)
(***************************************************************************)
LEMMA InsnType ==
  ASSUME NEW a, a \in Int, NEW insn \in InsnsAt(a) PROVE insn.op \in Ops /\ insn.to \in Int
<1>1. PICK o \in OpsAt(a) : insn \in {[op |-> o, to |-> t] : t \in Successors(o, a)}
  BY DEF InsnsAt
<1>2. PICK t \in Successors(o, a) : insn = [op |-> o, to |-> t]
  BY <1>1
<1>3. o \in Ops
  BY <1>1, ProgramAssumption DEF OpsAt, Ops
<1>4. t \in Int
  BY <1>2, ProgramAssumption DEF Successors, After
<1> QED
  BY <1>2, <1>3, <1>4

\* ID is left, with what it held, and EX gets nothing.
LeftAsItIs(i) ==
  /\ id' = id \/ id' = [id EXCEPT !.valid = FALSE]
  /\ ex' = IF ExReady(i) THEN Bubble ELSE ex
  /\ wb' = NextWb(i)

LEMMA HaltedPipe ==
  ASSUME PipeTypes, NEW i \in Inputs, NEW decoding, NEW set,
         NEW target, target \in Int, Pipeline(i, Wires(TRUE, TRUE, decoding, set, target))
  PROVE  PipeTypes' /\ LeftAsItIs(i) /\ id' = [id EXCEPT !.valid = FALSE]
  BY BubbleType
  DEF PipeTypes, Pipeline, Wires, Takes, NextId, NextPcIf, NextEx, NextWb, Issues, Inputs, LeftAsItIs

LEMMA SetPipe ==
  ASSUME PipeTypes, NEW i \in Inputs, NEW target \in Int, Pipeline(i, SetPc(target))
  PROVE  PipeTypes' /\ LeftAsItIs(i)
  BY BubbleType
  DEF PipeTypes, Pipeline, SetPc, Wires, Takes, NextId, NextPcIf, NextEx, NextWb, Issues, Inputs, LeftAsItIs

LEMMA AfterInt == \A a \in Int : After(a) \in Int
  BY DEF After

LEMMA RunningPipe ==
  ASSUME PipeTypes, NEW i \in Inputs, Pipeline(i, Running)
  PROVE  /\ PipeTypes'
         /\ ~IdReady(i) => LeftAsItIs(i)
         /\ ex' = (IF ExReady(i) THEN Bubble ELSE ex) /\ wb' = NextWb(i)
<1>1. CASE Takes(i, Running)
  <2>1. PICK insn \in InsnsAt(pc_if) : id' = NextId(i, Running, insn)
    BY <1>1 DEF Pipeline
  <2>2. insn.op \in Ops /\ insn.to \in Int
    BY <2>1, InsnType DEF PipeTypes
  <2> QED
    BY <1>1, <2>1, <2>2, BubbleType, AfterInt
    DEF PipeTypes, Pipeline, Running, Wires, Takes, NextId, NextPcIf, NextEx, NextWb, Issues, Inputs
<1>2. CASE ~Takes(i, Running)
  BY <1>2, BubbleType
  DEF PipeTypes, Pipeline, Running, Wires, NextId, NextPcIf, NextEx, NextWb, Issues, Inputs, LeftAsItIs
<1> QED
  BY <1>1, <1>2

\* DecodeRun: IF may be halted, ID passes its instruction on when it is ready.
LEMMA RunPipe ==
  ASSUME PipeTypes, CsrTypes, NEW i \in Inputs, NEW halt_if, NEW set, NEW target \in Int,
         Pipeline(i, Wires(halt_if, FALSE, TRUE, set, target))
  PROVE  /\ PipeTypes'
         /\ ex' = (IF IdReady(i) THEN Issued ELSE IF ExReady(i) THEN Bubble ELSE ex)
         /\ wb' = NextWb(i)
         /\ ~IdReady(i) \/ halt_if => id' = id \/ id' = [id EXCEPT !.valid = FALSE]
         /\ IdReady(i) /\ halt_if => ~id'.valid
<1> DEFINE w == Wires(halt_if, FALSE, TRUE, set, target)
<1>1. Issued \in [op : Ops \cup {"none"}, taken : BOOLEAN, to : Int]
  BY AfterInt DEF Issued, PipeTypes, CsrTypes
<1>2. CASE Takes(i, w)
  <2>1. PICK insn \in InsnsAt(pc_if) : id' = NextId(i, w, insn)
    BY <1>2 DEF Pipeline
  <2>2. insn.op \in Ops /\ insn.to \in Int
    BY <2>1, InsnType DEF PipeTypes
  <2> QED
    BY <1>1, <1>2, <2>1, <2>2, BubbleType, AfterInt
    DEF PipeTypes, Pipeline, Wires, Takes, NextId, NextPcIf, NextEx, NextWb, Issues, Inputs
<1>3. CASE ~Takes(i, w)
  BY <1>1, <1>3, BubbleType
  DEF PipeTypes, Pipeline, Wires, NextId, NextPcIf, NextEx, NextWb, Issues, Inputs
<1> QED
  BY <1>2, <1>3

LEMMA BranchPipe ==
  ASSUME PipeTypes, NEW i \in Inputs, NEW set, NEW target \in Int,
         Pipeline(i, Wires(TRUE, FALSE, FALSE, set, target))
  PROVE  PipeTypes' /\ LeftAsItIs(i)
  BY BubbleType
  DEF PipeTypes, Pipeline, Wires, Takes, NextId, NextPcIf, NextEx, NextWb, Issues, Inputs, LeftAsItIs

LEMMA CsrTyped ==
  ASSUME PipeTypes, CsrTypes
  PROVE  /\ WriteStep => step' \in BOOLEAN
         /\ WriteCsrs => CsrTypes'
         /\ RestoreMret => CsrTypes'
         /\ \A a \in Int : Save(a) \/ SaveDebug(a) => CsrTypes'
  BY DEF PipeTypes, CsrTypes, WriteStep, WriteCsrs, RestoreMret, Save, SaveDebug, StepAfterEx, MepcAfterEx

-----------------------------------------------------------------------------
(***************************************************************************)
(* Each state of the controller keeps the invariant.                       *)
(***************************************************************************)
LEMMA HistoryTyped ==
  ASSUME elw \in BOOLEAN, since \in 0 .. 2
  PROVE  /\ NothingExecuted => elw' \in BOOLEAN /\ since' \in 0 .. 2
         /\ \A next : Executed(next) => ~elw' /\ elw' \in BOOLEAN /\ since' \in 0 .. 2
         /\ \A next : Executed(next) /\ ~Stepping => since' = 0
         /\ \A next : Executed(next) /\ since = 0 => since' \in {0, 1}
         /\ \A handler : Trapped(handler) => ~elw' /\ elw' \in BOOLEAN /\ since' = since
<1>1. /\ NothingExecuted => elw' = elw /\ since' = since
      /\ \A handler : Trapped(handler) => elw' = FALSE /\ since' = since
  BY DEF NothingExecuted, history, Trapped
<1>2. \A next : Executed(next) => elw' = FALSE
  BY DEF Executed
<1>3. \A next : Executed(next) /\ ~Stepping => since' = 0
  BY DEF Executed
<1>4. \A next : Executed(next) => since' \in 0 .. 2 /\ (since = 0 => since' \in {0, 1})
  BY DEF Executed
<1>5. \A next : Executed(next) => ~elw' /\ elw' \in BOOLEAN
  BY <1>2
<1>6. NothingExecuted => elw' \in BOOLEAN /\ since' \in 0 .. 2
  BY <1>1
<1>7. \A handler : Trapped(handler) => ~elw' /\ elw' \in BOOLEAN /\ since' = since
  BY <1>1
<1> QED
  BY <1>3, <1>4, <1>5, <1>6, <1>7, Zenon

LEMMA SteppingBegins ==
  ASSUME IInv, WriteStep, UNCHANGED debug_mode_q, Stepping'
  PROVE  Stepping \/ (ctrl_fsm_cs = "FLUSH_EX" /\ ex.op = "stepon" /\ since = 0)
  BY DEF IInv, Places, Values, CsrTypes, WriteStep, StepAfterEx, Stepping, StepBegins

LEMMA FlushExKeeps ==
  ASSUME IInv, NEW i \in Inputs, Possible(i), FlushEx(i), NoReplay PROVE IInv'
<1> USE DEF IInv, Values, Places
<1>1. Pipeline(i, Wires(TRUE, TRUE, FALSE, FALSE, 0))
  BY DEF FlushEx, Halted
<1>2. PipeTypes' /\ LeftAsItIs(i) /\ id' = [id EXCEPT !.valid = FALSE]
  <2>1. 0 \in Int
    OBVIOUS
  <2> QED
    BY <1>1, <2>1, HaltedPipe, Zenon
<1>3. CsrTypes' /\ step' = StepAfterEx
  BY CsrTyped DEF FlushEx, WriteCsrs, WriteStep
<1>4. ~id'.valid /\ id'.op = id.op
  BY <1>2 DEF PipeTypes
<1>5. Values'
  BY <1>2, <1>3 DEF FlushEx, NoReplay, NothingExecuted, history
<1>6. IdInDecode'
  BY <1>4 DEF IdInDecode, NoReplay
<1>7. ExFlushed'
  BY <1>2 DEF ExFlushed, FlushEx, LeftAsItIs, ExReady
<1>8. StepBegins'
  BY <1>2, <1>3, BubbleType DEF StepBegins, FlushEx, LeftAsItIs, StepAfterEx, NothingExecuted, history, ExReady
<1>9. ElwPlace'
  BY DEF ElwPlace, FlushEx, NothingExecuted, history
<1>10. Stepping' => Stepping \/ (ctrl_fsm_cs = "FLUSH_EX" /\ ex.op = "stepon" /\ since = 0)
  BY SteppingBegins DEF FlushEx, WriteCsrs
<1>11. NoElwStepped'
  BY <1>10 DEF NoElwStepped, FlushEx
<1>12. SteppedAlone'
  BY <1>2, <1>10, BubbleType DEF SteppedAlone, FlushEx, LeftAsItIs, IsSlow, DebugStates
<1>13. WbEmpty'
  BY <1>4, <1>10 DEF WbEmpty, FlushEx, NoReplay, NoElwStepped
<1>14. OnlyLeaves'
  BY <1>4, <1>10 DEF OnlyLeaves, Leaving, Faulted, FlushEx, NothingExecuted, history, DebugStates, NoElwStepped
<1> QED
  BY <1>5, <1>6, <1>7, <1>8, <1>9, <1>11, <1>12, <1>13, <1>14

LEMMA SleepKeeps ==
  ASSUME IInv, NEW i \in Inputs, Possible(i), Sleep(i), NoReplay PROVE IInv'
<1> USE DEF IInv, Values, Places
<1>1. Pipeline(i, Wires(TRUE, TRUE, FALSE, FALSE, 0))
  BY DEF Sleep, Halted
<1>2. PipeTypes' /\ LeftAsItIs(i) /\ id' = [id EXCEPT !.valid = FALSE]
  <2>1. 0 \in Int
    OBVIOUS
  <2> QED
    BY <1>1, <2>1, HaltedPipe, Zenon
<1>3. CsrTypes' /\ WriteStep /\ step' = StepAfterEx
  BY CsrTyped DEF Sleep, WriteCsrs, WriteStep
<1>4. ~id'.valid /\ id'.op = id.op
  BY <1>2 DEF PipeTypes
<1>5. Values'
  BY <1>2, <1>3 DEF Sleep, NoReplay, NothingExecuted, history
<1>6. IdInDecode'
  BY <1>4 DEF IdInDecode, NoReplay
<1>7. ExFlushed'
  BY <1>2 DEF ExFlushed, Sleep, LeftAsItIs, ExReady
<1>8. StepBegins'
  BY <1>2, <1>3, BubbleType DEF StepBegins, Sleep, LeftAsItIs, StepAfterEx, ExReady, NothingExecuted, history
<1>9. ElwPlace'
  BY DEF ElwPlace, Sleep, NothingExecuted, history
<1>10. Stepping' => Stepping \/ (ctrl_fsm_cs = "FLUSH_EX" /\ ex.op = "stepon" /\ since = 0)
  BY <1>3, SteppingBegins DEF Sleep
<1>11. NoElwStepped'
  BY <1>10 DEF NoElwStepped, ElwPlace, Sleep
<1>12. SteppedAlone'
  BY <1>2, <1>10, BubbleType DEF SteppedAlone, Sleep, LeftAsItIs, IsSlow, DebugStates
<1>13. WbEmpty'
  BY <1>2, <1>4, <1>10 DEF WbEmpty, Sleep, NoReplay, NoElwStepped, SteppedAlone, LeftAsItIs, NextWb, DebugStates
<1>14. OnlyLeaves'
  BY <1>4, <1>10 DEF OnlyLeaves, Leaving, Faulted, Sleep, DebugStates, NoElwStepped, NothingExecuted, history
<1> QED
  BY <1>5, <1>6, <1>7, <1>8, <1>9, <1>11, <1>12, <1>13, <1>14

LEMMA DbgFlushKeeps ==
  ASSUME IInv, NEW i \in Inputs, Possible(i), DbgFlush(i), NoReplay PROVE IInv'
<1> USE DEF IInv, Values, Places
<1>1. Pipeline(i, Wires(TRUE, TRUE, FALSE, FALSE, 0))
  BY DEF DbgFlush, Halted
<1>2. PipeTypes' /\ LeftAsItIs(i) /\ id' = [id EXCEPT !.valid = FALSE]
  <2>1. 0 \in Int
    OBVIOUS
  <2> QED
    BY <1>1, <2>1, HaltedPipe, Zenon
<1>3. CsrTypes' /\ WriteStep /\ step' = StepAfterEx
  BY CsrTyped DEF DbgFlush, Stepping, WriteCsrs, WriteStep
<1>4. ~id'.valid /\ id'.op = id.op
  BY <1>2 DEF PipeTypes
<1>5. Values'
  BY <1>2, <1>3 DEF DbgFlush, Stepping, NoReplay, NothingExecuted, history
<1>6. IdInDecode'
  BY <1>4 DEF IdInDecode, NoReplay
<1>7. ExFlushed'
  BY <1>2 DEF ExFlushed, DbgFlush, Stepping, LeftAsItIs, ExReady
<1>8. StepBegins'
  BY <1>2, <1>3, BubbleType DEF StepBegins, DbgFlush, Stepping, LeftAsItIs, StepAfterEx, ExReady, NothingExecuted, history
<1>9. ElwPlace'
  BY DEF ElwPlace, DbgFlush, Stepping, NothingExecuted, history
<1>10. Stepping' => Stepping \/ (ctrl_fsm_cs = "FLUSH_EX" /\ ex.op = "stepon" /\ since = 0)
  BY <1>3, SteppingBegins DEF DbgFlush, Stepping
<1>11. NoElwStepped'
  BY <1>10 DEF NoElwStepped, ElwPlace, DbgFlush, Stepping
<1>12. SteppedAlone'
  BY <1>2, <1>10, BubbleType DEF SteppedAlone, DbgFlush, Stepping, LeftAsItIs, IsSlow, DebugStates
<1>13. WbEmpty'
  BY <1>2, <1>4, <1>10 DEF WbEmpty, DbgFlush, Stepping, NoReplay, NoElwStepped, SteppedAlone, LeftAsItIs, NextWb, DebugStates
<1>14. OnlyLeaves'
  BY <1>4, <1>10 DEF OnlyLeaves, Leaving, Faulted, DbgFlush, Stepping, DebugStates, NoElwStepped, NothingExecuted, history
<1> QED
  BY <1>5, <1>6, <1>7, <1>8, <1>9, <1>11, <1>12, <1>13, <1>14

LEMMA IrqFlushKeeps ==
  ASSUME IInv, NEW i \in Inputs, Possible(i), IrqFlush(i) PROVE IInv'
<1> USE DEF IInv, Values, Places
<1>1. Pipeline(i, Wires(TRUE, TRUE, FALSE, FALSE, 0))
  BY DEF IrqFlush, Halted
<1>2. PipeTypes' /\ LeftAsItIs(i) /\ id' = [id EXCEPT !.valid = FALSE]
  <2>1. 0 \in Int
    OBVIOUS
  <2> QED
    BY <1>1, <2>1, HaltedPipe, Zenon
<1>3. CsrTypes' /\ WriteStep /\ step' = StepAfterEx
  BY CsrTyped DEF IrqFlush, Replays, WriteCsrs, WriteStep
<1>4. ~id'.valid /\ id'.op = id.op
  BY <1>2 DEF PipeTypes
<1>5. Values'
  <2>1. instr_valid_irq_flush_q' \in BOOLEAN
    BY Zenon DEF IrqFlush, Replays
  <2>2. elw' \in BOOLEAN /\ since' \in 0 .. 2
    BY HistoryTyped DEF IrqFlush
  <2> QED
    BY <1>2, <1>3, <2>1, <2>2 DEF IrqFlush
<1>6. IdInDecode'
  BY <1>4 DEF IdInDecode, IrqFlush, Replays
<1>7. ExFlushed'
  BY <1>2 DEF ExFlushed, IrqFlush, Replays, LeftAsItIs, ExReady
<1>8. StepBegins'
  BY <1>2, <1>3, BubbleType DEF StepBegins, IrqFlush, Replays, LeftAsItIs, StepAfterEx, ExReady, NothingExecuted, history, Executed
<1>9. ElwPlace'
  BY DEF ElwPlace, IrqFlush, Replays, NothingExecuted, history, Executed
<1>10. Stepping' => Stepping \/ (ctrl_fsm_cs = "FLUSH_EX" /\ ex.op = "stepon" /\ since = 0)
  BY <1>3, SteppingBegins DEF IrqFlush, Replays
<1>11. NoElwStepped'
  BY <1>10 DEF NoElwStepped, ElwPlace, IrqFlush, Replays
<1>12. SteppedAlone'
  BY <1>2, <1>10, BubbleType DEF SteppedAlone, IrqFlush, Replays, LeftAsItIs, IsSlow, DebugStates
<1>13. WbEmpty'
  BY <1>2, <1>4, <1>10 DEF WbEmpty, IrqFlush, Replays, IrqFlush, Replays, NoElwStepped, SteppedAlone, LeftAsItIs, NextWb, DebugStates
<1>14. OnlyLeaves'
  BY <1>4, <1>10 DEF OnlyLeaves, Leaving, Faulted, IrqFlush, Replays, DebugStates, NoElwStepped, NothingExecuted, history, Executed
<1> QED
  BY <1>5, <1>6, <1>7, <1>8, <1>9, <1>11, <1>12, <1>13, <1>14

LEMMA DecodeRequestKeeps ==
  ASSUME IInv, NEW i \in Inputs, Possible(i), DecodeRequest(i) PROVE IInv'
<1> USE DEF IInv, Values, Places
<1>1. Pipeline(i, Wires(TRUE, TRUE, TRUE, FALSE, 0))
  BY DEF DecodeRequest, Halted
<1>2. PipeTypes' /\ LeftAsItIs(i) /\ id' = [id EXCEPT !.valid = FALSE]
  <2>1. 0 \in Int
    OBVIOUS
  <2> QED
    BY <1>1, <2>1, HaltedPipe, Zenon
<1>3. CsrTypes' /\ WriteStep /\ step' = StepAfterEx
  BY CsrTyped DEF DecodeRequest, Decodes, WriteCsrs, WriteStep
<1>4. ~id'.valid /\ id'.op = id.op
  BY <1>2 DEF PipeTypes
<1>5. Values'
  BY <1>2, <1>3 DEF DecodeRequest, Decodes, NoReplay, NothingExecuted, history
<1>6. IdInDecode'
  BY <1>4 DEF IdInDecode, DecodeRequest, NoReplay
<1>7. ExFlushed'
  BY <1>2 DEF ExFlushed, DecodeRequest, Decodes, LeftAsItIs, ExReady
<1>8. StepBegins'
  BY <1>2, <1>3, BubbleType DEF StepBegins, DecodeRequest, Decodes, LeftAsItIs, StepAfterEx, ExReady, NothingExecuted, history
<1>9. ElwPlace'
  BY DEF ElwPlace, DecodeRequest, Decodes, NothingExecuted, history
<1>10. Stepping' => Stepping \/ (ctrl_fsm_cs = "FLUSH_EX" /\ ex.op = "stepon" /\ since = 0)
  BY <1>3, SteppingBegins DEF DecodeRequest, Decodes
<1>11. NoElwStepped'
  BY <1>10 DEF NoElwStepped, ElwPlace, DecodeRequest, Decodes, NothingExecuted, history
<1>12. SteppedAlone'
  BY <1>2, <1>10, BubbleType DEF SteppedAlone, DecodeRequest, Decodes, LeftAsItIs, IsSlow, DebugStates
<1>13. WbEmpty'
  BY <1>2, <1>4, <1>10 DEF WbEmpty, DecodeRequest, Decodes, DecodeRequest, NoReplay, NoElwStepped, SteppedAlone, LeftAsItIs, NextWb, DebugStates
<1>14. OnlyLeaves'
  BY <1>4, <1>10 DEF OnlyLeaves, Leaving, Faulted, DecodeRequest, Decodes, DebugStates, NoElwStepped, NothingExecuted, history
<1> QED
  BY <1>5, <1>6, <1>7, <1>8, <1>9, <1>11, <1>12, <1>13, <1>14

LEMMA XretJumpKeeps ==
  ASSUME IInv, NEW i \in Inputs, Possible(i), XretJump(i), NoReplay PROVE IInv'
<1> USE DEF IInv, Values, Places
<1>1. PICK target \in Int : Pipeline(i, SetPc(target))
  BY DEF XretJump, PipeTypes, CsrTypes
<1>2. PipeTypes' /\ LeftAsItIs(i)
  BY <1>1, SetPipe, Zenon
<1>3. CsrTypes' /\ WriteStep /\ step' = StepAfterEx
  BY CsrTyped DEF XretJump, AfterTrap, Stepping, WriteCsrs, WriteStep
<1>4. ~id'.valid /\ id'.op = id.op
  BY <1>2 DEF XretJump, AfterTrap, Stepping, IdInDecode, LeftAsItIs, PipeTypes
<1>5. Values'
  <2>1. elw' \in BOOLEAN /\ since' \in 0 .. 2
    BY HistoryTyped DEF XretJump
  <2> QED
    BY <1>2, <1>3, <2>1 DEF XretJump, NoReplay
<1>6. IdInDecode'
  BY <1>4 DEF IdInDecode, NoReplay
<1>7. ExFlushed'
  BY <1>2 DEF ExFlushed, XretJump, AfterTrap, Stepping, LeftAsItIs, ExReady
<1>8. StepBegins'
  BY <1>2, <1>3, BubbleType DEF StepBegins, XretJump, AfterTrap, Stepping, LeftAsItIs, StepAfterEx, ExReady, NothingExecuted, history, Executed
<1>9. ElwPlace'
  BY DEF ElwPlace, XretJump, AfterTrap, Stepping, NothingExecuted, history, Executed
<1>10. ex = Bubble /\ ex' = Bubble /\ step' = step /\ (Stepping' => Stepping \/ since' = 0)
  BY <1>2, <1>3, BubbleType, HistoryTyped
  DEF ExFlushed, XretJump, LeftAsItIs, StepAfterEx, Stepping
<1>11. NoElwStepped'
  BY <1>10 DEF NoElwStepped, ElwPlace, XretJump, AfterTrap, Stepping
<1>12. SteppedAlone'
  BY <1>2, <1>10, BubbleType DEF SteppedAlone, XretJump, AfterTrap, Stepping, LeftAsItIs, IsSlow, DebugStates
<1>13. WbEmpty'
  BY <1>2, <1>4, <1>10 DEF WbEmpty, XretJump, AfterTrap, Stepping, NoReplay, NoElwStepped, SteppedAlone, LeftAsItIs, NextWb, DebugStates
<1>14. OnlyLeaves'
  BY <1>4, <1>10 DEF OnlyLeaves, Leaving, Faulted, XretJump, AfterTrap, Stepping, DebugStates, NoElwStepped, NothingExecuted, history, Executed
<1> QED
  BY <1>5, <1>6, <1>7, <1>8, <1>9, <1>11, <1>12, <1>13, <1>14

LEMMA IrqTakenKeeps ==
  ASSUME IInv, NEW i \in Inputs, Possible(i), IrqTaken(i), NoReplay PROVE IInv'
<1> USE DEF IInv, Values, Places
<1>1. PICK target \in Int : Pipeline(i, SetPc(target))
  BY ProgramAssumption DEF IrqTaken, IrqHandler
<1>2. PipeTypes' /\ LeftAsItIs(i)
  BY <1>1, SetPipe, Zenon
<1>3. CsrTypes' /\ WriteStep /\ step' = StepAfterEx
  <2>1. PICK a \in Int : Save(a)
    BY DEF IrqTaken, PipeTypes
  <2> QED
    BY <2>1, CsrTyped DEF Save, WriteStep
<1>4. ~id'.valid /\ id'.op = id.op
  BY <1>2 DEF IrqTaken, IdInDecode, LeftAsItIs, PipeTypes
<1>5. Values'
  BY <1>2, <1>3 DEF IrqTaken, NoReplay, Trapped
<1>6. IdInDecode'
  BY <1>4 DEF IdInDecode, NoReplay
<1>7. ExFlushed'
  BY <1>2 DEF ExFlushed, IrqTaken, LeftAsItIs, ExReady
<1>8. StepBegins'
  BY <1>2, <1>3, BubbleType DEF StepBegins, IrqTaken, LeftAsItIs, StepAfterEx, ExReady, Trapped
<1>9. ElwPlace'
  BY DEF ElwPlace, IrqTaken, Trapped
<1>10. Stepping' => Stepping \/ (ctrl_fsm_cs = "FLUSH_EX" /\ ex.op = "stepon" /\ since = 0)
  BY <1>3, SteppingBegins DEF IrqTaken
<1>11. NoElwStepped'
  BY <1>10 DEF NoElwStepped, ElwPlace, IrqTaken
<1>12. SteppedAlone'
  BY <1>2, <1>10, BubbleType DEF SteppedAlone, IrqTaken, LeftAsItIs, IsSlow, DebugStates
<1>13. WbEmpty'
  BY <1>2, <1>4, <1>10 DEF WbEmpty, IrqTaken, NoReplay, NoElwStepped, SteppedAlone, LeftAsItIs, NextWb, DebugStates
<1>14. OnlyLeaves'
  BY <1>4, <1>10 DEF OnlyLeaves, Leaving, Faulted, IrqTaken, DebugStates, NoElwStepped, Trapped
<1> QED
  BY <1>5, <1>6, <1>7, <1>8, <1>9, <1>11, <1>12, <1>13, <1>14

LEMMA DbgWaitBranchKeeps ==
  ASSUME IInv, NEW i \in Inputs, Possible(i), DbgWaitBranch(i), NoReplay PROVE IInv'
<1> USE DEF IInv, Values, Places
<1>1. PICK target \in Int : Pipeline(i, Wires(TRUE, FALSE, FALSE, BranchTaken, target))
  BY DEF DbgWaitBranch, PipeTypes
<1>2. PipeTypes' /\ LeftAsItIs(i)
  BY <1>1, BranchPipe, Zenon DEF BranchTaken
<1>3. CsrTypes' /\ WriteStep /\ step' = StepAfterEx
  BY CsrTyped DEF DbgWaitBranch, WriteCsrs, WriteStep
<1>4. ~id'.valid /\ id'.op = id.op
  BY <1>2 DEF DbgWaitBranch, IdInDecode, LeftAsItIs, PipeTypes
<1>5. Values'
  BY <1>2, <1>3 DEF DbgWaitBranch, NoReplay, NothingExecuted, history
<1>6. IdInDecode'
  BY <1>4 DEF IdInDecode, NoReplay
<1>7. ExFlushed'
  BY <1>2 DEF ExFlushed, DbgWaitBranch, LeftAsItIs, ExReady
<1>8. StepBegins'
  BY <1>2, <1>3, BubbleType DEF StepBegins, DbgWaitBranch, LeftAsItIs, StepAfterEx, ExReady, NothingExecuted, history
<1>9. ElwPlace'
  BY DEF ElwPlace, DbgWaitBranch, NothingExecuted, history
<1>10. Stepping' => Stepping \/ (ctrl_fsm_cs = "FLUSH_EX" /\ ex.op = "stepon" /\ since = 0)
  BY <1>3, SteppingBegins DEF DbgWaitBranch
<1>11. NoElwStepped'
  BY <1>10 DEF NoElwStepped, ElwPlace, DbgWaitBranch
<1>12. SteppedAlone'
  BY <1>2, <1>10, BubbleType DEF SteppedAlone, DbgWaitBranch, LeftAsItIs, IsSlow, DebugStates
<1>13. WbEmpty'
  BY <1>2, <1>4, <1>10 DEF WbEmpty, DbgWaitBranch, NoReplay, NoElwStepped, SteppedAlone, LeftAsItIs, NextWb, DebugStates
<1>14. OnlyLeaves'
  BY <1>4, <1>10 DEF OnlyLeaves, Leaving, Faulted, DbgWaitBranch, DebugStates, NoElwStepped, NothingExecuted, history
<1> QED
  BY <1>5, <1>6, <1>7, <1>8, <1>9, <1>11, <1>12, <1>13, <1>14

LEMMA DbgTakenKeeps ==
  ASSUME IInv, NEW i \in Inputs, Possible(i), DbgTaken(i), NoReplay PROVE IInv'
<1> USE DEF IInv, Values, Places
<1>1. PICK target \in Int : Pipeline(i, SetPc(target))
  BY ProgramAssumption DEF DbgTaken, HaltAddress
<1>2. PipeTypes' /\ LeftAsItIs(i)
  BY <1>1, SetPipe, Zenon
<1>3. CsrTypes' /\ WriteStep /\ step' = StepAfterEx
  <2>1. WriteCsrs \/ \E a \in Int : SaveDebug(a)
    BY DEF DbgTaken, PipeTypes
  <2> QED
    BY <2>1, CsrTyped DEF WriteCsrs, SaveDebug, WriteStep
<1>4. ~id'.valid /\ id'.op = id.op
  BY <1>2 DEF DbgTaken, IdInDecode, LeftAsItIs, PipeTypes
<1>5. Values'
  <2>1. debug_mode_q' = TRUE /\ elw' = FALSE /\ since' \in 0 .. 2
    BY DEF DbgTaken
  <2> QED
    BY <1>2, <1>3, <2>1, Zenon DEF DbgTaken, NoReplay
<1>6. ~Stepping'
  BY DEF DbgTaken, Stepping
<1>7. IdInDecode' /\ ExFlushed' /\ ElwPlace'
  BY <1>4 DEF IdInDecode, ExFlushed, ElwPlace, DbgTaken, NoReplay
<1>8. StepBegins'
  BY <1>2, <1>3, BubbleType DEF StepBegins, DbgTaken, LeftAsItIs, StepAfterEx
<1> QED
  BY <1>5, <1>6, <1>7, <1>8 DEF NoElwStepped, SteppedAlone, WbEmpty, OnlyLeaves

LEMMA StartKeeps ==
  ASSUME IInv, NEW i \in Inputs, Possible(i), Start(i), NoReplay PROVE IInv'
<1> USE DEF IInv, Values, Places
<1>2. PipeTypes' /\ LeftAsItIs(i)
  <2>1. 0 \in Int
    OBVIOUS
  <2>2. CASE Pipeline(i, Halted)
    BY <2>1, <2>2, HaltedPipe, Zenon DEF Halted
  <2>3. CASE Pipeline(i, SetPc(0))
    BY <2>1, <2>3, SetPipe, Zenon
  <2> QED
    BY <2>2, <2>3 DEF Start
<1>3. CsrTypes' /\ WriteStep /\ step' = StepAfterEx
  BY CsrTyped DEF Start, WriteCsrs, WriteStep
<1>4. ~id'.valid /\ id'.op = id.op
  BY <1>2 DEF Start, IdInDecode, LeftAsItIs, PipeTypes
<1>5. Values'
  BY <1>2, <1>3 DEF Start, NoReplay, NothingExecuted, history
<1>6. IdInDecode'
  BY <1>4 DEF IdInDecode, NoReplay
<1>7. ExFlushed'
  BY <1>2 DEF ExFlushed, Start, LeftAsItIs, ExReady
<1>8. StepBegins'
  BY <1>2, <1>3, BubbleType DEF StepBegins, Start, LeftAsItIs, StepAfterEx, ExReady, NothingExecuted, history
<1>9. ElwPlace'
  BY DEF ElwPlace, Start, NothingExecuted, history
<1>10. Stepping' => Stepping \/ (ctrl_fsm_cs = "FLUSH_EX" /\ ex.op = "stepon" /\ since = 0)
  BY <1>3, SteppingBegins DEF Start
<1>11. NoElwStepped'
  BY <1>10 DEF NoElwStepped, ElwPlace, Start
<1>12. SteppedAlone'
  BY <1>2, <1>10, BubbleType DEF SteppedAlone, Start, LeftAsItIs, IsSlow, DebugStates
<1>13. WbEmpty'
  BY <1>2, <1>4, <1>10 DEF WbEmpty, Start, NoReplay, NoElwStepped, SteppedAlone, LeftAsItIs, NextWb, DebugStates
<1>14. OnlyLeaves'
  BY <1>4, <1>10 DEF OnlyLeaves, Leaving, Faulted, Start, DebugStates, NoElwStepped, NothingExecuted, history
<1> QED
  BY <1>5, <1>6, <1>7, <1>8, <1>9, <1>11, <1>12, <1>13, <1>14

LEMMA DecodeBranchTakenKeeps ==
  ASSUME IInv, NEW i \in Inputs, Possible(i), DecodeBranchTaken(i) PROVE IInv'
<1> USE DEF IInv, Values, Places
<1>1. PipeTypes' /\ LeftAsItIs(i)
  BY SetPipe, Zenon DEF DecodeBranchTaken, PipeTypes
<1>2. CsrTypes' /\ WriteStep /\ step' = StepAfterEx
  BY CsrTyped DEF DecodeBranchTaken, WriteCsrs, WriteStep
<1>3. Values'
  BY <1>1, <1>2 DEF DecodeBranchTaken, NoReplay, NothingExecuted, history
<1>4. ~Stepping'
  BY <1>2, SteppingBegins DEF DecodeBranchTaken, BranchTaken, SteppedAlone, DebugStates
<1>5. IdInDecode' /\ ExFlushed' /\ ElwPlace'
  BY DEF IdInDecode, ExFlushed, ElwPlace, DecodeBranchTaken, NoReplay, NothingExecuted, history
<1>6. StepBegins'
  BY <1>1, <1>2, BubbleType DEF StepBegins, DecodeBranchTaken, LeftAsItIs, StepAfterEx
<1> QED
  BY <1>3, <1>4, <1>5, <1>6 DEF NoElwStepped, SteppedAlone, WbEmpty, OnlyLeaves

LEMMA DecodeNothingKeeps ==
  ASSUME IInv, NEW i \in Inputs, Possible(i), DecodeNothing(i) PROVE IInv'
<1> USE DEF IInv, Values, Places
<1>1. /\ PipeTypes'
      /\ ~IdReady(i) => LeftAsItIs(i)
      /\ ex' = (IF ExReady(i) THEN Bubble ELSE ex) /\ wb' = NextWb(i)
  BY RunningPipe, Zenon DEF DecodeNothing
<1>2. CsrTypes' /\ WriteStep /\ step' = StepAfterEx
  BY CsrTyped DEF DecodeNothing, WriteCsrs, WriteStep
<1>3. Values'
  BY <1>1, <1>2 DEF DecodeNothing, NoReplay, NothingExecuted, history
<1>4. Stepping' => Stepping
  BY <1>2, SteppingBegins DEF DecodeNothing
<1>5. IdInDecode' /\ ExFlushed' /\ ElwPlace'
  BY <1>1 DEF IdInDecode, ExFlushed, ElwPlace, DecodeNothing, NoReplay, NothingExecuted, history
<1>6. StepBegins'
  BY <1>1, <1>2, BubbleType DEF StepBegins, DecodeNothing, StepAfterEx
<1>7. NoElwStepped' /\ OnlyLeaves'
  BY <1>4 DEF NoElwStepped, OnlyLeaves, Leaving, DebugStates, ElwPlace, DecodeNothing, NothingExecuted, history
<1>8. SteppedAlone'
  BY <1>1, <1>4, BubbleType DEF SteppedAlone, DecodeNothing, IsSlow, DebugStates
<1>9. WbEmpty'
  <2> SUFFICES ASSUME Stepping', id'.valid PROVE ~wb'
    BY DEF WbEmpty, DecodeNothing, NoReplay
  <2>1. ~IsSlow(ex.op) /\ ex.op # "branch"
    BY <1>4 DEF SteppedAlone, DebugStates, DecodeNothing
  <2>2. IdReady(i)
    BY <1>1 DEF LeftAsItIs, PipeTypes, DecodeNothing, Decodes
  <2>3. ~(wb /\ ~i.rvalid)
    BY <2>1, <2>2 DEF IdReady, ExReady, ExValid
  <2> QED
    BY <1>1, <2>1, <2>3, Zenon DEF NextWb
<1> QED
  BY <1>3, <1>4, <1>5, <1>6, <1>7, <1>8, <1>9

LEMMA FirstFetchKeeps ==
  ASSUME IInv, NEW i \in Inputs, Possible(i), FirstFetch(i), NoReplay PROVE IInv'
<1> USE DEF IInv, Values, Places
<1>1. /\ PipeTypes'
      /\ ~IdReady(i) => LeftAsItIs(i)
      /\ ex' = (IF ExReady(i) THEN Bubble ELSE ex) /\ wb' = NextWb(i)
      /\ ctrl_fsm_cs' # "DECODE" => ~id'.valid
  <2>1. 0 \in Int
    OBVIOUS
  <2>2. CASE Pipeline(i, Halted)
    <3>1. PipeTypes' /\ LeftAsItIs(i) /\ id' = [id EXCEPT !.valid = FALSE]
      BY <2>1, <2>2, HaltedPipe, Zenon DEF Halted
    <3> QED
      BY <3>1 DEF LeftAsItIs, PipeTypes
  <2>3. CASE Pipeline(i, Running) /\ ctrl_fsm_cs' = (IF IdReady(i) THEN "DECODE" ELSE "FIRST_FETCH")
    <3>1. /\ PipeTypes'
          /\ ~IdReady(i) => LeftAsItIs(i)
          /\ ex' = (IF ExReady(i) THEN Bubble ELSE ex) /\ wb' = NextWb(i)
      BY <2>3, RunningPipe, Zenon
    <3>2. ~IdReady(i) => ~id'.valid
      BY <3>1 DEF LeftAsItIs, PipeTypes, IdInDecode, FirstFetch
    <3> QED
      BY <2>3, <3>1, <3>2
  <2> QED
    BY <2>2, <2>3 DEF FirstFetch
<1>2. CsrTypes' /\ WriteStep /\ step' = StepAfterEx
  BY CsrTyped DEF FirstFetch, WriteCsrs, WriteStep
<1>3. Values'
  BY <1>1, <1>2 DEF FirstFetch, NoReplay, NothingExecuted, history
<1>4. Stepping' => Stepping
  BY <1>2, SteppingBegins DEF FirstFetch
<1>5. IdInDecode' /\ ExFlushed' /\ ElwPlace'
  BY <1>1 DEF IdInDecode, ExFlushed, ElwPlace, FirstFetch, NoReplay, NothingExecuted, history
<1>6. StepBegins'
  BY <1>1, <1>2, BubbleType DEF StepBegins, FirstFetch, StepAfterEx
<1>7. NoElwStepped' /\ OnlyLeaves'
  BY <1>4 DEF NoElwStepped, OnlyLeaves, Leaving, DebugStates, ElwPlace, FirstFetch, NothingExecuted, history
<1>8. SteppedAlone'
  BY <1>1, <1>4, BubbleType DEF SteppedAlone, FirstFetch, IsSlow, DebugStates
<1>9. WbEmpty'
  <2> SUFFICES ASSUME Stepping', id'.valid PROVE ~wb'
    BY DEF WbEmpty, FirstFetch, NoReplay, IdInDecode
  <2>1. ~IsSlow(ex.op) /\ ex.op # "branch"
    BY <1>4 DEF SteppedAlone, DebugStates, FirstFetch
  <2>2. IdReady(i)
    BY <1>1 DEF LeftAsItIs, PipeTypes, FirstFetch, IdInDecode
  <2>3. ~(wb /\ ~i.rvalid)
    BY <2>1, <2>2 DEF IdReady, ExReady, ExValid
  <2> QED
    BY <1>1, <2>1, <2>3, Zenon DEF NextWb
<1> QED
  BY <1>3, <1>4, <1>5, <1>6, <1>7, <1>8, <1>9

LEMMA FlushWbKeeps ==
  ASSUME IInv, NEW i \in Inputs, Possible(i), FlushWb(i), NoReplay PROVE IInv'
<1> USE DEF IInv, Values, Places
<1>a. /\ Faulted => ctrl_fsm_cs' = AfterTrap /\ NothingExecuted
      /\ ~Faulted /\ id.op = "mret" => ctrl_fsm_cs' = "XRET_JUMP" /\ Executed(mepc)
      /\ ~Faulted /\ id.op # "mret" => NothingExecuted
      /\ ctrl_fsm_cs = "FLUSH_WB" /\ ctrl_fsm_cs' \in {"DECODE", "DBG_TAKEN_IF", "XRET_JUMP", "WAIT_SLEEP"}
  BY DEF FlushWb, Faulted, AfterTrap
<1>1. PICK set \in BOOLEAN, target \in Int : Pipeline(i, Wires(TRUE, TRUE, FALSE, set, target))
  <2>1. ExcHandler \in Int /\ After(id.pc) \in Int /\ 0 \in Int
    BY ProgramAssumption, AfterInt DEF ExcHandler, PipeTypes
  <2>3. \/ Pipeline(i, Wires(TRUE, TRUE, FALSE, TRUE, ExcHandler))
        \/ Pipeline(i, Wires(TRUE, TRUE, FALSE, TRUE, After(id.pc)))
        \/ Pipeline(i, Wires(TRUE, TRUE, FALSE, FALSE, 0))
    BY DEF FlushWb, Halted, Redirected
  <2> QED
    BY <2>1, <2>3, Zenon
<1>2. PipeTypes' /\ LeftAsItIs(i) /\ id' = [id EXCEPT !.valid = FALSE]
  BY <1>1, HaltedPipe, Zenon
<1>3. CsrTypes' /\ WriteStep /\ step' = StepAfterEx
  BY CsrTyped DEF FlushWb, WriteCsrs, WriteStep, RestoreMret
<1>4. ~id'.valid /\ id'.op = id.op
  BY <1>2 DEF PipeTypes
<1>5. Values'
  <2>1. elw' \in BOOLEAN /\ since' \in 0 .. 2
    BY <1>a, HistoryTyped
  <2>2. illegal_insn_q' = FALSE /\ debug_mode_q' = debug_mode_q
    BY DEF FlushWb
  <2> QED
    BY <1>2, <1>3, <2>1, <2>2, Zenon DEF NoReplay
<1>6. IdInDecode'
  BY <1>4 DEF IdInDecode, NoReplay
<1>7. ex = Bubble /\ ex' = Bubble
  BY <1>a, <1>2 DEF ExFlushed, LeftAsItIs
<1>8. ExFlushed' /\ StepBegins' /\ SteppedAlone'
  BY <1>7, BubbleType DEF ExFlushed, StepBegins, SteppedAlone, IsSlow
<1>9. ~elw'
  BY <1>a, HistoryTyped DEF ElwPlace, NothingExecuted, history
<1>10. Stepping' => Stepping
  BY <1>3, <1>7, BubbleType DEF FlushWb, Stepping, StepAfterEx
<1>11. ElwPlace' /\ NoElwStepped' /\ WbEmpty'
  BY <1>a, <1>4, <1>9 DEF ElwPlace, NoElwStepped, WbEmpty, NoReplay
<1>12. OnlyLeaves'
  <2> SUFFICES ASSUME Stepping' PROVE since' # 0 => since' = 1 /\ Leaving'
    BY DEF OnlyLeaves
  <2>1. CASE Faulted
    BY <1>a, <1>10, <2>1 DEF AfterTrap, Leaving, DebugStates, OnlyLeaves, NothingExecuted, history
  <2>2. CASE ~Faulted
    <3>1. since = 0
      BY <1>a, <1>10, <2>2 DEF OnlyLeaves, Leaving, DebugStates
    <3>2. CASE id.op = "mret"
      BY <1>a, <1>4, <2>2, <3>1, <3>2, HistoryTyped DEF Leaving
    <3>3. CASE id.op # "mret"
      BY <1>a, <2>2, <3>1, <3>3 DEF NothingExecuted, history
    <3> QED
      BY <3>2, <3>3
  <2> QED
    BY <2>1, <2>2
<1> QED
  BY <1>5, <1>6, <1>8, <1>11, <1>12

LEMMA DecodeStopKeeps ==
  ASSUME IInv, NEW i \in Inputs, Possible(i), DecodeStop(i) PROVE IInv'
<1> USE DEF IInv, Values, Places
<1>1. Pipeline(i, Wires(TRUE, TRUE, TRUE, FALSE, 0))
  BY DEF DecodeStop
<1>2. PipeTypes' /\ LeftAsItIs(i) /\ id' = [id EXCEPT !.valid = FALSE]
  <2>1. 0 \in Int
    OBVIOUS
  <2> QED
    BY <1>1, <2>1, HaltedPipe, Zenon
<1>3. CsrTypes' /\ WriteStep /\ step' = StepAfterEx
  <2>1. WriteCsrs \/ \E a \in Int : Save(a)
    BY DEF DecodeStop, PipeTypes
  <2> QED
    BY <2>1, CsrTyped DEF WriteCsrs, Save, WriteStep
<1>4. ~id'.valid /\ id'.op = id.op
  BY <1>2 DEF PipeTypes
<1>5. ctrl_fsm_cs = "DECODE" /\ ~elw /\ UNCHANGED debug_mode_q /\ ~instr_valid_irq_flush_q'
  BY DEF DecodeStop, DecodesInsn, Decodes, ElwPlace, NoReplay
<1>6. NothingExecuted \/ \E next : Executed(next)
  BY DEF DecodeStop
<1>7. ~elw' /\ elw' \in BOOLEAN /\ since' \in 0 .. 2
  BY <1>5, <1>6, HistoryTyped DEF NothingExecuted, history
<1>8. Values'
  <2>1. illegal_insn_q' \in BOOLEAN /\ instr_valid_irq_flush_q' \in BOOLEAN
    BY Zenon DEF DecodeStop, NoReplay
  <2> QED
    BY <1>2, <1>3, <1>5, <1>7, <2>1
<1>9. ctrl_fsm_cs' \in {"FLUSH_EX", "DBG_FLUSH", "DBG_WAIT_BRANCH"}
  BY DEF DecodeStop, Stepped
<1>10. IdInDecode' /\ ExFlushed' /\ ElwPlace'
  BY <1>4, <1>5, <1>7, <1>9 DEF IdInDecode, ExFlushed, ElwPlace
<1>11. StepBegins'
  BY <1>2, <1>3, <1>5, BubbleType DEF StepBegins, LeftAsItIs, StepAfterEx
<1>12. Stepping' => Stepping
  BY <1>3, <1>5, SteppingBegins
<1>13. Stepping => ~IsSlow(ex.op) /\ ex.op \notin {"branch", "stepoff"} /\ since = 0
  BY <1>5 DEF SteppedAlone, OnlyLeaves, Leaving, DebugStates
<1>14. NoElwStepped' /\ SteppedAlone' /\ WbEmpty'
  BY <1>2, <1>4, <1>5, <1>7, <1>9, <1>12, <1>13, BubbleType
  DEF NoElwStepped, SteppedAlone, WbEmpty, LeftAsItIs, IsSlow
<1>15. OnlyLeaves'
  <2> SUFFICES ASSUME Stepping', since' # 0 PROVE since' = 1 /\ Leaving'
    BY DEF OnlyLeaves
  <2>1. since' = 1 /\ \E next : Executed(next)
    BY <1>6, <1>7, <1>12, <1>13, HistoryTyped DEF NothingExecuted, history
  <2>2. CASE id.op \in Faults
    BY <1>4, <1>9, <2>1, <2>2 DEF Leaving, Faulted, Faults, DecodeStop, DebugStates
  <2>3. CASE id.op \notin Faults
    <3>1. id.op \in {"wfi", "fencei"}
      BY <1>12, <1>13, <2>1, <2>3 DEF DecodeStop, NothingExecuted, history
    <3>2. ~wb
      BY <1>12 DEF WbEmpty, DecodeStop, DecodesInsn, Decodes
    <3>3. IdReady(i)
      BY <1>12, <1>13, <3>1, <3>2 DEF IdReady, ExReady, ExValid, Possible
    <3>4. ctrl_fsm_cs' = "DBG_FLUSH"
      BY <1>12, <3>1, <3>3 DEF DecodeStop, Stepped, Parks, Faults
    <3> QED
      BY <2>1, <3>4 DEF Leaving, DebugStates
  <2> QED
    BY <2>2, <2>3
<1> QED
  BY <1>8, <1>10, <1>11, <1>14, <1>15

LEMMA DecodeRunKeeps ==
  ASSUME IInv, NEW i \in Inputs, Possible(i), DecodeRun(i) PROVE IInv'
<1> USE DEF IInv, Values, Places
<1> DEFINE halt_if == id.op \in Drains \/ Stepping
<1>1. /\ PipeTypes'
      /\ ex' = (IF IdReady(i) THEN Issued ELSE IF ExReady(i) THEN Bubble ELSE ex)
      /\ wb' = NextWb(i)
      /\ ~IdReady(i) \/ halt_if => id' = id \/ id' = [id EXCEPT !.valid = FALSE]
      /\ IdReady(i) /\ halt_if => ~id'.valid
  <2>1. Pipeline(i, Wires(halt_if, FALSE, TRUE, Jumps(i), id.to)) /\ id.to \in Int
    BY DEF DecodeRun, PipeTypes
  <2> QED
    BY <2>1, RunPipe, Zenon
<1>2. CsrTypes' /\ WriteStep /\ step' = StepAfterEx
  BY CsrTyped DEF DecodeRun, WriteCsrs, WriteStep
<1>3. /\ ctrl_fsm_cs = "DECODE" /\ ~elw /\ UNCHANGED debug_mode_q /\ ~instr_valid_irq_flush_q'
      /\ id.op \notin Stops
  BY DEF DecodeRun, DecodesInsn, Decodes, ElwPlace, NoReplay
<1>4. Issued.op = id.op
  BY DEF Issued
<1>5. ex'.op = "stepon" => (IdReady(i) /\ id.op = "stepon") \/ ex.op = "stepon"
  BY <1>1, <1>4, BubbleType
<1>6. \/ NothingExecuted
      \/ IdReady(i) /\ id.op # "elw" /\ \E next : Executed(next)
      \/ IdReady(i) /\ id.op = "elw" /\ elw' = TRUE /\ since' = since
  BY DEF DecodeRun
<1>7. Values'
  <2>1. elw' \in BOOLEAN /\ since' \in 0 .. 2
    BY <1>6, HistoryTyped
  <2>2. illegal_insn_q' \in BOOLEAN /\ instr_valid_irq_flush_q' \in BOOLEAN
    BY Zenon DEF DecodeRun, NoReplay
  <2> QED
    BY <1>1, <1>2, <1>3, <2>1, <2>2
<1>8. /\ Stepping /\ IdReady(i) => ctrl_fsm_cs' = IF id.op = "branch" THEN "DBG_WAIT_BRANCH" ELSE "DBG_FLUSH"
      /\ ~Stepping /\ IdReady(i) /\ id.op = "elw" => ctrl_fsm_cs' = "ELW_EXE"
      /\ ~Stepping /\ IdReady(i) /\ id.op = "stepon" => ctrl_fsm_cs' = "FLUSH_EX"
      /\ IdReady(i) /\ ~halt_if => ctrl_fsm_cs' = "DECODE"
      /\ ~IdReady(i) => ctrl_fsm_cs' = "DECODE"
      /\ ctrl_fsm_cs' \in {"DECODE", "FLUSH_EX", "ELW_EXE", "DBG_WAIT_BRANCH", "DBG_FLUSH"}
  BY <1>3 DEF DecodeRun, Stepped, Drains, Stops, Faults
<1>9. Stepping' => Stepping
  BY <1>2, <1>3, SteppingBegins
<1>10. IdInDecode' /\ ExFlushed'
  BY <1>1, <1>3, <1>8 DEF IdInDecode, ExFlushed
<1>11. StepBegins'
  <2> SUFFICES ASSUME ex'.op = "stepon", ~step' PROVE ctrl_fsm_cs' = "FLUSH_EX" /\ since' = 0
    BY DEF StepBegins
  <2>1. ex.op # "stepon"
    BY <1>2 DEF StepAfterEx
  <2>2. IdReady(i) /\ id.op = "stepon"
    BY <1>5, <2>1
  <2>3. ~Stepping
    BY <1>2, <1>3, <2>1 DEF SteppedAlone, DebugStates, StepAfterEx, Stepping
  <2>4. \E next : Executed(next)
    BY <2>2 DEF DecodeRun
  <2>5. since' = 0
    BY <2>3, <2>4, HistoryTyped
  <2> QED
    BY <1>8, <2>2, <2>3, <2>5
<1>12. ElwPlace' /\ NoElwStepped'
  <2>1. CASE ~elw'
    BY <1>8, <1>9, <2>1 DEF ElwPlace, NoElwStepped
  <2>2. CASE elw'
    <3>1. IdReady(i) /\ id.op = "elw"
      BY <1>3, <1>6, <2>2, HistoryTyped DEF NothingExecuted, history
    <3> QED
      BY <1>8, <1>9, <2>2, <3>1 DEF ElwPlace, NoElwStepped
  <2> QED
    BY <2>1, <2>2
<1>13. Stepping => ~IsSlow(ex.op) /\ ex.op \notin {"branch", "stepoff"} /\ since = 0
  BY <1>3 DEF SteppedAlone, OnlyLeaves, Leaving, DebugStates
<1>14. SteppedAlone'
  BY <1>1, <1>8, <1>9, <1>13, BubbleType DEF SteppedAlone, DebugStates, IsSlow
<1>15. WbEmpty'
  <2> SUFFICES ASSUME Stepping', id'.valid PROVE ~wb'
    BY <1>3, <1>8 DEF WbEmpty
  <2>1. ~wb
    BY <1>9 DEF WbEmpty, DecodeRun, DecodesInsn, Decodes
  <2> QED
    BY <1>1, <1>9, <1>13, <2>1, Zenon DEF NextWb
<1>16. OnlyLeaves'
  BY <1>6, <1>8, <1>9, <1>13, HistoryTyped DEF OnlyLeaves, Leaving, DebugStates, NothingExecuted, history
<1> QED
  BY <1>7, <1>10, <1>11, <1>12, <1>14, <1>15, <1>16

-----------------------------------------------------------------------------
LEMMA ClockKeeps == ASSUME IInv, NEW i \in Inputs, Possible(i), Clock(i) PROVE IInv'
<1>1. CASE Decode(i)
  BY <1>1, DecodeBranchTakenKeeps, DecodeNothingKeeps, DecodeRequestKeeps, DecodeStopKeeps, DecodeRunKeeps
  DEF Decode
<1>2. CASE Others(i) /\ NoReplay
  BY <1>2, FlushExKeeps, FlushWbKeeps, XretJumpKeeps, IrqTakenKeeps, DbgWaitBranchKeeps,
     DbgFlushKeeps, DbgTakenKeeps, StartKeeps, FirstFetchKeeps, SleepKeeps
  DEF Others
<1>3. CASE IrqFlush(i)
  BY <1>3, IrqFlushKeeps
<1> QED
  BY <1>1, <1>2, <1>3 DEF Clock

LEMMA StutterKeeps == ASSUME IInv, UNCHANGED vars PROVE IInv'
  BY DEF vars, coreVars, fsmVars, csrVars, pipeVars, history, IInv, Values, PipeTypes, CsrTypes, Places,
     IdInDecode, ExFlushed, StepBegins, ElwPlace, NoElwStepped, SteppedAlone, WbEmpty,
     OnlyLeaves, Leaving, Faulted, Stepping

(***************************************************************************)
(* A single step executes one instruction, whatever the program is, and    *)
(* also when an interrupt is withdrawn while the pipeline is busy or a     *)
(* halt is requested during the step.                                      *)
(***************************************************************************)
THEOREM StepsOne == Spec => []StepIsOne
<1>1. IInv /\ [Next]_vars => IInv'
  BY ClockKeeps, StutterKeeps DEF Next, Tick
<1> QED
  BY <1>1, InitInv, InvGivesStepIsOne, PTL DEF Spec

-----------------------------------------------------------------------------
(***************************************************************************)
(* The second part: the controller implements Hart.                        *)
(*                                                                         *)
(* Three things that the controller does not stand (see the README) are    *)
(* left out, as in the run: the requests the interface forbids, p.elw,     *)
(* and wfi in the debug ROM.                                               *)
(***************************************************************************)
PlainProgram ==
  /\ Requests \subseteq {"irq", "halt"}
  /\ "elw" \notin MainOps
  /\ "wfi" \notin RomOps

MainAddr == 0 .. Main - 1
Handlers == Main .. Main + 2
Rom == {HaltAddress, HaltAddress + 1}

\* What Hart sees of mstatus.mie, and the program's own place while it is halted.
MieSeen == MieAfter(ex.op, mie)
Own == IF debug_mode_q THEN depc ELSE due

Ranges ==
  /\ debug_mode_q => due \in Rom
  /\ ~debug_mode_q => due \in MainAddr \cup Handlers
  /\ depc \in MainAddr \cup Handlers
  /\ mepc \in MainAddr
  /\ mie \in BOOLEAN /\ mpie \in BOOLEAN /\ jump_done_q \in BOOLEAN

\* No interrupt and no exception in a handler: mepc has not been used yet.
HandlersUndisturbed == Own \in Handlers => MieSeen = FALSE

\* What an instruction in EX says of the state of the program.
InEx ==
  /\ ex.op = "skip" => Own = ExcHandler + 1 /\ ex.to \in MainAddr
  /\ ex.op \in {"stepon", "stepoff"} => debug_mode_q
  /\ ex.op \in {"set", "clear"} =>
       debug_mode_q \/ ctrl_fsm_cs \in {"FLUSH_EX", "DBG_FLUSH", "DBG_TAKEN_ID", "DBG_TAKEN_IF"}
  /\ BranchTaken => ctrl_fsm_cs \in {"DECODE", "DBG_WAIT_BRANCH"} /\ ex.to = due

\* The instruction in ID is the next one, and IF is behind it.
InTurn == id.pc = due /\ [op |-> id.op, to |-> id.to] \in InsnsAt(id.pc)
Behind == pc_if = IF id.op = "jump" /\ jump_done_q THEN id.to ELSE After(id.pc)
BehindOrThere == pc_if = After(id.pc) \/ (id.op = "jump" /\ pc_if = id.to)

Decoding == id.valid \/ instr_valid_irq_flush_q

AtDecode ==
  ctrl_fsm_cs = "DECODE" =>
    /\ ~BranchTaken /\ Decoding => InTurn
    /\ ~BranchTaken /\ id.valid => Behind
    /\ ~BranchTaken /\ ~Decoding => pc_if = due
    /\ id.valid /\ jump_done_q => id.op = "jump"
    /\ instr_valid_irq_flush_q => BehindOrThere /\ ~jump_done_q /\ ex = Bubble /\ ~wb

\* The instruction the pipeline is flushed for.
Flushed ==
  /\ illegal_insn_q <=> id.op = "illegal"
  /\ id.op \in Faults => due = ExcHandler /\ ~debug_mode_q
  /\ id.op = "fencei" => due = After(id.pc)
  /\ id.op \in {"mret", "dret"} => InTurn
  /\ id.op \notin Faults \cup {"fencei", "mret", "dret"} => pc_if = due
  /\ id.op = "wfi" => ~debug_mode_q

AtFlush == ctrl_fsm_cs \in {"FLUSH_EX", "FLUSH_WB"} => Flushed
AtReturn ==
  ctrl_fsm_cs = "XRET_JUMP" =>
    \/ id.op = "mret" /\ due = mepc /\ ~debug_mode_q
    \/ id.op = "dret" /\ InTurn
AtStart == ctrl_fsm_cs \in {"RESET", "BOOT_SET"} => due = 0 /\ ~debug_mode_q /\ ex = Bubble
AtSleep == ctrl_fsm_cs \in {"WAIT_SLEEP", "SLEEP", "FIRST_FETCH"} => pc_if = due /\ ~debug_mode_q

\* The flag that has ID decoded again lasts one cycle, so nothing may be waited for in it.
AtIrqFlush ==
  ctrl_fsm_cs = "IRQ_FLUSH" =>
    /\ InTurn /\ BehindOrThere
    /\ ~irq_i => ex = Bubble /\ ~wb
AtIrq ==
  /\ ctrl_fsm_cs = "IRQ_TAKEN_ID" => id.pc = due
  /\ ctrl_fsm_cs = "IRQ_TAKEN_IF" => pc_if = due
  /\ ctrl_fsm_cs \in {"IRQ_FLUSH", "IRQ_TAKEN_ID", "IRQ_TAKEN_IF"} => mie = TRUE /\ ~debug_mode_q

Parked == debug_mode_q /\ InTurn /\ id.op = "ebreak"
AtHalt ==
  /\ ctrl_fsm_cs = "DBG_WAIT_BRANCH" =>
       Stepping /\ ex.op = "branch" /\ (~BranchTaken => pc_if = due)
  /\ ctrl_fsm_cs = "DBG_FLUSH" =>
       \/ Parked
       \/ Stepping /\ pc_if = due
       \/ ~debug_mode_q /\ ~step /\ debug_req_i /\ id.pc = due
  /\ ctrl_fsm_cs = "DBG_TAKEN_ID" => Parked \/ (~debug_mode_q /\ debug_req_i /\ id.pc = due)
  /\ ctrl_fsm_cs = "DBG_TAKEN_IF" => ~debug_mode_q /\ pc_if = due

OnlyHere ==
  /\ illegal_insn_q => ctrl_fsm_cs \in {"FLUSH_EX", "FLUSH_WB"}
  /\ debug_req_i => ~step
  /\ ctrl_fsm_cs # "ELW_EXE" /\ ~elw
  /\ ctrl_fsm_cs \in {"DBG_WAIT_BRANCH", "DBG_FLUSH"} => id.op # "elw"

\* The inductive invariant, on top of the one of the first part.
At == AtDecode /\ AtFlush /\ AtReturn /\ AtStart /\ AtSleep /\ AtIrqFlush /\ AtIrq /\ AtHalt
TurnInv == Ranges /\ HandlersUndisturbed /\ InEx /\ At /\ OnlyHere

-----------------------------------------------------------------------------
(* What stands where.                                                      *)

LEMMA ProgramPlaces ==
  ASSUME PlainProgram, NEW a, a \in MainAddr \cup Handlers \cup Rom, NEW insn \in InsnsAt(a)
  PROVE  /\ insn.op = "skip" => a = ExcHandler
         /\ insn.op = "mret" => a \in {ExcHandler + 1, IrqHandler}
         /\ insn.op \in {"stepon", "stepoff"} => a = HaltAddress
         /\ insn.op = "dret" => a = HaltAddress + 1
         /\ insn.op = "ebreak" => a \in MainAddr \cup {HaltAddress + 1}
         /\ insn.op \in {"illegal", "ecall", "jump", "branch", "set", "clear", "fencei", "wfi"} => a \in MainAddr
         /\ insn.op # "elw"
         /\ a = HaltAddress + 1 => insn.op \in {"dret", "ebreak"}
         /\ a \in {ExcHandler + 1, IrqHandler} => insn.op = "mret"
         /\ a \in MainAddr => insn.to \in MainAddr
         /\ a \notin MainAddr => insn.to = a + 1
         /\ insn.op \notin {"jump", "branch"} => insn.to = After(a)
<1> USE ProgramAssumption
<1>1. PICK o \in OpsAt(a) : insn \in {[op |-> o, to |-> t] : t \in Successors(o, a)}
  BY DEF InsnsAt
<1>2. PICK t \in Successors(o, a) : insn = [op |-> o, to |-> t]
  BY <1>1
<1>3. insn.op = o /\ insn.to = t
  BY <1>2
<1>4. /\ a \in MainAddr => o \in MainOps
      /\ a = ExcHandler => o = "skip"
      /\ a \in {ExcHandler + 1, IrqHandler} => o = "mret"
      /\ a = HaltAddress => o \in RomOps
      /\ a = HaltAddress + 1 => o \in {"dret", "ebreak"}
  BY <1>1 DEF OpsAt, MainAddr, ExcHandler, IrqHandler, HaltAddress
<1>5. a \in MainAddr \/ a \in {ExcHandler, ExcHandler + 1, IrqHandler, HaltAddress, HaltAddress + 1}
  BY DEF MainAddr, Handlers, Rom, ExcHandler, IrqHandler, HaltAddress
<1>6. a \notin MainAddr => a >= Main /\ a \in Int
  BY <1>5 DEF MainAddr, ExcHandler, IrqHandler, HaltAddress
<1>7. o \notin {"jump", "branch"} => t = After(a)
  BY <1>2 DEF Successors
<1>8. a \in MainAddr => After(a) \in MainAddr
  BY DEF After, MainAddr
<1>9. a \in MainAddr => t \in MainAddr
  BY <1>2, <1>8 DEF Successors, MainAddr
<1>10. a \notin MainAddr => o \notin {"jump", "branch"}
  BY <1>4, <1>5
<1>11. a \notin MainAddr => After(a) = a + 1
  BY <1>6 DEF After
<1>12. /\ o = "skip" => a = ExcHandler
       /\ o = "mret" => a \in {ExcHandler + 1, IrqHandler}
       /\ o \in {"stepon", "stepoff"} => a = HaltAddress
       /\ o = "dret" => a = HaltAddress + 1
  BY <1>4, <1>5
<1>13. /\ o = "ebreak" => a \in MainAddr \cup {HaltAddress + 1}
       /\ o \in {"illegal", "ecall", "jump", "branch", "set", "clear", "fencei", "wfi"} => a \in MainAddr
       /\ o # "elw"
  BY <1>4, <1>5 DEF PlainProgram
<1> QED
  BY <1>3, <1>4, <1>7, <1>9, <1>10, <1>11, <1>12, <1>13

LEMMA PlacesApart ==
  /\ MainAddr \cap Handlers = {} /\ MainAddr \cap Rom = {} /\ Handlers \cap Rom = {}
  /\ ExcHandler \in Handlers /\ IrqHandler \in Handlers /\ ExcHandler + 1 \in Handlers
  /\ ExcHandler # ExcHandler + 1 /\ IrqHandler # ExcHandler + 1 /\ IrqHandler # ExcHandler
  /\ HaltAddress \in Rom /\ HaltAddress + 1 \in Rom /\ HaltAddress # HaltAddress + 1
  /\ 0 \in MainAddr /\ MainAddr \subseteq Int /\ Handlers \subseteq Int /\ Rom \subseteq Int
  /\ \A a \in MainAddr : After(a) \in MainAddr
  /\ Handlers = {ExcHandler, ExcHandler + 1, IrqHandler}
  BY ProgramAssumption DEF MainAddr, Handlers, Rom, ExcHandler, IrqHandler, HaltAddress, After

\* Hart uses the same program.
LEMMA SameProgram ==
  /\ \A a : Architecture!InsnsAt(a) = InsnsAt(a)
  /\ \A op, m : Architecture!MieAfter(op, m) = MieAfter(op, m)
  /\ \A a : Architecture!After(a) = After(a)
  /\ Architecture!ExcHandler = ExcHandler /\ Architecture!IrqHandler = IrqHandler
  /\ Architecture!HaltAddress = HaltAddress
<1>1. /\ Architecture!ExcHandler = ExcHandler /\ Architecture!IrqHandler = IrqHandler
      /\ Architecture!HaltAddress = HaltAddress
  BY DEF Architecture!ExcHandler, ExcHandler, Architecture!IrqHandler, IrqHandler,
         Architecture!HaltAddress, HaltAddress
<1>2. \A a : Architecture!After(a) = After(a)
  BY DEF Architecture!After, After
<1>3. \A op, m : Architecture!MieAfter(op, m) = MieAfter(op, m)
  BY DEF Architecture!MieAfter, MieAfter
<1>4. \A a : Architecture!InsnsAt(a) = InsnsAt(a)
  BY Zenon DEF Architecture!InsnsAt, InsnsAt, Architecture!OpsAt, OpsAt,
               Architecture!Successors, Successors, Architecture!After, After,
               Architecture!ExcHandler, ExcHandler, Architecture!IrqHandler, IrqHandler,
               Architecture!HaltAddress, HaltAddress
<1> QED
  BY <1>1, <1>2, <1>3, <1>4

-----------------------------------------------------------------------------
(* The steps of Hart.                                                      *)

HartStep == [Architecture!Next]_(Architecture!vars)

LEMMA Stutters ==
  ASSUME UNCHANGED <<due, debug_mode_q, mpie, depc>>, MieSeen' = MieSeen, MepcAfterEx' = MepcAfterEx
  PROVE  HartStep
  BY DEF HartStep, Architecture!vars, MieSeen

LEMMA Executes ==
  ASSUME NEW insn \in InsnsAt(due),
         insn.op \notin {"illegal", "ecall", "ebreak", "mret", "dret"},
         due' = insn.to, MieSeen' = MieAfter(insn.op, MieSeen),
         MepcAfterEx' = IF insn.op = "skip" THEN After(MepcAfterEx) ELSE MepcAfterEx,
         UNCHANGED <<debug_mode_q, mpie, depc>>
  PROVE  HartStep
<1>1. Architecture!Execute
  BY SameProgram DEF Architecture!Execute, MieSeen
<1> QED
  BY <1>1 DEF HartStep, Architecture!Next

LEMMA TrapsTo ==
  ASSUME NEW handler, MepcAfterEx' = due, due' = handler, mpie' = MieSeen, MieSeen' = FALSE,
         UNCHANGED <<debug_mode_q, depc>>
  PROVE  Architecture!Trap(handler)
  BY DEF Architecture!Trap, MieSeen

LEMMA Excepts ==
  ASSUME NEW insn \in InsnsAt(due), insn.op \in Faults, ~debug_mode_q, Architecture!Trap(ExcHandler)
  PROVE  HartStep
  BY SameProgram DEF HartStep, Architecture!Next, Architecture!Exception, Faults

LEMMA Interrupted ==
  ASSUME MieSeen = TRUE, ~debug_mode_q, Architecture!Trap(IrqHandler)
  PROVE  HartStep
  BY SameProgram DEF HartStep, Architecture!Next, Architecture!Interrupt, MieSeen

LEMMA Returns ==
  ASSUME NEW insn \in InsnsAt(due), insn.op = "mret",
         due' = MepcAfterEx, MieSeen' = mpie, mpie' = TRUE, MepcAfterEx' = MepcAfterEx,
         UNCHANGED <<debug_mode_q, depc>>
  PROVE  HartStep
  BY SameProgram DEF HartStep, Architecture!Next, Architecture!Mret, MieSeen

LEMMA Resumes ==
  ASSUME debug_mode_q, NEW insn \in InsnsAt(due), insn.op = "dret",
         due' = depc, debug_mode_q' = FALSE, MieSeen' = MieSeen, MepcAfterEx' = MepcAfterEx,
         UNCHANGED <<mpie, depc>>
  PROVE  HartStep
  BY SameProgram DEF HartStep, Architecture!Next, Architecture!Dret, MieSeen

LEMMA Halts ==
  ASSUME ~debug_mode_q, debug_mode_q' = TRUE, depc' = due, due' = HaltAddress,
         MieSeen' = MieSeen, MepcAfterEx' = MepcAfterEx, UNCHANGED mpie
  PROVE  HartStep
  BY SameProgram DEF HartStep, Architecture!Next, Architecture!EnterDebug, MieSeen

LEMMA ParksAgain ==
  ASSUME debug_mode_q, NEW insn \in InsnsAt(due), insn.op = "ebreak", due' = HaltAddress,
         MieSeen' = MieSeen, MepcAfterEx' = MepcAfterEx, UNCHANGED <<debug_mode_q, mpie, depc>>
  PROVE  HartStep
  BY SameProgram DEF HartStep, Architecture!Next, Architecture!Park, MieSeen

LEMMA HartInit == Init => Architecture!Init
  BY DEF Init, Architecture!Init, MieAfter, MepcAfterEx, Bubble

LEMMA TurnInit == Init => TurnInv
<1> SUFFICES ASSUME Init PROVE TurnInv
  OBVIOUS
<1>1. Ranges
  BY PlacesApart DEF Init, Ranges
<1>2. HandlersUndisturbed
  BY PlacesApart DEF Init, HandlersUndisturbed, MieSeen, MieAfter, Bubble
<1>3. InEx
  BY DEF Init, InEx, BranchTaken, Bubble
<1>4. At
  BY DEF Init, At, AtDecode, AtFlush, AtReturn, AtStart, AtSleep, AtIrqFlush, AtIrq, AtHalt
<1>5. OnlyHere
  BY DEF Init, OnlyHere
<1> QED
  BY <1>1, <1>2, <1>3, <1>4, <1>5 DEF TurnInv

-----------------------------------------------------------------------------
(* What most cycles have in common: only EX goes on.                       *)

LEMMA CsrsWritten ==
  ASSUME Values, Ranges, WriteCsrs
  PROVE  /\ mie' = MieSeen /\ mie' \in BOOLEAN
         /\ mepc' = MepcAfterEx /\ UNCHANGED <<mpie, depc>>
         /\ step' = StepAfterEx
  BY DEF Values, PipeTypes, Ranges, WriteCsrs, WriteStep, MieSeen, MieAfter

LEMMA QuietStep ==
  ASSUME Values, TurnInv, WriteCsrs, UNCHANGED <<due, debug_mode_q>>,
         ex' = ex \/ ex' = Bubble, jump_done_q' \in BOOLEAN
  PROVE  /\ HartStep /\ Ranges' /\ HandlersUndisturbed'
         /\ ex'.op = "skip" => Own' = ExcHandler + 1 /\ ex'.to \in MainAddr
         /\ ex'.op \in {"stepon", "stepoff"} => debug_mode_q'
         /\ ~debug_mode_q => step' = step
         /\ mie = TRUE /\ ex.op \notin {"set", "clear"} => mie' = TRUE
<1>1. /\ mie' = MieSeen /\ mie' \in BOOLEAN
      /\ mepc' = MepcAfterEx /\ UNCHANGED <<mpie, depc>>
      /\ step' = StepAfterEx
  BY CsrsWritten DEF TurnInv
<1>2. MieSeen' = MieSeen
  BY <1>1, BubbleType DEF MieSeen, MieAfter
<1>3. MepcAfterEx' = MepcAfterEx
  BY <1>1, BubbleType DEF MepcAfterEx
<1>4. Own' = Own
  BY <1>1 DEF Own
<1>5. MepcAfterEx \in MainAddr
  BY DEF TurnInv, Ranges, InEx, MepcAfterEx
<1>6. HartStep
  BY <1>1, <1>2, <1>3, Stutters
<1>7. Ranges'
  BY <1>1, <1>5 DEF TurnInv, Ranges
<1>8. HandlersUndisturbed'
  BY <1>2, <1>4 DEF TurnInv, HandlersUndisturbed
<1>9. /\ ex'.op = "skip" => Own' = ExcHandler + 1 /\ ex'.to \in MainAddr
      /\ ex'.op \in {"stepon", "stepoff"} => debug_mode_q'
  BY <1>4, BubbleType DEF TurnInv, InEx
<1>10. ~debug_mode_q => step' = step
  BY <1>1 DEF TurnInv, InEx, StepAfterEx
<1>11. mie = TRUE /\ ex.op \notin {"set", "clear"} => mie' = TRUE
  BY <1>1 DEF MieSeen, MieAfter
<1> QED
  BY <1>6, <1>7, <1>8, <1>9, <1>10, <1>11

\* A step that leaves ID and IF alone, or only sets the PC.
LEMMA HaltedId ==
  ASSUME PipeTypes, NEW i \in Inputs, NEW halt_id, NEW decoding, NEW set, NEW target,
         Pipeline(i, Wires(TRUE, halt_id, decoding, set, target))
  PROVE  /\ pc_if' = IF set THEN target ELSE pc_if
         /\ id'.pc = id.pc /\ id'.op = id.op /\ id'.to = id.to
         /\ wb' = NextWb(i)
  BY DEF PipeTypes, Pipeline, Wires, Takes, NextId, NextPcIf, Inputs

LEMMA SetId ==
  ASSUME PipeTypes, NEW i \in Inputs, NEW target, Pipeline(i, SetPc(target))
  PROVE  /\ pc_if' = target
         /\ id'.pc = id.pc /\ id'.op = id.op /\ id'.to = id.to
         /\ ~id.valid => ~id'.valid
         /\ wb' = NextWb(i)
  BY DEF PipeTypes, Pipeline, SetPc, Wires, Takes, NextId, NextPcIf, Inputs

\* Where the controller cannot be halted for a request and be stepping.
LEMMA PinsHold ==
  ASSUME PlainProgram, Pins
  PROVE  /\ debug_req_i' => ~step'
         /\ debug_req_i /\ ~debug_mode_q => debug_req_i'
         /\ ctrl_fsm_cs' = "IRQ_FLUSH" /\ ~irq_i' => ~IsSlow(ex'.op) /\ ~wb'
  BY DEF PlainProgram, Pins

Around(i) ==
  /\ PlainProgram /\ Possible(i) /\ Pins
  /\ IInv /\ IInv' /\ TurnInv
Before(i) == Around(i) /\ jump_done_q' = (jump_done_q /\ ~IdReady(i))

LEMMA JumpDone ==
  ASSUME NEW i, Before(i) PROVE jump_done_q' \in BOOLEAN /\ (IdReady(i) => ~jump_done_q')
  BY Zenon DEF Before

\* A quiet step to a state outside DECODE.
QuietEnd(i) ==
  /\ HartStep /\ Ranges' /\ HandlersUndisturbed'
  /\ ex'.op = "skip" => Own' = ExcHandler + 1 /\ ex'.to \in MainAddr
  /\ ex'.op \in {"stepon", "stepoff"} => debug_mode_q'
  /\ ~debug_mode_q => step' = step
  /\ mie = TRUE /\ ex.op \notin {"set", "clear"} => mie' = TRUE
  /\ UNCHANGED <<due, debug_mode_q, elw>>
  /\ debug_req_i' => ~step'

LEMMA QuietIn ==
  ASSUME NEW i, Before(i), WriteCsrs, NothingExecuted, UNCHANGED debug_mode_q,
         ex' = ex \/ ex' = Bubble
  PROVE  QuietEnd(i)
<1>1. UNCHANGED <<due, elw>>
  BY DEF NothingExecuted, history
<1>2. jump_done_q' \in BOOLEAN
  BY JumpDone
<1> QED
  BY <1>1, <1>2, QuietStep, PinsHold DEF QuietEnd, Before, Around, IInv

LEMMA SleepTurn ==
  ASSUME NEW i \in Inputs, Before(i), Sleep(i), NoReplay PROVE HartStep /\ TurnInv'
<1> USE DEF Before, Around
<1>1. Pipeline(i, Wires(TRUE, TRUE, FALSE, FALSE, 0))
  BY DEF Sleep, Halted
<1>2. PipeTypes
  BY DEF IInv, Values
<1>3. pc_if' = pc_if /\ LeftAsItIs(i)
  <2>1. 0 \in Int
    OBVIOUS
  <2> QED
    BY <1>1, <1>2, <2>1, HaltedPipe, HaltedId
<1>4. ex' = ex \/ ex' = Bubble
  BY <1>3 DEF LeftAsItIs
<1>5. QuietEnd(i)
  BY <1>4, QuietIn DEF Sleep
<1>6. ctrl_fsm_cs' \in {"SLEEP", "FIRST_FETCH"} /\ ctrl_fsm_cs \in {"WAIT_SLEEP", "SLEEP"}
  BY DEF Sleep
<1>7. pc_if = due /\ ~debug_mode_q
  BY <1>6 DEF TurnInv, At, AtSleep
<1>8. InEx'
  BY <1>4, <1>5, <1>6, <1>7, BubbleType DEF QuietEnd, TurnInv, InEx, BranchTaken
<1>9. At'
  BY <1>3, <1>5, <1>6, <1>7
  DEF QuietEnd, At, AtDecode, AtFlush, AtReturn, AtStart, AtSleep, AtIrqFlush, AtIrq, AtHalt
<1>10. OnlyHere'
  BY <1>5, <1>6 DEF QuietEnd, TurnInv, OnlyHere, Sleep
<1> QED
  BY <1>5, <1>8, <1>9, <1>10 DEF QuietEnd, TurnInv

LEMMA InsnIs ==
  ASSUME NEW a, NEW insn \in InsnsAt(a) PROVE [op |-> insn.op, to |-> insn.to] = insn
  BY DEF InsnsAt

\* An empty ID gets the instruction of IF, or stays empty.
FetchesNext(i) ==
  \/ /\ IdReady(i) /\ id'.valid /\ id'.pc = pc_if /\ pc_if' = After(pc_if)
     /\ [op |-> id'.op, to |-> id'.to] \in InsnsAt(id'.pc)
  \/ ~id'.valid /\ pc_if' = pc_if

LEMMA RunningId ==
  ASSUME PipeTypes, NEW i \in Inputs, ~id.valid, Pipeline(i, Running)
  PROVE  FetchesNext(i) /\ (ex' = ex \/ ex' = Bubble)
<1>1. ex' = ex \/ ex' = Bubble
  BY RunningPipe
<1>2. CASE Takes(i, Running)
  <2>1. PICK insn \in InsnsAt(pc_if) : id' = NextId(i, Running, insn)
    BY <1>2 DEF Pipeline
  <2>2. id' = [valid |-> TRUE, pc |-> pc_if, op |-> insn.op, to |-> insn.to]
    BY <1>2, <2>1 DEF NextId
  <2>3. id'.valid /\ id'.pc = pc_if /\ id'.op = insn.op /\ id'.to = insn.to
    BY <2>2
  <2>4. pc_if' = After(pc_if)
    BY <1>2 DEF Pipeline, NextPcIf, Running, Wires
  <2> QED
    BY <1>1, <1>2, <2>3, <2>4, InsnIs DEF FetchesNext, Takes
<1>3. CASE ~Takes(i, Running)
  <2>1. pc_if' = pc_if
    BY <1>3 DEF Pipeline, NextPcIf, Running, Wires
  <2>2. id' = NextId(i, Running, id)
    BY <1>3 DEF Pipeline
  <2>3. ~id'.valid
    BY <1>3, <2>2 DEF NextId, PipeTypes
  <2> QED
    BY <1>1, <2>1, <2>3 DEF FetchesNext
<1> QED
  BY <1>2, <1>3

\* After it, ID is in turn if IF was.
LEMMA NextInTurn ==
  ASSUME NEW i, Before(i), pc_if = due, UNCHANGED due, FetchesNext(i), ~instr_valid_irq_flush_q'
  PROVE  AtDecode'
<1>1. CASE ~id'.valid
  BY <1>1 DEF FetchesNext, AtDecode, Decoding
<1>2. CASE id'.valid
  <2>1. IdReady(i) /\ id'.pc = due /\ pc_if' = After(id'.pc) /\ [op |-> id'.op, to |-> id'.to] \in InsnsAt(id'.pc)
    BY <1>2 DEF FetchesNext
  <2>2. ~jump_done_q'
    BY <2>1, JumpDone
  <2> QED
    BY <1>2, <2>1, <2>2 DEF AtDecode, Decoding, Behind, InTurn
<1> QED
  BY <1>1, <1>2

LEMMA FirstFetchTurn ==
  ASSUME NEW i \in Inputs, Before(i), FirstFetch(i), NoReplay PROVE HartStep /\ TurnInv'
<1> USE DEF Before, Around
<1>1. PipeTypes /\ ~id.valid /\ ~instr_valid_irq_flush_q'
  BY DEF FirstFetch, NoReplay, IInv, Values, Places, IdInDecode
<1>2. ctrl_fsm_cs = "FIRST_FETCH" /\ pc_if = due /\ ~debug_mode_q
  BY DEF FirstFetch, TurnInv, At, AtSleep
<1>3. CASE TakesDebug \/ (IrqReq /\ mie)
  <2>1. Pipeline(i, Wires(TRUE, TRUE, FALSE, FALSE, 0))
    BY <1>3 DEF FirstFetch, Halted
  <2>2. pc_if' = pc_if /\ LeftAsItIs(i)
    <3>1. 0 \in Int
      OBVIOUS
    <3> QED
      BY <1>1, <2>1, <3>1, HaltedPipe, HaltedId
  <2>3. ex' = ex \/ ex' = Bubble
    BY <2>2 DEF LeftAsItIs
  <2>4. QuietEnd(i)
    BY <2>3, QuietIn DEF FirstFetch
  <2>5. ctrl_fsm_cs' = "DBG_TAKEN_IF" \/ (ctrl_fsm_cs' = "IRQ_TAKEN_IF" /\ mie = TRUE)
    <3>1. mie \in BOOLEAN
      BY DEF TurnInv, Ranges
    <3> QED
      BY <1>3, <3>1, Zenon DEF FirstFetch
  <2>6. ex.op \notin {"set", "clear"}
    BY <1>2 DEF TurnInv, InEx
  <2>7. InEx'
    BY <1>2, <2>3, <2>4, <2>5, <2>6, BubbleType DEF QuietEnd, TurnInv, InEx, BranchTaken
  <2>8. At'
    BY <1>2, <2>2, <2>4, <2>5, <2>6
    DEF QuietEnd, At, AtDecode, AtFlush, AtReturn, AtStart, AtSleep, AtIrqFlush, AtIrq, AtHalt
  <2>9. OnlyHere'
    BY <1>2, <2>4, <2>5 DEF QuietEnd, TurnInv, OnlyHere, FirstFetch
  <2> QED
    BY <2>4, <2>7, <2>8, <2>9 DEF QuietEnd, TurnInv
<1>4. CASE ~(TakesDebug \/ (IrqReq /\ mie))
  <2>1. Pipeline(i, Running)
    BY <1>4 DEF FirstFetch
  <2>2. FetchesNext(i) /\ (ex' = ex \/ ex' = Bubble)
    BY <1>1, <2>1, RunningId
  <2>3. QuietEnd(i)
    BY <2>2, QuietIn DEF FirstFetch
  <2>4. ctrl_fsm_cs' = IF IdReady(i) THEN "DECODE" ELSE "FIRST_FETCH"
    BY <1>4, Zenon DEF FirstFetch
  <2>5. InEx'
    BY <1>2, <2>2, <2>3, <2>4, BubbleType DEF QuietEnd, TurnInv, InEx, BranchTaken
  <2>6. AtDecode'
    BY <1>1, <1>2, <2>2, <2>3, NextInTurn DEF QuietEnd
  <2>7. ctrl_fsm_cs' = "FIRST_FETCH" => pc_if' = pc_if
    BY <2>2, <2>4 DEF FetchesNext
  <2>8. At'
    BY <1>2, <2>3, <2>4, <2>6, <2>7
    DEF QuietEnd, At, AtFlush, AtReturn, AtStart, AtSleep, AtIrqFlush, AtIrq, AtHalt
  <2>9. OnlyHere'
    BY <1>2, <2>3, <2>4 DEF QuietEnd, TurnInv, OnlyHere, FirstFetch
  <2> QED
    BY <2>3, <2>5, <2>8, <2>9 DEF QuietEnd, TurnInv
<1> QED
  BY <1>3, <1>4

LEMMA StartTurn ==
  ASSUME NEW i \in Inputs, Before(i), Start(i), NoReplay PROVE HartStep /\ TurnInv'
<1> USE DEF Before, Around
<1>1. PipeTypes
  BY DEF IInv, Values
<1>2. due = 0 /\ ~debug_mode_q /\ ex = Bubble
  BY DEF Start, TurnInv, At, AtStart
<1>3. CASE ctrl_fsm_cs = "RESET" /\ ctrl_fsm_cs' \in {"RESET", "BOOT_SET"} /\ Pipeline(i, Halted)
  <2>1. LeftAsItIs(i)
    <3>1. 0 \in Int
      OBVIOUS
    <3> QED
      BY <1>1, <1>3, <3>1, HaltedPipe DEF Halted
  <2>2. ex' = Bubble
    BY <1>2, <2>1 DEF LeftAsItIs
  <2>3. QuietEnd(i)
    BY <2>2, QuietIn DEF Start
  <2>4. InEx'
    BY <2>2, <2>3 DEF QuietEnd, InEx, BranchTaken, Bubble
  <2>5. At'
    BY <1>2, <1>3, <2>2, <2>3
    DEF QuietEnd, At, AtDecode, AtFlush, AtReturn, AtStart, AtSleep, AtIrqFlush, AtIrq, AtHalt
  <2>6. OnlyHere'
    BY <1>3, <2>3 DEF QuietEnd, TurnInv, OnlyHere, Start
  <2> QED
    BY <2>3, <2>4, <2>5, <2>6 DEF QuietEnd, TurnInv
<1>4. CASE ctrl_fsm_cs = "BOOT_SET" /\ ctrl_fsm_cs' = "FIRST_FETCH" /\ Pipeline(i, SetPc(0))
  <2>1. pc_if' = 0 /\ LeftAsItIs(i)
    <3>1. 0 \in Int
      OBVIOUS
    <3> QED
      BY <1>1, <1>4, <3>1, SetPipe, SetId
  <2>2. ex' = Bubble
    BY <1>2, <2>1 DEF LeftAsItIs
  <2>3. QuietEnd(i)
    BY <2>2, QuietIn DEF Start
  <2>4. InEx'
    BY <2>2, <2>3 DEF QuietEnd, InEx, BranchTaken, Bubble
  <2>5. At'
    BY <1>2, <1>4, <2>1, <2>2, <2>3
    DEF QuietEnd, At, AtDecode, AtFlush, AtReturn, AtStart, AtSleep, AtIrqFlush, AtIrq, AtHalt
  <2>6. OnlyHere'
    BY <1>4, <2>3 DEF QuietEnd, TurnInv, OnlyHere, Start
  <2> QED
    BY <2>3, <2>4, <2>5, <2>6 DEF QuietEnd, TurnInv
<1> QED
  BY <1>3, <1>4 DEF Start

LEMMA FlushExTurn ==
  ASSUME NEW i \in Inputs, Before(i), FlushEx(i), NoReplay PROVE HartStep /\ TurnInv'
<1> USE DEF Before, Around
<1>1. Pipeline(i, Wires(TRUE, TRUE, FALSE, FALSE, 0))
  BY DEF FlushEx, Halted
<1>2. PipeTypes
  BY DEF IInv, Values
<1>3. pc_if' = pc_if /\ id'.pc = id.pc /\ id'.op = id.op /\ id'.to = id.to /\ LeftAsItIs(i)
  <2>1. 0 \in Int
    OBVIOUS
  <2> QED
    BY <1>1, <1>2, <2>1, HaltedPipe, HaltedId
<1>4. ex' = ex \/ ex' = Bubble
  BY <1>3 DEF LeftAsItIs
<1>5. QuietEnd(i)
  BY <1>4, QuietIn DEF FlushEx
<1>6. ctrl_fsm_cs = "FLUSH_EX"
  BY DEF FlushEx, TurnInv, OnlyHere
<1>7. ctrl_fsm_cs' = IF ExValid(i) THEN "FLUSH_WB" ELSE "FLUSH_EX"
  BY <1>6 DEF FlushEx
<1>8. ExValid(i) => ex' = Bubble
  BY <1>3 DEF LeftAsItIs, ExReady
<1>9. InEx'
  BY <1>4, <1>5, <1>6, <1>7, <1>8, BubbleType DEF QuietEnd, TurnInv, InEx, BranchTaken
<1>10. Flushed'
  BY <1>3, <1>5, <1>6 DEF TurnInv, At, AtFlush, Flushed, InTurn, QuietEnd, FlushEx
<1>11. At'
  BY <1>5, <1>7, <1>10
  DEF QuietEnd, At, AtDecode, AtFlush, AtReturn, AtStart, AtSleep, AtIrqFlush, AtIrq, AtHalt
<1>12. OnlyHere'
  BY <1>5, <1>6, <1>7 DEF QuietEnd, TurnInv, OnlyHere, FlushEx
<1> QED
  BY <1>5, <1>9, <1>11, <1>12 DEF QuietEnd, TurnInv

LEMMA DbgFlushTurn ==
  ASSUME NEW i \in Inputs, Before(i), DbgFlush(i), NoReplay PROVE HartStep /\ TurnInv'
<1> USE DEF Before, Around
<1>1. Pipeline(i, Wires(TRUE, TRUE, FALSE, FALSE, 0))
  BY DEF DbgFlush, Halted
<1>2. PipeTypes /\ debug_mode_q \in BOOLEAN /\ step \in BOOLEAN
  BY DEF IInv, Values, CsrTypes
<1>3. pc_if' = pc_if /\ id'.pc = id.pc /\ id'.op = id.op /\ id'.to = id.to /\ LeftAsItIs(i)
  <2>1. 0 \in Int
    OBVIOUS
  <2> QED
    BY <1>1, <1>2, <2>1, HaltedPipe, HaltedId
<1>4. ex' = ex \/ ex' = Bubble
  BY <1>3 DEF LeftAsItIs
<1>5. QuietEnd(i)
  BY <1>4, QuietIn DEF DbgFlush
<1>6. \/ Parked
      \/ Stepping /\ pc_if = due
      \/ ~debug_mode_q /\ ~step /\ debug_req_i /\ id.pc = due
  BY DEF DbgFlush, TurnInv, At, AtHalt
<1>7. ctrl_fsm_cs' = IF Stepping THEN "DBG_TAKEN_IF" ELSE "DBG_TAKEN_ID"
  BY DEF DbgFlush, TurnInv, OnlyHere, Stepping
<1>8. InEx'
  BY <1>4, <1>5, <1>7, BubbleType DEF QuietEnd, TurnInv, InEx, BranchTaken, DbgFlush
<1>9. At'
  <2>1. Parked => Parked' /\ ~Stepping
    BY <1>3, <1>5 DEF Parked, InTurn, QuietEnd, Stepping
  <2>2. debug_req_i /\ ~debug_mode_q => debug_req_i'
    BY PinsHold
  <2> QED
    BY <1>3, <1>5, <1>6, <1>7, <2>1, <2>2
    DEF QuietEnd, At, AtDecode, AtFlush, AtReturn, AtStart, AtSleep, AtIrqFlush, AtIrq, AtHalt, Stepping
<1>10. OnlyHere'
  BY <1>5, <1>7 DEF QuietEnd, TurnInv, OnlyHere, DbgFlush
<1> QED
  BY <1>5, <1>8, <1>9, <1>10 DEF QuietEnd, TurnInv

LEMMA IrqFlushTurn ==
  ASSUME NEW i \in Inputs, Before(i), IrqFlush(i) PROVE HartStep /\ TurnInv'
<1> USE DEF Before, Around
<1>1. Pipeline(i, Wires(TRUE, TRUE, FALSE, FALSE, 0))
  BY DEF IrqFlush, Halted
<1>2. PipeTypes /\ ~id'.valid
  <2>1. PipeTypes
    BY DEF IInv, Values
  <2>2. 0 \in Int
    OBVIOUS
  <2> QED
    BY <1>1, <2>1, <2>2, HaltedPipe DEF PipeTypes
<1>3. /\ pc_if' = pc_if /\ id'.pc = id.pc /\ id'.op = id.op /\ id'.to = id.to
      /\ LeftAsItIs(i) /\ wb' = NextWb(i)
  <2>1. 0 \in Int
    OBVIOUS
  <2> QED
    BY <1>1, <1>2, <2>1, HaltedPipe, HaltedId
<1>4. ex' = ex \/ ex' = Bubble
  BY <1>3 DEF LeftAsItIs
<1>5. ctrl_fsm_cs = "IRQ_FLUSH" /\ ~elw /\ mie = TRUE /\ ~debug_mode_q
  BY DEF IrqFlush, TurnInv, At, AtIrq, OnlyHere
<1>6. NothingExecuted
  BY <1>5 DEF IrqFlush
<1>7. QuietEnd(i)
  BY <1>4, <1>6, QuietIn DEF IrqFlush
<1>8. ex.op \notin {"set", "clear"} /\ ~BranchTaken
  BY <1>5 DEF TurnInv, InEx
<1>9. InEx'
  BY <1>4, <1>7, <1>8, BubbleType DEF QuietEnd, TurnInv, InEx, BranchTaken
<1>10. InTurn /\ BehindOrThere /\ (~irq_i => ex = Bubble /\ ~wb)
  BY <1>5 DEF TurnInv, At, AtIrqFlush
<1>11. InTurn' /\ BehindOrThere'
  BY <1>3, <1>7, <1>10 DEF InTurn, BehindOrThere, QuietEnd
<1>12. CASE irq_i
  <2>1. ctrl_fsm_cs' = "IRQ_TAKEN_ID" /\ mie' = TRUE /\ instr_valid_irq_flush_q' = FALSE
    BY <1>5, <1>7, <1>8, <1>12 DEF IrqFlush, Replays, QuietEnd
  <2>2. At'
    BY <1>5, <1>7, <1>11, <2>1
    DEF QuietEnd, At, AtDecode, AtFlush, AtReturn, AtStart, AtSleep, AtIrqFlush, AtIrq, AtHalt, InTurn
  <2>3. OnlyHere'
    BY <1>5, <1>7, <2>1 DEF QuietEnd, TurnInv, OnlyHere, IrqFlush
  <2> QED
    BY <1>7, <1>9, <2>2, <2>3 DEF QuietEnd, TurnInv
<1>13. CASE ~irq_i
  <2>1. ctrl_fsm_cs' = "DECODE"
    BY <1>13 DEF IrqFlush
  <2>2. ex = Bubble /\ ~wb
    BY <1>10, <1>13
  <2>3. ~i.rvalid /\ ~i.jr /\ ~i.stall
    BY <2>2 DEF Possible, Bubble, IsSlow
  <2>4. IdReady(i) /\ ex' = Bubble
    BY <1>3, <2>2, <2>3 DEF IdReady, ExReady, ExValid, IsSlow, Bubble, LeftAsItIs
  <2>5. ~wb'
    BY <1>3, <2>2, Zenon DEF NextWb, IsSlow, Bubble
  <2>6. ~jump_done_q'
    BY <2>4, JumpDone
  <2>7. instr_valid_irq_flush_q'
    BY <1>13, Zenon DEF IrqFlush, Replays
  <2>8. ~BranchTaken'
    BY <2>4 DEF BranchTaken, Bubble
  <2>9. At'
    BY <1>2, <1>11, <2>1, <2>4, <2>5, <2>6, <2>7, <2>8
    DEF At, AtDecode, AtFlush, AtReturn, AtStart, AtSleep, AtIrqFlush, AtIrq, AtHalt, Decoding
  <2>10. OnlyHere'
    BY <1>5, <1>7, <2>1 DEF QuietEnd, TurnInv, OnlyHere, IrqFlush
  <2> QED
    BY <1>7, <1>9, <2>9, <2>10 DEF QuietEnd, TurnInv
<1> QED
  BY <1>12, <1>13

LEMMA DbgWaitBranchTurn ==
  ASSUME NEW i \in Inputs, Before(i), DbgWaitBranch(i), NoReplay PROVE HartStep /\ TurnInv'
<1> USE DEF Before, Around
<1>1. PipeTypes
  BY DEF IInv, Values
<1>2. pc_if' = (IF BranchTaken THEN ex.to ELSE pc_if) /\ id'.op = id.op /\ LeftAsItIs(i)
  <2>1. ex.to \in Int
    BY <1>1 DEF PipeTypes
  <2>2. Pipeline(i, Wires(TRUE, FALSE, FALSE, BranchTaken, ex.to))
    BY DEF DbgWaitBranch
  <2>3. LeftAsItIs(i)
    BY <1>1, <2>1, <2>2, BranchPipe
  <2>4. pc_if' = (IF BranchTaken THEN ex.to ELSE pc_if) /\ id'.op = id.op
    BY <1>1, <2>2 DEF PipeTypes, Pipeline, Wires, Takes, NextId, NextPcIf
  <2> QED
    BY <2>3, <2>4
<1>3. ex.op = "branch" /\ Stepping /\ (~BranchTaken => pc_if = due) /\ (BranchTaken => ex.to = due)
  BY DEF DbgWaitBranch, TurnInv, At, AtHalt, InEx
<1>4. ex' = Bubble
  BY <1>2, <1>3 DEF LeftAsItIs, ExReady
<1>5. QuietEnd(i)
  BY <1>4, QuietIn DEF DbgWaitBranch
<1>6. InEx'
  BY <1>4, <1>5 DEF QuietEnd, InEx, BranchTaken, Bubble
<1>7. Stepping' /\ pc_if' = due'
  BY <1>2, <1>3, <1>5 DEF Stepping, QuietEnd
<1>8. At'
  BY <1>5, <1>7
  DEF QuietEnd, At, AtDecode, AtFlush, AtReturn, AtStart, AtSleep, AtIrqFlush, AtIrq, AtHalt, DbgWaitBranch
<1>9. OnlyHere'
  BY <1>2, <1>5 DEF QuietEnd, TurnInv, OnlyHere, DbgWaitBranch
<1> QED
  BY <1>5, <1>6, <1>8, <1>9 DEF QuietEnd, TurnInv

LEMMA DecodeBranchTakenTurn ==
  ASSUME NEW i \in Inputs, Before(i), DecodeBranchTaken(i) PROVE HartStep /\ TurnInv'
<1> USE DEF Before, Around
<1>1. PipeTypes
  BY DEF IInv, Values
<1>2. pc_if' = ex.to /\ LeftAsItIs(i)
  <2>1. ex.to \in Int
    BY <1>1 DEF PipeTypes
  <2> QED
    BY <1>1, <2>1, SetPipe, SetId DEF DecodeBranchTaken
<1>3. ex.op = "branch" /\ ex.to = due
  BY DEF DecodeBranchTaken, BranchTaken, TurnInv, InEx
<1>4. ex' = Bubble
  BY <1>2, <1>3 DEF LeftAsItIs, ExReady
<1>5. QuietEnd(i)
  BY <1>4, QuietIn DEF DecodeBranchTaken
<1>6. InEx'
  BY <1>4, <1>5 DEF QuietEnd, InEx, BranchTaken, Bubble
<1>7. ~id'.valid /\ instr_valid_irq_flush_q' = FALSE
  BY DEF DecodeBranchTaken, NoReplay, Pipeline, NextId, SetPc, Wires, Takes, PipeTypes, IInv, Values
<1>8. At'
  BY <1>2, <1>3, <1>5, <1>7
  DEF QuietEnd, At, AtDecode, AtFlush, AtReturn, AtStart, AtSleep, AtIrqFlush, AtIrq, AtHalt, DecodeBranchTaken,
      Decoding
<1>9. OnlyHere'
  BY <1>5 DEF QuietEnd, TurnInv, OnlyHere, DecodeBranchTaken
<1> QED
  BY <1>5, <1>6, <1>8, <1>9 DEF QuietEnd, TurnInv

LEMMA DecodeNothingTurn ==
  ASSUME NEW i \in Inputs, Before(i), DecodeNothing(i) PROVE HartStep /\ TurnInv'
<1> USE DEF Before, Around
<1>1. PipeTypes /\ ~id.valid /\ ~instr_valid_irq_flush_q'
  BY DEF DecodeNothing, Decodes, NoReplay, IInv, Values
<1>2. ctrl_fsm_cs = "DECODE" /\ ctrl_fsm_cs' = "DECODE" /\ pc_if = due
  BY DEF DecodeNothing, Decodes, TurnInv, At, AtDecode, Decoding
<1>3. FetchesNext(i) /\ (ex' = ex \/ ex' = Bubble)
  BY <1>1, RunningId DEF DecodeNothing
<1>4. QuietEnd(i)
  BY <1>3, QuietIn DEF DecodeNothing
<1>5. InEx'
  BY <1>2, <1>3, <1>4, BubbleType DEF QuietEnd, TurnInv, InEx, BranchTaken
<1>6. AtDecode'
  BY <1>1, <1>2, <1>3, <1>4, NextInTurn DEF QuietEnd
<1>7. At'
  BY <1>2, <1>4, <1>6
  DEF QuietEnd, At, AtFlush, AtReturn, AtStart, AtSleep, AtIrqFlush, AtIrq, AtHalt
<1>8. OnlyHere'
  BY <1>2, <1>4 DEF QuietEnd, TurnInv, OnlyHere, DecodeNothing
<1> QED
  BY <1>4, <1>5, <1>7, <1>8 DEF QuietEnd, TurnInv

LEMMA DecodeRequestTurn ==
  ASSUME NEW i \in Inputs, Before(i), DecodeRequest(i) PROVE HartStep /\ TurnInv'
<1> USE DEF Before, Around
<1>1. Pipeline(i, Wires(TRUE, TRUE, TRUE, FALSE, 0))
  BY DEF DecodeRequest
<1>2. PipeTypes
  BY DEF IInv, Values
<1>3. /\ pc_if' = pc_if /\ id'.pc = id.pc /\ id'.op = id.op /\ id'.to = id.to
      /\ LeftAsItIs(i) /\ wb' = NextWb(i)
  <2>1. 0 \in Int
    OBVIOUS
  <2> QED
    BY <1>1, <1>2, <2>1, HaltedPipe, HaltedId
<1>4. ex' = ex \/ ex' = Bubble
  BY <1>3 DEF LeftAsItIs
<1>5. QuietEnd(i)
  BY <1>4, QuietIn DEF DecodeRequest
<1>6. ctrl_fsm_cs = "DECODE" /\ ~BranchTaken /\ Decoding
  BY DEF DecodeRequest, Decodes, Decoding
<1>7. ~debug_mode_q
  BY DEF DecodeRequest, TakesIrq, TakesDebug
<1>8. ex.op \notin {"set", "clear"}
  BY <1>6, <1>7 DEF TurnInv, InEx
<1>9. InEx'
  BY <1>4, <1>5, <1>6, <1>7, <1>8, BubbleType DEF QuietEnd, TurnInv, InEx, BranchTaken
<1>10. InTurn /\ BehindOrThere
  BY <1>6 DEF TurnInv, At, AtDecode, Decoding, Behind, BehindOrThere
<1>11. InTurn' /\ BehindOrThere'
  BY <1>3, <1>5, <1>10 DEF InTurn, BehindOrThere, QuietEnd
<1>12. CASE TakesIrq
  <2>1. ctrl_fsm_cs' = "IRQ_FLUSH"
    BY <1>12 DEF DecodeRequest
  <2>2. mie = TRUE
    BY <1>12, Zenon DEF TakesIrq, TurnInv, Ranges
  <2>3. mie' = TRUE
    BY <1>5, <1>8, <2>2 DEF QuietEnd
  <2>4. ~irq_i' => ~IsSlow(ex'.op) /\ ~wb'
    BY <2>1, PinsHold
  <2>5. ~irq_i' => ex' = Bubble
    <3> SUFFICES ASSUME ~irq_i', ~ExReady(i) PROVE FALSE
      BY <1>3 DEF LeftAsItIs
    <3>1. ~IsSlow(ex.op) /\ ~wb'
      BY <1>3, <2>4 DEF LeftAsItIs
    <3>2. wb /\ ~i.rvalid
      BY <3>1 DEF ExReady, ExValid
    <3> QED
      BY <1>3, <3>1, <3>2, Zenon DEF NextWb
  <2>6. At'
    BY <1>5, <1>7, <1>11, <2>1, <2>3, <2>4, <2>5
    DEF QuietEnd, At, AtDecode, AtFlush, AtReturn, AtStart, AtSleep, AtIrqFlush, AtIrq, AtHalt
  <2>7. OnlyHere'
    BY <1>5, <1>6, <2>1 DEF QuietEnd, TurnInv, OnlyHere, DecodeRequest
  <2> QED
    BY <1>5, <1>9, <2>6, <2>7 DEF QuietEnd, TurnInv
<1>13. CASE ~TakesIrq
  <2>1. ctrl_fsm_cs' = "DBG_FLUSH" /\ debug_req_i
    BY <1>13 DEF DecodeRequest, TakesDebug
  <2>2. ~step /\ debug_req_i'
    BY <1>7, <2>1, PinsHold DEF TurnInv, OnlyHere
  <2>3. ~step' /\ ~debug_mode_q'
    BY <1>5, <1>7, <2>2 DEF QuietEnd
  <2>4. At'
    BY <1>11, <2>1, <2>2, <2>3
    DEF At, AtDecode, AtFlush, AtReturn, AtStart, AtSleep, AtIrqFlush, AtIrq, AtHalt, InTurn
  <2>5. OnlyHere'
    <3>1. id.op # "elw"
      BY <1>7, <1>10, ProgramPlaces DEF InTurn, TurnInv, Ranges
    <3> QED
      BY <1>3, <1>5, <1>6, <2>1, <3>1 DEF QuietEnd, TurnInv, OnlyHere, DecodeRequest
  <2> QED
    BY <1>5, <1>9, <2>4, <2>5 DEF QuietEnd, TurnInv
<1> QED
  BY <1>12, <1>13

\* Most flushes end in DECODE with an empty ID.
LEMMA EmptyDecode ==
  ASSUME ctrl_fsm_cs' = "DECODE", ~id'.valid, instr_valid_irq_flush_q' = FALSE, pc_if' = due' \/ BranchTaken'
  PROVE  At'
  BY DEF At, AtDecode, AtFlush, AtReturn, AtStart, AtSleep, AtIrqFlush, AtIrq, AtHalt, Decoding

LEMMA EmptyEx == ASSUME ex' = Bubble PROVE InEx' /\ MieSeen' = mie' /\ MepcAfterEx' = mepc'
  BY DEF InEx, BranchTaken, MieSeen, MieAfter, MepcAfterEx, Bubble

LEMMA FlushWbTurn ==
  ASSUME NEW i \in Inputs, Before(i), FlushWb(i), NoReplay PROVE HartStep /\ TurnInv'
<1> USE DEF Before, Around
<1> DEFINE faulted == illegal_insn_q \/ id.op \in {"ebreak", "ecall"}
<1>1. PipeTypes /\ ctrl_fsm_cs = "FLUSH_WB" /\ ex = Bubble /\ instr_valid_irq_flush_q' = FALSE
  BY DEF FlushWb, NoReplay, IInv, Values, Places, ExFlushed
<1>2. Flushed
  BY <1>1 DEF TurnInv, At, AtFlush
<1>3. faulted <=> id.op \in Faults
  BY <1>2 DEF Flushed, Faults
<1>4. PICK set \in BOOLEAN, target \in Int :
        /\ Pipeline(i, Wires(TRUE, TRUE, FALSE, set, target))
        /\ faulted => set /\ target = ExcHandler
        /\ ~faulted /\ id.op = "fencei" => set /\ target = After(id.pc)
        /\ ~faulted /\ id.op # "fencei" => ~set
  <2>1. ExcHandler \in Int /\ After(id.pc) \in Int /\ 0 \in Int
    BY <1>1, PlacesApart, AfterInt DEF PipeTypes
  <2>2. CASE faulted
    BY <2>1, <2>2 DEF FlushWb, Redirected
  <2>3. CASE ~faulted /\ id.op = "fencei"
    BY <2>1, <2>3 DEF FlushWb, Redirected
  <2>4. CASE ~faulted /\ id.op # "fencei"
    BY <2>1, <2>4 DEF FlushWb, Halted
  <2> QED
    BY <2>2, <2>3, <2>4
<1>5. /\ pc_if' = (IF set THEN target ELSE pc_if) /\ LeftAsItIs(i)
      /\ ~id'.valid /\ id'.pc = id.pc /\ id'.op = id.op /\ id'.to = id.to
  <2>1. LeftAsItIs(i) /\ id' = [id EXCEPT !.valid = FALSE]
    BY <1>1, <1>4, HaltedPipe
  <2>2. ~id'.valid
    BY <1>1, <2>1 DEF PipeTypes
  <2> QED
    BY <1>1, <1>4, <2>1, <2>2, HaltedId
<1>6. ex' = Bubble
  BY <1>1, <1>5 DEF LeftAsItIs
<1>7. InEx' /\ MieSeen' = mie' /\ MepcAfterEx' = mepc' /\ MieSeen = mie /\ MepcAfterEx = mepc
  BY <1>1, <1>6, EmptyEx DEF MieSeen, MieAfter, MepcAfterEx, Bubble
<1>8. ~illegal_insn_q' /\ (debug_req_i' => ~step') /\ jump_done_q' \in BOOLEAN
  BY PinsHold, JumpDone DEF FlushWb
<1>9. id.op = "mret" => ~faulted /\ ~debug_mode_q /\ InTurn
  <2>1. id.op = "mret" => InTurn
    BY <1>2 DEF Flushed
  <2> QED
    BY <1>3, <2>1, ProgramPlaces, PlacesApart DEF InTurn, Faults, TurnInv, Ranges
<1>10. CASE id.op = "mret"
  <2>1. RestoreMret /\ Executed(mepc) /\ ctrl_fsm_cs' = "XRET_JUMP"
    BY <1>9, <1>10 DEF FlushWb
  <2>2. due' = mepc /\ mie' = mpie /\ mpie' = TRUE /\ mepc' = mepc /\ UNCHANGED <<depc, debug_mode_q>> /\ ~elw'
    <3>1. due' = mepc /\ elw' = FALSE
      BY <1>9, <1>10, <2>1 DEF Executed, InTurn
    <3>2. mepc' = mepc /\ UNCHANGED depc
      BY <1>7, <2>1 DEF RestoreMret
    <3>3. mie' = mpie /\ mpie' = TRUE /\ UNCHANGED debug_mode_q
      BY <2>1, Zenon DEF RestoreMret, FlushWb
    <3> QED
      BY <3>1, <3>2, <3>3
  <2>3. HartStep
    <3>1. PICK insn \in InsnsAt(due) : insn.op = "mret"
      BY <1>9, <1>10 DEF InTurn
    <3> QED
      BY <1>7, <2>2, <3>1, Returns
  <2>4. Ranges'
    <3>1. mie' \in BOOLEAN /\ mpie' \in BOOLEAN
      BY <2>2, Zenon DEF TurnInv, Ranges
    <3> QED
      BY <1>8, <1>9, <1>10, <2>2, <3>1 DEF TurnInv, Ranges
  <2>5. HandlersUndisturbed'
    BY <1>9, <2>2, <2>4, PlacesApart DEF HandlersUndisturbed, Ranges, Own
  <2>6. At'
    BY <1>5, <1>9, <1>10, <2>1, <2>2
    DEF At, AtDecode, AtFlush, AtReturn, AtStart, AtSleep, AtIrqFlush, AtIrq, AtHalt
  <2>7. OnlyHere'
    BY <1>8, <2>1, <2>2 DEF TurnInv, OnlyHere
  <2> QED
    BY <1>7, <2>3, <2>4, <2>5, <2>6, <2>7 DEF TurnInv
<1>11. CASE id.op # "mret"
  <2>1. QuietEnd(i)
    <3>1. WriteCsrs /\ NothingExecuted
      BY <1>11 DEF FlushWb
    <3> QED
      BY <1>6, <3>1, QuietIn DEF FlushWb
  <2>2. At'
    <3>1. CASE faulted
      <4>1. pc_if' = due' /\ ~debug_mode_q'
        BY <1>2, <1>3, <1>4, <1>5, <2>1, <3>1 DEF Flushed, QuietEnd
      <4>2. ctrl_fsm_cs' = "DECODE" \/ ctrl_fsm_cs' = "DBG_TAKEN_IF"
        BY <3>1 DEF FlushWb, AfterTrap
      <4>3. CASE ctrl_fsm_cs' = "DECODE"
        BY <1>1, <1>5, <4>1, <4>3, EmptyDecode
      <4>4. CASE ctrl_fsm_cs' = "DBG_TAKEN_IF"
        BY <4>1, <4>4
        DEF At, AtDecode, AtFlush, AtReturn, AtStart, AtSleep, AtIrqFlush, AtIrq, AtHalt
      <4> QED
        BY <4>2, <4>3, <4>4
    <3>2. CASE ~faulted /\ id.op = "dret"
      <4>1. ctrl_fsm_cs' = "XRET_JUMP" /\ InTurn
        BY <1>2, <3>2 DEF FlushWb, Flushed
      <4>2. InTurn'
        BY <1>5, <2>1, <4>1 DEF InTurn, QuietEnd
      <4> QED
        BY <1>5, <3>2, <4>1, <4>2
        DEF At, AtDecode, AtFlush, AtReturn, AtStart, AtSleep, AtIrqFlush, AtIrq, AtHalt
    <3>3. CASE ~faulted /\ id.op = "wfi"
      <4>1. ctrl_fsm_cs' = "WAIT_SLEEP" /\ pc_if' = due' /\ ~debug_mode_q'
        BY <1>2, <1>3, <1>4, <1>5, <2>1, <3>3 DEF FlushWb, Flushed, QuietEnd
      <4> QED
        BY <4>1 DEF At, AtDecode, AtFlush, AtReturn, AtStart, AtSleep, AtIrqFlush, AtIrq, AtHalt
    <3>4. CASE ~faulted /\ id.op \notin {"dret", "wfi"}
      <4>1. ctrl_fsm_cs' = "DECODE"
        BY <1>11, <3>4 DEF FlushWb
      <4>2. pc_if' = due'
        BY <1>2, <1>3, <1>4, <1>5, <1>11, <2>1, <3>4 DEF Flushed, QuietEnd
      <4> QED
        BY <1>1, <1>5, <4>1, <4>2, EmptyDecode
    <3> QED
      BY <3>1, <3>2, <3>3, <3>4
  <2>3. OnlyHere'
    <3>1. ctrl_fsm_cs' \in {"DECODE", "DBG_TAKEN_IF", "XRET_JUMP", "WAIT_SLEEP"}
      BY DEF FlushWb, AfterTrap
    <3> QED
      BY <1>8, <2>1, <3>1 DEF QuietEnd, TurnInv, OnlyHere
  <2> QED
    BY <1>7, <2>1, <2>2, <2>3 DEF QuietEnd, TurnInv
<1> QED
  BY <1>10, <1>11

LEMMA XretJumpTurn ==
  ASSUME NEW i \in Inputs, Before(i), XretJump(i), NoReplay PROVE HartStep /\ TurnInv'
<1> USE DEF Before, Around
<1>1. /\ PipeTypes /\ CsrTypes /\ ctrl_fsm_cs = "XRET_JUMP" /\ ex = Bubble
      /\ instr_valid_irq_flush_q' = FALSE /\ ~id.valid
  BY DEF XretJump, NoReplay, IInv, Values, Places, ExFlushed, IdInDecode
<1>2. \/ id.op = "mret" /\ due = mepc /\ ~debug_mode_q
      \/ id.op = "dret" /\ InTurn
  BY <1>1 DEF TurnInv, At, AtReturn
<1>3. ASSUME NEW target \in Int, Pipeline(i, SetPc(target))
      PROVE  pc_if' = target /\ ~id'.valid /\ ex' = Bubble
  <2>1. pc_if' = target /\ LeftAsItIs(i) /\ ~id'.valid
    BY <1>1, <1>3, SetPipe, SetId
  <2> QED
    BY <1>1, <2>1 DEF LeftAsItIs
<1>4. (debug_req_i' => ~step') /\ jump_done_q' \in BOOLEAN /\ ~illegal_insn_q'
  BY <1>1, PinsHold, JumpDone DEF XretJump, TurnInv, OnlyHere
<1>5. CASE id.op = "mret"
  <2>1. pc_if' = mepc /\ ~id'.valid /\ ex' = Bubble
    BY <1>1, <1>3, <1>5 DEF XretJump, CsrTypes
  <2>2. QuietEnd(i)
    BY <1>5, <2>1, QuietIn DEF XretJump
  <2>3. pc_if' = due' /\ ~debug_mode_q'
    BY <1>2, <1>5, <2>1, <2>2 DEF QuietEnd
  <2>4. ctrl_fsm_cs' = "DECODE" \/ ctrl_fsm_cs' = "DBG_TAKEN_IF"
    BY DEF XretJump, AfterTrap
  <2>5. At'
    <3>1. CASE ctrl_fsm_cs' = "DECODE"
      BY <1>1, <2>1, <2>3, <3>1, EmptyDecode
    <3>2. CASE ctrl_fsm_cs' = "DBG_TAKEN_IF"
      BY <2>3, <3>2
      DEF At, AtDecode, AtFlush, AtReturn, AtStart, AtSleep, AtIrqFlush, AtIrq, AtHalt
    <3> QED
      BY <2>4, <3>1, <3>2
  <2>6. OnlyHere'
    BY <1>4, <2>2, <2>4 DEF QuietEnd, TurnInv, OnlyHere
  <2> QED
    BY <2>1, <2>2, <2>5, <2>6, EmptyEx DEF QuietEnd, TurnInv
<1>6. CASE id.op = "dret"
  <2>1. InTurn
    BY <1>2, <1>6
  <2>2. debug_mode_q = TRUE
    BY <1>6, <2>1, ProgramPlaces, PlacesApart DEF InTurn, TurnInv, Ranges, IInv, Values
  <2>3. pc_if' = depc /\ ~id'.valid /\ ex' = Bubble
    BY <1>1, <1>3, <1>6 DEF XretJump, CsrTypes
  <2>4. Executed(depc) /\ WriteCsrs /\ debug_mode_q' = FALSE /\ ctrl_fsm_cs' = "DECODE"
    BY <1>6, <2>2 DEF XretJump, AfterTrap, Stepping
  <2>5. due' = depc /\ elw' = FALSE
    BY <2>1, <2>4 DEF Executed, InTurn
  <2>6. /\ mie' = mie /\ mie' \in BOOLEAN /\ mepc' = mepc /\ UNCHANGED <<mpie, depc>>
    BY <1>1, <2>4, CsrsWritten DEF TurnInv, IInv, MieSeen, MieAfter, MepcAfterEx, Bubble
  <2>7. MieSeen' = MieSeen /\ MepcAfterEx' = MepcAfterEx /\ InEx'
    BY <1>1, <2>3, <2>6, EmptyEx DEF MieSeen, MieAfter, MepcAfterEx, Bubble
  <2>8. HartStep
    <3>1. PICK insn \in InsnsAt(due) : insn.op = "dret"
      BY <1>6, <2>1 DEF InTurn
    <3> QED
      BY <2>2, <2>4, <2>5, <2>6, <2>7, <3>1, Resumes
  <2>9. Ranges'
    BY <1>4, <2>4, <2>5, <2>6 DEF TurnInv, Ranges
  <2>10. HandlersUndisturbed'
    BY <2>2, <2>4, <2>5, <2>6, <2>7 DEF TurnInv, HandlersUndisturbed, Own
  <2>11. At'
    BY <1>1, <2>3, <2>4, <2>5, <2>6, EmptyDecode
  <2>12. OnlyHere'
    BY <1>4, <2>4, <2>5 DEF OnlyHere
  <2> QED
    BY <2>7, <2>8, <2>9, <2>10, <2>11, <2>12 DEF TurnInv
<1> QED
  BY <1>2, <1>5, <1>6

LEMMA IrqTakenTurn ==
  ASSUME NEW i \in Inputs, Before(i), IrqTaken(i), NoReplay PROVE HartStep /\ TurnInv'
<1> USE DEF Before, Around
<1>1. PipeTypes /\ CsrTypes /\ instr_valid_irq_flush_q' = FALSE /\ ~id.valid
  BY DEF IrqTaken, NoReplay, IInv, Values, Places, IdInDecode
<1>2. pc_if' = IrqHandler /\ ~id'.valid /\ (ex' = ex \/ ex' = Bubble)
  <2>1. IrqHandler \in Int /\ Pipeline(i, SetPc(IrqHandler))
    BY PlacesApart DEF IrqTaken
  <2>2. pc_if' = IrqHandler /\ LeftAsItIs(i) /\ ~id'.valid
    BY <1>1, <2>1, SetPipe, SetId
  <2> QED
    BY <2>2 DEF LeftAsItIs
<1>3. mie = TRUE /\ ~debug_mode_q
  BY DEF IrqTaken, TurnInv, At, AtIrq
<1>4. ex.op \notin {"set", "clear"} /\ ~BranchTaken
  BY <1>3 DEF IrqTaken, TurnInv, InEx
<1>5. MieSeen = TRUE
  BY <1>3, <1>4 DEF MieSeen, MieAfter
<1>6. due \in MainAddr
  BY <1>3, <1>5 DEF TurnInv, Ranges, HandlersUndisturbed, Own
<1>7. ex.op # "skip" /\ ex'.op \notin {"skip", "set", "clear", "stepon", "stepoff"}
  BY <1>2, <1>3, <1>4, <1>6, BubbleType, PlacesApart DEF TurnInv, InEx, Own
<1>8. Save(due) /\ due' = IrqHandler /\ elw' = FALSE /\ UNCHANGED debug_mode_q
  BY DEF IrqTaken, Trapped, TurnInv, At, AtIrq
<1>9. mepc' = due /\ mpie' = TRUE /\ mie' = FALSE /\ UNCHANGED depc
  BY <1>3, <1>8 DEF Save
<1>10. MepcAfterEx' = due /\ MieSeen' = FALSE
  BY <1>7, <1>9 DEF MepcAfterEx, MieSeen, MieAfter
<1>11. HartStep
  <2>1. Architecture!Trap(IrqHandler)
    BY <1>5, <1>8, <1>9, <1>10, TrapsTo
  <2> QED
    BY <1>3, <1>5, <2>1, Interrupted
<1>12. Ranges'
  BY <1>3, <1>6, <1>8, <1>9, JumpDone, PlacesApart DEF TurnInv, Ranges
<1>13. HandlersUndisturbed'
  BY <1>10 DEF HandlersUndisturbed
<1>14. InEx'
  <2>1. ~BranchTaken'
    BY <1>2, <1>4 DEF BranchTaken, Bubble
  <2> QED
    BY <1>7, <2>1 DEF InEx
<1>15. ctrl_fsm_cs' = "DECODE" /\ pc_if' = due'
  BY <1>2, <1>8 DEF IrqTaken
<1>16. At'
  BY <1>1, <1>2, <1>15, EmptyDecode
<1>17. OnlyHere'
  BY <1>8, <1>15, PinsHold DEF TurnInv, OnlyHere, IrqTaken
<1> QED
  BY <1>11, <1>12, <1>13, <1>14, <1>16, <1>17 DEF TurnInv

LEMMA DbgTakenTurn ==
  ASSUME NEW i \in Inputs, Before(i), DbgTaken(i), NoReplay PROVE HartStep /\ TurnInv'
<1> USE DEF Before, Around
<1>1. PipeTypes /\ CsrTypes /\ instr_valid_irq_flush_q' = FALSE /\ ~id.valid
  BY DEF DbgTaken, NoReplay, IInv, Values, Places, IdInDecode
<1>2. pc_if' = HaltAddress /\ ~id'.valid /\ (ex' = ex \/ ex' = Bubble)
  <2>1. HaltAddress \in Int /\ Pipeline(i, SetPc(HaltAddress))
    BY PlacesApart DEF DbgTaken
  <2>2. pc_if' = HaltAddress /\ LeftAsItIs(i) /\ ~id'.valid
    BY <1>1, <2>1, SetPipe, SetId
  <2> QED
    BY <2>2 DEF LeftAsItIs
<1>3. ctrl_fsm_cs' = "DECODE" /\ debug_mode_q' = TRUE /\ due' = HaltAddress /\ elw' = FALSE
  BY DEF DbgTaken
<1>4. \/ ~debug_mode_q /\ SaveDebug(due)
      \/ Parked /\ WriteCsrs
  BY DEF DbgTaken, TurnInv, At, AtHalt, TakesDebug, Parked
<1>5. /\ mie' = MieSeen /\ mie' \in BOOLEAN /\ mepc' = MepcAfterEx /\ UNCHANGED mpie
      /\ depc' = Own
  <2>1. CASE ~debug_mode_q /\ SaveDebug(due)
    BY <2>1 DEF SaveDebug, MieSeen, MieAfter, Own, TurnInv, Ranges
  <2>2. CASE Parked /\ WriteCsrs
    BY <2>2, CsrsWritten DEF Parked, Own, TurnInv, IInv
  <2> QED
    BY <1>4, <2>1, <2>2
<1>6. MieSeen' = MieSeen /\ MepcAfterEx' = MepcAfterEx
  BY <1>2, <1>5, BubbleType DEF MieSeen, MieAfter, MepcAfterEx
<1>7. Own' = Own
  BY <1>3, <1>5 DEF Own
<1>8. Own \in MainAddr \cup Handlers /\ MepcAfterEx \in MainAddr
  BY DEF Own, MepcAfterEx, TurnInv, Ranges, InEx
<1>9. HartStep
  <2>1. CASE ~debug_mode_q
    BY <1>3, <1>5, <1>6, <2>1, Halts DEF Own
  <2>2. CASE debug_mode_q
    <3>1. Parked
      BY <1>4, <2>2
    <3>2. PICK insn \in InsnsAt(due) : insn.op = "ebreak"
      BY <3>1 DEF Parked, InTurn
    <3>3. debug_mode_q' = debug_mode_q
      BY <1>3, <2>2 DEF IInv, Values
    <3> QED
      BY <1>3, <1>5, <1>6, <2>2, <3>2, <3>3, ParksAgain DEF Own
  <2> QED
    BY <2>1, <2>2
<1>10. Ranges'
  BY <1>3, <1>5, <1>8, JumpDone, PlacesApart DEF TurnInv, Ranges
<1>11. HandlersUndisturbed'
  BY <1>6, <1>7 DEF TurnInv, HandlersUndisturbed
<1>12. InEx'
  <2>1. ~BranchTaken'
    BY <1>2 DEF BranchTaken, Bubble, DbgTaken, TurnInv, InEx
  <2> QED
    BY <1>2, <1>3, <1>7, <2>1, BubbleType DEF TurnInv, InEx
<1>13. At'
  BY <1>1, <1>2, <1>3, EmptyDecode
<1>14. OnlyHere'
  BY <1>3, PinsHold DEF TurnInv, OnlyHere, DbgTaken
<1> QED
  BY <1>9, <1>10, <1>11, <1>12, <1>13, <1>14 DEF TurnInv

LEMMA DecodeStopTurn ==
  ASSUME NEW i \in Inputs, Before(i), DecodeStop(i) PROVE HartStep /\ TurnInv'
<1> USE DEF Before, Around
<1>1. PipeTypes /\ CsrTypes /\ debug_mode_q \in BOOLEAN
  BY DEF IInv, Values
<1>2. /\ pc_if' = pc_if /\ id'.pc = id.pc /\ id'.op = id.op /\ id'.to = id.to
      /\ (ex' = ex \/ ex' = Bubble)
  <2>1. 0 \in Int
    OBVIOUS
  <2>2. Pipeline(i, Wires(TRUE, TRUE, TRUE, FALSE, 0))
    BY DEF DecodeStop
  <2> QED
    BY <1>1, <2>1, <2>2, HaltedPipe, HaltedId DEF LeftAsItIs
<1>3. ctrl_fsm_cs = "DECODE" /\ ~BranchTaken /\ Decoding /\ id.op \in Stops
  BY DEF DecodeStop, DecodesInsn, Decodes, Decoding
<1>4. InTurn /\ BehindOrThere
  BY <1>3 DEF TurnInv, At, AtDecode, Decoding, Behind, BehindOrThere
<1>5. PICK insn \in InsnsAt(due) : insn.op = id.op /\ insn.to = id.to
  BY <1>4 DEF InTurn
<1>6. /\ id.op \in {"illegal", "ecall", "fencei", "wfi"} => due \in MainAddr
      /\ id.op = "mret" => due \in Handlers
      /\ id.op = "dret" => due \in Rom
      /\ id.op = "ebreak" => due \in MainAddr \cup Rom
      /\ id.op \in {"fencei", "wfi"} => id.to = After(due) /\ id.to \in MainAddr
  BY <1>5, ProgramPlaces, PlacesApart DEF TurnInv, Ranges
<1>7. due \in MainAddr \cup Handlers <=> ~debug_mode_q
  BY PlacesApart DEF TurnInv, Ranges
<1>8. ~debug_mode_q => ex.op \notin {"set", "clear"} /\ ex'.op \notin {"set", "clear"}
  BY <1>2, <1>3, BubbleType DEF TurnInv, InEx
<1>9. ~BranchTaken'
  BY <1>2, <1>3 DEF BranchTaken, Bubble
<1>10. (illegal_insn_q' <=> id'.op = "illegal") /\ (debug_req_i' => ~step') /\ jump_done_q' \in BOOLEAN
  BY <1>2, <1>3, PinsHold, JumpDone DEF TurnInv, OnlyHere, DecodeStop
<1>11. CASE id.op \in Faults /\ ~Parks
  <2>1. ~debug_mode_q /\ due \in MainAddr
    BY <1>6, <1>7, <1>11, PlacesApart DEF Parks, Faults
  <2>2. Save(due) /\ Executed(ExcHandler) /\ UNCHANGED debug_mode_q /\ ctrl_fsm_cs' = "FLUSH_EX"
    <3>1. Save(id.pc) /\ Executed(ExcHandler)
      BY <1>11 DEF DecodeStop, Faults
    <3>2. ctrl_fsm_cs' = "FLUSH_EX"
      BY <1>11 DEF DecodeStop, Stepped, Faults
    <3> QED
      BY <1>4, <3>1, <3>2 DEF DecodeStop, InTurn
  <2>3. due' = ExcHandler /\ elw' = FALSE
    BY <1>4, <2>2 DEF Executed, InTurn
  <2>4. ex.op # "skip" /\ ex'.op \notin {"skip", "stepon", "stepoff"}
    BY <1>2, <2>1, BubbleType, PlacesApart DEF TurnInv, InEx, Own
  <2>5. mepc' = due /\ UNCHANGED depc
    BY <2>2 DEF Save
  <2>6. mpie' = mie /\ mie' = FALSE /\ mie \in BOOLEAN
    BY <2>2, Zenon DEF Save, TurnInv, Ranges
  <2>7. MepcAfterEx' = due /\ MieSeen' = FALSE /\ MieSeen = mie
    BY <1>8, <2>1, <2>4, <2>5, <2>6 DEF MepcAfterEx, MieSeen, MieAfter
  <2>8. HartStep
    <3>1. Architecture!Trap(ExcHandler)
      BY <2>2, <2>3, <2>5, <2>6, <2>7, TrapsTo
    <3> QED
      BY <1>5, <1>11, <2>1, <3>1, Excepts
  <2>9. Ranges'
    BY <1>10, <2>1, <2>2, <2>3, <2>5, <2>6, PlacesApart DEF TurnInv, Ranges
  <2>10. HandlersUndisturbed'
    BY <2>7 DEF HandlersUndisturbed
  <2>11. InEx'
    BY <1>8, <1>9, <2>1, <2>4 DEF InEx
  <2>12. At'
    BY <1>2, <1>10, <1>11, <2>1, <2>2, <2>3
    DEF At, AtDecode, AtFlush, Flushed, AtReturn, AtStart, AtSleep, AtIrqFlush, AtIrq, AtHalt, Faults
  <2>13. OnlyHere'
    BY <1>10, <2>2, <2>3 DEF OnlyHere
  <2> QED
    BY <2>8, <2>9, <2>10, <2>11, <2>12, <2>13 DEF TurnInv
<1>12. CASE id.op \in {"wfi", "fencei"}
  <2>1. WriteCsrs /\ Executed(id.to) /\ UNCHANGED debug_mode_q
    BY <1>12 DEF DecodeStop, Faults
  <2>2. due' = id.to /\ elw' = FALSE /\ ~debug_mode_q /\ due \in MainAddr /\ due' = After(due) /\ due' \in MainAddr
    BY <1>4, <1>6, <1>7, <1>12, <2>1 DEF Executed, InTurn
  <2>3. /\ mie' = MieSeen /\ mie' \in BOOLEAN /\ mepc' = MepcAfterEx /\ UNCHANGED <<mpie, depc>>
        /\ step' = StepAfterEx
    BY <2>1, CsrsWritten DEF TurnInv, IInv
  <2>4. ex.op \notin {"skip", "stepon", "stepoff"} /\ ex'.op \notin {"skip", "stepon", "stepoff"}
    BY <1>2, <2>2, BubbleType, PlacesApart DEF TurnInv, InEx, Own
  <2>5. MieSeen' = MieSeen /\ MepcAfterEx' = MepcAfterEx /\ step' = step
    BY <1>8, <2>2, <2>3, <2>4 DEF MieSeen, MieAfter, MepcAfterEx, StepAfterEx
  <2>6. HartStep
    <3>1. MieAfter(insn.op, MieSeen) = MieSeen
      BY <1>5, <1>12 DEF MieAfter
    <3> QED
      BY <1>5, <1>12, <2>1, <2>2, <2>3, <2>5, <3>1, Executes
  <2>7. Ranges'
    BY <1>10, <2>1, <2>2, <2>3, <2>4 DEF TurnInv, Ranges, MepcAfterEx
  <2>8. HandlersUndisturbed'
    BY <2>1, <2>2, PlacesApart DEF HandlersUndisturbed, Own
  <2>9. InEx'
    BY <1>8, <1>9, <2>2, <2>4 DEF InEx
  <2>10. ctrl_fsm_cs' = "FLUSH_EX" \/ (Stepping' /\ ctrl_fsm_cs' = "DBG_FLUSH")
    BY <1>12, <2>1, <2>5 DEF DecodeStop, Stepped, Stepping, Parks, Faults
  <2>11. pc_if' = due' /\ due' = After(id'.pc)
    BY <1>2, <1>4, <1>12, <2>2 DEF BehindOrThere, InTurn
  <2>12. At'
    BY <1>2, <1>10, <1>12, <2>1, <2>2, <2>10, <2>11
    DEF At, AtDecode, AtFlush, Flushed, AtReturn, AtStart, AtSleep, AtIrqFlush, AtIrq, AtHalt, Faults
  <2>13. OnlyHere'
    BY <1>2, <1>10, <1>12, <2>2, <2>10 DEF OnlyHere
  <2> QED
    BY <2>6, <2>7, <2>8, <2>9, <2>12, <2>13 DEF TurnInv
<1>13. CASE id.op \in {"mret", "dret"} \/ Parks
  <2>1. QuietEnd(i)
    <3>1. WriteCsrs /\ NothingExecuted
      BY <1>13 DEF DecodeStop, Faults, Parks
    <3> QED
      BY <1>2, <3>1, QuietIn DEF DecodeStop
  <2>2. InTurn'
    BY <1>2, <1>4, <2>1 DEF InTurn, QuietEnd
  <2>3. ctrl_fsm_cs' = IF Parks THEN "DBG_FLUSH" ELSE "FLUSH_EX"
    BY <1>6, <1>7, <1>13, PlacesApart DEF DecodeStop, Stepped, Stepping, Parks
  <2>4. Parks => Parked'
    BY <1>2, <2>1, <2>2 DEF Parks, Parked, QuietEnd
  <2>5. At'
    BY <1>2, <1>10, <1>13, <2>2, <2>3, <2>4
    DEF At, AtDecode, AtFlush, Flushed, AtReturn, AtStart, AtSleep, AtIrqFlush, AtIrq, AtHalt, Faults, Parks
  <2>6. InEx'
    BY <1>8, <1>9, <2>1, <2>3 DEF InEx, QuietEnd
  <2>7. OnlyHere'
    BY <1>2, <1>10, <1>13, <2>1, <2>3 DEF QuietEnd, TurnInv, OnlyHere, Parks
  <2> QED
    BY <2>1, <2>5, <2>6, <2>7 DEF QuietEnd, TurnInv
<1> QED
  BY <1>3, <1>11, <1>12, <1>13 DEF Stops, Faults

\* DecodeRun passes the instruction on, or keeps it.
PassedOn(i, halt_if, set, target) ==
  /\ ~IdReady(i) =>
       /\ id' = id /\ (ex' = ex \/ ex' = Bubble)
       /\ pc_if' = IF set THEN target ELSE pc_if
  /\ IdReady(i) =>
       /\ ex' = Issued
       /\ \/ /\ id'.valid /\ ~halt_if /\ ~set /\ id'.pc = pc_if /\ pc_if' = After(pc_if)
             /\ [op |-> id'.op, to |-> id'.to] \in InsnsAt(id'.pc)
          \/ /\ ~id'.valid /\ id'.pc = id.pc /\ id'.op = id.op /\ id'.to = id.to
             /\ pc_if' = IF set THEN target ELSE pc_if

LEMMA RunId ==
  ASSUME PipeTypes, ~BranchTaken, NEW i \in Inputs, NEW halt_if, NEW set, NEW target \in Int,
         Pipeline(i, Wires(halt_if, FALSE, TRUE, set, target))
  PROVE  PassedOn(i, halt_if, set, target)
<1> USE DEF PassedOn
<1> DEFINE w == Wires(halt_if, FALSE, TRUE, set, target)
<1>1. ~IdReady(i) => ex' = ex \/ ex' = Bubble
  BY DEF Pipeline, NextEx, Issues
<1>2. IdReady(i) => ex' = Issued
  BY DEF Pipeline, NextEx, Issues, Wires
<1>3. pc_if' = NextPcIf(i, w)
  BY DEF Pipeline
<1>4. CASE Takes(i, w)
  <2>1. PICK insn \in InsnsAt(pc_if) : id' = NextId(i, w, insn)
    BY <1>4 DEF Pipeline
  <2>2. id' = [valid |-> TRUE, pc |-> pc_if, op |-> insn.op, to |-> insn.to]
    BY <1>4, <2>1 DEF NextId
  <2>3. id'.valid /\ id'.pc = pc_if /\ id'.op = insn.op /\ id'.to = insn.to
    BY <2>2
  <2>4. [op |-> id'.op, to |-> id'.to] \in InsnsAt(id'.pc)
    BY <2>3, InsnIs
  <2>5. IdReady(i) /\ ~halt_if /\ ~set
    BY <1>4 DEF Takes, Wires
  <2>6. pc_if' = After(pc_if)
    BY <1>3, <1>4, <2>5 DEF NextPcIf, Wires
  <2> QED
    BY <1>2, <2>3, <2>4, <2>5, <2>6
<1>5. CASE ~Takes(i, w)
  <2>1. pc_if' = IF set THEN target ELSE pc_if
    BY <1>3, <1>5 DEF NextPcIf, Wires
  <2>2. id' = NextId(i, w, id)
    BY <1>5 DEF Pipeline
  <2>3. id' = IF IdReady(i) THEN [id EXCEPT !.valid = FALSE] ELSE id
    BY <1>5, <2>2 DEF NextId, Wires
  <2>4. IdReady(i) => ~id'.valid /\ id'.pc = id.pc /\ id'.op = id.op /\ id'.to = id.to
    BY <2>3 DEF PipeTypes
  <2> QED
    BY <1>1, <1>2, <2>1, <2>3, <2>4
<1> QED
  BY <1>4, <1>5

LEMMA DecodeRunWaits ==
  ASSUME NEW i \in Inputs, Around(i), DecodeRun(i), ~IdReady(i) PROVE HartStep /\ TurnInv'
<1> USE DEF Around
<1>1. PipeTypes /\ CsrTypes
  BY DEF IInv, Values
<1>2. ctrl_fsm_cs = "DECODE" /\ ~BranchTaken /\ Decoding
  BY DEF DecodeRun, DecodesInsn, Decodes, Decoding
<1>3. /\ id' = id /\ (ex' = ex \/ ex' = Bubble)
      /\ pc_if' = IF Jumps(i) THEN id.to ELSE pc_if
  <2>1. id.to \in Int
    BY <1>1 DEF PipeTypes
  <2>2. Pipeline(i, Wires(id.op \in Drains \/ Stepping, FALSE, TRUE, Jumps(i), id.to))
    BY DEF DecodeRun
  <2>3. PassedOn(i, id.op \in Drains \/ Stepping, Jumps(i), id.to)
    BY <1>1, <1>2, <2>1, <2>2, RunId, Zenon
  <2> QED
    BY <2>3 DEF PassedOn
<1>4. id.valid
  <2>1. ASSUME instr_valid_irq_flush_q PROVE FALSE
    <3>1. ex = Bubble /\ ~wb
      BY <1>2, <2>1 DEF TurnInv, At, AtDecode
    <3>2. ~i.rvalid /\ ~i.jr /\ ~i.stall
      BY <3>1 DEF Possible, Bubble, IsSlow
    <3> QED
      BY <3>1, <3>2 DEF IdReady, ExReady, ExValid, IsSlow, Bubble
  <2> QED
    BY <1>2, <2>1 DEF Decoding
<1>5. InTurn /\ Behind /\ (jump_done_q => id.op = "jump")
  BY <1>2, <1>4 DEF TurnInv, At, AtDecode, Decoding
<1>6. WriteCsrs /\ NothingExecuted /\ UNCHANGED debug_mode_q /\ ctrl_fsm_cs' = "DECODE"
  BY DEF DecodeRun, Stepped
<1>7. jump_done_q' \in BOOLEAN /\ (jump_done_q' <=> jump_done_q \/ Jumps(i))
  BY Zenon DEF DecodeRun
<1>8. UNCHANGED <<due, elw>>
  BY <1>6 DEF NothingExecuted, history
<1>9. QuietEnd(i)
  BY <1>3, <1>6, <1>7, <1>8, QuietStep, PinsHold DEF QuietEnd, IInv
<1>10. InEx'
  BY <1>2, <1>3, <1>6, <1>9, BubbleType DEF QuietEnd, TurnInv, InEx, BranchTaken
<1>11. InTurn'
  BY <1>3, <1>5, <1>8 DEF InTurn
<1>12. Behind'
  BY <1>3, <1>5, <1>7 DEF Behind, Jumps
<1>13. jump_done_q' => id'.op = "jump"
  BY <1>3, <1>5, <1>7 DEF Jumps
<1>14. ~instr_valid_irq_flush_q'
  BY DEF DecodeRun, NoReplay
<1>15. At'
  BY <1>3, <1>4, <1>6, <1>11, <1>12, <1>13, <1>14
  DEF At, AtDecode, AtFlush, AtReturn, AtStart, AtSleep, AtIrqFlush, AtIrq, AtHalt, Decoding
<1>16. OnlyHere'
  BY <1>2, <1>6, <1>9 DEF QuietEnd, TurnInv, OnlyHere, DecodeRun
<1> QED
  BY <1>9, <1>10, <1>15, <1>16 DEF QuietEnd, TurnInv

LEMMA DecodeRunLeaves ==
  ASSUME NEW i \in Inputs, Around(i), DecodeRun(i), IdReady(i) PROVE HartStep /\ TurnInv'
<1> USE DEF Around
<1>1. PipeTypes /\ CsrTypes /\ debug_mode_q \in BOOLEAN
  BY DEF IInv, Values
<1>2. ctrl_fsm_cs = "DECODE" /\ ~BranchTaken /\ Decoding /\ id.op \notin Stops
  BY DEF DecodeRun, DecodesInsn, Decodes, Decoding
<1>3. /\ ex' = Issued
      /\ \/ /\ id'.valid /\ ~(id.op \in Drains \/ Stepping) /\ ~Jumps(i)
            /\ id'.pc = pc_if /\ pc_if' = After(pc_if)
            /\ [op |-> id'.op, to |-> id'.to] \in InsnsAt(id'.pc)
         \/ /\ ~id'.valid /\ id'.pc = id.pc /\ id'.op = id.op /\ id'.to = id.to
            /\ pc_if' = IF Jumps(i) THEN id.to ELSE pc_if
  <2>1. id.to \in Int
    BY <1>1 DEF PipeTypes
  <2>2. Pipeline(i, Wires(id.op \in Drains \/ Stepping, FALSE, TRUE, Jumps(i), id.to))
    BY DEF DecodeRun
  <2>3. PassedOn(i, id.op \in Drains \/ Stepping, Jumps(i), id.to)
    BY <1>1, <1>2, <2>1, <2>2, RunId, Zenon
  <2> QED
    BY <2>3 DEF PassedOn
<1>4. InTurn
  BY <1>2 DEF TurnInv, At, AtDecode
<1>5. PICK insn \in InsnsAt(due) : insn.op = id.op /\ insn.to = id.to
  BY <1>4 DEF InTurn
<1>6. id.pc = due /\ due \in MainAddr \cup Handlers \cup Rom
  BY <1>4 DEF InTurn, TurnInv, Ranges
<1>7. /\ id.op = "skip" => due = ExcHandler
      /\ id.op \in {"stepon", "stepoff"} => due = HaltAddress
      /\ id.op \in {"jump", "branch", "set", "clear"} => due \in MainAddr
      /\ id.op # "elw"
      /\ due \in MainAddr => id.to \in MainAddr
      /\ due \notin MainAddr => id.to = due + 1
      /\ due # HaltAddress + 1 /\ due \notin {ExcHandler + 1, IrqHandler}
      /\ id.op \notin {"jump", "branch"} => id.to = After(due)
  BY <1>2, <1>5, <1>6, ProgramPlaces DEF Stops
<1>8. due \in MainAddr \cup {ExcHandler, HaltAddress}
  BY <1>6, <1>7, PlacesApart DEF Rom
<1>9. /\ debug_mode_q <=> due = HaltAddress
      /\ ~debug_mode_q => due \in MainAddr \cup {ExcHandler}
  BY <1>8, PlacesApart DEF TurnInv, Ranges
<1>10. Executed(id.to) /\ WriteCsrs /\ UNCHANGED debug_mode_q
  BY <1>7 DEF DecodeRun
<1>11. due' = id.to /\ elw' = FALSE
  BY <1>6, <1>10 DEF Executed
<1>12. /\ mie' = MieSeen /\ mie' \in BOOLEAN /\ mepc' = MepcAfterEx /\ UNCHANGED <<mpie, depc>>
       /\ step' = StepAfterEx
  BY <1>10, CsrsWritten DEF TurnInv, IInv
<1>13. ex'.op = id.op /\ (BranchTaken' <=> id.op = "branch" /\ id.to # After(due))
       /\ (BranchTaken' => ex'.to = due') /\ (id.op = "skip" => ex'.to = After(mepc))
  BY <1>3, <1>6, <1>11 DEF Issued, BranchTaken
<1>14. MieSeen' = MieAfter(id.op, MieSeen)
  BY <1>12, <1>13 DEF MieSeen
<1>15. MepcAfterEx' = IF id.op = "skip" THEN After(MepcAfterEx) ELSE MepcAfterEx
  <2>1. id.op = "skip" => ex.op # "skip"
    BY <1>7, <1>9, PlacesApart DEF TurnInv, InEx, Own
  <2>2. id.op = "skip" => MepcAfterEx = mepc
    BY <2>1 DEF MepcAfterEx
  <2>3. MepcAfterEx' = IF id.op = "skip" THEN ex'.to ELSE mepc'
    BY <1>13 DEF MepcAfterEx
  <2> QED
    BY <1>12, <1>13, <2>2, <2>3
<1>16. HartStep
  BY <1>2, <1>5, <1>10, <1>11, <1>12, <1>14, <1>15, Executes DEF Stops
<1>17. jump_done_q' = FALSE /\ instr_valid_irq_flush_q' = FALSE
  BY Zenon DEF DecodeRun, NoReplay
<1>18. MepcAfterEx \in MainAddr
  BY DEF TurnInv, Ranges, InEx, MepcAfterEx
<1>19. due = HaltAddress => due' = HaltAddress + 1
  BY <1>7, <1>11, PlacesApart
<1>20. due = ExcHandler => due' = ExcHandler + 1
  BY <1>7, <1>11, PlacesApart
<1>21. due \in MainAddr => due' \in MainAddr
  BY <1>7, <1>11
<1>22. Ranges'
  BY <1>9, <1>10, <1>12, <1>17, <1>18, <1>19, <1>20, <1>21, PlacesApart DEF TurnInv, Ranges
<1>23. HandlersUndisturbed'
  <2>1. CASE debug_mode_q
    <3>1. Own' = Own /\ id.op \notin {"set", "clear"}
      BY <1>7, <1>9, <1>10, <1>12, <2>1, PlacesApart DEF Own
    <3> QED
      BY <1>14, <3>1 DEF TurnInv, HandlersUndisturbed, MieAfter
  <2>2. CASE due = ExcHandler
    <3>1. MieSeen = FALSE
      BY <1>9, <2>2, PlacesApart DEF TurnInv, HandlersUndisturbed, Own
    <3>2. id.op # "set"
      BY <1>7, <2>2, PlacesApart
    <3> QED
      BY <1>14, <3>1, <3>2 DEF HandlersUndisturbed, MieAfter
  <2>3. CASE due \in MainAddr
    BY <1>9, <1>10, <1>21, <2>3, PlacesApart DEF HandlersUndisturbed, Own
  <2> QED
    BY <1>8, <1>9, <2>1, <2>2, <2>3
<1>24. ~debug_mode_q => step' = step
  BY <1>12 DEF TurnInv, InEx, StepAfterEx
<1>25. /\ ~Stepping => ctrl_fsm_cs' = IF id.op \in Drains THEN "FLUSH_EX" ELSE "DECODE"
       /\ Stepping => ctrl_fsm_cs' = IF id.op = "branch" THEN "DBG_WAIT_BRANCH" ELSE "DBG_FLUSH"
  BY <1>2, <1>7 DEF DecodeRun, Stepped, Stops, Faults
<1>26. Stepping => Stepping'
  BY <1>10, <1>24 DEF Stepping
<1>27. InEx'
  <2>1. ex'.op = "skip" => Own' = ExcHandler + 1 /\ ex'.to \in MainAddr
    BY <1>7, <1>9, <1>10, <1>13, <1>20, PlacesApart DEF Own, TurnInv, Ranges
  <2>2. ex'.op \in {"stepon", "stepoff"} => debug_mode_q'
    BY <1>7, <1>9, <1>10, <1>13
  <2>3. ex'.op \in {"set", "clear"} => ctrl_fsm_cs' \in {"FLUSH_EX", "DBG_FLUSH"}
    BY <1>13, <1>25 DEF Drains
  <2>4. BranchTaken' => ctrl_fsm_cs' \in {"DECODE", "DBG_WAIT_BRANCH"}
    BY <1>13, <1>25 DEF Drains
  <2> QED
    BY <1>13, <2>1, <2>2, <2>3, <2>4 DEF InEx
<1>28. ~BranchTaken' => (IF Jumps(i) THEN id.to ELSE pc_if) = due'
  <2>1. CASE id.op = "jump"
    <3>1. ~i.jr
      BY DEF IdReady, Possible
    <3>2. ~jump_done_q => Jumps(i)
      BY <2>1, <3>1 DEF Jumps
    <3>3. jump_done_q => id.valid
      BY <1>2 DEF TurnInv, At, AtDecode, Decoding
    <3>4. jump_done_q => pc_if = id.to
      BY <1>2, <2>1, <3>3 DEF TurnInv, At, AtDecode, Behind
    <3> QED
      BY <1>11, <3>2, <3>4
  <2>2. CASE id.op # "jump"
    <3>1. pc_if = After(due) /\ ~Jumps(i)
      BY <1>2, <1>6, <2>2 DEF TurnInv, At, AtDecode, Behind, BehindOrThere, Decoding, Jumps
    <3> QED
      BY <1>7, <1>11, <1>13, <2>2, <3>1
  <2> QED
    BY <2>1, <2>2
<1>29. ~id'.valid /\ ~BranchTaken' => pc_if' = due'
  BY <1>3, <1>28
<1>30. id'.valid => ctrl_fsm_cs' = "DECODE" /\ (~BranchTaken' => InTurn' /\ Behind')
  BY <1>3, <1>17, <1>25, <1>28 DEF InTurn, Behind
<1>31. ~illegal_insn_q' /\ (debug_req_i' => ~step')
  BY <1>2, PinsHold DEF TurnInv, OnlyHere, DecodeRun
<1>32. AtDecode'
  BY <1>17, <1>29, <1>30 DEF AtDecode, Decoding
<1>33. AtFlush'
  <2> SUFFICES ASSUME ctrl_fsm_cs' \in {"FLUSH_EX", "FLUSH_WB"} PROVE Flushed'
    BY DEF AtFlush
  <2>1. ctrl_fsm_cs' = "FLUSH_EX" /\ id.op \in Drains /\ id'.op = id.op /\ ~id'.valid
    BY <1>3, <1>25
  <2>2. ~BranchTaken'
    BY <1>13, <2>1 DEF Drains
  <2> QED
    BY <1>7, <1>29, <1>31, <2>1, <2>2 DEF Flushed, Faults, Drains
<1>34. AtHalt' /\ AtReturn' /\ AtStart' /\ AtSleep' /\ AtIrqFlush' /\ AtIrq'
  <2>1. ctrl_fsm_cs' = "DBG_WAIT_BRANCH" => Stepping' /\ ex'.op = "branch"
    BY <1>13, <1>25, <1>26
  <2>2. ctrl_fsm_cs' = "DBG_FLUSH" => Stepping' /\ ~BranchTaken'
    BY <1>13, <1>25, <1>26
  <2>3. ctrl_fsm_cs' \in {"DBG_WAIT_BRANCH", "DBG_FLUSH"} => ~id'.valid
    BY <1>30
  <2> QED
    BY <1>25, <1>29, <2>1, <2>2, <2>3 DEF AtHalt, AtReturn, AtStart, AtSleep, AtIrqFlush, AtIrq
<1>35. OnlyHere'
  <2>1. ctrl_fsm_cs' \in {"DBG_WAIT_BRANCH", "DBG_FLUSH"} => id'.op # "elw"
    BY <1>3, <1>7, <1>30
  <2> QED
    BY <1>11, <1>25, <1>31, <2>1 DEF OnlyHere
<1> QED
  BY <1>16, <1>22, <1>23, <1>27, <1>32, <1>33, <1>34, <1>35 DEF TurnInv, At

-----------------------------------------------------------------------------
LEMMA ClockTurn ==
  ASSUME PlainProgram, IInv, TurnInv, NEW i \in Inputs, Tick(i)
  PROVE  HartStep /\ TurnInv'
<1>1. Around(i)
  BY ClockKeeps DEF Around, Tick
<1>2. CASE Decode(i)
  <2>1. CASE DecodeBranchTaken(i)
    BY <1>1, <2>1, DecodeBranchTakenTurn DEF Before, DecodeBranchTaken
  <2>2. CASE DecodeNothing(i)
    BY <1>1, <2>2, DecodeNothingTurn DEF Before, DecodeNothing
  <2>3. CASE DecodeRequest(i)
    BY <1>1, <2>3, DecodeRequestTurn DEF Before, DecodeRequest
  <2>4. CASE DecodeStop(i)
    BY <1>1, <2>4, DecodeStopTurn DEF Before, DecodeStop
  <2>5. CASE DecodeRun(i)
    BY <1>1, <2>5, DecodeRunWaits, DecodeRunLeaves
  <2> QED
    BY <1>2, <2>1, <2>2, <2>3, <2>4, <2>5 DEF Decode
<1>3. CASE Others(i) /\ NoReplay /\ jump_done_q' = (jump_done_q /\ ~IdReady(i))
  BY <1>1, <1>3, FlushExTurn, FlushWbTurn, XretJumpTurn, IrqTakenTurn, DbgWaitBranchTurn,
     DbgFlushTurn, DbgTakenTurn, StartTurn, FirstFetchTurn, SleepTurn
  DEF Before, Others
<1>4. CASE IrqFlush(i) /\ jump_done_q' = (jump_done_q /\ ~IdReady(i))
  BY <1>1, <1>4, IrqFlushTurn DEF Before
<1> QED
  BY <1>2, <1>3, <1>4 DEF Tick, Clock

LEMMA StutterTurn == ASSUME TurnInv, UNCHANGED vars PROVE HartStep /\ TurnInv'
<1>1. UNCHANGED <<due, debug_mode_q, mpie, depc, ex, mie, mepc, mpie>>
  BY DEF vars, coreVars, fsmVars, csrVars, pipeVars, history
<1>2. MieSeen' = MieSeen /\ MepcAfterEx' = MepcAfterEx
  BY <1>1 DEF MieSeen, MepcAfterEx
<1>3. HartStep
  BY <1>1, <1>2, Stutters
<1>4. TurnInv'
  BY DEF vars, coreVars, fsmVars, csrVars, pipeVars, history, TurnInv, Ranges, HandlersUndisturbed, Own, MieSeen,
     InEx, BranchTaken, At, AtDecode, AtFlush, Flushed, AtReturn, AtStart, AtSleep, AtIrqFlush, AtIrq, AtHalt,
     Decoding, InTurn, Behind, BehindOrThere, Parked, Stepping, OnlyHere
<1> QED
  BY <1>3, <1>4

(***************************************************************************)
(* The controller and its pipeline implement Hart: for every program that  *)
(* holds no p.elw, with no wfi in the debug ROM, and under every interrupt *)
(* and halt request of the interface, every delay of memory and fetch.     *)
(***************************************************************************)
THEOREM HartImplemented == ASSUME PlainProgram PROVE Spec => ImplementsHart
<1>1. Init => IInv /\ TurnInv /\ Architecture!Init
  BY InitInv, TurnInit, HartInit
<1>2. IInv /\ TurnInv /\ [Next]_vars => (IInv /\ TurnInv)' /\ [Architecture!Next]_(Architecture!vars)
  <2> SUFFICES ASSUME IInv, TurnInv, [Next]_vars
               PROVE  IInv' /\ TurnInv' /\ HartStep
    BY DEF HartStep
  <2>1. CASE Next
    <3>1. PICK i \in Inputs : Tick(i)
      BY <2>1 DEF Next
    <3> QED
      BY <3>1, ClockKeeps, ClockTurn DEF Tick
  <2>2. CASE UNCHANGED vars
    BY <2>2, StutterKeeps, StutterTurn
  <2> QED
    BY <2>1, <2>2
<1> QED
  BY <1>1, <1>2, PTL DEF Spec, ImplementsHart, Architecture!Spec
===================================================================================
