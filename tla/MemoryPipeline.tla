--------------------------- MODULE MemoryPipeline ---------------------------
(***************************************************************************)
(* The path of a load or store through the core, one clock cycle per step: *)
(* the instruction in ID with its operand forwarding and its stalls        *)
(* (riscv_controller.sv, riscv_id_stage.sv), the ID/EX registers, the      *)
(* load-store unit, the EX/WB registers and the two write ports of the     *)
(* register file (riscv_ex_stage.sv, riscv_register_file.sv), and the data *)
(* memory of the testbench, which grants a request and answers it after    *)
(* any number of cycles (tb/core/mm_ram.sv, tb_riscv/riscv_random_stall.sv).*)
(*                                                                         *)
(* Around loads and stores run the instructions that meet them in the      *)
(* pipeline: ALU instructions that write a data register or the address    *)
(* register, branches that are not taken (a taken one only leaves an empty *)
(* ID stage behind) and cycles without an instruction.  The divider and    *)
(* the multiplier take one cycle here and no FPU or APU is attached        *)
(* (FPU = 0), so they never hold EX or the write-back port.                *)
(***************************************************************************)
EXTENDS LoadStoreUnit

CONSTANTS
    Instrs,     \* instructions the fetch stage may deliver
    DataRegs,   \* registers that hold data; "base" holds an address
    InitMem,    \* the bytes of the data memory
    InitData,   \* the data registers
    MaxIssued   \* bound: instructions that leave ID

(* Destinations of instructions; X0 stands for a register no instruction   *)
(* of the model uses.                                                      *)
X0   == "x0"
Base == "base"

Address == 0..(AddrSpace - 1)

Instruction ==
    [op : {"load"}, type : Types, sext : BOOLEAN, post : BOOLEAN, off : Address, reg : DataRegs]
    \cup [op : {"store"}, type : Types, post : BOOLEAN, off : Address, reg : DataRegs]
    \cup [op : {"move"}, dst : DataRegs, src : DataRegs]
    \cup [op : {"point"}, val : Address]
    \cup [op : {"branch"}]

ASSUME ProgramAssumption ==
    /\ Instrs \subseteq Instruction
    /\ X0 \notin DataRegs /\ Base \notin DataRegs
    /\ InitMem \in [Address -> Byte]
    /\ InitData \in [DataRegs -> Word]
    /\ MaxIssued \in Nat

VARIABLES
    id,         \* the instruction in ID, or Bubble
    ex,         \* ID/EX registers
    wb,         \* EX/WB registers: regfile_we_lsu, regfile_waddr_lsu
    data,       \* register file: the data registers
    base,       \* register file: the address register
    mem,        \* the data memory, by byte
    bus,        \* the answer the memory owes: None, or the word it has read
    issued      \* instructions that left ID

vars == <<lsuVars, id, ex, wb, data, base, mem, bus, issued>>

Bubble == [op |-> "none"]
None   == [owed |-> FALSE, word |-> Zero]
Owed(w) == [owed |-> TRUE, word |-> w]

-----------------------------------------------------------------------------
(* EX stage: the ALU port of the register file and the stage's handshake.  *)

AluPort(r)    == ex.aluwe /\ ex.aludst = r
AluAddress    == (ex.opA + ex.opB) % AddrSpace
ExReadyLsu(g, v)  == ReadyEx(ex, g, v) /\ ReadyWb(v)
ExReady(g, v) == ExReadyLsu(g, v) \/ ex.branch
ExValid(g, v) == ExReadyLsu(g, v)

-----------------------------------------------------------------------------
(* ID stage: register reads with forwarding from EX and WB, and stalls.    *)

Reads(i) == CASE i.op = "store" -> {i.reg} [] i.op = "move" -> {i.src} [] OTHER -> {}

AluDst(i) == CASE i.op \in {"load", "store"} /\ i.post -> Base
               [] i.op = "point" -> Base
               [] i.op = "move"  -> i.dst
               [] OTHER -> X0

AluWe(i) == AluDst(i) # X0

ReadData(r, v) ==
    IF AluPort(r) THEN ex.word
    ELSE IF wb.we /\ wb.reg = r THEN RdataEx(v, bus.word) ELSE data[r]

ReadBase == IF AluPort(Base) THEN AluAddress ELSE base

(* A load in EX, or in WB without its data, holds back an instruction that *)
(* reads its register or writes it through the ALU port.  Only loads write *)
(* the address register ex.waddr, so it still names the load in WB when    *)
(* another kind of instruction is in EX.                                   *)
\* Mutant: an instruction that only writes the register of the load goes on.
LoadStall_NoWaw(v) ==
    /\ \/ ex.req /\ ex.lsuwe
       \/ ~ReadyWb(v) /\ wb.we
    /\ ex.waddr \in Reads(id)
LoadStall(v) ==
    /\ \/ ex.req /\ ex.lsuwe
       \/ ~ReadyWb(v) /\ wb.we
    /\ (ex.waddr \in Reads(id)) \/ (AluWe(id) /\ ex.waddr = AluDst(id))

IdValid(g, v) == ~Misaligned(ex) /\ ~LoadStall(v) /\ ExReady(g, v)

-----------------------------------------------------------------------------
(* The ID/EX registers.  Fields no enable makes visible are given their    *)
(* reset value.                                                            *)

Idle(waddr) ==
    [req |-> FALSE, we |-> FALSE, type |-> "W", sext |-> FALSE, wdata |-> Zero,
     opA |-> 0, opB |-> 0, useincr |-> TRUE, mis |-> FALSE, lsuwe |-> FALSE,
     waddr |-> waddr, aluwe |-> FALSE, aludst |-> X0, word |-> Zero, branch |-> FALSE]

Loaded(i, v) ==
    CASE i.op = "load" ->
           [Idle(i.reg) EXCEPT !.req = TRUE, !.type = i.type, !.sext = i.sext,
               !.opA = ReadBase, !.opB = i.off, !.useincr = IF i.post THEN FALSE ELSE TRUE, !.lsuwe = TRUE,
               !.aluwe = i.post, !.aludst = AluDst(i)]
      [] i.op = "store" ->
           [Idle(ex.waddr) EXCEPT !.req = TRUE, !.we = TRUE, !.type = i.type,
               !.wdata = ReadData(i.reg, v), !.opA = ReadBase, !.opB = i.off,
               !.useincr = IF i.post THEN FALSE ELSE TRUE, !.aluwe = i.post, !.aludst = AluDst(i)]
      [] i.op = "move" ->
           [Idle(ex.waddr) EXCEPT !.word = ReadData(i.src, v), !.aluwe = TRUE, !.aludst = i.dst]
      [] i.op = "point" ->
           [Idle(ex.waddr) EXCEPT !.opA = i.val, !.aluwe = TRUE, !.aludst = Base]
      [] i.op = "branch" -> [Idle(ex.waddr) EXCEPT !.branch = TRUE]
      [] OTHER -> Idle(ex.waddr)

(* The second half of a split access: the word after the first address,    *)
(* which the adder has computed unless the access increments afterwards.   *)
SecondHalf ==
    [ex EXCEPT !.opA = IF ex.useincr THEN AluAddress ELSE ex.opA,
               !.opB = 4, !.useincr = TRUE, !.aluwe = FALSE, !.aludst = X0, !.mis = TRUE]

NextEx(g, v) ==
    CASE Misaligned(ex)  -> IF ExReady(g, v) THEN SecondHalf ELSE ex
      [] ~Misaligned(ex) -> IF IdValid(g, v) THEN Loaded(id, v)
                            ELSE IF ExReady(g, v) THEN Idle(ex.waddr) ELSE ex

(* The EX/WB registers.                                                    *)
\* Mutant: a load whose data arrived stays in WB until the next one comes.
NextWb_NoFlush(g, v) ==
    IF ExValid(g, v) THEN [we |-> ex.lsuwe, reg |-> IF ex.lsuwe THEN ex.waddr ELSE wb.reg]
    ELSE wb
NextWb(g, v) ==
    CASE ExValid(g, v) -> [we |-> ex.lsuwe, reg |-> IF ex.lsuwe THEN ex.waddr ELSE wb.reg]
      [] ~ExValid(g, v) /\ ReadyWb(v) -> [wb EXCEPT !.we = FALSE]
      [] OTHER -> wb

(* The register file.  The port of WB is enabled as long as a load is in   *)
(* WB, with or without its data; the ALU port wins.                        *)
NextData(v) ==
    [r \in DataRegs |->
        IF AluPort(r) THEN ex.word
        ELSE IF wb.we /\ wb.reg = r THEN RdataEx(v, bus.word) ELSE data[r]]

NextBase == IF AluPort(Base) THEN AluAddress ELSE base

-----------------------------------------------------------------------------
(* The data memory.                                                        *)

WordAddr == DataAddr(ex) - Offset(ex)

Written ==
    [k \in Address |->
        IF k - (k % 4) = WordAddr /\ (k % 4) \in ByteEnable(ex)
        THEN WriteData(ex)[k % 4] ELSE mem[k]]

ReadWord == [l \in Lane |-> mem[WordAddr + l]]

Memory(g, v) ==
    /\ mem' = IF g /\ ex.we THEN Written ELSE mem
    /\ bus' = IF g THEN Owed(IF ex.we THEN Zero ELSE ReadWord)
              ELSE IF v THEN None ELSE bus

-----------------------------------------------------------------------------
(* A clock cycle: the memory grants or not (g), answers or not (v), and    *)
(* the fetch stage has an instruction next or not (n).                     *)

Cycle(g, v, n) ==
    /\ v => bus.owed
    /\ g => DataReq(ex, v)
    /\ id' = IF IdValid(g, v) \/ id = Bubble THEN n ELSE id
    /\ LsuCycle(ex, g, v, bus.word, ExValid(g, v))
    /\ Memory(g, v)
    /\ ex' = NextEx(g, v)
    /\ wb' = NextWb(g, v)
    /\ data' = NextData(v)
    /\ base' = NextBase
    /\ issued' = IF IdValid(g, v) /\ id # Bubble THEN issued + 1 ELSE issued
    /\ n # Bubble => issued' < MaxIssued

Fetched == Instrs \cup {Bubble}

Init ==
    /\ LsuInit
    /\ id = Bubble
    /\ ex = Idle(X0)
    /\ wb = [we |-> FALSE, reg |-> X0]
    /\ data = InitData
    /\ base = 0
    /\ mem = InitMem
    /\ bus = None
    /\ issued = 0

Next == \E g, v \in BOOLEAN, n \in Fetched : Cycle(g, v, n)

Spec == Init /\ [][Next]_vars

(* The clock never stops and the memory stalls a request, and its answer,  *)
(* for a bounded number of cycles only (max_stall_i of riscv_random_stall).*)
Granted  == \E v \in BOOLEAN, n \in Fetched : Cycle(TRUE, v, n)
Answered == \E g \in BOOLEAN, n \in Fetched : Cycle(g, TRUE, n)
FairSpec == Spec /\ WF_vars(Next) /\ SF_vars(Granted) /\ SF_vars(Answered)

-----------------------------------------------------------------------------
(* Properties.                                                             *)

TypeOK ==
    /\ LsuTypeOK
    /\ id \in Fetched
    /\ ex \in [req : BOOLEAN, we : BOOLEAN, type : Types, sext : BOOLEAN, wdata : Word,
               opA : Address, opB : Address, useincr : BOOLEAN, mis : BOOLEAN, lsuwe : BOOLEAN,
               waddr : DataRegs \cup {X0}, aluwe : BOOLEAN,
               aludst : DataRegs \cup {X0, Base}, word : Word, branch : BOOLEAN]
    /\ wb \in [we : BOOLEAN, reg : DataRegs \cup {X0}]
    /\ data \in [DataRegs -> Word]
    /\ base \in Address
    /\ mem \in [Address -> Byte]
    /\ bus \in [owed : BOOLEAN, word : Word]
    /\ issued \in 0..MaxIssued

(* The request machine waits exactly while the memory owes an answer, so a *)
(* grant never overtakes an answer and no answer finds the unit idle (the  *)
(* two assertions at the end of the unit); and the two states for a stall  *)
(* of EX after a grant are never entered, because nothing but the unit and *)
(* WB holds back a load or store in EX.                                    *)
OneAnswerOwed ==
    /\ CS \in {"IDLE", "WAIT_RVALID"}
    /\ bus.owed <=> CS = "WAIT_RVALID"

(* A load whose register the ALU port is about to write is no longer in    *)
(* WB: the order of the two writes of one register never depends on when   *)
(* the memory answers.                                                     *)
NoWriteConflict == wb.we /\ ex.aluwe => wb.reg # ex.aludst

(* A load waits in WB only for an answer the memory owes it, and the       *)
(* second half of a split load only follows a first half of its own.       *)
LoadsAreInOrder ==
    /\ wb.we => bus.owed /\ ~q.we
    /\ ex.req /\ ex.mis /\ ex.lsuwe /\ bus.owed => wb.we /\ wb.reg = ex.waddr

(* What the pipeline holds, seen as if the instructions that left ID had   *)
(* taken effect: the answer owed to a load in WB, then the access or the   *)
(* ALU result in EX.                                                       *)
Isa0 == INSTANCE MemoryIsa WITH executed <- issued

Origin == IF ex.mis THEN (DataAddr(ex) + AddrSpace - 4) % AddrSpace ELSE DataAddr(ex)

DoneMem == IF ex.req /\ ex.we THEN Isa0!StoreInto(mem, Origin, ex.type, ex.wdata) ELSE mem

DoneData ==
    [r \in DataRegs |->
        IF ex.req /\ ex.lsuwe /\ ex.waddr = r THEN Isa0!LoadValue(mem, Origin, ex.type, ex.sext)
        ELSE IF AluPort(r) THEN ex.word
        ELSE IF wb.we /\ wb.reg = r THEN Extended(bus.word) ELSE data[r]]

Architecture == INSTANCE MemoryIsa
    WITH mem <- DoneMem, data <- DoneData, base <- NextBase, executed <- issued

(* Every access has the effect the instruction promises, in program order, *)
(* whatever the alignment, the stalls of the memory and the instructions   *)
(* around it: split accesses, forwarding, load stalls and write-back add   *)
(* up to the machine that executes one instruction at a time.              *)
ImplementsIsa == Architecture!Spec

(* No access stays in the pipeline for ever: after the bounded number of   *)
(* instructions of a program EX and the bus become free.                   *)
Busy == ex.req \/ bus.owed
AccessEnds == Busy ~> ~Busy
=============================================================================
