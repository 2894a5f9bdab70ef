---------------------------- MODULE VerilatorModel ----------------------------
(***************************************************************************)
(* The testbench of the Verilator model (tb/verilator-model): main loads a *)
(* program and a debug ROM into the RAM, clocks the core, pulses           *)
(* debug_req_i, sets a hart's "go" flag and a jump to the resume routine   *)
(* and clocks on.  The core is kept to the instructions of those two       *)
(* programs, one per clock of DECODE at most, and to the states its        *)
(* controller takes them and the debug request through; whatever else its  *)
(* pipeline does is a bubble, a clock in which no instruction is decoded.  *)
(***************************************************************************)
EXTENDS Integers, Sequences, FiniteSets

CONSTANTS
  Wirings,   \* the parameters the model is built with and main's pulse: records
             \* [haltAddress, hartId, pulse]
  MaxBubbles \* bubbles in a row

ASSUME VerilatorAssumption ==
  /\ MaxBubbles \in Nat
  /\ \A w \in Wirings : w.pulse \in Nat \ {0} /\ w.hartId \in Nat /\ w.haltAddress \in Nat

STARTprogrammADDR == 128
STARTdebugPROGaddr == 657408   \* 0x0A0800
FlagADDRESSbase == 656384      \* 0x0A0400
wheretoADDRESS == 656128       \* 0x0A0300
DebugBase == 655360            \* 0x0A0000, what the ROM puts in a0
FLAGgo == 1
TestHart == 992                \* 0x3e0, the hart main flags

\* The halt address of the core reaches a RAM of 20 address bits.
InRam(address) == address % 2^20

-----------------------------------------------------------------------------
(***************************************************************************)
(* The two programs, an instruction where the testbench writes four bytes. *)
(***************************************************************************)
Insn(op, rd, rs1, rs2, imm) == [op |-> op, rd |-> rd, rs1 |-> rs1, rs2 |-> rs2, imm |-> imm]
Li(rd, imm) == Insn("addi", rd, 0, 0, imm)
Sw(rs2, imm, rs1) == Insn("sw", 0, rs1, rs2, imm)
Jal(offset) == Insn("jal", 0, 0, 0, offset)
Csrr(rd, csr) == Insn("csrr", rd, 0, 0, csr)
Illegal == Insn("illegal", 0, 0, 0, 0)

mhartid == 0
dscratch0 == 1
dscratch1 == 2

repeat_factor == 20

StoreTurn == <<Li(15, 64), Li(14, 102), Sw(14, 0, 15)>>
StoreLoop == [i \in 1 .. 3 * repeat_factor |-> StoreTurn[1 + ((i - 1) % 3)]]

AllOnes == [r \in 1 .. 31 |-> Li(r, -1)]

ExitArguments == <<Li(11, 0), Li(12, 0), Li(13, 0), Li(17, 93)>>

loadProgram ==
  StoreLoop \o AllOnes \o ExitArguments \o StoreLoop \o ExitArguments
    \o <<Insn("ecall", 0, 0, 0, 0)>>

\* 0x00: the entries; 0x0c: s0 and a0 saved.
RomEntry == <<Jal(12), Jal(96), Jal(68), Li(0, 0),
              Insn("csrw", 0, 8, 0, dscratch0), Insn("csrw", 0, 10, 0, dscratch1)>>

\* 0x18: the hart reports that it halted and looks for its flag.
RomPark == <<Csrr(8, mhartid), Insn("lui", 10, 0, 0, DebugBase), Sw(8, 256, 10),
             Insn("add", 8, 8, 10, 0), Insn("lbu", 8, 8, 0, 1024), Insn("andi", 8, 8, 0, 1),
             Insn("bnez", 0, 8, 0, 36), Csrr(8, mhartid),
             Insn("add", 8, 8, 10, 0), Insn("lbu", 8, 8, 0, 1024), Insn("andi", 8, 8, 0, 2),
             Insn("bnez", 0, 8, 0, -64), Jal(-48)>>

\* 0x4c: an exception in debug mode; 0x54: going, with s0 and a0 restored.
RomGoing == <<Sw(0, 268, 10), Insn("ebreak", 0, 0, 0, 0),
              Csrr(8, dscratch0), Sw(0, 260, 10), Csrr(10, dscratch1), Jal(-1376)>>

\* 0x64: resume.
RomResume_Unreported ==  \* Mutant: the hart resumes without saying so.
  <<Csrr(8, mhartid), Insn("lui", 10, 0, 0, DebugBase), Li(0, 0),
    Csrr(8, dscratch0), Csrr(10, dscratch1), Insn("dret", 0, 0, 0, 0)>>
RomResume_Clobbers ==  \* Mutant: a0 is not restored.
  <<Csrr(8, mhartid), Insn("lui", 10, 0, 0, DebugBase), Sw(8, 264, 10),
    Csrr(8, dscratch0), Li(0, 0), Insn("dret", 0, 0, 0, 0)>>
RomResume == <<Csrr(8, mhartid), Insn("lui", 10, 0, 0, DebugBase), Sw(8, 264, 10),
               Csrr(8, dscratch0), Csrr(10, dscratch1), Insn("dret", 0, 0, 0, 0)>>

loadDebugProgram == RomEntry \o RomPark \o RomGoing \o RomResume

whereto == Jal(1284)   \* to the resume entry at 0x0A0804

AtIndex(start, address) == 1 + (address - start) \div 4
Holds(program, start, address) ==
  address >= start /\ address % 4 = 0 /\ AtIndex(start, address) <= Len(program)

-----------------------------------------------------------------------------
VARIABLES
  wiring,   \* what this build is wired to
  stage,    \* how far main has come
  left,     \* clocks left of the current clockSpin
  pins,     \* rstn_i, fetch_enable_i, debug_req_i
  OLDREGFILE, changeregfile,      \* the last register print and what it marked
  ctrl, debug_mode, pc, regs,     \* the hart: controller, mode, PC of ID, registers
  depc, dscratch, bubbles,
  mem, jump, \* data in RAM; what is at wheretoADDRESS
  halted,    \* history: PC at which the request was accepted, -1 before
  reports    \* history: what the ROM told the debugger, repetitions dropped

benchVars == <<wiring, stage, left, pins, jump>>
logVars == <<OLDREGFILE, changeregfile>>
hartVars == <<ctrl, debug_mode, pc, regs, depc, dscratch, bubbles, halted, reports>>
vars == <<benchVars, logVars, hartVars, mem>>

Reg == 0 .. 31
HALTED == DebugBase + 256
GOING == DebugBase + 260
RESUMING == DebugBase + 264
EXCEPTION == DebugBase + 268
FlagOf(hart) == FlagADDRESSbase + hart
DataAddresses == {64, HALTED, GOING, RESUMING, EXCEPTION, FlagOf(TestHart), FlagOf(wiring.hartId)}

Fetched ==
  IF Holds(loadProgram, STARTprogrammADDR, pc) THEN loadProgram[AtIndex(STARTprogrammADDR, pc)]
  ELSE IF Holds(loadDebugProgram, STARTdebugPROGaddr, pc)
       THEN loadDebugProgram[AtIndex(STARTdebugPROGaddr, pc)]
  ELSE IF pc = wheretoADDRESS THEN jump
  ELSE Illegal

Init ==
  /\ wiring \in Wirings
  /\ stage = "reset" /\ left = 5
  /\ pins = [rstn |-> FALSE, fetch_enable |-> FALSE, debug_req |-> FALSE]
  /\ OLDREGFILE = [r \in Reg |-> 0] /\ changeregfile = {}
  /\ ctrl = "RESET" /\ debug_mode = FALSE /\ pc = 0
  /\ regs = [r \in Reg |-> 0]
  /\ depc = 0 /\ dscratch = [c \in {dscratch0, dscratch1} |-> 0]
  /\ bubbles = 0
  /\ mem = [a \in DataAddresses |-> 0]
  /\ jump = Illegal
  /\ halted = -1 /\ reports = <<>>

-----------------------------------------------------------------------------
(***************************************************************************)
(* The hart.                                                               *)
(***************************************************************************)
CsrRead(csr) == IF csr = mhartid THEN wiring.hartId ELSE dscratch[csr]

\* What an instruction writes to its destination register.
Result(i) ==
  CASE i.op = "addi" -> regs[i.rs1] + i.imm
    [] i.op = "andi" -> IF i.imm = 1 THEN regs[i.rs1] % 2 ELSE 2 * ((regs[i.rs1] \div 2) % 2)
    [] i.op = "add" -> regs[i.rs1] + regs[i.rs2]
    [] i.op = "lui" -> i.imm
    [] i.op = "lbu" -> mem[regs[i.rs1] + i.imm]
    [] i.op = "csrr" -> CsrRead(i.imm)
    [] OTHER -> 0

NextPc(i) == IF i.op = "jal" \/ (i.op = "bnez" /\ regs[i.rs1] # 0) THEN pc + i.imm ELSE pc + 4

\* CSR accesses in the debug ROM drain the pipeline before the next instruction.
Drains(i) == i.op \in {"csrw", "csrr"} /\ i.imm \in {dscratch0, dscratch1}
Traps(i) == i.op \in {"illegal", "ecall", "dret"}

\* A store to the debug module's words is seen by a debugger on the bus.
Told(i) ==
  LET word == regs[i.rs1] + i.imm IN
  IF i.op = "sw" /\ word \in {HALTED, GOING, RESUMING, EXCEPTION}
       /\ (reports = <<>> \/ reports[Len(reports)] # word)
  THEN Append(reports, word)
  ELSE reports

Execute(i) ==
  /\ regs' = IF i.rd = 0 THEN regs ELSE [regs EXCEPT ![i.rd] = Result(i)]
  /\ dscratch' = IF i.op = "csrw" THEN [dscratch EXCEPT ![i.imm] = regs[i.rs1]] ELSE dscratch
  /\ mem' = IF i.op = "sw" THEN [mem EXCEPT ![regs[i.rs1] + i.imm] = regs[i.rs2]] ELSE mem
  /\ reports' = Told(i)
  /\ ctrl' = IF Drains(i) \/ Traps(i) THEN "FLUSH_EX"
             ELSE IF i.op = "ebreak" THEN "DBG_FLUSH" ELSE "DECODE"
  /\ pc' = IF Drains(i) \/ Traps(i) \/ i.op = "ebreak" THEN pc ELSE NextPc(i)
  /\ UNCHANGED halted

Keep == UNCHANGED <<regs, dscratch, mem, reports>>

\* An instruction is in ID: the debug request goes before it.
AcceptRequest ==
  /\ ctrl' = "DBG_FLUSH" /\ halted' = pc
  /\ Keep /\ UNCHANGED pc

Decode ==
  /\ ctrl = "DECODE"
  /\ \/ /\ bubbles < MaxBubbles
        /\ bubbles' = bubbles + 1
        /\ Keep /\ UNCHANGED <<ctrl, pc, halted>>
     \/ /\ bubbles' = 0
        /\ IF pins.debug_req /\ ~debug_mode THEN AcceptRequest ELSE Execute(Fetched)
  /\ UNCHANGED <<debug_mode, depc>>

\* FLUSH_WB acts on the instruction that started the flush.
AfterFlush ==
  IF Drains(Fetched) THEN ctrl' = "DECODE" /\ pc' = pc + 4
  ELSE IF Fetched.op = "dret" THEN ctrl' = "XRET_JUMP" /\ pc' = pc
  ELSE ctrl' = "DECODE" /\ pc' = 0     \* the trap base is not set up

Flush ==
  /\ \/ ctrl = "FLUSH_EX" /\ ctrl' = "FLUSH_WB" /\ UNCHANGED pc
     \/ ctrl = "FLUSH_WB" /\ AfterFlush
     \/ ctrl = "DBG_FLUSH" /\ ctrl' = "DBG_TAKEN_ID" /\ UNCHANGED pc
  /\ Keep /\ UNCHANGED <<debug_mode, depc, bubbles, halted>>

Return ==
  /\ ctrl = "XRET_JUMP"
  /\ ctrl' = "DECODE" /\ pc' = depc /\ debug_mode' = FALSE
  /\ Keep /\ UNCHANGED <<depc, bubbles, halted>>

Take_Held ==  \* Mutant: the return address is saved without looking at the pin.
  /\ ctrl = "DBG_TAKEN_ID"
  /\ depc' = IF ~debug_mode THEN pc ELSE depc
  /\ ctrl' = "DECODE" /\ pc' = InRam(wiring.haltAddress) /\ debug_mode' = TRUE
  /\ Keep /\ UNCHANGED <<bubbles, halted>>

\* The return address is saved only while the request is still there.
Take ==
  /\ ctrl = "DBG_TAKEN_ID"
  /\ depc' = IF pins.debug_req /\ ~debug_mode THEN pc ELSE depc
  /\ ctrl' = "DECODE" /\ pc' = InRam(wiring.haltAddress) /\ debug_mode' = TRUE
  /\ Keep /\ UNCHANGED <<bubbles, halted>>

Boot ==
  /\ \/ ctrl = "RESET" /\ ctrl' = (IF pins.rstn /\ pins.fetch_enable THEN "BOOT_SET" ELSE "RESET")
        /\ UNCHANGED pc
     \/ ctrl = "BOOT_SET" /\ ctrl' = "FIRST_FETCH" /\ pc' = STARTprogrammADDR
     \/ ctrl = "FIRST_FETCH" /\ ctrl' = "DECODE" /\ UNCHANGED pc
  /\ Keep /\ UNCHANGED <<debug_mode, depc, bubbles, halted>>

Hart == Boot \/ Decode \/ Flush \/ Take \/ Return

-----------------------------------------------------------------------------
(***************************************************************************)
(* The testbench.                                                          *)
(***************************************************************************)
REGfilePrint_KeepOld ==  \* Mutant: the old register file is not brought up to date.
  /\ changeregfile' = {r \in 1 .. 31 : regs'[r] # OLDREGFILE[r]}
  /\ UNCHANGED OLDREGFILE

REGfilePrint ==
  /\ changeregfile' = {r \in 1 .. 31 : regs'[r] # OLDREGFILE[r]}
  /\ OLDREGFILE' = [r \in Reg |-> IF r = 0 THEN OLDREGFILE[0] ELSE regs'[r]]

\* One turn of the loop: an edge of the clock and a line of the log.
clockSpin ==
  /\ left > 0 /\ left' = left - 1
  /\ Hart
  /\ REGfilePrint
  /\ UNCHANGED <<wiring, stage, pins, jump>>

NextSpin(from, to, clocks) ==
  /\ left = 0 /\ stage = from
  /\ stage' = to /\ left' = clocks
  /\ UNCHANGED <<wiring, logVars, hartVars>>

DebugFLAG(hart, flag) == mem' = [mem EXCEPT ![FlagOf(hart)] = flag]

Untouched == UNCHANGED <<mem, jump>>

EndReset == NextSpin("reset", "idle", 5) /\ pins' = [pins EXCEPT !.rstn = TRUE] /\ Untouched
EnableFetch == NextSpin("idle", "run", 96) /\ pins' = [pins EXCEPT !.fetch_enable = TRUE] /\ Untouched
Request == NextSpin("run", "request", wiring.pulse) /\ pins' = [pins EXCEPT !.debug_req = TRUE] /\ Untouched

LetResume ==
  /\ NextSpin("request", "resume", 82)
  /\ pins' = [pins EXCEPT !.debug_req = FALSE]
  /\ DebugFLAG(TestHart, FLAGgo)
  /\ jump' = whereto

Finish == NextSpin("resume", "done", 0) /\ UNCHANGED pins /\ Untouched

main == EndReset \/ EnableFetch \/ Request \/ LetResume \/ Finish

Next == clockSpin \/ main

Spec == Init /\ [][Next]_vars

-----------------------------------------------------------------------------
(***************************************************************************)
(* Properties.                                                             *)
(***************************************************************************)
Agrees == InRam(wiring.haltAddress) = STARTdebugPROGaddr /\ wiring.hartId = TestHart

\* The program runs on behind the instruction at which it was halted.
Resumed == halted > 0 /\ ~debug_mode /\ pc > halted

\* The controller samples the request when an instruction is in ID and looks at
\* it again two clocks later, when it saves the return address
\* (riscv_controller.sv, DBG_TAKEN_ID).
HeldLongEnough == wiring.pulse >= 3 + MaxBubbles

\* There is no way out of the ROM for another hart than the one main flags, and
\* what dret jumps to without a return address is not the program.
ResumeNeeds == Resumed => Agrees /\ wiring.pulse >= 3

\* README.md announces that the testbench shows "Resume".  At its end the program
\* has resumed if the core halts at the debug ROM, has the hart number that main
\* flags, and debug_req_i stays up until the return address is saved; and it needs
\* all three.  The model as wired in top.sv and pulsed by main has none of them.
TestResume ==
  /\ ResumeNeeds
  /\ stage = "done" /\ Agrees /\ HeldLongEnough => Resumed

\* The registers at an instruction, had the program run alone.
LastWrite(p, r) == {i \in 1 .. p - 1 : loadProgram[i].op = "addi" /\ loadProgram[i].rd = r}
RegsAt ==
  [p \in 1 .. Len(loadProgram) |->
     [r \in Reg |->
        IF r = 0 \/ LastWrite(p, r) = {} THEN 0
        ELSE loadProgram[CHOOSE i \in LastWrite(p, r) : \A j \in LastWrite(p, r) : j <= i].imm]]

\* Wherever the program is halted, it finds every register as it left it when it
\* goes on: the debug ROM's use of s0 and a0 leaves no trace.
ProgramUndisturbed ==
  (~debug_mode /\ ctrl = "DECODE" /\ Holds(loadProgram, STARTprogrammADDR, pc)) =>
    regs = RegsAt[AtIndex(STARTprogrammADDR, pc)]

\* What the debugger is told, in this order and never more: halted, going once
\* the hart's own flag is set, resuming once the jump is in place.  The hart is in
\* debug mode in between, and leaves it only after the last report.
Handshake ==
  LET all == <<HALTED, GOING, RESUMING>> IN
  /\ Len(reports) <= 3 /\ reports = SubSeq(all, 1, Len(reports))
  /\ Len(reports) >= 2 => mem[FlagOf(wiring.hartId)] = FLAGgo
  /\ Len(reports) = 3 => jump = whereto
  /\ Len(reports) \in {1, 2} => debug_mode
  /\ (halted >= 0 /\ ctrl = "DECODE" /\ ~debug_mode) => reports = all

\* The log marks a register in exactly the clock that changed it.
LogMarksChanges ==
  [][left' < left => changeregfile' = {r \in 1 .. 31 : regs'[r] # regs[r]}]_vars
===============================================================================
