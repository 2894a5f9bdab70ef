---------------------------- MODULE VerilatorProofs ----------------------------
(***************************************************************************)
(* Theorems about the Verilator model's testbench, for every length of the *)
(* pulse and any number of bubbles: the log marks what changed, for every  *)
(* wiring; and, for a halt address that is the entry of the debug ROM or   *)
(* lies outside of it, the detour through the ROM leaves the program's     *)
(* registers as they were, reports its flags in order, and is left for the *)
(* program only after a pulse of three clocks and by the flagged hart.     *)
(*                                                                         *)
(* The inductive invariant DebugInv says where the program counter can be  *)
(* and what each place has made of the scratch registers and the flags;    *)
(* ResumeInv adds what is left of the pulse on the way to debug mode.      *)
(***************************************************************************)
EXTENDS VerilatorModel, SequenceTheorems, TLAPS

\* Between two clocks the log's copy of the register file is up to date.  Without
\* it the marks of a clock would add up the changes of earlier ones.
CopyIsCurrent == \A r \in 1 .. 31 : OLDREGFILE[r] = regs[r]

Inv == wiring \in Wirings /\ CopyIsCurrent

LEMMA InitInv == Init => Inv
  BY DEF Init, Inv, CopyIsCurrent, Reg

\* main changes no register and starts a count of clocks, never less than none.
LEMMA MainKeeps ==
  ASSUME Inv, main
  PROVE  /\ UNCHANGED <<wiring, OLDREGFILE, regs>>
         /\ left = 0 /\ left' \in Nat
<1>1. \A clocks : NextSpin("reset", "idle", clocks) \/ NextSpin("idle", "run", clocks)
                    \/ NextSpin("run", "request", clocks) \/ NextSpin("request", "resume", clocks)
                    \/ NextSpin("resume", "done", clocks)
        => UNCHANGED <<wiring, OLDREGFILE, regs>> /\ left = 0 /\ left' = clocks
  BY DEF NextSpin, logVars, hartVars
<1>2. wiring.pulse \in Nat
  BY VerilatorAssumption DEF Inv
<1> QED
  BY <1>1, <1>2 DEF main, EndReset, EnableFetch, Request, LetResume, Finish

LEMMA PrintCopies == ASSUME REGfilePrint PROVE CopyIsCurrent'
  BY DEF REGfilePrint, CopyIsCurrent, Reg

LEMMA StepInv == ASSUME Inv, [Next]_vars PROVE Inv'
<1>1. CASE UNCHANGED vars
  BY <1>1 DEF Inv, CopyIsCurrent, vars, benchVars, logVars, hartVars
<1>2. CASE clockSpin
  BY <1>2, PrintCopies DEF Inv, clockSpin
<1>3. CASE main
  BY <1>3, MainKeeps DEF Inv, CopyIsCurrent
<1> QED BY <1>1, <1>2, <1>3 DEF Next

LEMMA StepMarks ==
  ASSUME Inv, Next, left' < left
  PROVE  changeregfile' = {r \in 1 .. 31 : regs'[r] # regs[r]}
<1>1. CASE clockSpin
  BY <1>1 DEF clockSpin, REGfilePrint, Inv, CopyIsCurrent
<1>2. CASE main
  BY <1>2, MainKeeps
<1> QED BY <1>1, <1>2 DEF Next

(***************************************************************************)
(* The log marks a register in exactly the clock that changed it           *)
(* (REGfilePrint of testbench.cpp compares with the registers it printed   *)
(* last).                                                                  *)
(***************************************************************************)
THEOREM MarksAreChanges == Spec => LogMarksChanges
<1>1. Inv /\ [Next]_vars
        => [left' < left => changeregfile' = {r \in 1 .. 31 : regs'[r] # regs[r]}]_vars
  BY StepMarks
<1> QED BY <1>1, InitInv, StepInv, PTL DEF Spec, LogMarksChanges

-----------------------------------------------------------------------------
(***************************************************************************)
(* The debug request, for every core whose halt address is the entry of    *)
(* the debug ROM or lies outside it.                                       *)
(*                                                                         *)
(* Addresses 1 to 31 are the ROM's instructions and 0 is the jump to the   *)
(* resume entry.  What is in s0, a0 and the scratch registers and what has *)
(* been reported depends on the next instruction to be executed alone.     *)
(***************************************************************************)
Address(k) == IF k = 0 THEN wheretoADDRESS ELSE STARTdebugPROGaddr + 4 * (k - 1)

HaltsAtEntry ==
  \A w \in Wirings :
    \A k \in 0 .. 31 : InRam(w.haltAddress) = Address(k) => k = 1

\* The instructions that a hart halted at the entry comes to.
Reached == {0, 1, 2} \cup (4 .. 19) \cup (22 .. 31)
S0Saved == Reached \ {1, 4, 5, 30, 31}
A0Saved == Reached \ {1, 4, 5, 6, 31}
CsrAccess == {5, 6, 22, 24, 29, 30}

all == <<HALTED, GOING, RESUMING>>

\* The program's registers when it was halted.
Own ==
  {f \in [Reg -> Int] :
     /\ f[0] = 0
     /\ \A r \in Reg : f[r] <= 102
     /\ Holds(loadProgram, STARTprogrammADDR, halted) => f = RegsAt[AtIndex(STARTprogrammADDR, halted)]}

Kept(k, own, x, d) ==
  /\ \A r \in Reg \ {8, 10} : x[r] = own[r]
  /\ (IF k \in S0Saved THEN d[dscratch0] ELSE x[8]) = own[8]
  /\ (IF k \in A0Saved THEN d[dscratch1] ELSE x[10]) = own[10]

Working(k, x, flag) ==
  /\ k \in (9 .. 19) \cup {22, 23, 24, 28} => x[10] = DebugBase
  /\ k \in {8, 9, 10, 15} => x[8] = wiring.hartId
  /\ k \in {11, 16} => x[8] = wiring.hartId + DebugBase
  /\ k \in {12, 13} => x[8] = 0 \/ (x[8] = 1 /\ flag = FLAGgo)
  /\ k = 17 => x[8] \in {0, 1}
  /\ k = 18 => x[8] = 0

ToldAt(k, told, flag) ==
  /\ k \in {1, 4, 5, 6} => told = <<>>
  /\ k \in {7, 8, 9} => told \in {<<>>, <<HALTED>>}
  /\ k \in (10 .. 19) \cup {22, 23} => told = <<HALTED>>
  /\ k \in {24, 25, 0, 2, 26, 27, 28} => told = <<HALTED, GOING>>
  /\ k \in {29, 30, 31} => told = all
  /\ k \in (22 .. 31) \cup {0, 2} => flag = FLAGgo

Flag == mem[FlagOf(wiring.hartId)]

\* Instruction k of the ROM is the next to be executed.
IsNext(k) ==
  \/ ctrl = "DECODE" /\ pc = Address(k)
  \/ ctrl \in {"FLUSH_EX", "FLUSH_WB"} /\ k - 1 \in CsrAccess /\ pc = Address(k - 1)
  \/ ctrl \in {"FLUSH_EX", "FLUSH_WB", "XRET_JUMP"} /\ k = 31 /\ pc = Address(31)

InDebugRom ==
  /\ debug_mode
  /\ depc \in {0, halted} /\ halted \in Nat /\ \A k \in 0 .. 31 : halted # Address(k)
  /\ \E k \in Reached, own \in Own :
       IsNext(k) /\ Kept(k, own, regs, dscratch) /\ Working(k, regs, Flag) /\ ToldAt(k, reports, Flag)

Elsewhere == pc \in Nat /\ \A k \in 0 .. 31 : pc # Address(k)

SmallRegs == regs[0] = 0 /\ \A r \in Reg : regs[r] <= 102

ProgramRegs ==
  Holds(loadProgram, STARTprogrammADDR, pc) => regs = RegsAt[AtIndex(STARTprogrammADDR, pc)]

Booting ==
  /\ ~debug_mode /\ halted = -1 /\ reports = <<>> /\ depc = 0
  /\ ctrl \in {"RESET", "BOOT_SET", "FIRST_FETCH"}
  /\ ctrl = "FIRST_FETCH" => pc = STARTprogrammADDR
  /\ regs = [r \in Reg |-> 0]

\* The program runs, or the core was sent astray by its halt address.
Running ==
  /\ ctrl \in {"DECODE", "FLUSH_EX", "FLUSH_WB"} /\ Elsewhere /\ SmallRegs
  /\ ctrl # "DECODE" => Fetched.op \in {"illegal", "ecall"}
  /\ IF debug_mode THEN reports = <<>> /\ halted >= 0
     ELSE /\ ProgramRegs
          /\ IF halted = -1 THEN reports = <<>> /\ depc = 0 ELSE reports = all /\ Flag = FLAGgo

Halting ==
  /\ ~debug_mode /\ ctrl \in {"DBG_FLUSH", "DBG_TAKEN_ID"}
  /\ halted = pc /\ Elsewhere /\ SmallRegs /\ ProgramRegs
  /\ reports = <<>> /\ depc = 0

FlagIsSet ==
  /\ Flag \in {0, FLAGgo}
  /\ Flag = FLAGgo => jump = whereto
  /\ jump = whereto => stage \in {"resume", "done"}
  /\ pins.debug_req => stage = "request"

HartTypes ==
  /\ wiring \in Wirings
  /\ regs \in [Reg -> Int] /\ dscratch \in [{dscratch0, dscratch1} -> Int]
  /\ mem \in [DataAddresses -> Int]
  /\ debug_mode \in BOOLEAN /\ halted \in Nat \cup {-1}
  /\ DOMAIN pins = {"rstn", "fetch_enable", "debug_req"}

DebugInv == HartTypes /\ FlagIsSet /\ (Booting \/ Running \/ Halting \/ InDebugRom)
-----------------------------------------------------------------------------
(* The two programs.                                                       *)

Insns ==
  [op : {"jal", "addi", "csrw", "csrr", "lui", "sw", "add", "lbu", "andi", "bnez", "ebreak", "dret"},
   rd : Int, rs1 : Int, rs2 : Int, imm : Int]

LEMMA Concatenate ==
  \A S : \A s, t \in Seq(S) : s \o t \in Seq(S) /\ Len(s \o t) = Len(s) + Len(t)
  BY SMT

\* What the program consists of.
Plain ==
  {Li(rd, imm) : rd \in 1 .. 31, imm \in {64, 102, -1, 0, 93}}
    \cup {Sw(14, 0, 15), Insn("ecall", 0, 0, 0, 0)}

LEMMA ProgramIsPlain == loadProgram \in Seq(Plain) /\ Len(loadProgram) = 160
<1>1. \A rd \in 1 .. 31, imm \in {64, 102, -1, 0, 93} : Li(rd, imm) \in Plain
  BY DEF Plain
<1>2. /\ \A i \in 1 .. 3 : StoreTurn[i] \in Plain
      /\ ExitArguments \in Seq(Plain) /\ Len(ExitArguments) = 4
      /\ <<Insn("ecall", 0, 0, 0, 0)>> \in Seq(Plain) /\ Len(<<Insn("ecall", 0, 0, 0, 0)>>) = 1
  <2>1. Li(15, 64) \in Plain /\ Li(14, 102) \in Plain /\ Sw(14, 0, 15) \in Plain
          /\ Insn("ecall", 0, 0, 0, 0) \in Plain
    BY <1>1 DEF Plain
  <2>2. Li(11, 0) \in Plain /\ Li(12, 0) \in Plain /\ Li(13, 0) \in Plain /\ Li(17, 93) \in Plain
    BY <1>1
  <2> HIDE DEF Plain
  <2> QED BY <2>1, <2>2 DEF StoreTurn, ExitArguments
<1>3. AllOnes \in Seq(Plain) /\ Len(AllOnes) = 31
  BY <1>1 DEF AllOnes
<1>4. StoreLoop \in Seq(Plain) /\ Len(StoreLoop) = 60
  <2>1. \A i \in 1 .. 60 : StoreTurn[1 + ((i - 1) % 3)] \in Plain
    BY <1>2
  <2> QED BY <2>1 DEF StoreLoop, repeat_factor
<1>5. \A s, t \in Seq(Plain) : s \o t \in Seq(Plain) /\ Len(s \o t) = Len(s) + Len(t)
  BY Concatenate, Zenon
<1> DEFINE two == StoreLoop \o AllOnes
           three == two \o ExitArguments
           four == three \o StoreLoop
           five == four \o ExitArguments
<1>6. two \in Seq(Plain) /\ Len(two) = Len(StoreLoop) + Len(AllOnes)
  BY <1>3, <1>4, <1>5, ZenonT(60)
<1> HIDE DEF two
<1>7. three \in Seq(Plain) /\ Len(three) = Len(two) + Len(ExitArguments)
  BY <1>2, <1>6, <1>5, Zenon
<1> HIDE DEF three
<1>8. four \in Seq(Plain) /\ Len(four) = Len(three) + Len(StoreLoop)
  BY <1>4, <1>7, <1>5, Zenon
<1> HIDE DEF four
<1>9. five \in Seq(Plain) /\ Len(five) = Len(four) + Len(ExitArguments)
  BY <1>2, <1>8, <1>5, Zenon
<1> HIDE DEF five
<1>10. loadProgram = five \o <<Insn("ecall", 0, 0, 0, 0)>>
  BY Zenon DEF loadProgram, two, three, four, five
<1>11. /\ loadProgram \in Seq(Plain)
       /\ Len(loadProgram) = Len(five) + Len(<<Insn("ecall", 0, 0, 0, 0)>>)
  BY <1>2, <1>9, <1>5, <1>10, Zenon
<1> QED BY <1>2, <1>3, <1>4, <1>6, <1>7, <1>8, <1>9, <1>11, SMT

LEMMA Elements ==
  ASSUME NEW S, NEW s \in Seq(S)
  PROVE  \A i \in 1 .. Len(s) : s[i] \in S
<1>1. SUFFICES ASSUME NEW i \in 1 .. Len(s) PROVE s[i] \in S
  OBVIOUS
<1> QED BY ElementOfSeq

LEMMA PlainElements == \A i \in 1 .. 160 : loadProgram[i] \in Plain
<1>1. loadProgram \in Seq(Plain)
  BY ProgramIsPlain, Zenon
<1>2. Len(loadProgram) = 160
  BY ProgramIsPlain, Zenon
<1>3. \A i \in 1 .. Len(loadProgram) : loadProgram[i] \in Plain
  BY <1>1, Elements
<1> QED BY <1>2, <1>3

LEMMA RomSegments ==
  /\ RomEntry \in Seq(Insns) /\ Len(RomEntry) = 6 /\ RomPark \in Seq(Insns) /\ Len(RomPark) = 13
  /\ RomGoing \in Seq(Insns) /\ Len(RomGoing) = 6 /\ RomResume \in Seq(Insns) /\ Len(RomResume) = 6
<1>1. \A op \in {"jal", "addi", "csrw", "csrr", "lui", "sw", "add", "lbu", "andi", "bnez", "ebreak", "dret"} :
        \A rd, rs1, rs2, imm \in Int : Insn(op, rd, rs1, rs2, imm) \in Insns
  BY SMT DEF Insn, Insns
<1>2. DebugBase \in Int
  BY SMT DEF DebugBase
<1> HIDE DEF Insns, Insn
<1>3. RomEntry \in Seq(Insns) /\ Len(RomEntry) = 6
  <2>1. Jal(12) \in Insns /\ Jal(96) \in Insns /\ Jal(68) \in Insns /\ Li(0, 0) \in Insns
          /\ Insn("csrw", 0, 8, 0, dscratch0) \in Insns /\ Insn("csrw", 0, 10, 0, dscratch1) \in Insns
    BY <1>1, SMT DEF Jal, Li, dscratch0, dscratch1
  <2> QED BY <2>1, SMT DEF RomEntry
<1>4. RomPark \in Seq(Insns) /\ Len(RomPark) = 13
  <2>1. Csrr(8, mhartid) \in Insns /\ Insn("lui", 10, 0, 0, DebugBase) \in Insns /\ Sw(8, 256, 10) \in Insns
          /\ Insn("add", 8, 8, 10, 0) \in Insns /\ Insn("lbu", 8, 8, 0, 1024) \in Insns
          /\ Insn("andi", 8, 8, 0, 1) \in Insns /\ Insn("bnez", 0, 8, 0, 36) \in Insns
          /\ Insn("andi", 8, 8, 0, 2) \in Insns /\ Insn("bnez", 0, 8, 0, -64) \in Insns /\ Jal(-48) \in Insns
    BY <1>1, <1>2, SMTT(30) DEF Jal, Csrr, Sw, mhartid
  <2> QED BY <2>1, SMT DEF RomPark
<1>5. RomGoing \in Seq(Insns) /\ Len(RomGoing) = 6
  <2>1. Sw(0, 268, 10) \in Insns /\ Insn("ebreak", 0, 0, 0, 0) \in Insns /\ Csrr(8, dscratch0) \in Insns
          /\ Sw(0, 260, 10) \in Insns /\ Csrr(10, dscratch1) \in Insns /\ Jal(-1376) \in Insns
    BY <1>1, SMT DEF Jal, Csrr, Sw, dscratch0, dscratch1
  <2> QED BY <2>1, SMT DEF RomGoing
<1>6. RomResume \in Seq(Insns) /\ Len(RomResume) = 6
  <2>1. Csrr(8, mhartid) \in Insns /\ Insn("lui", 10, 0, 0, DebugBase) \in Insns /\ Sw(8, 264, 10) \in Insns
          /\ Csrr(8, dscratch0) \in Insns /\ Csrr(10, dscratch1) \in Insns
          /\ Insn("dret", 0, 0, 0, 0) \in Insns
    BY <1>1, <1>2, SMT DEF Csrr, Sw, mhartid, dscratch0, dscratch1
  <2> QED BY <2>1, SMT DEF RomResume
<1> QED BY <1>3, <1>4, <1>5, <1>6

LEMMA RomParts ==
  /\ Len(loadDebugProgram) = 31
  /\ \A i \in 1 .. 6 : /\ loadDebugProgram[i] = RomEntry[i]
                        /\ loadDebugProgram[19 + i] = RomGoing[i]
                        /\ loadDebugProgram[25 + i] = RomResume[i]
  /\ \A i \in 1 .. 13 : loadDebugProgram[6 + i] = RomPark[i]
<1>1. \A s, t \in Seq(Insns) :
        /\ s \o t \in Seq(Insns) /\ Len(s \o t) = Len(s) + Len(t)
        /\ \A i \in 1 .. Len(s) : (s \o t)[i] = s[i]
        /\ \A i \in 1 .. Len(t) : (s \o t)[Len(s) + i] = t[i]
  BY SMT
<1> DEFINE two == RomEntry \o RomPark
           three == two \o RomGoing
           rom == three \o RomResume
<1>2. /\ two \in Seq(Insns) /\ Len(two) = Len(RomEntry) + Len(RomPark)
      /\ \A i \in 1 .. Len(RomEntry) : two[i] = RomEntry[i]
      /\ \A i \in 1 .. Len(RomPark) : two[Len(RomEntry) + i] = RomPark[i]
  BY <1>1, RomSegments, Zenon
<1> HIDE DEF two
<1>3. /\ three \in Seq(Insns) /\ Len(three) = Len(two) + Len(RomGoing)
      /\ \A i \in 1 .. Len(two) : three[i] = two[i]
      /\ \A i \in 1 .. Len(RomGoing) : three[Len(two) + i] = RomGoing[i]
  BY <1>1, <1>2, RomSegments, Zenon
<1> HIDE DEF three
<1>4. /\ rom \in Seq(Insns) /\ Len(rom) = Len(three) + Len(RomResume)
      /\ \A i \in 1 .. Len(three) : rom[i] = three[i]
      /\ \A i \in 1 .. Len(RomResume) : rom[Len(three) + i] = RomResume[i]
  BY <1>1, <1>3, RomSegments, Zenon
<1> HIDE DEF rom
<1>5. Len(two) = 19 /\ Len(three) = 25 /\ Len(rom) = 31
  BY <1>2, <1>3, <1>4, RomSegments, SMT
<1>6. /\ Len(rom) = 31
      /\ \A i \in 1 .. 6 : rom[i] = RomEntry[i] /\ rom[19 + i] = RomGoing[i] /\ rom[25 + i] = RomResume[i]
      /\ \A i \in 1 .. 13 : rom[6 + i] = RomPark[i]
  <2>1. (\A i \in 1 .. 6 : two[i] = RomEntry[i]) /\ \A i \in 1 .. 13 : two[6 + i] = RomPark[i]
    BY <1>2, RomSegments, Zenon
  <2>2. (\A i \in 1 .. 19 : three[i] = two[i]) /\ \A i \in 1 .. 6 : three[19 + i] = RomGoing[i]
    BY <1>3, <1>5, RomSegments, Zenon
  <2>3. (\A i \in 1 .. 25 : rom[i] = three[i]) /\ \A i \in 1 .. 6 : rom[25 + i] = RomResume[i]
    BY <1>4, <1>5, RomSegments, Zenon
  <2> QED BY <1>5, <2>1, <2>2, <2>3, SMT
<1>7. loadDebugProgram = rom
  BY Zenon DEF loadDebugProgram, two, three, rom
<1> QED BY <1>6, <1>7, Zenon

\* The ROM, an instruction per address.
LEMMA RomAt ==
  /\ loadDebugProgram[1] = Insn("jal", 0, 0, 0, 12)
  /\ loadDebugProgram[2] = Insn("jal", 0, 0, 0, 96)
  /\ loadDebugProgram[4] = Insn("addi", 0, 0, 0, 0)
  /\ loadDebugProgram[5] = Insn("csrw", 0, 8, 0, 1)
  /\ loadDebugProgram[6] = Insn("csrw", 0, 10, 0, 2)
  /\ loadDebugProgram[7] = Insn("csrr", 8, 0, 0, 0)
  /\ loadDebugProgram[8] = Insn("lui", 10, 0, 0, DebugBase)
  /\ loadDebugProgram[9] = Insn("sw", 0, 10, 8, 256)
  /\ loadDebugProgram[10] = Insn("add", 8, 8, 10, 0)
  /\ loadDebugProgram[11] = Insn("lbu", 8, 8, 0, 1024)
  /\ loadDebugProgram[12] = Insn("andi", 8, 8, 0, 1)
  /\ loadDebugProgram[13] = Insn("bnez", 0, 8, 0, 36)
  /\ loadDebugProgram[14] = Insn("csrr", 8, 0, 0, 0)
  /\ loadDebugProgram[15] = Insn("add", 8, 8, 10, 0)
  /\ loadDebugProgram[16] = Insn("lbu", 8, 8, 0, 1024)
  /\ loadDebugProgram[17] = Insn("andi", 8, 8, 0, 2)
  /\ loadDebugProgram[18] = Insn("bnez", 0, 8, 0, -64)
  /\ loadDebugProgram[19] = Insn("jal", 0, 0, 0, -48)
  /\ loadDebugProgram[22] = Insn("csrr", 8, 0, 0, 1)
  /\ loadDebugProgram[23] = Insn("sw", 0, 10, 0, 260)
  /\ loadDebugProgram[24] = Insn("csrr", 10, 0, 0, 2)
  /\ loadDebugProgram[25] = Insn("jal", 0, 0, 0, -1376)
  /\ loadDebugProgram[26] = Insn("csrr", 8, 0, 0, 0)
  /\ loadDebugProgram[27] = Insn("lui", 10, 0, 0, DebugBase)
  /\ loadDebugProgram[28] = Insn("sw", 0, 10, 8, 264)
  /\ loadDebugProgram[29] = Insn("csrr", 8, 0, 0, 1)
  /\ loadDebugProgram[30] = Insn("csrr", 10, 0, 0, 2)
  /\ loadDebugProgram[31] = Insn("dret", 0, 0, 0, 0)
<1>1. \A i \in 1 .. 6 : /\ loadDebugProgram[i] = RomEntry[i]
                        /\ loadDebugProgram[19 + i] = RomGoing[i]
                        /\ loadDebugProgram[25 + i] = RomResume[i]
  BY RomParts
<1>2. \A i \in 1 .. 13 : loadDebugProgram[6 + i] = RomPark[i]
  BY RomParts
<1>3. /\ loadDebugProgram[7] = RomPark[1] /\ loadDebugProgram[8] = RomPark[2] /\ loadDebugProgram[9] = RomPark[3]
      /\ loadDebugProgram[10] = RomPark[4] /\ loadDebugProgram[11] = RomPark[5] /\ loadDebugProgram[12] = RomPark[6]
      /\ loadDebugProgram[13] = RomPark[7] /\ loadDebugProgram[14] = RomPark[8] /\ loadDebugProgram[15] = RomPark[9]
      /\ loadDebugProgram[16] = RomPark[10] /\ loadDebugProgram[17] = RomPark[11] /\ loadDebugProgram[18] = RomPark[12]
      /\ loadDebugProgram[19] = RomPark[13]
  BY <1>2, SMT
<1>4. /\ loadDebugProgram[1] = RomEntry[1] /\ loadDebugProgram[2] = RomEntry[2] /\ loadDebugProgram[4] = RomEntry[4]
      /\ loadDebugProgram[5] = RomEntry[5] /\ loadDebugProgram[6] = RomEntry[6]
      /\ loadDebugProgram[22] = RomGoing[3] /\ loadDebugProgram[23] = RomGoing[4]
      /\ loadDebugProgram[24] = RomGoing[5] /\ loadDebugProgram[25] = RomGoing[6]
      /\ loadDebugProgram[26] = RomResume[1] /\ loadDebugProgram[27] = RomResume[2]
      /\ loadDebugProgram[28] = RomResume[3] /\ loadDebugProgram[29] = RomResume[4]
      /\ loadDebugProgram[30] = RomResume[5] /\ loadDebugProgram[31] = RomResume[6]
  BY <1>1, SMT
<1> HIDE DEF DebugBase
<1>5. RomEntry[1] = Jal(12) /\ RomEntry[2] = Jal(96) /\ RomEntry[4] = Li(0, 0)
        /\ RomEntry[5] = Insn("csrw", 0, 8, 0, 1) /\ RomEntry[6] = Insn("csrw", 0, 10, 0, 2)
  BY SMT DEF RomEntry, dscratch0, dscratch1
<1>6. RomPark = <<Csrr(8, 0), Insn("lui", 10, 0, 0, DebugBase), Sw(8, 256, 10),
             Insn("add", 8, 8, 10, 0), Insn("lbu", 8, 8, 0, 1024), Insn("andi", 8, 8, 0, 1),
             Insn("bnez", 0, 8, 0, 36), Csrr(8, 0),
             Insn("add", 8, 8, 10, 0), Insn("lbu", 8, 8, 0, 1024), Insn("andi", 8, 8, 0, 2),
             Insn("bnez", 0, 8, 0, -64), Jal(-48)>>
  BY SMT DEF RomPark, mhartid
<1>7. RomGoing[3] = Csrr(8, 1) /\ RomGoing[4] = Sw(0, 260, 10) /\ RomGoing[5] = Csrr(10, 2) /\ RomGoing[6] = Jal(-1376)
  BY SMT DEF RomGoing, dscratch0, dscratch1
<1>8. RomResume = <<Csrr(8, 0), Insn("lui", 10, 0, 0, DebugBase), Sw(8, 264, 10),
               Csrr(8, 1), Csrr(10, 2), Insn("dret", 0, 0, 0, 0)>>
  BY SMT DEF RomResume, mhartid, dscratch0, dscratch1
<1> QED
  BY <1>3, <1>4, <1>5, <1>6, <1>7, <1>8, SMT DEF Jal, Li, Csrr, Sw

-----------------------------------------------------------------------------
(* Addresses.                                                              *)

LEMMA Addresses ==
  /\ \A k \in 0 .. 31 : Address(k) \in Nat
  /\ \A k \in 1 .. 30 : Address(k) + 4 = Address(k + 1)
  /\ Address(0) + 1284 = Address(2) /\ Address(1) + 12 = Address(4) /\ Address(2) + 96 = Address(26)
  /\ Address(13) + 36 = Address(22) /\ Address(19) - 48 = Address(7) /\ Address(25) - 1376 = Address(0)
  /\ \A j, k \in 0 .. 31 : Address(j) = Address(k) => j = k
  /\ \A k \in 0 .. 31 : Address(k) > 1000
BY SMT DEF Address, wheretoADDRESS, STARTdebugPROGaddr

\* The words that the ROM and main write, and the hart's flag.
LEMMA DataWords ==
  ASSUME wiring.hartId \in Nat
  PROVE  /\ DebugBase + 256 = HALTED /\ DebugBase + 260 = GOING /\ DebugBase + 264 = RESUMING
         /\ DebugBase \in Nat /\ DebugBase > 1000
         /\ HALTED # GOING /\ GOING # RESUMING /\ HALTED # RESUMING
         /\ wiring.hartId + DebugBase + 1024 = FlagOf(wiring.hartId)
         /\ FlagOf(wiring.hartId) \in Int /\ FlagOf(wiring.hartId) \in DataAddresses
         /\ FlagOf(wiring.hartId) \notin {HALTED, GOING, RESUMING, EXCEPTION}
         /\ FlagOf(wiring.hartId) > 1000
         /\ FlagOf(wiring.hartId) = FlagOf(TestHart) <=> wiring.hartId = TestHart
         /\ \A a \in {HALTED, GOING, RESUMING, EXCEPTION} : a > 1000
BY SMT DEF HALTED, GOING, RESUMING, EXCEPTION, DebugBase, FlagOf, FlagADDRESSbase, DataAddresses, TestHart

LEMMA FetchedInRom ==
  ASSUME NEW k \in 0 .. 31, pc = Address(k), k = 0 => jump = whereto
  PROVE  Fetched = IF k = 0 THEN whereto ELSE loadDebugProgram[k]
<1>1. Len(loadProgram) = 160 /\ Len(loadDebugProgram) = 31
  BY ProgramIsPlain, RomParts
<1>2. ~Holds(loadProgram, STARTprogrammADDR, pc)
  BY <1>1, SMT DEF Holds, AtIndex, Address, STARTprogrammADDR, wheretoADDRESS, STARTdebugPROGaddr
<1>3. CASE k = 0
  BY <1>2, <1>3, SMT DEF Fetched, Holds, Address, wheretoADDRESS, STARTdebugPROGaddr
<1>4. CASE k # 0
  <2>1. Holds(loadDebugProgram, STARTdebugPROGaddr, pc) /\ AtIndex(STARTdebugPROGaddr, pc) = k
    BY <1>1, <1>4, SMT DEF Holds, AtIndex, Address, STARTdebugPROGaddr
  <2> QED BY <1>2, <1>4, <2>1, SMT DEF Fetched
<1> QED BY <1>3, <1>4, Zenon

LEMMA FetchedElsewhere ==
  ASSUME Elsewhere
  PROVE  \/ /\ Holds(loadProgram, STARTprogrammADDR, pc)
            /\ AtIndex(STARTprogrammADDR, pc) \in 1 .. 160
            /\ Fetched = loadProgram[AtIndex(STARTprogrammADDR, pc)] /\ Fetched \in Plain
         \/ ~Holds(loadProgram, STARTprogrammADDR, pc) /\ Fetched = Illegal
<1>1. Len(loadDebugProgram) = 31 /\ Len(loadProgram) = 160 /\ loadProgram \in Seq(Plain)
  BY ProgramIsPlain, RomParts, Zenon
<1>2. pc # wheretoADDRESS
  BY SMT DEF Elsewhere, Address
<1>3. ~Holds(loadDebugProgram, STARTdebugPROGaddr, pc)
  <2>1. SUFFICES ASSUME Holds(loadDebugProgram, STARTdebugPROGaddr, pc) PROVE FALSE
    OBVIOUS
  <2>2. AtIndex(STARTdebugPROGaddr, pc) \in 1 .. 31
    BY <1>1, <2>1, SMT DEF Elsewhere, Holds, AtIndex, STARTdebugPROGaddr
  <2>3. pc = Address(AtIndex(STARTdebugPROGaddr, pc))
    BY <2>1, <2>2, SMT DEF Elsewhere, Holds, AtIndex, STARTdebugPROGaddr, Address
  <2> QED BY <2>2, <2>3, SMT DEF Elsewhere
<1>4. Holds(loadProgram, STARTprogrammADDR, pc) => AtIndex(STARTprogrammADDR, pc) \in 1 .. 160
  BY <1>1, SMT DEF Elsewhere, Holds, AtIndex, STARTprogrammADDR
<1>5. \A i \in 1 .. 160 : loadProgram[i] \in Plain
  BY PlainElements, Zenon
<1> QED BY <1>2, <1>3, <1>4, <1>5, Zenon DEF Fetched

-----------------------------------------------------------------------------
(* What the kinds of instructions do.                                      *)

LEMMA RunsJump ==
  ASSUME NEW i, Execute(i), i.rd = 0, i.op \in {"jal", "bnez", "addi"}
  PROVE  UNCHANGED <<regs, dscratch, mem, reports, halted>> /\ ctrl' = "DECODE" /\ pc' = NextPc(i)
BY SMT DEF Execute, Told, Drains, Traps

LEMMA RunsWrite ==
  ASSUME NEW i, Execute(i), i.rd # 0, i.op \in {"addi", "andi", "add", "lui", "lbu", "csrr"}
  PROVE  /\ regs' = [regs EXCEPT ![i.rd] = Result(i)]
         /\ UNCHANGED <<dscratch, mem, reports, halted>>
         /\ IF i.op = "csrr" /\ i.imm \in {1, 2} THEN ctrl' = "FLUSH_EX" /\ pc' = pc
            ELSE ctrl' = "DECODE" /\ pc' = pc + 4
BY SMT DEF Execute, Told, Drains, Traps, NextPc, dscratch0, dscratch1

LEMMA RunsSave ==
  ASSUME NEW i, Execute(i), i.rd = 0, i.op = "csrw", i.imm \in {1, 2}
  PROVE  /\ dscratch' = [dscratch EXCEPT ![i.imm] = regs[i.rs1]]
         /\ UNCHANGED <<regs, mem, reports, halted>>
         /\ ctrl' = "FLUSH_EX" /\ pc' = pc
BY SMT DEF Execute, Told, Drains, Traps, dscratch0, dscratch1

LEMMA RunsStore ==
  ASSUME NEW i, Execute(i), i.rd = 0, i.op = "sw"
  PROVE  /\ mem' = [mem EXCEPT ![regs[i.rs1] + i.imm] = regs[i.rs2]]
         /\ reports' = Told(i)
         /\ UNCHANGED <<regs, dscratch, halted>>
         /\ ctrl' = "DECODE" /\ pc' = pc + 4
BY SMT DEF Execute, Drains, Traps, NextPc

LEMMA RunsTrap ==
  ASSUME NEW i, Execute(i), i.rd = 0, i.op \in {"illegal", "ecall", "dret"}
  PROVE  UNCHANGED <<regs, dscratch, mem, reports, halted, pc>> /\ ctrl' = "FLUSH_EX"
BY SMT DEF Execute, Told, Traps

-----------------------------------------------------------------------------
(* Through the ROM, one instruction at a time.                             *)

RomState(k, own) ==
  Kept(k, own, regs, dscratch) /\ Working(k, regs, Flag) /\ ToldAt(k, reports, Flag)

\* The instruction after the k-th.
Succ(k) ==
  CASE k = 0 -> 2 [] k = 1 -> 4 [] k = 2 -> 26 [] k = 19 -> 7 [] k = 25 -> 0
    [] k = 13 -> (IF regs[8] = 0 THEN 14 ELSE 22)
    [] OTHER -> k + 1

\* An instruction at its address: what holds when it is decoded.
AtRom(k, own) ==
  /\ HartTypes /\ Flag \in {0, FLAGgo} /\ (Flag = FLAGgo => jump = whereto)
  /\ ctrl = "DECODE" /\ pc = Address(k) /\ RomState(k, own)
  /\ wiring' = wiring /\ Execute(Fetched)

\* What has happened when it is done.
Moved(k, own) ==
  /\ regs' \in [Reg -> Int] /\ dscratch' \in [{dscratch0, dscratch1} -> Int]
  /\ mem' \in [DataAddresses -> Int] /\ Flag' = Flag /\ UNCHANGED halted
  /\ \E n \in Reached :
       /\ \/ ctrl' = "DECODE" /\ pc' = Address(n)
          \/ ctrl' = "FLUSH_EX" /\ k \in CsrAccess /\ n = k + 1 /\ pc' = Address(k)
       /\ RomState(n, own)'

LEMMA RomJump ==
  ASSUME NEW k \in {0, 1, 2, 4, 13, 18, 19, 25}, NEW own, AtRom(k, own)
  PROVE  Moved(k, own)
<1>1. k = 0 => Flag = FLAGgo
  BY SMT DEF AtRom, RomState, ToldAt
<1>2. Fetched = IF k = 0 THEN whereto ELSE loadDebugProgram[k]
  <2>1. k \in 0 .. 31 /\ pc = Address(k) /\ (k = 0 => jump = whereto)
    BY <1>1, SMT DEF AtRom
  <2> QED BY <2>1, FetchedInRom
<1>3. PICK n : n = Succ(k)
  OBVIOUS
<1>4. /\ k = 0 => n = 2
      /\ k = 1 => n = 4
      /\ k = 2 => n = 26
      /\ k = 4 => n = 5
      /\ k = 13 => (n = 14 /\ regs[8] = 0) \/ (n = 22 /\ regs[8] # 0)
      /\ k = 18 => n = 19
      /\ k = 19 => n = 7
      /\ k = 25 => n = 0
  BY <1>3, SMT DEF Succ
<1>5. /\ Fetched.rd = 0 /\ Fetched.op \in {"jal", "bnez", "addi"}
      /\ NextPc(Fetched) = Address(n) /\ n \in Reached
  <2>1. k = 18 => regs[8] = 0
    BY SMT DEF AtRom, RomState, Working
  <2>2. k \in 0 .. 31 /\ pc = Address(k)
    BY SMT DEF AtRom
  <2> QED BY <1>2, <1>4, <2>1, <2>2, RomAt, Addresses, SMT DEF whereto, Jal, Insn, NextPc, Reached
<1>6. /\ regs' = regs /\ dscratch' = dscratch /\ mem' = mem /\ reports' = reports /\ halted' = halted
      /\ wiring' = wiring /\ ctrl' = "DECODE" /\ pc' = Address(n)
  BY <1>5, RunsJump DEF AtRom
<1>7. RomState(n, own)
  <2>1. Kept(n, own, regs, dscratch)
    BY <1>4, SMT DEF AtRom, RomState, Kept, S0Saved, A0Saved, Reached
  <2>2. Working(n, regs, Flag)
    BY <1>4, SMT DEF AtRom, RomState, Working
  <2>3. ToldAt(n, reports, Flag)
    <3>1. Working(k, regs, Flag) /\ ToldAt(k, reports, Flag)
      BY DEF AtRom, RomState
    <3>2. CASE k # 13
      <4>1. /\ n \in {4, 5} => k \in {1, 4}
            /\ n = 7 => k = 19
            /\ n = 19 => k = 18
            /\ n \in {0, 2, 26} => k \in {25, 0, 2}
            /\ n \in {0, 2, 4, 5, 7, 19, 26}
        BY <1>4, <3>2, SMT
      <4> QED BY <4>1, <3>1, SMT DEF ToldAt
    <3>3. CASE k = 13
      BY <1>4, <3>1, <3>3, SMT DEF ToldAt, Working
    <3> QED BY <3>2, <3>3
  <2> QED BY <2>1, <2>2, <2>3 DEF RomState
<1>8. Flag' = Flag /\ RomState(n, own)'
  <2>1. Flag' = Flag
    BY <1>6 DEF Flag, FlagOf
  <2>2. Kept(n, own, regs, dscratch)' = Kept(n, own, regs, dscratch)
    BY <1>6 DEF Kept
  <2>3. Working(n, regs, Flag)' = Working(n, regs, Flag)
    BY <1>6, <2>1 DEF Working
  <2>4. ToldAt(n, reports, Flag)' = ToldAt(n, reports, Flag)
    BY <1>6, <2>1 DEF ToldAt
  <2> QED BY <1>7, <2>1, <2>2, <2>3, <2>4 DEF RomState
<1> QED BY <1>5, <1>6, <1>8, Zenon DEF AtRom, HartTypes, Moved, DataAddresses, FlagOf
LEMMA RomSave ==
  ASSUME NEW k \in {5, 6}, NEW own, AtRom(k, own)
  PROVE  Moved(k, own)
<1>1. Fetched = Insn("csrw", 0, IF k = 5 THEN 8 ELSE 10, 0, IF k = 5 THEN 1 ELSE 2)
  <2>1. k \in 0 .. 31 /\ pc = Address(k) /\ k # 0
    BY SMT DEF AtRom
  <2>2. Fetched = loadDebugProgram[k]
    BY <2>1, FetchedInRom, Zenon
  <2> QED BY <2>2, RomAt, SMT
<1>2. /\ dscratch' = [dscratch EXCEPT ![IF k = 5 THEN 1 ELSE 2] = regs[IF k = 5 THEN 8 ELSE 10]]
      /\ regs' = regs /\ mem' = mem /\ reports' = reports /\ halted' = halted /\ wiring' = wiring
      /\ ctrl' = "FLUSH_EX" /\ pc' = Address(k)
  <2>1. Execute(Fetched) /\ wiring' = wiring /\ pc = Address(k)
    BY DEF AtRom
  <2>2. /\ Fetched.rd = 0 /\ Fetched.op = "csrw" /\ Fetched.imm \in {1, 2}
        /\ Fetched.imm = (IF k = 5 THEN 1 ELSE 2) /\ Fetched.rs1 = (IF k = 5 THEN 8 ELSE 10)
    BY <1>1, SMT DEF Insn
  <2>3. /\ dscratch' = [dscratch EXCEPT ![Fetched.imm] = regs[Fetched.rs1]]
        /\ regs' = regs /\ mem' = mem /\ reports' = reports /\ halted' = halted
        /\ ctrl' = "FLUSH_EX" /\ pc' = pc
    BY <2>1, <2>2, RunsSave, SMT
  <2> QED BY <2>1, <2>2, <2>3, SMT
<1>3. Flag' = Flag
  BY <1>2 DEF Flag, FlagOf
<1>4. /\ regs \in [0 .. 31 -> Int] /\ dscratch \in [{1, 2} -> Int] /\ RomState(k, own)
  BY Zenon DEF AtRom, HartTypes, Reg, dscratch0, dscratch1
<1>5. RomState(k + 1, own)'
  <2>1. Kept(k + 1, own, regs', dscratch')
    BY <1>2, <1>4, SMT DEF RomState, Kept, S0Saved, A0Saved, Reached, dscratch0, dscratch1, Reg
  <2>2. Working(k + 1, regs, Flag)' /\ ToldAt(k + 1, reports, Flag)'
    <3>1. Working(k + 1, regs, Flag) /\ ToldAt(k + 1, reports, Flag)
      <4>1. Working(k, regs, Flag) /\ ToldAt(k, reports, Flag)
        BY <1>4 DEF RomState
      <4>2. CASE k = 5
        BY <4>1, <4>2, SMT DEF Working, ToldAt
      <4>3. CASE k = 6
        BY <4>1, <4>3, SMT DEF Working, ToldAt
      <4> QED BY <4>2, <4>3
    <3>2. Working(k + 1, regs, Flag)'
      BY <1>2, <1>3, <3>1 DEF Working
    <3>3. ToldAt(k + 1, reports, Flag)'
      BY <1>2, <1>3, <3>1 DEF ToldAt
    <3> QED BY <3>2, <3>3
  <2>3. Kept(k + 1, own, regs, dscratch)'
    BY <2>1 DEF Kept
  <2> QED BY <2>2, <2>3 DEF RomState
<1>6. dscratch' \in [{1, 2} -> Int]
  BY <1>2, <1>4, SMT
<1>7. mem' \in [DataAddresses -> Int] /\ regs' \in [Reg -> Int]
  BY <1>2, Zenon DEF AtRom, HartTypes
<1>8. k \in CsrAccess /\ k + 1 \in Reached
  BY SMT DEF CsrAccess, Reached
<1> QED BY <1>2, <1>3, <1>5, <1>6, <1>7, <1>8, Zenon DEF Moved, dscratch0, dscratch1

Writes == {7, 8, 10, 11, 12, 14, 15, 16, 17, 22, 24, 26, 27, 29, 30}
Destination(k) == IF k \in {8, 24, 27, 30} THEN 10 ELSE 8

LEMMA RomResult ==
  ASSUME NEW k \in Writes, NEW own, AtRom(k, own)
  PROVE  /\ Fetched.rd = Destination(k) /\ Fetched.op \in {"andi", "add", "lui", "lbu", "csrr"}
         /\ (Fetched.op = "csrr" /\ Fetched.imm \in {1, 2}) <=> k \in CsrAccess
         /\ k \in {7, 14, 26} => Result(Fetched) = wiring.hartId
         /\ k \in {8, 27} => Result(Fetched) = DebugBase
         /\ k \in {10, 15} => Result(Fetched) = wiring.hartId + DebugBase
         /\ k \in {11, 16} => Result(Fetched) = Flag
         /\ k = 12 => Result(Fetched) = regs[8]
         /\ k = 17 => Result(Fetched) = 0
         /\ k \in {22, 29} => Result(Fetched) = dscratch[1]
         /\ k \in {24, 30} => Result(Fetched) = dscratch[2]
<1>1. Fetched = loadDebugProgram[k]
  <2>1. k \in 0 .. 31 /\ pc = Address(k) /\ k # 0
    BY SMT DEF AtRom, Writes
  <2> QED BY <2>1, FetchedInRom, Zenon
<1>2. Working(k, regs, Flag) /\ HartTypes /\ Flag \in {0, 1}
  BY DEF AtRom, RomState, FLAGgo
<1>3. wiring.hartId \in Nat /\ DebugBase \in Nat /\ wiring.hartId + DebugBase + 1024 = FlagOf(wiring.hartId)
  <2>1. wiring.hartId \in Nat
    BY <1>2, VerilatorAssumption DEF HartTypes
  <2> QED BY <2>1, DataWords, ZenonT(60)
<1>4. CASE k \in {7, 14, 26}
  <2>1. Fetched = Insn("csrr", 8, 0, 0, 0)
    BY <1>1, <1>4, RomAt, SMT
  <2> QED BY <1>4, <2>1, SMT DEF Insn, Result, CsrRead, mhartid, Destination, CsrAccess
<1>5. CASE k \in {8, 27}
  <2>1. Fetched = Insn("lui", 10, 0, 0, DebugBase)
    BY <1>1, <1>5, RomAt, SMT
  <2> QED BY <1>5, <2>1, SMT DEF Insn, Result, Destination, CsrAccess
<1>6. CASE k \in {10, 15}
  <2>1. Fetched = Insn("add", 8, 8, 10, 0)
    BY <1>1, <1>6, RomAt, SMT
  <2>2. regs[8] = wiring.hartId /\ regs[10] = DebugBase
    BY <1>2, <1>6, SMT DEF Working
  <2> QED BY <1>6, <2>1, <2>2, SMT DEF Insn, Result, Destination, CsrAccess
<1>7. CASE k \in {11, 16}
  <2>1. Fetched = Insn("lbu", 8, 8, 0, 1024)
    BY <1>1, <1>7, RomAt, SMT
  <2>2. regs[8] = wiring.hartId + DebugBase
    BY <1>2, <1>7, SMT DEF Working
  <2>3. regs[8] + 1024 = FlagOf(wiring.hartId)
    BY <1>3, <2>2, SMT
  <2>4. Result(Fetched) = mem[regs[8] + 1024]
    BY <2>1, SMT DEF Insn, Result
  <2>5. Result(Fetched) = Flag
    BY <2>3, <2>4, SMT DEF Flag
  <2> QED BY <1>7, <2>1, <2>5, SMT DEF Insn, Destination, CsrAccess
<1>8. CASE k = 12
  <2>1. Fetched = Insn("andi", 8, 8, 0, 1) /\ regs[8] \in {0, 1}
    BY <1>1, <1>2, <1>8, RomAt, SMT DEF Working
  <2> QED BY <1>8, <2>1, SMT DEF Insn, Result, Destination, CsrAccess
<1>9. CASE k = 17
  <2>1. Fetched = Insn("andi", 8, 8, 0, 2) /\ regs[8] \in {0, 1}
    BY <1>1, <1>2, <1>9, RomAt, SMT DEF Working
  <2> QED BY <1>9, <2>1, SMT DEF Insn, Result, Destination, CsrAccess
<1>10. CASE k \in {22, 29}
  <2>1. Fetched = Insn("csrr", 8, 0, 0, 1)
    BY <1>1, <1>10, RomAt, SMT
  <2> QED BY <1>10, <2>1, SMT DEF Insn, Result, CsrRead, mhartid, Destination, CsrAccess
<1>11. CASE k \in {24, 30}
  <2>1. Fetched = Insn("csrr", 10, 0, 0, 2)
    BY <1>1, <1>11, RomAt, SMT
  <2> QED BY <1>11, <2>1, SMT DEF Insn, Result, CsrRead, mhartid, Destination, CsrAccess
<1> QED BY <1>4, <1>5, <1>6, <1>7, <1>8, <1>9, <1>10, <1>11, Zenon DEF Writes

LEMMA RomWrite ==
  ASSUME NEW k \in Writes, NEW own, AtRom(k, own)
  PROVE  Moved(k, own)
<1> DEFINE v == Result(Fetched)
<1>1. /\ regs \in [0 .. 31 -> Int] /\ dscratch \in [{1, 2} -> Int] /\ mem \in [DataAddresses -> Int]
      /\ RomState(k, own) /\ HartTypes /\ Execute(Fetched) /\ wiring' = wiring /\ pc = Address(k)
      /\ Flag \in {0, 1}
  BY Zenon DEF AtRom, HartTypes, Reg, dscratch0, dscratch1, FLAGgo
<1>2. /\ k \in {7, 14, 26} => v = wiring.hartId
      /\ k \in {8, 27} => v = DebugBase
      /\ k \in {10, 15} => v = wiring.hartId + DebugBase
      /\ k \in {11, 16} => v = Flag
      /\ k = 12 => v = regs[8]
      /\ k = 17 => v = 0
      /\ k \in {22, 29} => v = dscratch[1]
      /\ k \in {24, 30} => v = dscratch[2]
  BY RomResult, Zenon
<1>3. /\ regs' = [regs EXCEPT ![Destination(k)] = v]
      /\ dscratch' = dscratch /\ mem' = mem /\ reports' = reports /\ halted' = halted
      /\ IF k \in CsrAccess THEN ctrl' = "FLUSH_EX" /\ pc' = pc ELSE ctrl' = "DECODE" /\ pc' = pc + 4
  <2>1. /\ Fetched.rd = Destination(k) /\ Fetched.op \in {"andi", "add", "lui", "lbu", "csrr"}
        /\ (Fetched.op = "csrr" /\ Fetched.imm \in {1, 2}) <=> k \in CsrAccess
    BY RomResult, Zenon
  <2>2. Fetched.rd # 0
    BY <2>1, SMT DEF Destination
  <2>3. Fetched.op \in {"addi", "andi", "add", "lui", "lbu", "csrr"}
    BY <2>1, Zenon
  <2> QED BY <1>1, <2>1, <2>2, <2>3, RunsWrite, Zenon
<1> HIDE DEF v
<1>4. Flag' = Flag
  BY <1>1, <1>3 DEF Flag, FlagOf
<1>5. v \in Int
  <2>1. wiring.hartId \in Nat /\ DebugBase \in Nat
    <3>1. wiring.hartId \in Nat
      BY <1>1, VerilatorAssumption DEF HartTypes
    <3> QED BY <3>1, DataWords, ZenonT(60)
  <2> QED BY <1>1, <1>2, <2>1, SMT DEF Writes
<1>6. RomState(k + 1, own)'
  <2>1. Kept(k + 1, own, regs', dscratch')
    BY <1>1, <1>2, <1>3, SMT DEF RomState, Kept, S0Saved, A0Saved, Reached, dscratch0, dscratch1, Reg, Writes, Destination
  <2>2. Working(k + 1, regs', Flag)
    BY <1>1, <1>2, <1>3, SMT DEF RomState, Working, Writes, Destination, FLAGgo
  <2>3. ToldAt(k + 1, reports, Flag)
    <3>1. ToldAt(k, reports, Flag)
      BY <1>1 DEF RomState
    <3>2. CASE k \in {7, 8}
      BY <3>1, <3>2, SMT DEF ToldAt
    <3>3. CASE k \in {10, 11, 12, 14, 15, 16, 17}
      <4>1. k + 1 \in {11, 12, 13, 15, 16, 17, 18} /\ reports = <<HALTED>>
        BY <3>1, <3>3, SMT DEF ToldAt
      <4> QED BY <4>1, SMT DEF ToldAt
    <3>4. CASE k \in {22, 24, 26, 27}
      BY <3>1, <3>4, SMT DEF ToldAt
    <3>5. CASE k \in {29, 30}
      BY <3>1, <3>5, SMT DEF ToldAt
    <3> QED BY <3>2, <3>3, <3>4, <3>5, SMT DEF Writes
  <2>4. Kept(k + 1, own, regs, dscratch)' /\ Working(k + 1, regs, Flag)' /\ ToldAt(k + 1, reports, Flag)'
    <3>1. Kept(k + 1, own, regs, dscratch)'
      BY <2>1 DEF Kept
    <3>2. Working(k + 1, regs, Flag)'
      BY <1>1, <1>4, <2>2 DEF Working
    <3>3. ToldAt(k + 1, reports, Flag)'
      BY <1>3, <1>4, <2>3 DEF ToldAt
    <3> QED BY <3>1, <3>2, <3>3
  <2> QED BY <2>4 DEF RomState
<1>7. regs' \in [Reg -> Int]
  <2>1. \A f \in [Reg -> Int], r \in Reg, x \in Int : [f EXCEPT ![r] = x] \in [Reg -> Int]
    BY SMT
  <2>2. Destination(k) \in Reg /\ regs \in [Reg -> Int]
    BY <1>1, SMT DEF Destination, Reg
  <2> QED BY <1>3, <1>5, <2>1, <2>2, Zenon
<1>8. dscratch' \in [{dscratch0, dscratch1} -> Int] /\ mem' \in [DataAddresses -> Int]
  BY <1>1, <1>3, Zenon DEF DataAddresses, dscratch0, dscratch1, FlagOf
<1>9. k + 1 \in Reached /\ (k \notin CsrAccess => Address(k) + 4 = Address(k + 1))
  BY Addresses, SMT DEF Writes, Reached, CsrAccess
<1>10. \/ ctrl' = "DECODE" /\ pc' = Address(k + 1)
       \/ ctrl' = "FLUSH_EX" /\ k \in CsrAccess /\ pc' = Address(k)
  BY <1>1, <1>3, <1>9, Zenon
<1> QED BY <1>3, <1>4, <1>6, <1>7, <1>8, <1>9, <1>10, Zenon DEF Moved

LEMMA RomStore ==
  ASSUME NEW k \in {9, 23, 28}, NEW own, AtRom(k, own)
  PROVE  Moved(k, own)
<1> DEFINE word == IF k = 9 THEN HALTED ELSE IF k = 23 THEN GOING ELSE RESUMING
<1>1. /\ regs \in [0 .. 31 -> Int] /\ mem \in [DataAddresses -> Int]
      /\ RomState(k, own) /\ HartTypes /\ Execute(Fetched) /\ wiring' = wiring /\ pc = Address(k)
  BY Zenon DEF AtRom, HartTypes, Reg
<1>2. wiring.hartId \in Nat
  BY <1>1, VerilatorAssumption DEF HartTypes
<1>3. /\ DebugBase + 256 = HALTED /\ DebugBase + 260 = GOING /\ DebugBase + 264 = RESUMING
      /\ HALTED # GOING /\ GOING # RESUMING /\ HALTED # RESUMING
      /\ FlagOf(wiring.hartId) \notin {HALTED, GOING, RESUMING, EXCEPTION}
      /\ FlagOf(wiring.hartId) \in DataAddresses
  BY <1>2, DataWords, ZenonT(60)
<1>4. regs[10] = DebugBase
  BY <1>1, SMT DEF RomState, Working
<1>5. /\ Fetched.op = "sw" /\ Fetched.rd = 0 /\ Fetched.rs1 = 10 /\ Fetched.rs2 \in {0, 8}
      /\ Fetched.imm = (IF k = 9 THEN 256 ELSE IF k = 23 THEN 260 ELSE 264)
  <2>1. k \in 0 .. 31 /\ pc = Address(k) /\ k # 0
    BY SMT DEF AtRom
  <2>2. Fetched = loadDebugProgram[k]
    BY <2>1, FetchedInRom, Zenon
  <2> QED BY <2>2, RomAt, SMT DEF Insn
<1>6. regs[Fetched.rs1] + Fetched.imm = word
  <2>1. regs[Fetched.rs1] = DebugBase
    BY <1>4, <1>5, Zenon
  <2> QED BY <1>3, <1>5, <2>1, SMT
<1>7. word \in {HALTED, GOING, RESUMING, EXCEPTION} /\ word # FlagOf(wiring.hartId)
  BY <1>3, Zenon
<1> HIDE DEF word
<1>8. /\ mem' = [mem EXCEPT ![word] = regs[Fetched.rs2]]
      /\ reports' = Told(Fetched)
      /\ regs' = regs /\ dscratch' = dscratch /\ halted' = halted
      /\ ctrl' = "DECODE" /\ pc' = Address(k) + 4
  <2>1. /\ mem' = [mem EXCEPT ![regs[Fetched.rs1] + Fetched.imm] = regs[Fetched.rs2]]
        /\ reports' = Told(Fetched)
        /\ regs' = regs /\ dscratch' = dscratch /\ halted' = halted
        /\ ctrl' = "DECODE" /\ pc' = pc + 4
    BY <1>1, <1>5, RunsStore, SMT
  <2> QED BY <1>1, <1>6, <2>1, Zenon
<1>9. Flag' = Flag
  <2>1. mem'[FlagOf(wiring.hartId)] = mem[FlagOf(wiring.hartId)]
    BY <1>1, <1>3, <1>7, <1>8, SMT
  <2> QED BY <1>1, <2>1, Zenon DEF Flag, FlagOf
<1>10. reports' = IF reports = <<>> \/ reports[Len(reports)] # word THEN Append(reports, word) ELSE reports
  BY <1>5, <1>6, <1>8, <1>7, Zenon DEF Told
<1>11. ToldAt(k, reports, Flag)
  BY <1>1 DEF RomState
<1>12. ToldAt(k + 1, reports', Flag)
  <2>0. /\ \A x : Append(<<>>, x) = <<x>> /\ <<x>>[Len(<<x>>)] = x /\ <<x>> # <<>>
        /\ \A x, y : Append(<<x>>, y) = <<x, y>> /\ <<x, y>>[Len(<<x, y>>)] = y /\ <<x, y>> # <<>>
        /\ \A x, y, z : Append(<<x, y>>, z) = <<x, y, z>>
    <3>1. \A x : Append(<<>>, x) = <<x>> /\ <<x>>[Len(<<x>>)] = x /\ <<x>> # <<>>
      BY SMT
    <3>2. \A x, y : Append(<<x>>, y) = <<x, y>>
      <4> SUFFICES ASSUME NEW x, NEW y PROVE Append(<<x>>, y) = <<x, y>>
        OBVIOUS
      <4>1. <<x, y>> \in Seq({x, y}) /\ Append(<<x>>, y) \in Seq({x, y})
        BY SMT
      <4>2. Len(Append(<<x>>, y)) = 2 /\ Len(<<x, y>>) = 2
        BY SMT
      <4>3. \A i \in 1 .. 2 : Append(<<x>>, y)[i] = <<x, y>>[i]
        BY SMT
      <4> QED BY <4>1, <4>2, <4>3, SeqEqual, Zenon
    <3>3. \A x, y : <<x, y>>[Len(<<x, y>>)] = y /\ <<x, y>> # <<>>
      BY SMT
    <3>4. \A x, y, z : Append(<<x, y>>, z) = <<x, y, z>>
      <4> SUFFICES ASSUME NEW x, NEW y, NEW z PROVE Append(<<x, y>>, z) = <<x, y, z>>
        OBVIOUS
      <4>1. <<x, y, z>> \in Seq({x, y, z}) /\ Append(<<x, y>>, z) \in Seq({x, y, z})
        BY SMT
      <4>2. Len(Append(<<x, y>>, z)) = 3 /\ Len(<<x, y, z>>) = 3
        BY SMT
      <4>3. \A i \in 1 .. 3 : Append(<<x, y>>, z)[i] = <<x, y, z>>[i]
        BY SMT
      <4> QED BY <4>1, <4>2, <4>3, SeqEqual, Zenon
    <3> QED BY <3>1, <3>2, <3>3, <3>4
  <2>1. CASE k = 9
    <3>1. word = HALTED /\ reports \in {<<>>, <<HALTED>>}
      BY <1>11, <2>1, SMT DEF word, ToldAt
    <3>2. reports' = <<HALTED>>
      BY <1>10, <2>0, <3>1, Zenon
    <3> QED BY <2>1, <3>2, SMT DEF ToldAt
  <2>2. CASE k = 23
    <3>1. word = GOING /\ reports = <<HALTED>> /\ Flag = FLAGgo
      BY <1>11, <2>2, SMT DEF word, ToldAt
    <3>2. reports' = <<HALTED, GOING>>
      <4>1. reports[Len(reports)] # word
        BY <1>3, <2>0, <3>1, Zenon
      <4>2. reports' = Append(reports, word)
        BY <1>10, <4>1, Zenon
      <4> QED BY <2>0, <3>1, <4>2, Zenon
    <3> QED BY <2>2, <3>1, <3>2, SMT DEF ToldAt
  <2>3. CASE k = 28
    <3>1. word = RESUMING /\ reports = <<HALTED, GOING>> /\ Flag = FLAGgo
      BY <1>11, <2>3, SMT DEF word, ToldAt
    <3>2. reports' = <<HALTED, GOING, RESUMING>>
      <4>1. reports[Len(reports)] # word
        BY <1>3, <2>0, <3>1, Zenon
      <4>2. reports' = Append(reports, word)
        BY <1>10, <4>1, Zenon
      <4> QED BY <2>0, <3>1, <4>2, Zenon
    <3> QED BY <2>3, <3>1, <3>2, SMT DEF ToldAt, all
  <2> QED BY <2>1, <2>2, <2>3
<1>13. RomState(k + 1, own)'
  <2>1. Kept(k + 1, own, regs, dscratch) /\ Working(k + 1, regs, Flag)
    BY <1>1, SMT DEF RomState, Kept, Working, S0Saved, A0Saved, Reached
  <2>2. Kept(k + 1, own, regs, dscratch)'
    BY <1>8, <2>1 DEF Kept
  <2>3. Working(k + 1, regs, Flag)'
    BY <1>1, <1>8, <1>9, <2>1 DEF Working
  <2>4. ToldAt(k + 1, reports, Flag)'
    BY <1>9, <1>12 DEF ToldAt
  <2> QED BY <2>2, <2>3, <2>4 DEF RomState
<1>14. mem' \in [DataAddresses -> Int]
  <2>1. regs[Fetched.rs2] \in Int
    BY <1>1, <1>5, SMT
  <2> QED BY <1>1, <1>8, <2>1, Zenon
<1>15. DataAddresses' = DataAddresses
  BY <1>1 DEF DataAddresses, FlagOf
<1>16. k + 1 \in Reached /\ Address(k) + 4 = Address(k + 1)
  BY Addresses, SMT DEF Reached
<1>17. regs' \in [Reg -> Int] /\ dscratch' \in [{dscratch0, dscratch1} -> Int]
  BY <1>8, Zenon DEF AtRom, HartTypes
<1> QED BY <1>8, <1>9, <1>13, <1>14, <1>16, <1>17, Zenon DEF Moved

\* dret waits at its address for the pipeline to drain.
LEMMA RomReturn ==
  ASSUME NEW own, AtRom(31, own)
  PROVE  /\ regs' = regs /\ dscratch' = dscratch /\ mem' = mem /\ reports' = reports /\ halted' = halted
         /\ Flag' = Flag /\ ctrl' = "FLUSH_EX" /\ pc' = pc
<1>1. Fetched = Insn("dret", 0, 0, 0, 0)
  <2>1. 31 \in 0 .. 31 /\ pc = Address(31) /\ 31 # 0
    BY SMT DEF AtRom
  <2>2. Fetched = loadDebugProgram[31]
    BY <2>1, FetchedInRom, Zenon
  <2> QED BY <2>2, RomAt, SMT
<1>2. Fetched.rd = 0 /\ Fetched.op = "dret" /\ Execute(Fetched) /\ wiring' = wiring
  BY <1>1, SMT DEF Insn, AtRom
<1>3. /\ regs' = regs /\ dscratch' = dscratch /\ mem' = mem /\ reports' = reports /\ halted' = halted
      /\ ctrl' = "FLUSH_EX" /\ pc' = pc
  BY <1>2, RunsTrap, SMT
<1> QED BY <1>2, <1>3 DEF Flag, FlagOf

-----------------------------------------------------------------------------
(* The program's registers from one instruction to the next.               *)

LastValue(p, r) ==
  IF r = 0 \/ LastWrite(p, r) = {} THEN 0
  ELSE loadProgram[CHOOSE i \in LastWrite(p, r) : \A j \in LastWrite(p, r) : j <= i].imm

LEMMA RegsAtIs ==
  ASSUME NEW p \in 1 .. 160
  PROVE  /\ RegsAt[p] = [r \in Reg |-> LastValue(p, r)]
         /\ \A r \in Reg : RegsAt[p][r] = LastValue(p, r)
<1>1. Len(loadProgram) = 160
  BY ProgramIsPlain
<1>2. RegsAt = [q \in 1 .. 160 |-> [r \in Reg |-> LastValue(q, r)]]
  BY <1>1, Zenon DEF RegsAt, LastValue
<1> QED BY <1>2, Zenon

LEMMA RegsAtType == ASSUME NEW p \in 1 .. 160 PROVE RegsAt[p] = [r \in Reg |-> RegsAt[p][r]]
<1>1. \A f : f = [r \in Reg |-> LastValue(p, r)] => f = [r \in Reg |-> f[r]]
  BY Zenon
<1> QED BY <1>1, RegsAtIs, Zenon

LEMMA RegsAtStart == RegsAt[1] = [r \in Reg |-> 0]
<1>1. \A r \in Reg : LastWrite(1, r) = {}
  BY SMT DEF LastWrite
<1>2. 1 \in 1 .. 160
  BY SMT
<1>3. \A r \in Reg : RegsAt[1][r] = 0
  BY <1>1, <1>2, RegsAtIs, Zenon DEF LastValue
<1> QED BY <1>2, <1>3, RegsAtType, Zenon

LEMMA RegsAtKept ==
  ASSUME NEW p \in 1 .. 159, NEW r \in Reg, loadProgram[p].op # "addi" \/ loadProgram[p].rd # r
  PROVE  RegsAt[p + 1][r] = RegsAt[p][r]
<1>1. PICK q : q = p + 1
  OBVIOUS
<1>2. LastWrite(q, r) = LastWrite(p, r)
  BY <1>1, SMT DEF LastWrite
<1>3. p \in 1 .. 160 /\ q \in 1 .. 160
  BY <1>1, SMT
<1>4. LastValue(q, r) = LastValue(p, r)
  BY <1>2 DEF LastValue
<1>5. RegsAt[q][r] = LastValue(q, r) /\ RegsAt[p][r] = LastValue(p, r)
  BY <1>3, RegsAtIs, Zenon
<1> QED BY <1>1, <1>4, <1>5, Zenon

LEMMA RegsAtWritten ==
  ASSUME NEW p \in 1 .. 159, NEW r \in Reg, r # 0, loadProgram[p].op = "addi", loadProgram[p].rd = r
  PROVE  RegsAt[p + 1][r] = loadProgram[p].imm
<1> DEFINE W == LastWrite(p + 1, r)
<1>1. p \in W /\ \A j \in W : j <= p /\ j \in Int
  BY SMT DEF LastWrite
<1>2. \A i \in W : (\A j \in W : j <= i) => i = p
  <2>1. \A i \in Int : p <= i /\ i <= p => i = p
    BY SMT
  <2> QED BY <1>1, <2>1, Zenon
<1> HIDE DEF W
<1>3. (CHOOSE i \in W : \A j \in W : j <= i) = p
  BY <1>1, <1>2, Zenon
<1>4. p + 1 \in 1 .. 160 /\ W # {}
  BY <1>1, SMT
<1>5. LastValue(p + 1, r) = loadProgram[p].imm
  BY <1>3, <1>4, Zenon DEF W, LastValue
<1> QED BY <1>4, <1>5, RegsAtIs, Zenon

LEMMA RegsAtNext ==
  ASSUME NEW p \in 1 .. 159
  PROVE  RegsAt[p + 1] =
           IF loadProgram[p].op = "addi" /\ loadProgram[p].rd \in 1 .. 31
           THEN [RegsAt[p] EXCEPT ![loadProgram[p].rd] = loadProgram[p].imm]
           ELSE IF loadProgram[p].op = "addi" THEN RegsAt[p + 1] ELSE RegsAt[p]
<1> DEFINE i == loadProgram[p]
<1>1. p \in 1 .. 160 /\ p + 1 \in 1 .. 160
  BY SMT
<1>2. RegsAt[p] = [r \in Reg |-> RegsAt[p][r]] /\ RegsAt[p + 1] = [r \in Reg |-> RegsAt[p + 1][r]]
  BY <1>1, RegsAtType, Zenon
<1>3. CASE i.op = "addi" /\ i.rd \in 1 .. 31
  <2>1. i.rd \in Reg /\ i.rd # 0
    BY <1>3, SMT DEF Reg
  <2>2. \A r \in Reg : RegsAt[p + 1][r] = IF r = i.rd THEN i.imm ELSE RegsAt[p][r]
    BY <1>3, <2>1, RegsAtKept, RegsAtWritten, Zenon
  <2>3. [RegsAt[p] EXCEPT ![i.rd] = i.imm] = [r \in Reg |-> IF r = i.rd THEN i.imm ELSE RegsAt[p][r]]
    BY <1>2, <2>1, Zenon
  <2> QED BY <1>2, <1>3, <2>2, <2>3, Zenon
<1>4. CASE i.op # "addi"
  <2>1. \A r \in Reg : RegsAt[p + 1][r] = RegsAt[p][r]
    BY <1>4, RegsAtKept, Zenon
  <2> QED BY <1>2, <1>4, <2>1, Zenon
<1> QED BY <1>3, <1>4, Zenon

-----------------------------------------------------------------------------
(* The phases.                                                             *)

LEMMA HartIdIsNat == ASSUME HartTypes PROVE wiring.hartId \in Nat /\ wiring.haltAddress \in Nat
  BY VerilatorAssumption DEF HartTypes

LEMMA FetchedStays ==
  ASSUME Elsewhere, pc' = pc PROVE Fetched' = Fetched
<1>1. pc # wheretoADDRESS
  BY SMT DEF Elsewhere, Address
<1> QED BY <1>1, Zenon DEF Fetched

LEMMA NotFromProgram ==
  /\ Illegal.op = "illegal" /\ Illegal.rd = 0
  /\ \A i \in Plain :
       \/ i.op = "addi" /\ i.rd \in 1 .. 31 /\ i.rs1 = 0 /\ i.imm \in Int /\ i.imm <= 102
       \/ i.op = "sw" /\ i.rd = 0 /\ i.rs1 = 15 /\ i.rs2 = 14 /\ i.imm = 0
       \/ i.op = "ecall" /\ i.rd = 0
  BY SMT DEF Illegal, Insn, Plain, Li, Sw

\* The two places to which a store of the program never goes.
LEMMA ProgramStore ==
  ASSUME HartTypes, SmallRegs, wiring' = wiring,
         NEW i, Execute(i), i.op = "sw", i.rd = 0, i.rs1 = 15, i.rs2 = 14, i.imm = 0
  PROVE  /\ mem' \in [DataAddresses -> Int] /\ Flag' = Flag /\ reports' = reports
         /\ regs' = regs /\ dscratch' = dscratch /\ halted' = halted
         /\ ctrl' = "DECODE" /\ pc' = pc + 4
<1>1. /\ regs \in [0 .. 31 -> Int] /\ regs[15] <= 102 /\ mem \in [DataAddresses -> Int]
  BY SMT DEF HartTypes, SmallRegs, Reg
<1>2. /\ mem' = [mem EXCEPT ![regs[15] + 0] = regs[14]]
      /\ reports' = Told(i)
      /\ regs' = regs /\ dscratch' = dscratch /\ halted' = halted
      /\ ctrl' = "DECODE" /\ pc' = pc + 4
  BY RunsStore, SMT
<1>3. regs[15] + 0 = regs[15] /\ regs[14] \in Int /\ regs[15] \in Int
  BY <1>1, SMT
<1>4. /\ FlagOf(wiring.hartId) > 1000 /\ FlagOf(wiring.hartId) \in Int /\ FlagOf(wiring.hartId) \in DataAddresses
      /\ \A a \in {HALTED, GOING, RESUMING, EXCEPTION} : a > 1000
  BY HartIdIsNat, DataWords, ZenonT(60)
<1>5. regs[15] # FlagOf(wiring.hartId)
  BY <1>1, <1>3, <1>4, SMT
<1>6. regs[15] \notin {HALTED, GOING, RESUMING, EXCEPTION}
  BY <1>1, <1>3, <1>4, SMT
<1>7. mem' = [mem EXCEPT ![regs[15]] = regs[14]]
  BY <1>2, <1>3, Zenon
<1>8. mem' \in [DataAddresses -> Int]
  BY <1>1, <1>3, <1>7, Zenon
<1>9. Flag' = Flag
  <2>1. mem'[FlagOf(wiring.hartId)] = mem[FlagOf(wiring.hartId)]
    BY <1>1, <1>4, <1>5, <1>7, SMT
  <2> QED BY <2>1, Zenon DEF Flag, FlagOf
<1>10. reports' = reports
  BY <1>2, <1>3, <1>6, Zenon DEF Told
<1> QED BY <1>2, <1>8, <1>9, <1>10, Zenon

HartState ==
  /\ regs' \in [Reg -> Int] /\ dscratch' \in [{dscratch0, dscratch1} -> Int]
  /\ mem' \in [DataAddresses -> Int] /\ Flag' = Flag

LEMMA RunningStep ==
  ASSUME HartTypes, Running, ctrl = "DECODE", wiring' = wiring, jump' = jump,
         Execute(Fetched), debug_mode' = debug_mode, depc' = depc
  PROVE  Running' /\ HartState /\ halted' = halted
<1>1. /\ Elsewhere /\ SmallRegs
      /\ regs \in [Reg -> Int] /\ dscratch \in [{dscratch0, dscratch1} -> Int]
      /\ mem \in [DataAddresses -> Int]
      /\ ~debug_mode => ProgramRegs
  BY DEF Running, HartTypes
<1>2. CASE Holds(loadProgram, STARTprogrammADDR, pc)
  <2> DEFINE p == AtIndex(STARTprogrammADDR, pc)
  <2>1. p \in 1 .. 160 /\ Fetched = loadProgram[p] /\ Fetched \in Plain
    BY <1>1, <1>2, FetchedElsewhere, Zenon
  <2>2. pc \in Nat /\ pc + 4 < 1000 /\ AtIndex(STARTprogrammADDR, pc + 4) = p + 1
    <3>1. pc \in Nat /\ pc >= 128
      BY <1>1, <1>2, SMT DEF Elsewhere, Holds, STARTprogrammADDR
    <3>2. p = 1 + (pc - 128) \div 4
      BY SMT DEF AtIndex, STARTprogrammADDR
    <3>3. 1 + (pc - 128) \div 4 <= 160
      BY <2>1, <3>2, SMT
    <3>4. AtIndex(STARTprogrammADDR, pc + 4) = 1 + (pc + 4 - 128) \div 4
      BY <3>1, SMT DEF AtIndex, STARTprogrammADDR
    <3> HIDE DEF p
    <3> QED BY <3>1, <3>2, <3>3, <3>4, SMT
  <2>3. pc + 4 \in Nat /\ \A k \in 0 .. 31 : pc + 4 # Address(k)
    BY <2>2, Addresses, SMT
  <2>4. Holds(loadProgram, STARTprogrammADDR, pc + 4) => p \in 1 .. 159
    <3>1. Len(loadProgram) = 160
      BY ProgramIsPlain
    <3> QED BY <2>1, <2>2, <3>1, SMT DEF Holds
  <2> HIDE DEF p
  <2>5. CASE Fetched.op \in {"addi", "sw"}
    <3>1. /\ ctrl' = "DECODE" /\ pc' = pc + 4 /\ reports' = reports /\ halted' = halted /\ HartState
          /\ regs' = IF Fetched.op = "addi" THEN [regs EXCEPT ![Fetched.rd] = Fetched.imm] ELSE regs
          /\ Fetched.op = "addi" => Fetched.rd \in 1 .. 31 /\ Fetched.imm \in Int /\ Fetched.imm <= 102
      <4>1. CASE Fetched.op = "addi"
        <5>1. /\ Fetched.rd \in 1 .. 31 /\ Fetched.rs1 = 0 /\ Fetched.imm \in Int /\ Fetched.imm <= 102
              /\ Fetched.rd # 0 /\ Fetched.rd \in Reg
          BY <2>1, <4>1, NotFromProgram, SMT DEF Reg
        <5>2. /\ regs' = [regs EXCEPT ![Fetched.rd] = Result(Fetched)]
              /\ dscratch' = dscratch /\ mem' = mem /\ reports' = reports /\ halted' = halted
              /\ ctrl' = "DECODE" /\ pc' = pc + 4
          BY <4>1, <5>1, RunsWrite, SMT
        <5>3. Result(Fetched) = Fetched.imm
          BY <1>1, <4>1, <5>1, SMT DEF Result, SmallRegs
        <5>4. HartState
          <6>1. \A f \in [Reg -> Int], r \in Reg, x \in Int : [f EXCEPT ![r] = x] \in [Reg -> Int]
            BY SMT
          <6>2. regs' \in [Reg -> Int]
            BY <1>1, <5>1, <5>2, <5>3, <6>1, Zenon
          <6>3. Flag' = Flag
            BY <5>2 DEF Flag, FlagOf
          <6> QED BY <1>1, <5>2, <6>2, <6>3, Zenon DEF HartState
        <5> QED BY <4>1, <5>1, <5>2, <5>3, <5>4, Zenon
      <4>2. CASE Fetched.op = "sw"
        <5>1. Fetched.rd = 0 /\ Fetched.rs1 = 15 /\ Fetched.rs2 = 14 /\ Fetched.imm = 0
          BY <2>1, <4>2, NotFromProgram, SMT
        <5>2. /\ mem' \in [DataAddresses -> Int] /\ Flag' = Flag /\ reports' = reports
              /\ regs' = regs /\ dscratch' = dscratch /\ halted' = halted
              /\ ctrl' = "DECODE" /\ pc' = pc + 4
          BY <1>1, <4>2, <5>1, ProgramStore, Zenon
        <5>3. HartState
          BY <1>1, <5>2, Zenon DEF HartState
        <5> QED BY <4>2, <5>2, <5>3, SMT
      <4> QED BY <2>5, <4>1, <4>2, Zenon
    <3>2. Elsewhere'
      BY <2>3, <3>1, Zenon DEF Elsewhere, Address
    <3>3. SmallRegs'
      BY <1>1, <3>1, SMT DEF SmallRegs, Reg
    <3>4. ~debug_mode => ProgramRegs'
      <4> SUFFICES ASSUME ~debug_mode, Holds(loadProgram, STARTprogrammADDR, pc')
                   PROVE  regs' = RegsAt[AtIndex(STARTprogrammADDR, pc')]
        BY Zenon DEF ProgramRegs
      <4>1. p \in 1 .. 159 /\ AtIndex(STARTprogrammADDR, pc') = p + 1
        BY <2>2, <2>4, <3>1, Zenon
      <4>2. regs = RegsAt[p]
        BY <1>1, <1>2, Zenon DEF ProgramRegs, p
      <4>3. RegsAt[p + 1] =
              IF Fetched.op = "addi" THEN [RegsAt[p] EXCEPT ![Fetched.rd] = Fetched.imm] ELSE RegsAt[p]
        BY <2>1, <3>1, <4>1, RegsAtNext, Zenon
      <4> QED BY <3>1, <4>1, <4>2, <4>3, Zenon
    <3> QED BY <3>1, <3>2, <3>3, <3>4, Zenon DEF Running, HartState
  <2>6. CASE Fetched.op = "ecall"
    <3>1. Fetched.rd = 0
      BY <2>1, <2>6, NotFromProgram, SMT
    <3>2. /\ regs' = regs /\ dscratch' = dscratch /\ mem' = mem /\ reports' = reports /\ halted' = halted
          /\ ctrl' = "FLUSH_EX" /\ pc' = pc
      BY <2>6, <3>1, RunsTrap, SMT
    <3>3. Fetched' = Fetched
      BY <1>1, <3>2, FetchedStays, Zenon
    <3>4. Flag' = Flag /\ HartState
      BY <1>1, <3>2 DEF Flag, FlagOf, HartState
    <3>5. Elsewhere' /\ SmallRegs' /\ (~debug_mode => ProgramRegs')
      BY <1>1, <3>2, Zenon DEF Elsewhere, Address, SmallRegs, ProgramRegs
    <3> QED BY <2>6, <3>2, <3>3, <3>4, <3>5, Zenon DEF Running
  <2> QED BY <2>1, <2>5, <2>6, NotFromProgram, Zenon
<1>3. CASE ~Holds(loadProgram, STARTprogrammADDR, pc)
  <2>1. Fetched = Illegal /\ Fetched.op = "illegal" /\ Fetched.rd = 0
    BY <1>1, <1>3, FetchedElsewhere, NotFromProgram, Zenon
  <2>2. /\ regs' = regs /\ dscratch' = dscratch /\ mem' = mem /\ reports' = reports /\ halted' = halted
        /\ ctrl' = "FLUSH_EX" /\ pc' = pc
    BY <2>1, RunsTrap, SMT
  <2>3. Fetched' = Fetched
    BY <1>1, <2>2, FetchedStays, Zenon
  <2>4. Flag' = Flag /\ HartState
    BY <1>1, <2>2 DEF Flag, FlagOf, HartState
  <2>5. Elsewhere' /\ SmallRegs' /\ (~debug_mode => ProgramRegs')
    BY <1>1, <2>2, Zenon DEF Elsewhere, Address, SmallRegs, ProgramRegs
  <2> QED BY <2>1, <2>2, <2>3, <2>4, <2>5, Zenon DEF Running
<1> QED BY <1>2, <1>3, Zenon

\* What the program runs in stays with it from a clock to the next.
LEMMA KeptState ==
  ASSUME HartTypes, wiring' = wiring, Keep
  PROVE  HartState /\ regs' = regs /\ dscratch' = dscratch /\ mem' = mem /\ reports' = reports
<1>1. regs' = regs /\ dscratch' = dscratch /\ mem' = mem /\ reports' = reports
  BY DEF Keep
<1>2. Flag' = Flag
  BY <1>1 DEF Flag, FlagOf
<1> QED BY <1>1, <1>2, Zenon DEF HartState, HartTypes

Phase == Booting \/ Running \/ Halting \/ InDebugRom

LEMMA BootStep ==
  ASSUME HartTypes, wiring' = wiring, Phase, Boot
  PROVE  Phase' /\ HartState /\ halted' = halted /\ debug_mode' = debug_mode
<1>1. /\ regs' = regs /\ reports' = reports /\ HartState
      /\ debug_mode' = debug_mode /\ depc' = depc /\ halted' = halted
  BY KeptState DEF Boot
<1>2. Booting
  <2>1. ctrl \in {"RESET", "BOOT_SET", "FIRST_FETCH"}
    BY SMT DEF Boot
  <2>2. ~Running /\ ~Halting
    BY <2>1, SMT DEF Running, Halting
  <2>3. ~InDebugRom
    <3>1. \A k \in Reached : ~IsNext(k)
      BY <2>1, SMT DEF IsNext
    <3> QED BY <3>1, Zenon DEF InDebugRom
  <2> QED BY <2>2, <2>3, Zenon DEF Phase
<1>3. CASE ctrl # "FIRST_FETCH"
  <2>1. ctrl' \in {"RESET", "BOOT_SET", "FIRST_FETCH"} /\ (ctrl' = "FIRST_FETCH" => pc' = STARTprogrammADDR)
    BY <1>3, SMT DEF Boot
  <2>2. Booting'
    BY <1>1, <1>2, <2>1, Zenon DEF Booting
  <2> QED BY <1>1, <2>2, Zenon DEF Phase
<1>4. CASE ctrl = "FIRST_FETCH"
  <2>1. ctrl' = "DECODE" /\ pc' = 128
    BY <1>2, <1>4, SMT DEF Boot, Booting, STARTprogrammADDR
  <2>2. Elsewhere'
    <3>1. 128 \in Nat /\ \A k \in 0 .. 31 : 128 # Address(k)
      BY Addresses, SMT
    <3> QED BY <2>1, <3>1, Zenon DEF Elsewhere, Address
  <2>3. regs' = [r \in Reg |-> 0]
    BY <1>1, <1>2, Zenon DEF Booting
  <2>4. SmallRegs'
    BY <2>3, SMT DEF SmallRegs, Reg
  <2>5. ProgramRegs'
    <3>1. AtIndex(STARTprogrammADDR, 128) = 1
      BY SMT DEF AtIndex, STARTprogrammADDR
    <3>2. AtIndex(STARTprogrammADDR, pc') = 1
      BY <2>1, <3>1, Zenon
    <3> QED BY <2>3, <3>2, RegsAtStart, Zenon DEF ProgramRegs
  <2>6. ~debug_mode' /\ halted' = -1 /\ reports' = <<>> /\ depc' = 0
    BY <1>1, <1>2, Zenon DEF Booting
  <2>7. Running'
    BY <2>1, <2>2, <2>4, <2>5, <2>6, SMT DEF Running
  <2> QED BY <1>1, <2>7, Zenon DEF Phase
<1> QED BY <1>3, <1>4

LEMMA SavedOfProgram ==
  ASSUME HartTypes, Halting
  PROVE  regs \in Own
  BY DEF HartTypes, Halting, SmallRegs, ProgramRegs, Own

LEMMA TakeStep ==
  ASSUME HaltsAtEntry, HartTypes, wiring' = wiring, Phase, Take
  PROVE  Phase' /\ HartState /\ halted' = halted /\ debug_mode' \in BOOLEAN
<1>1. /\ regs' = regs /\ dscratch' = dscratch /\ mem' = mem /\ reports' = reports /\ HartState
      /\ halted' = halted /\ debug_mode' = TRUE
      /\ ctrl' = "DECODE" /\ pc' = InRam(wiring.haltAddress) /\ depc' \in {pc, depc}
      /\ ctrl = "DBG_TAKEN_ID"
  BY KeptState, SMT DEF Take
<1>2. Halting
  BY <1>1, SMT DEF Phase, Booting, Running, InDebugRom, IsNext
<1>3. /\ halted = pc /\ Elsewhere /\ SmallRegs /\ reports = <<>> /\ depc = 0
  BY <1>2 DEF Halting
<1>4. CASE \E k \in 0 .. 31 : InRam(wiring.haltAddress) = Address(k)
  <2>1. InRam(wiring.haltAddress) = Address(1)
    BY <1>4 DEF HaltsAtEntry, HartTypes
  <2>2. regs \in Own /\ Own' = Own
    BY <1>1, <1>2, SavedOfProgram, Zenon DEF Own
  <2>3. Kept(1, regs, regs', dscratch')
    BY <1>1, SMT DEF Kept, S0Saved, A0Saved
  <2>4. Working(1, regs', Flag') /\ ToldAt(1, reports', Flag') /\ 1 \in Reached
    BY <1>1, <1>3, SMT DEF Working, ToldAt, Reached
  <2>5. IsNext(1)'
    BY <1>1, <2>1, Zenon DEF IsNext, Address
  <2>6. \E own \in Own' : Kept(1, own, regs, dscratch)'
    <3>1. PICK own : own = regs
      OBVIOUS
    <3>2. Kept(1, own, regs', dscratch')
      BY <2>3, <3>1, Zenon
    <3>3. Kept(1, own, regs, dscratch)'
      BY <3>2 DEF Kept
    <3> QED BY <2>2, <3>1, <3>3, Zenon
  <2>7. Working(1, regs, Flag)' /\ ToldAt(1, reports, Flag)'
    <3>1. Working(1, regs, Flag)'
      BY <2>4 DEF Working
    <3> QED BY <2>4, <3>1 DEF ToldAt
  <2>8. depc' \in {0, halted'} /\ halted' \in Nat /\ \A k \in 0 .. 31 : halted' # Address(k)
    BY <1>1, <1>3, Zenon DEF Elsewhere
  <2>9. InDebugRom'
    BY <1>1, <2>4, <2>5, <2>6, <2>7, <2>8, Zenon DEF InDebugRom, Address
  <2> QED BY <1>1, <2>9, Zenon DEF Phase
<1>5. CASE ~\E k \in 0 .. 31 : InRam(wiring.haltAddress) = Address(k)
  <2>1. InRam(wiring.haltAddress) \in Nat
    <3>1. wiring.haltAddress \in Nat
      BY HartIdIsNat
    <3>2. 2^20 \in Nat \ {0}
      BY SMT
    <3>3. \A n \in Nat, m \in Nat \ {0} : n % m \in Nat
      BY SMT
    <3> QED BY <3>1, <3>2, <3>3, Zenon DEF InRam
  <2>2. Elsewhere'
    BY <1>1, <1>5, <2>1, Zenon DEF Elsewhere, Address
  <2>3. SmallRegs'
    BY <1>1, <1>3, Zenon DEF SmallRegs
  <2>4. reports' = <<>> /\ halted' >= 0
    BY <1>1, <1>3, SMT DEF Elsewhere
  <2>5. Running'
    BY <1>1, <2>2, <2>3, <2>4, Zenon DEF Running
  <2> QED BY <1>1, <2>5, Zenon DEF Phase
<1> QED BY <1>4, <1>5


LEMMA ReturnStep ==
  ASSUME HartTypes, FlagIsSet, wiring' = wiring, Phase, Return
  PROVE  Phase' /\ HartState /\ halted' = halted /\ debug_mode' \in BOOLEAN
<1>1. /\ regs' = regs /\ dscratch' = dscratch /\ mem' = mem /\ reports' = reports /\ HartState
      /\ halted' = halted /\ debug_mode' = FALSE
      /\ ctrl' = "DECODE" /\ pc' = depc /\ ctrl = "XRET_JUMP"
  BY KeptState, SMT DEF Return
<1>2. InDebugRom
  BY <1>1, SMT DEF Phase, Booting, Running, Halting
<1>3. /\ depc \in {0, halted} /\ halted \in Nat /\ \A k \in 0 .. 31 : halted # Address(k)
  BY <1>2, Zenon DEF InDebugRom
<1>4. PICK k \in Reached, own \in Own :
        IsNext(k) /\ Kept(k, own, regs, dscratch) /\ Working(k, regs, Flag) /\ ToldAt(k, reports, Flag)
  BY <1>2, Zenon DEF InDebugRom
<1>5. k = 31
  BY <1>1, <1>4, SMT DEF IsNext
<1>6. reports = all /\ Flag = FLAGgo
  BY <1>4, <1>5, SMT DEF ToldAt
<1>7. regs = own
  <2>1. regs \in [Reg -> Int] /\ own \in [Reg -> Int]
    BY Zenon DEF HartTypes, Own
  <2>2. \A r \in Reg : regs[r] = own[r]
    BY <1>4, <1>5, SMT DEF Kept, S0Saved, A0Saved
  <2>3. \A f, g \in [Reg -> Int] : (\A r \in Reg : f[r] = g[r]) => f = g
    BY SMT
  <2> QED BY <2>1, <2>2, <2>3, Zenon
<1>8. SmallRegs'
  BY <1>1, <1>7, Zenon DEF SmallRegs, Own
<1>9. pc' \in Nat /\ (pc' = 0 \/ pc' = halted)
  BY <1>1, <1>3, SMT
<1>10. Elsewhere'
  <2>1. \A j \in 0 .. 31 : pc' # Address(j)
    BY <1>3, <1>9, Addresses, SMT
  <2> QED BY <1>9, <2>1, Zenon DEF Elsewhere, Address
<1>11. ProgramRegs'
  <2>1. CASE pc' = 0
    <3>1. ~(0 >= STARTprogrammADDR)
      BY SMT DEF STARTprogrammADDR
    <3>2. ~Holds(loadProgram, STARTprogrammADDR, pc')
      BY <2>1, <3>1, Zenon DEF Holds
    <3> QED BY <3>2, Zenon DEF ProgramRegs
  <2>2. CASE pc' = halted
    BY <1>1, <1>7, <2>2, Zenon DEF ProgramRegs, Own
  <2> QED BY <1>9, <2>1, <2>2
<1>12. halted' # -1
  BY <1>1, <1>3, SMT
<1>13. reports' = all /\ Flag' = FLAGgo
  BY <1>1, <1>6, Zenon DEF HartState
<1>14. Running'
  BY <1>1, <1>8, <1>10, <1>11, <1>12, <1>13, Zenon DEF Running, all, HALTED, GOING, RESUMING
<1> QED BY <1>1, <1>14, Zenon DEF Phase

LEMMA FlushStep ==
  ASSUME HartTypes, FlagIsSet, wiring' = wiring, jump' = jump, Phase, Flush
  PROVE  Phase' /\ HartState /\ halted' = halted /\ debug_mode' = debug_mode
<1>1. /\ regs' = regs /\ dscratch' = dscratch /\ mem' = mem /\ reports' = reports /\ HartState
      /\ halted' = halted /\ debug_mode' = debug_mode /\ depc' = depc /\ Flag' = Flag
  BY KeptState, Zenon DEF Flush, HartState
<1>2. ctrl \in {"FLUSH_EX", "FLUSH_WB", "DBG_FLUSH"} /\ ~Booting
  BY SMT DEF Flush, Booting
<1>3. CASE Running
  <2>1. /\ ctrl \in {"FLUSH_EX", "FLUSH_WB"} /\ Fetched.op \in {"illegal", "ecall"}
        /\ Elsewhere /\ SmallRegs /\ (~debug_mode => ProgramRegs)
    BY <1>2, <1>3, SMT DEF Running
  <2>2. SmallRegs'
    BY <1>1, <2>1, Zenon DEF SmallRegs
  <2>3. CASE ctrl = "FLUSH_EX"
    <3>1. ctrl' = "FLUSH_WB" /\ pc' = pc
      BY <2>3, SMT DEF Flush
    <3>2. Fetched' = Fetched
      BY <2>1, <3>1, FetchedStays, Zenon
    <3>3. Elsewhere' /\ (~debug_mode => ProgramRegs')
      BY <1>1, <2>1, <3>1, Zenon DEF Elsewhere, Address, ProgramRegs
    <3>4. Running'
      BY <1>1, <1>3, <2>1, <2>2, <3>1, <3>2, <3>3, Zenon DEF Running, all, HALTED, GOING, RESUMING
    <3> QED BY <1>1, <3>4, Zenon DEF Phase
  <2>4. CASE ctrl = "FLUSH_WB"
    <3>1. AfterFlush
      BY <2>4, SMT DEF Flush
    <3>2. ~Drains(Fetched) /\ Fetched.op # "dret"
      BY <2>1, SMT DEF Drains
    <3>3. ctrl' = "DECODE" /\ pc' = 0
      BY <3>1, <3>2, Zenon DEF AfterFlush
    <3>4. 0 \in Nat /\ \A k \in 0 .. 31 : 0 # Address(k)
      BY Addresses, SMT
    <3>5. ~(0 >= STARTprogrammADDR)
      BY SMT DEF STARTprogrammADDR
    <3>6. Elsewhere' /\ ProgramRegs'
      BY <3>3, <3>4, <3>5, Zenon DEF Elsewhere, Address, ProgramRegs, Holds
    <3>7. Running'
      BY <1>1, <1>3, <2>2, <3>3, <3>6, Zenon DEF Running, all, HALTED, GOING, RESUMING
    <3> QED BY <1>1, <3>7, Zenon DEF Phase
  <2> QED BY <2>1, <2>3, <2>4, Zenon
<1>4. CASE Halting
  <2>1. ctrl' = "DBG_TAKEN_ID" /\ pc' = pc
    BY <1>4, SMT DEF Halting, Flush
  <2>2. Elsewhere' /\ SmallRegs' /\ ProgramRegs'
    BY <1>1, <1>4, <2>1, Zenon DEF Halting, Elsewhere, Address, SmallRegs, ProgramRegs
  <2>3. Halting'
    BY <1>1, <1>4, <2>1, <2>2, Zenon DEF Halting
  <2> QED BY <1>1, <2>3, Zenon DEF Phase
<1>5. CASE InDebugRom
  <2>1. PICK k \in Reached, own \in Own : IsNext(k) /\ RomState(k, own)
    BY <1>5, Zenon DEF InDebugRom, RomState
  <2>2. IsNext(k)'
    <3>1. CASE ctrl = "FLUSH_EX"
      <4>1. ctrl' = "FLUSH_WB" /\ pc' = pc
        BY <3>1, SMT DEF Flush
      <4> QED BY <2>1, <3>1, <4>1, SMT DEF IsNext, Address
    <3>2. CASE ctrl = "FLUSH_WB"
      <4>1. AfterFlush
        BY <3>2, SMT DEF Flush
      <4>2. CASE k - 1 \in CsrAccess /\ pc = Address(k - 1)
        <5>1. PICK j \in CsrAccess : j = k - 1 /\ pc = Address(j) /\ j \in 1 .. 30 /\ j # 0
          BY <4>2, SMT DEF CsrAccess
        <5>2. Fetched = loadDebugProgram[j]
          <6>1. j \in 0 .. 31
            BY <5>1, SMT
          <6> QED BY <5>1, <6>1, FetchedInRom, Zenon
        <5>3. Drains(Fetched)
          BY <5>1, <5>2, RomAt, SMT DEF CsrAccess, Insn, Drains, dscratch0, dscratch1
        <5>4. ctrl' = "DECODE" /\ pc' = pc + 4
          BY <4>1, <5>3, Zenon DEF AfterFlush
        <5>5. Address(j) + 4 = Address(k)
          <6>1. j + 1 = k
            BY <2>1, <5>1, SMT DEF Reached
          <6>2. Address(j) + 4 = Address(j + 1)
            BY <5>1, Addresses, SMT
          <6> QED BY <6>1, <6>2, Zenon
        <5> QED BY <5>1, <5>4, <5>5, Zenon DEF IsNext, Address
      <4>3. CASE k = 31 /\ pc = Address(31)
        <5>1. 31 \in 0 .. 31 /\ 31 # 0
          BY SMT
        <5>2. Fetched = Insn("dret", 0, 0, 0, 0)
          <6>1. Fetched = loadDebugProgram[31]
            BY <4>3, <5>1, FetchedInRom, Zenon
          <6> QED BY <6>1, RomAt, SMT
        <5>3. ~Drains(Fetched) /\ Fetched.op = "dret"
          BY <5>2, SMT DEF Insn, Drains
        <5>4. ctrl' = "XRET_JUMP" /\ pc' = pc
          BY <4>1, <5>3, Zenon DEF AfterFlush
        <5> QED BY <4>3, <5>4, SMT DEF IsNext, Address
      <4> QED BY <2>1, <3>2, <4>2, <4>3, SMT DEF IsNext
    <3> QED BY <1>2, <2>1, <3>1, <3>2, SMT DEF IsNext
  <2>3. RomState(k, own)'
    <3>1. Kept(k, own, regs, dscratch)'
      BY <1>1, <2>1 DEF RomState, Kept
    <3>2. Working(k, regs, Flag)'
      BY <1>1, <2>1 DEF RomState, Working
    <3>3. ToldAt(k, reports, Flag)'
      BY <1>1, <2>1 DEF RomState, ToldAt
    <3> QED BY <3>1, <3>2, <3>3 DEF RomState
  <2>4. own \in Own'
    BY <1>1, Zenon DEF Own
  <2>5. InDebugRom'
    BY <1>1, <1>5, <2>2, <2>3, <2>4, Zenon DEF InDebugRom, RomState, Address
  <2> QED BY <1>1, <2>5, Zenon DEF Phase
<1> QED BY <1>2, <1>3, <1>4, <1>5, Zenon DEF Phase

LEMMA DecodeStep ==
  ASSUME HartTypes, FlagIsSet, wiring' = wiring, jump' = jump, Phase, Decode
  PROVE  Phase' /\ HartState /\ halted' \in Nat \cup {-1} /\ debug_mode' = debug_mode
<1>1. ctrl = "DECODE" /\ debug_mode' = debug_mode /\ depc' = depc
  BY DEF Decode
<1>2. Running \/ InDebugRom
  BY <1>1, SMT DEF Phase, Booting, Halting
<1>3. CASE Keep /\ ctrl' = ctrl /\ pc' = pc /\ halted' = halted
  <2>1. regs' = regs /\ dscratch' = dscratch /\ mem' = mem /\ reports' = reports /\ HartState /\ Flag' = Flag
    BY <1>3, KeptState, Zenon DEF HartState
  <2>2. CASE Running
    <3>1. Elsewhere' /\ SmallRegs' /\ (~debug_mode => ProgramRegs')
      BY <1>3, <2>1, <2>2, Zenon DEF Running, Elsewhere, Address, SmallRegs, ProgramRegs
    <3>2. ctrl' = "DECODE"
      BY <1>1, <1>3, Zenon
    <3>3. Running'
      BY <1>1, <1>3, <2>1, <2>2, <3>1, <3>2, Zenon DEF Running, all, HALTED, GOING, RESUMING
    <3> QED BY <1>1, <1>3, <2>1, <3>3, Zenon DEF Phase, HartTypes
  <2>3. CASE InDebugRom
    <3>1. PICK k \in Reached, own \in Own : IsNext(k) /\ RomState(k, own)
      BY <2>3, Zenon DEF InDebugRom, RomState
    <3>2. IsNext(k)'
      BY <1>3, <3>1, Zenon DEF IsNext, Address
    <3>3. RomState(k, own)'
      <4>1. Kept(k, own, regs, dscratch)'
        BY <2>1, <3>1 DEF RomState, Kept
      <4>2. Working(k, regs, Flag)'
        BY <2>1, <3>1 DEF RomState, Working
      <4>3. ToldAt(k, reports, Flag)'
        BY <2>1, <3>1 DEF RomState, ToldAt
      <4> QED BY <4>1, <4>2, <4>3 DEF RomState
    <3>4. own \in Own'
      BY <1>3, Zenon DEF Own
    <3>5. InDebugRom'
      BY <1>1, <1>3, <2>3, <3>2, <3>3, <3>4, Zenon DEF InDebugRom, RomState, Address
    <3> QED BY <1>1, <1>3, <2>1, <3>5, Zenon DEF Phase, HartTypes
  <2> QED BY <1>2, <2>2, <2>3
<1>4. CASE pins.debug_req /\ ~debug_mode /\ AcceptRequest
  <2>1. Running /\ ~debug_mode
    BY <1>2, <1>4, Zenon DEF InDebugRom
  <2>2. halted = -1
    <3>1. SUFFICES ASSUME halted # -1 PROVE FALSE
      OBVIOUS
    <3>2. Flag = FLAGgo
      BY <2>1, <3>1, Zenon DEF Running
    <3>3. stage = "request" /\ stage \in {"resume", "done"}
      BY <1>4, <3>2, Zenon DEF FlagIsSet
    <3> QED BY <3>3, SMT
  <2>3. Elsewhere /\ SmallRegs /\ ProgramRegs /\ reports = <<>> /\ depc = 0
    BY <2>1, <2>2, Zenon DEF Running
  <2>4. /\ ctrl' = "DBG_FLUSH" /\ halted' = pc /\ pc' = pc
        /\ regs' = regs /\ reports' = reports /\ HartState
    BY <1>4, KeptState, SMT DEF AcceptRequest
  <2>5. Elsewhere' /\ SmallRegs' /\ ProgramRegs'
    BY <2>3, <2>4, Zenon DEF Elsewhere, Address, SmallRegs, ProgramRegs
  <2>6. Halting'
    BY <1>1, <2>1, <2>3, <2>4, <2>5, Zenon DEF Halting
  <2>7. halted' \in Nat
    BY <2>3, <2>4 DEF Elsewhere
  <2> QED BY <1>1, <2>4, <2>6, <2>7, Zenon DEF Phase
<1>5. CASE Execute(Fetched) /\ ~(pins.debug_req /\ ~debug_mode)
  <2>1. CASE Running
    <3>1. Running' /\ HartState /\ halted' = halted
      BY <1>1, <1>5, <2>1, RunningStep, Zenon
    <3> QED BY <1>1, <3>1, Zenon DEF Phase, HartTypes
  <2>2. CASE InDebugRom
    <3>1. PICK k \in Reached, own \in Own : IsNext(k) /\ RomState(k, own)
      BY <2>2, Zenon DEF InDebugRom, RomState
    <3>2. AtRom(k, own)
      <4>1. pc = Address(k)
        BY <1>1, <3>1, SMT DEF IsNext
      <4> QED BY <1>1, <1>5, <3>1, <4>1, Zenon DEF AtRom, FlagIsSet
    <3>3. CASE k # 31
      <4>1. Moved(k, own)
        <5>1. \/ k \in {0, 1, 2, 4, 13, 18, 19, 25}
              \/ k \in {5, 6}
              \/ k \in Writes
              \/ k \in {9, 23, 28}
          BY <3>1, <3>3, SMT DEF Reached, Writes
        <5> QED BY <3>2, <5>1, RomJump, RomSave, RomWrite, RomStore, Zenon
      <4>2. PICK n \in Reached :
              /\ \/ ctrl' = "DECODE" /\ pc' = Address(n)
                 \/ ctrl' = "FLUSH_EX" /\ k \in CsrAccess /\ n = k + 1 /\ pc' = Address(k)
              /\ RomState(n, own)'
        BY <4>1, Zenon DEF Moved
      <4>3. HartState /\ halted' = halted
        BY <4>1, Zenon DEF Moved, HartState
      <4>4. IsNext(n)'
        <5>1. CASE ctrl' = "DECODE" /\ pc' = Address(n)
          BY <5>1, Zenon DEF IsNext, Address
        <5>2. CASE ctrl' = "FLUSH_EX" /\ k \in CsrAccess /\ n = k + 1 /\ pc' = Address(k)
          <6>1. n - 1 = k
            BY <5>2, SMT DEF CsrAccess
          <6>2. (n - 1) \in CsrAccess /\ pc' = Address(n - 1)
            BY <5>2, <6>1, Zenon
          <6> QED BY <5>2, <6>2, Zenon DEF IsNext, Address
        <5> QED BY <4>2, <5>1, <5>2
      <4>5. own \in Own'
        BY <4>3, Zenon DEF Own
      <4>6. InDebugRom'
        BY <1>1, <2>2, <4>2, <4>3, <4>4, <4>5, Zenon DEF InDebugRom, RomState, Address
      <4> QED BY <1>1, <4>3, <4>6, Zenon DEF Phase, HartTypes
    <3>4. CASE k = 31
      <4>1. /\ regs' = regs /\ dscratch' = dscratch /\ mem' = mem /\ reports' = reports /\ halted' = halted
            /\ Flag' = Flag /\ ctrl' = "FLUSH_EX" /\ pc' = pc
        BY <3>2, <3>4, RomReturn, Zenon
      <4>2. RomState(k, own)'
        <5>1. Kept(k, own, regs, dscratch)'
          BY <4>1, <3>1 DEF RomState, Kept
        <5>2. Working(k, regs, Flag)'
          BY <4>1, <3>1 DEF RomState, Working
        <5>3. ToldAt(k, reports, Flag)'
          BY <4>1, <3>1 DEF RomState, ToldAt
        <5> QED BY <5>1, <5>2, <5>3 DEF RomState
      <4>3. IsNext(k)'
        BY <3>2, <3>4, <4>1, SMT DEF AtRom, IsNext, Address
      <4>4. own \in Own' /\ HartState
        BY <4>1, Zenon DEF Own, HartState, HartTypes
      <4>5. InDebugRom'
        BY <1>1, <2>2, <3>1, <4>1, <4>2, <4>3, <4>4, Zenon DEF InDebugRom, RomState, Address
      <4> QED BY <1>1, <4>1, <4>4, <4>5, Zenon DEF Phase, HartTypes
    <3> QED BY <3>3, <3>4
  <2> QED BY <1>2, <2>1, <2>2
<1> QED BY <1>3, <1>4, <1>5, Zenon DEF Decode

\* What every clock of the hart keeps.
LEMMA HartMoves ==
  ASSUME HaltsAtEntry, DebugInv, clockSpin
  PROVE  Phase' /\ HartState /\ halted' \in Nat \cup {-1} /\ debug_mode' \in BOOLEAN
<1>1. /\ HartTypes /\ FlagIsSet /\ Phase
      /\ Hart /\ wiring' = wiring /\ stage' = stage /\ pins' = pins /\ jump' = jump
  BY DEF DebugInv, Phase, clockSpin
<1>2. CASE Boot
  BY <1>1, <1>2, BootStep, Zenon DEF HartTypes
<1>3. CASE Decode
  BY <1>1, <1>3, DecodeStep, Zenon DEF HartTypes
<1>4. CASE Flush
  BY <1>1, <1>4, FlushStep, Zenon DEF HartTypes
<1>5. CASE Take
  BY <1>1, <1>5, TakeStep, Zenon DEF HartTypes
<1>6. CASE Return
  BY <1>1, <1>6, ReturnStep, Zenon DEF HartTypes
<1> QED BY <1>1, <1>2, <1>3, <1>4, <1>5, <1>6 DEF Hart

LEMMA HartStep ==
  ASSUME HaltsAtEntry, DebugInv, clockSpin
  PROVE  DebugInv'
<1>1. /\ HartTypes /\ FlagIsSet /\ Phase
      /\ Hart /\ wiring' = wiring /\ stage' = stage /\ pins' = pins /\ jump' = jump
  BY DEF DebugInv, Phase, clockSpin
<1>2. Phase' /\ HartState /\ halted' \in Nat \cup {-1} /\ debug_mode' \in BOOLEAN
  BY HartMoves
<1>3. HartTypes'
  <2>1. DataAddresses' = DataAddresses
    BY <1>1 DEF DataAddresses, FlagOf
  <2> QED BY <1>1, <1>2, <2>1, Zenon DEF HartTypes, HartState
<1>4. FlagIsSet'
  BY <1>1, <1>2, Zenon DEF FlagIsSet, HartState
<1> QED BY <1>2, <1>3, <1>4, Zenon DEF DebugInv, Phase

\* main takes no part in what the hart does, except that it sets the flag.
LEMMA MainKeepsPhase ==
  ASSUME HartTypes, Phase, wiring' = wiring, UNCHANGED hartVars, Flag' \in {Flag, FLAGgo}
  PROVE  Phase'
<1>1. /\ ctrl' = ctrl /\ debug_mode' = debug_mode /\ pc' = pc /\ regs' = regs /\ depc' = depc
      /\ dscratch' = dscratch /\ halted' = halted /\ reports' = reports
  BY DEF hartVars
<1>2. CASE Booting
  <2>1. Booting'
    BY <1>1, <1>2, Zenon DEF Booting
  <2> QED BY <2>1 DEF Phase
<1>3. CASE Running
  <2>1. Elsewhere' /\ SmallRegs' /\ (~debug_mode => ProgramRegs')
    BY <1>1, <1>3, Zenon DEF Running, Elsewhere, Address, SmallRegs, ProgramRegs
  <2>2. Fetched' = Fetched
    BY <1>1, <1>3, FetchedStays, Zenon DEF Running
  <2>3. Running'
    BY <1>1, <1>3, <2>1, <2>2, Zenon DEF Running, all, HALTED, GOING, RESUMING
  <2> QED BY <2>3 DEF Phase
<1>4. CASE Halting
  <2>1. Halting'
    BY <1>1, <1>4, Zenon DEF Halting, Elsewhere, Address, SmallRegs, ProgramRegs
  <2> QED BY <2>1 DEF Phase
<1>5. CASE InDebugRom
  <2>1. PICK k \in Reached, own \in Own : IsNext(k) /\ RomState(k, own)
    BY <1>5, Zenon DEF InDebugRom, RomState
  <2>2. IsNext(k)' /\ own \in Own'
    BY <1>1, <2>1, Zenon DEF IsNext, Address, Own
  <2>3. RomState(k, own)'
    <3>1. Kept(k, own, regs, dscratch)'
      BY <1>1, <2>1 DEF RomState, Kept
    <3>2. Working(k, regs, Flag)'
      BY <1>1, <2>1 DEF RomState, Working
    <3>3. ToldAt(k, reports, Flag)'
      BY <1>1, <2>1 DEF RomState, ToldAt
    <3> QED BY <3>1, <3>2, <3>3 DEF RomState
  <2>4. InDebugRom'
    BY <1>1, <1>5, <2>2, <2>3, Zenon DEF InDebugRom, RomState, Address
  <2> QED BY <2>4 DEF Phase
<1> QED BY <1>2, <1>3, <1>4, <1>5 DEF Phase

LEMMA MainStep ==
  ASSUME DebugInv, main
  PROVE  DebugInv'
<1>1. HartTypes /\ FlagIsSet /\ Phase
  BY DEF DebugInv, Phase
<1>2. UNCHANGED hartVars /\ wiring' = wiring
  <2>1. \A from, to, clocks : NextSpin(from, to, clocks) => UNCHANGED hartVars /\ wiring' = wiring
    BY DEF NextSpin
  <2> QED BY <2>1, Zenon DEF main, EndReset, EnableFetch, Request, LetResume, Finish
<1>3. regs' = regs /\ dscratch' = dscratch /\ debug_mode' = debug_mode /\ halted' = halted
  BY <1>2 DEF hartVars
<1>4. DataAddresses' = DataAddresses
  BY <1>2 DEF DataAddresses, FlagOf
<1>5. CASE LetResume
  <2>1. /\ mem' = [mem EXCEPT ![FlagOf(TestHart)] = FLAGgo] /\ jump' = whereto
        /\ stage' = "resume" /\ pins' = [pins EXCEPT !.debug_req = FALSE]
    BY <1>5, Zenon DEF LetResume, NextSpin, DebugFLAG
  <2>2. mem \in [DataAddresses -> Int] /\ FlagOf(TestHart) \in DataAddresses /\ FLAGgo \in Int
    BY <1>1, SMT DEF HartTypes, DataAddresses, FLAGgo
  <2>3. mem' \in [DataAddresses -> Int] /\ Flag' \in {Flag, FLAGgo}
    <3>1. FlagOf(wiring.hartId) \in DataAddresses
      BY Zenon DEF DataAddresses
    <3>2. mem'[FlagOf(wiring.hartId)] \in {mem[FlagOf(wiring.hartId)], FLAGgo}
      BY <2>1, <2>2, <3>1, Zenon
    <3>3. mem' \in [DataAddresses -> Int]
      BY <2>1, <2>2, Zenon
    <3> QED BY <1>2, <3>2, <3>3, Zenon DEF Flag, FlagOf
  <2>4. Phase'
    BY <1>1, <1>2, <2>3, MainKeepsPhase, Zenon
  <2>5. DOMAIN pins' = {"rstn", "fetch_enable", "debug_req"} /\ ~pins'.debug_req
    BY <1>1, <2>1, Zenon DEF HartTypes
  <2>6. HartTypes'
    BY <1>1, <1>2, <1>3, <1>4, <2>3, <2>5, Zenon DEF HartTypes
  <2>7. FlagIsSet'
    BY <1>1, <2>1, <2>3, <2>5, Zenon DEF FlagIsSet
  <2> QED BY <2>4, <2>6, <2>7, Zenon DEF DebugInv, Phase
<1>6. CASE EndReset \/ EnableFetch \/ Request \/ Finish
  <2>1. mem' = mem /\ jump' = jump
    BY <1>6 DEF EndReset, EnableFetch, Request, Finish, Untouched
  <2>2. Flag' = Flag
    BY <1>2, <2>1 DEF Flag, FlagOf
  <2>3. Phase'
    BY <1>1, <1>2, <2>2, MainKeepsPhase, Zenon
  <2>4. /\ DOMAIN pins' = {"rstn", "fetch_enable", "debug_req"}
        /\ pins'.debug_req => stage' = "request"
        /\ jump = whereto => stage' \in {"resume", "done"}
    <3>1. /\ DOMAIN pins = {"rstn", "fetch_enable", "debug_req"} /\ (pins.debug_req => stage = "request")
          /\ (jump = whereto => stage \in {"resume", "done"})
      BY <1>1, Zenon DEF HartTypes, FlagIsSet
    <3>2. "rstn" # "debug_req" /\ "fetch_enable" # "debug_req"
      BY SMT
    <3>3. CASE EndReset
      <4>1. stage = "reset" /\ pins' = [pins EXCEPT !.rstn = TRUE]
        BY <3>3, Zenon DEF EndReset, NextSpin
      <4>2. jump # whereto /\ ~pins.debug_req
        BY <3>1, <4>1, SMT
      <4> QED BY <3>1, <3>2, <4>1, <4>2, Zenon
    <3>4. CASE EnableFetch
      <4>1. stage = "idle" /\ pins' = [pins EXCEPT !.fetch_enable = TRUE]
        BY <3>4, Zenon DEF EnableFetch, NextSpin
      <4>2. jump # whereto /\ ~pins.debug_req
        BY <3>1, <4>1, SMT
      <4> QED BY <3>1, <3>2, <4>1, <4>2, Zenon
    <3>5. CASE Request
      <4>1. stage = "run" /\ stage' = "request" /\ pins' = [pins EXCEPT !.debug_req = TRUE]
        BY <3>5, Zenon DEF Request, NextSpin
      <4>2. jump # whereto
        BY <3>1, <4>1, SMT
      <4> QED BY <3>1, <4>1, <4>2, Zenon
    <3>6. CASE Finish
      <4>1. stage = "resume" /\ stage' = "done" /\ pins' = pins
        BY <3>6, Zenon DEF Finish, NextSpin
      <4>2. ~pins.debug_req
        BY <3>1, <4>1, SMT
      <4> QED BY <3>1, <4>1, <4>2, Zenon
    <3> QED BY <1>6, <3>3, <3>4, <3>5, <3>6
  <2>5. HartTypes'
    BY <1>1, <1>2, <1>3, <1>4, <2>1, <2>4, Zenon DEF HartTypes
  <2>6. FlagIsSet'
    BY <1>1, <2>1, <2>2, <2>4, Zenon DEF FlagIsSet
  <2> QED BY <2>3, <2>5, <2>6, Zenon DEF DebugInv, Phase
<1> QED BY <1>5, <1>6, Zenon DEF main

LEMMA InitDebugInv == Init => DebugInv
<1> SUFFICES ASSUME Init PROVE DebugInv
  OBVIOUS
<1>1. wiring \in Wirings /\ mem = [a \in DataAddresses |-> 0] /\ FlagOf(wiring.hartId) \in DataAddresses
  BY Zenon DEF Init, DataAddresses
<1>2. Flag = 0
  BY <1>1, Zenon DEF Flag
<1>3. jump # whereto
  BY SMT DEF Init, Illegal, whereto, Jal, Insn
<1>4. ~pins.debug_req /\ DOMAIN pins = {"rstn", "fetch_enable", "debug_req"}
  BY SMT DEF Init
<1>5. FlagIsSet
  BY <1>2, <1>3, <1>4, SMT DEF FlagIsSet, FLAGgo
<1>6. HartTypes
  <2>1. regs \in [Reg -> Int] /\ dscratch \in [{dscratch0, dscratch1} -> Int] /\ halted = -1
    BY SMT DEF Init
  <2>2. mem \in [DataAddresses -> Int]
    BY <1>1, SMT
  <2>3. debug_mode \in BOOLEAN
    BY Zenon DEF Init
  <2> QED BY <1>1, <1>4, <2>1, <2>2, <2>3, Zenon DEF HartTypes
<1>7. Booting
  BY SMT DEF Init, Booting
<1> QED BY <1>5, <1>6, <1>7, Zenon DEF DebugInv

LEMMA StepDebugInv == ASSUME HaltsAtEntry, DebugInv, [Next]_vars PROVE DebugInv'
<1>1. CASE UNCHANGED vars
  <2>1. UNCHANGED hartVars /\ wiring' = wiring /\ mem' = mem /\ jump' = jump /\ stage' = stage /\ pins' = pins
    BY <1>1 DEF vars, benchVars
  <2>2. Flag' = Flag /\ DataAddresses' = DataAddresses
    BY <2>1 DEF Flag, DataAddresses, FlagOf
  <2>3. regs' = regs /\ dscratch' = dscratch /\ debug_mode' = debug_mode /\ halted' = halted
    BY <2>1 DEF hartVars
  <2>4. HartTypes /\ Phase /\ FlagIsSet
    BY DEF DebugInv, Phase
  <2>5. Phase'
    BY <2>1, <2>2, <2>4, MainKeepsPhase, Zenon
  <2>6. HartTypes'
    BY <2>1, <2>2, <2>3, <2>4, Zenon DEF HartTypes
  <2>7. FlagIsSet'
    BY <2>1, <2>2, <2>4, Zenon DEF FlagIsSet
  <2> QED BY <2>5, <2>6, <2>7, Zenon DEF DebugInv, Phase
<1>2. CASE clockSpin
  BY <1>2, HartStep
<1>3. CASE main
  BY <1>3, MainStep
<1> QED BY <1>1, <1>2, <1>3, Zenon DEF Next

-----------------------------------------------------------------------------
LEMMA UndisturbedFollows == DebugInv => ProgramUndisturbed
<1> SUFFICES ASSUME DebugInv, ~debug_mode, ctrl = "DECODE", Holds(loadProgram, STARTprogrammADDR, pc)
             PROVE  regs = RegsAt[AtIndex(STARTprogrammADDR, pc)]
  BY Zenon DEF ProgramUndisturbed
<1>1. Running
  BY SMT DEF DebugInv, Booting, Halting, InDebugRom
<1> QED BY <1>1, Zenon DEF Running, ProgramRegs

LEMMA Prefixes ==
  /\ Len(<<>>) = 0 /\ SubSeq(all, 1, 0) = <<>>
  /\ Len(<<HALTED>>) = 1 /\ SubSeq(all, 1, 1) = <<HALTED>>
  /\ Len(<<HALTED, GOING>>) = 2 /\ SubSeq(all, 1, 2) = <<HALTED, GOING>>
  /\ Len(all) = 3 /\ SubSeq(all, 1, 3) = all
<1> HIDE DEF HALTED, GOING, RESUMING
<1> DEFINE S == {HALTED, GOING, RESUMING}
<1>1. /\ Len(<<>>) = 0 /\ Len(<<HALTED>>) = 1 /\ Len(<<HALTED, GOING>>) = 2 /\ Len(all) = 3
      /\ <<>> \in Seq(S) /\ <<HALTED>> \in Seq(S) /\ <<HALTED, GOING>> \in Seq(S) /\ all \in Seq(S)
  BY SMT DEF all
<1>2. \A n \in 1 .. 3 : /\ SubSeq(all, 1, n) \in Seq(S) /\ Len(SubSeq(all, 1, n)) = n
                       /\ \A i \in 1 .. n : SubSeq(all, 1, n)[i] = all[i]
  <2> SUFFICES ASSUME NEW n \in 1 .. 3
               PROVE  /\ SubSeq(all, 1, n) \in Seq(S) /\ Len(SubSeq(all, 1, n)) = n
                      /\ \A i \in 1 .. n : SubSeq(all, 1, n)[i] = all[i]
    OBVIOUS
  <2>1. 1 \in Int /\ n \in Int /\ \A i \in 1 .. n : all[i] \in S
    BY SMT DEF all
  <2>2. /\ SubSeq(all, 1, n) \in Seq(S)
        /\ Len(SubSeq(all, 1, n)) = IF 1 <= n THEN n - 1 + 1 ELSE 0
        /\ \A i \in 1 .. n - 1 + 1 : SubSeq(all, 1, n)[i] = all[1 + i - 1]
    <3> HIDE DEF S
    <3>1. \A m, k \in Int :
             (\A i \in m .. k : all[i] \in S) =>
               /\ SubSeq(all, m, k) \in Seq(S)
               /\ Len(SubSeq(all, m, k)) = IF m <= k THEN k - m + 1 ELSE 0
               /\ \A i \in 1 .. k - m + 1 : SubSeq(all, m, k)[i] = all[m + i - 1]
      BY SubSeqProperties
    <3>2. (\A i \in 1 .. n : all[i] \in S) =>
            /\ SubSeq(all, 1, n) \in Seq(S)
            /\ Len(SubSeq(all, 1, n)) = IF 1 <= n THEN n - 1 + 1 ELSE 0
            /\ \A i \in 1 .. n - 1 + 1 : SubSeq(all, 1, n)[i] = all[1 + i - 1]
      BY <2>1, <3>1, SMT
    <3> QED BY <2>1, <3>2, Zenon
  <2>3. 1 <= n /\ n - 1 + 1 = n /\ \A i \in 1 .. n : 1 + i - 1 = i
    BY SMT
  <2> QED BY <2>2, <2>3, Zenon
<1>3. SubSeq(all, 1, 0) = <<>>
  <2>1. 1 \in Int /\ 0 \in Int /\ 0 < 1
    BY SMT
  <2> QED BY <2>1, SubSeqEmpty, Zenon
<1>4. SubSeq(all, 1, 1) = <<HALTED>>
  <2>1. 1 \in 1 .. 3 /\ \A i \in 1 .. 1 : all[i] = <<HALTED>>[i]
    BY SMT DEF all
  <2>2. /\ SubSeq(all, 1, 1) \in Seq(S) /\ Len(SubSeq(all, 1, 1)) = 1
        /\ \A i \in 1 .. 1 : SubSeq(all, 1, 1)[i] = <<HALTED>>[i]
    BY <1>2, <2>1, Zenon
  <2> QED BY <1>1, <2>2, SeqEqual, Zenon
<1>5. SubSeq(all, 1, 2) = <<HALTED, GOING>>
  <2>1. 2 \in 1 .. 3 /\ \A i \in 1 .. 2 : all[i] = <<HALTED, GOING>>[i]
    BY SMT DEF all
  <2>2. /\ SubSeq(all, 1, 2) \in Seq(S) /\ Len(SubSeq(all, 1, 2)) = 2
        /\ \A i \in 1 .. 2 : SubSeq(all, 1, 2)[i] = <<HALTED, GOING>>[i]
    BY <1>2, <2>1, Zenon
  <2> QED BY <1>1, <2>2, SeqEqual, Zenon
<1>6. SubSeq(all, 1, 3) = all
  BY <1>1, SubSeqFull, Zenon
<1> HIDE DEF S
<1> QED BY <1>1, <1>3, <1>4, <1>5, <1>6, Zenon

Shaken ==
  \/ reports = <<>> /\ (halted = -1 \/ ctrl # "DECODE" \/ debug_mode)
  \/ reports = <<HALTED>> /\ debug_mode
  \/ reports = <<HALTED, GOING>> /\ debug_mode /\ Flag = FLAGgo
  \/ reports = all /\ Flag = FLAGgo

LEMMA HandshakeFollows == DebugInv => Handshake
<1> SUFFICES ASSUME DebugInv PROVE Handshake
  OBVIOUS
<1>1. Shaken
  <2>1. CASE Booting
    BY <2>1, Zenon DEF Booting, Shaken
  <2>2. CASE Running
    BY <2>2, Zenon DEF Running, Shaken
  <2>3. CASE Halting
    BY <2>3, SMT DEF Halting, Shaken
  <2>4. CASE InDebugRom
    <3>1. debug_mode
      BY <2>4, Zenon DEF InDebugRom
    <3>2. PICK k \in Reached : ToldAt(k, reports, Flag)
      BY <2>4, Zenon DEF InDebugRom
    <3>3. CASE k \in {1, 4, 5, 6} \cup {7, 8, 9}
      <4>1. reports \in {<<>>, <<HALTED>>}
        BY <3>2, <3>3, SMT DEF ToldAt
      <4> QED BY <3>1, <4>1, Zenon DEF Shaken
    <3>4. CASE k \in (10 .. 19) \cup {22, 23}
      <4>1. reports = <<HALTED>>
        BY <3>2, <3>4, SMT DEF ToldAt
      <4> QED BY <3>1, <4>1, Zenon DEF Shaken
    <3>5. CASE k \in {24, 25, 0, 2, 26, 27, 28}
      <4>1. reports = <<HALTED, GOING>> /\ Flag = FLAGgo
        BY <3>2, <3>5, SMT DEF ToldAt
      <4> QED BY <3>1, <4>1, Zenon DEF Shaken
    <3>6. CASE k \in {29, 30, 31}
      <4>1. reports = all /\ Flag = FLAGgo
        BY <3>2, <3>6, SMT DEF ToldAt
      <4> QED BY <3>1, <4>1, Zenon DEF Shaken
    <3> QED BY <3>2, <3>3, <3>4, <3>5, <3>6, SMT DEF Reached
  <2> QED BY <2>1, <2>2, <2>3, <2>4 DEF DebugInv
<1>2. Flag = FLAGgo => jump = whereto
  BY DEF DebugInv, FlagIsSet
<1>3. /\ Len(reports) \in 0 .. 3 /\ reports = SubSeq(all, 1, Len(reports))
      /\ Len(reports) >= 2 => Flag = FLAGgo
      /\ Len(reports) = 3 => Flag = FLAGgo
      /\ Len(reports) \in {1, 2} => debug_mode
      /\ (halted >= 0 /\ ctrl = "DECODE" /\ ~debug_mode) => reports = all
  <2>1. CASE reports = <<>> /\ (halted = -1 \/ ctrl # "DECODE" \/ debug_mode)
    <3>1. Len(reports) = 0 /\ reports = SubSeq(all, 1, Len(reports))
      BY <2>1, Prefixes, Zenon
    <3> QED BY <2>1, <3>1, SMT
  <2>2. CASE reports = <<HALTED>> /\ debug_mode
    <3>1. Len(reports) = 1 /\ reports = SubSeq(all, 1, Len(reports))
      BY <2>2, Prefixes, Zenon
    <3> QED BY <2>2, <3>1, SMT
  <2>3. CASE reports = <<HALTED, GOING>> /\ debug_mode /\ Flag = FLAGgo
    <3>1. Len(reports) = 2 /\ reports = SubSeq(all, 1, Len(reports))
      BY <2>3, Prefixes, Zenon
    <3> QED BY <2>3, <3>1, SMT
  <2>4. CASE reports = all /\ Flag = FLAGgo
    <3>1. Len(reports) = 3 /\ reports = SubSeq(all, 1, Len(reports))
      BY <2>4, Prefixes, Zenon
    <3> QED BY <2>4, <3>1, SMT
  <2> QED BY <1>1, <2>1, <2>2, <2>3, <2>4, Zenon DEF Shaken
<1>4. Len(reports) <= 3
  BY <1>3, SMT
<1> QED BY <1>2, <1>3, <1>4, Zenon DEF Handshake, all, Flag

(***************************************************************************)
(* However long the debug request is, whichever hart the core is and       *)
(* however long the program takes to come to an instruction: wherever it   *)
(* is halted, it finds its registers as it left them, s0 and a0 that the   *)
(* debug ROM borrows included (loadDebugProgram of testbench.cpp).         *)
(***************************************************************************)
THEOREM RegistersComeBack == ASSUME HaltsAtEntry PROVE Spec => []ProgramUndisturbed
<1>1. DebugInv /\ [Next]_vars => DebugInv'
  BY StepDebugInv
<1> QED BY <1>1, InitDebugInv, UndisturbedFollows, PTL DEF Spec

(***************************************************************************)
(* The debugger is told halted, going and resuming, in this order, each    *)
(* once its cause is there, and the hart is in debug mode in between.      *)
(***************************************************************************)
THEOREM ReportsInOrder == ASSUME HaltsAtEntry PROVE Spec => []Handshake
<1>1. DebugInv /\ [Next]_vars => DebugInv'
  BY StepDebugInv
<1> QED BY <1>1, InitDebugInv, HandshakeFollows, PTL DEF Spec

-----------------------------------------------------------------------------
(* What it takes to resume.                                                *)

\* The debug mode was entered at the ROM.
InRom == debug_mode /\ \E k \in 0 .. 31 : pc = Address(k)

\* The hart has come back from it.
Returned == ~debug_mode /\ halted # -1 /\ ctrl \in {"DECODE", "FLUSH_EX", "FLUSH_WB"}

AtEntry == InRam(wiring.haltAddress) = STARTdebugPROGaddr

\* The clocks of the request that are left on the way to the debug mode.
Requested ==
  /\ left \in Int
  /\ stage \in {"reset", "idle", "run"} => halted = -1
  /\ stage = "request" =>
       /\ left <= wiring.pulse
       /\ ctrl = "DBG_FLUSH" => left <= wiring.pulse - 1
       /\ ctrl = "DBG_TAKEN_ID" => left <= wiring.pulse - 2

ResumeInv ==
  /\ Requested
  /\ depc # 0 => wiring.pulse >= 3
  /\ Flag = FLAGgo => wiring.hartId = TestHart
  /\ InRom => AtEntry
  /\ Returned => AtEntry /\ (depc = 0 => pc = 0)

LEMMA WiringTypes == ASSUME HartTypes PROVE wiring.pulse \in Nat \ {0} /\ wiring.hartId \in Nat
  BY VerilatorAssumption DEF HartTypes

\* The address of every instruction of the ROM that is executed.
LEMMA RomIsIn == InDebugRom => InRom
<1> SUFFICES ASSUME InDebugRom PROVE InRom
  OBVIOUS
<1>1. PICK k \in Reached : IsNext(k)
  BY Zenon DEF InDebugRom
<1>2. \E j \in 0 .. 31 : pc = Address(j)
  <2>1. k \in 0 .. 31 /\ (k - 1 \in CsrAccess => k - 1 \in 0 .. 31) /\ 31 \in 0 .. 31
    BY SMT DEF Reached, CsrAccess
  <2> QED BY <1>1, <2>1, Zenon DEF IsNext
<1> QED BY <1>2, Zenon DEF InRom, InDebugRom

LEMMA RunningIsOut == Running => ~InRom
  BY Zenon DEF Running, Elsewhere, InRom

\* What runs outside of the ROM does not come into it but by a request.
LEMMA StaysOut ==
  ASSUME HartTypes, Running, wiring' = wiring, jump' = jump, Decode \/ Flush
  PROVE  Elsewhere'
<1>1. Elsewhere
  BY DEF Running
<1>2. CASE pc' = pc
  BY <1>1, <1>2, Zenon DEF Elsewhere, Address
<1>3. CASE Decode /\ pc' # pc
  <2>1. ctrl = "DECODE" /\ debug_mode' = debug_mode /\ depc' = depc /\ Execute(Fetched)
    <3>1. ctrl = "DECODE" /\ debug_mode' = debug_mode /\ depc' = depc
      BY <1>3 DEF Decode
    <3>2. Execute(Fetched)
      BY <1>3 DEF Decode, AcceptRequest
    <3> QED BY <3>1, <3>2
  <2> QED BY <2>1, RunningStep, Zenon DEF Running
<1>4. CASE Flush /\ pc' # pc
  <2>1. ctrl \in {"FLUSH_EX", "FLUSH_WB"} /\ Fetched.op \in {"illegal", "ecall"}
    BY <1>4, SMT DEF Running, Flush
  <2>2. AfterFlush
    BY <1>4, <2>1, SMT DEF Flush
  <2>3. ~Drains(Fetched) /\ Fetched.op # "dret"
    BY <2>1, SMT DEF Drains
  <2>4. pc' = 0
    BY <2>2, <2>3, Zenon DEF AfterFlush
  <2>5. 0 \in Nat /\ \A k \in 0 .. 31 : 0 # Address(k)
    BY Addresses, SMT
  <2> QED BY <2>4, <2>5, Zenon DEF Elsewhere, Address
<1> QED BY <1>2, <1>3, <1>4

\* Address 0 holds no program: a hart that is sent there traps to it for ever.
LEMMA StaysAtZero ==
  ASSUME HartTypes, Running, pc = 0, Decode \/ Flush
  PROVE  pc' = 0
<1>1. Fetched.op = "illegal" /\ Fetched.rd = 0
  <2>1. ~(0 >= STARTprogrammADDR)
    BY SMT DEF STARTprogrammADDR
  <2>2. ~Holds(loadProgram, STARTprogrammADDR, pc) /\ Elsewhere
    BY <2>1, Zenon DEF Holds, Running
  <2> QED BY <2>2, FetchedElsewhere, NotFromProgram, Zenon
<1>2. CASE Decode
  <2>1. Execute(Fetched) \/ pc' = pc
    BY <1>2 DEF Decode, AcceptRequest
  <2> QED BY <1>1, <2>1, RunsTrap, SMT
<1>3. CASE Flush
  <2>1. pc' = pc \/ (ctrl = "FLUSH_WB" /\ AfterFlush)
    BY <1>3, Zenon DEF Flush
  <2>2. ~Drains(Fetched) /\ Fetched.op # "dret"
    BY <1>1, SMT DEF Drains
  <2> QED BY <2>1, <2>2, Zenon DEF AfterFlush
<1> QED BY <1>2, <1>3

\* Which phase a state of the controller belongs to.
LEMMA PhaseOf ==
  ASSUME Phase
  PROVE  /\ ctrl \in {"RESET", "BOOT_SET", "FIRST_FETCH"} => Booting
         /\ ctrl \in {"DBG_FLUSH", "DBG_TAKEN_ID"} => Halting
         /\ ctrl = "XRET_JUMP" => InDebugRom
         /\ ctrl \in {"DECODE", "FLUSH_EX", "FLUSH_WB"} => Running \/ InDebugRom
<1>1. Booting => ctrl \in {"RESET", "BOOT_SET", "FIRST_FETCH"}
  BY DEF Booting
<1>2. Running => ctrl \in {"DECODE", "FLUSH_EX", "FLUSH_WB"}
  BY DEF Running
<1>3. Halting => ctrl \in {"DBG_FLUSH", "DBG_TAKEN_ID"}
  BY DEF Halting
<1>4. InDebugRom => ctrl \in {"DECODE", "FLUSH_EX", "FLUSH_WB", "XRET_JUMP"}
  <2>1. InDebugRom => \E k \in Reached : IsNext(k)
    BY Zenon DEF InDebugRom
  <2>2. \A k \in Reached : IsNext(k) => ctrl \in {"DECODE", "FLUSH_EX", "FLUSH_WB", "XRET_JUMP"}
    BY SMT DEF IsNext
  <2> QED BY <2>1, <2>2, Zenon
<1> HIDE DEF Booting, Running, Halting, InDebugRom
<1> QED BY <1>1, <1>2, <1>3, <1>4, SMT DEF Phase

\* The states of the controller a clock starts from, and what it leaves alone.
LEMMA ClockKinds ==
  ASSUME Hart
  PROVE  \/ /\ Boot
            /\ ctrl \in {"RESET", "BOOT_SET", "FIRST_FETCH"}
            /\ ctrl' \in {"RESET", "BOOT_SET", "FIRST_FETCH", "DECODE"}
            /\ UNCHANGED <<debug_mode, depc, halted>>
         \/ /\ Decode
            /\ ctrl = "DECODE" /\ ctrl' \in {"DECODE", "FLUSH_EX", "DBG_FLUSH"}
            /\ UNCHANGED <<debug_mode, depc>>
            /\ \/ halted' = halted
               \/ halted' = pc /\ ctrl' = "DBG_FLUSH" /\ pins.debug_req /\ ~debug_mode
         \/ /\ Flush
            /\ ctrl \in {"FLUSH_EX", "FLUSH_WB", "DBG_FLUSH"}
            /\ ctrl' \in {"FLUSH_WB", "DECODE", "XRET_JUMP", "DBG_TAKEN_ID"}
            /\ UNCHANGED <<debug_mode, depc, halted>>
            /\ ctrl = "DBG_FLUSH" <=> ctrl' = "DBG_TAKEN_ID"
         \/ /\ Take
            /\ ctrl = "DBG_TAKEN_ID" /\ ctrl' = "DECODE" /\ UNCHANGED halted
            /\ debug_mode' = TRUE /\ pc' = InRam(wiring.haltAddress)
            /\ depc' = depc \/ (depc' = pc /\ pins.debug_req)
         \/ /\ Return
            /\ ctrl = "XRET_JUMP" /\ ctrl' = "DECODE" /\ UNCHANGED <<depc, halted>>
            /\ debug_mode' = FALSE /\ pc' = depc
<1>1. CASE Boot
  BY <1>1, SMT DEF Boot
<1>2. CASE Decode
  <2>1. ctrl = "DECODE" /\ UNCHANGED <<debug_mode, depc>>
    BY <1>2 DEF Decode
  <2>2. CASE UNCHANGED <<ctrl, pc, halted>>
    BY <1>2, <2>1, <2>2, SMT
  <2>3. CASE pins.debug_req /\ ~debug_mode /\ AcceptRequest
    <3>1. ctrl' = "DBG_FLUSH" /\ halted' = pc
      BY <2>3 DEF AcceptRequest
    <3> QED BY <1>2, <2>1, <2>3, <3>1, Zenon
  <2>4. CASE Execute(Fetched)
    <3>1. ctrl' \in {"DECODE", "FLUSH_EX", "DBG_FLUSH"} /\ halted' = halted
      BY <2>4, SMT DEF Execute
    <3> QED BY <1>2, <2>1, <3>1, Zenon
  <2> QED BY <1>2, <2>2, <2>3, <2>4 DEF Decode
<1>3. CASE Flush
  <2>1. UNCHANGED <<debug_mode, depc, halted>>
    BY <1>3 DEF Flush
  <2>2. \/ ctrl = "FLUSH_EX" /\ ctrl' = "FLUSH_WB"
        \/ ctrl = "FLUSH_WB" /\ ctrl' \in {"DECODE", "XRET_JUMP"}
        \/ ctrl = "DBG_FLUSH" /\ ctrl' = "DBG_TAKEN_ID"
    BY <1>3, SMT DEF Flush, AfterFlush
  <2> QED BY <1>3, <2>1, <2>2, SMT
<1>4. CASE Take
  BY <1>4, SMT DEF Take
<1>5. CASE Return
  BY <1>5, SMT DEF Return
<1> QED BY <1>1, <1>2, <1>3, <1>4, <1>5 DEF Hart

LEMMA RequestedClock ==
  ASSUME HaltsAtEntry, DebugInv, ResumeInv, clockSpin
  PROVE  Requested' /\ (depc' # 0 => wiring.pulse >= 3)
<1>1. /\ FlagIsSet /\ HartTypes /\ Requested /\ (depc # 0 => wiring.pulse >= 3)
      /\ Hart /\ wiring' = wiring /\ stage' = stage /\ left > 0 /\ left' = left - 1
  BY DEF DebugInv, ResumeInv, clockSpin
<1>2. pins.debug_req => stage = "request"
  BY <1>1 DEF FlagIsSet
<1>3. wiring.pulse \in Nat /\ left \in Int
  BY <1>1, WiringTypes DEF Requested
<1>4. ctrl' = "DBG_TAKEN_ID" => ctrl = "DBG_FLUSH"
  BY <1>1, ClockKinds, SMT
<1>5. halted' = halted \/ stage = "request"
  BY <1>1, <1>2, ClockKinds, Zenon
<1>6. /\ stage \in {"reset", "idle", "run"} => halted = -1
      /\ stage = "request" =>
           /\ left <= wiring.pulse
           /\ ctrl = "DBG_FLUSH" => left <= wiring.pulse - 1
           /\ ctrl = "DBG_TAKEN_ID" => left <= wiring.pulse - 2
  BY <1>1 DEF Requested
<1>7. Requested'
  <2>1. stage' \in {"reset", "idle", "run"} => halted' = -1
    BY <1>1, <1>5, <1>6, SMT
  <2>2. stage' = "request" =>
          /\ left' <= wiring'.pulse
          /\ ctrl' = "DBG_FLUSH" => left' <= wiring'.pulse - 1
          /\ ctrl' = "DBG_TAKEN_ID" => left' <= wiring'.pulse - 2
    <3>1. PICK p : p = wiring.pulse /\ p \in Nat
      BY <1>3
    <3> QED BY <1>1, <1>3, <1>4, <1>6, <3>1, SMT
  <2>3. left' \in Int
    BY <1>1, <1>3, SMT
  <2> QED BY <2>1, <2>2, <2>3 DEF Requested
<1>8. depc' # 0 => wiring.pulse >= 3
  <2>1. depc' = depc \/ (ctrl = "DBG_TAKEN_ID" /\ pins.debug_req)
    BY <1>1, ClockKinds, Zenon
  <2>2. CASE ctrl = "DBG_TAKEN_ID" /\ pins.debug_req
    BY <1>1, <1>2, <1>3, <1>6, <2>2, SMT
  <2> QED BY <1>1, <2>1, <2>2
<1> QED BY <1>7, <1>8

LEMMA InRomClock ==
  ASSUME HaltsAtEntry, DebugInv, ResumeInv, clockSpin
  PROVE  InRom' => AtEntry'
<1> SUFFICES ASSUME InRom' PROVE AtEntry'
  OBVIOUS
<1>1. /\ HartTypes /\ Phase /\ (InRom => AtEntry)
      /\ Hart /\ wiring' = wiring /\ jump' = jump
  BY DEF DebugInv, Phase, ResumeInv, clockSpin
<1>2. PICK j \in 0 .. 31 : pc' = Address(j)
  BY Zenon DEF InRom, Address
<1>3. debug_mode'
  BY DEF InRom
<1>4. AtEntry' <=> AtEntry
  BY <1>1 DEF AtEntry, InRam
<1>5. CASE Take /\ pc' = InRam(wiring.haltAddress)
  <2>1. j = 1
    BY <1>1, <1>2, <1>5, Zenon DEF HaltsAtEntry, HartTypes
  <2>2. Address(1) = STARTdebugPROGaddr
    BY SMT DEF Address, STARTdebugPROGaddr
  <2> QED BY <1>2, <1>4, <1>5, <2>1, <2>2, Zenon DEF AtEntry
<1>6. CASE debug_mode
  <2>1. CASE InDebugRom
    BY <1>1, <1>4, <2>1, RomIsIn
  <2>2. CASE Running /\ (Decode \/ Flush)
    <3>1. Elsewhere'
      BY <1>1, <2>2, StaysOut
    <3> QED BY <1>2, <3>1, Zenon DEF Elsewhere, Address
  <2>3. ~Booting /\ ~Halting
    BY <1>6 DEF Booting, Halting
  <2>4. InDebugRom \/ (Running /\ (Decode \/ Flush)) \/ (Take /\ pc' = InRam(wiring.haltAddress))
    <3>1. /\ ctrl \in {"RESET", "BOOT_SET", "FIRST_FETCH"} => FALSE
          /\ ctrl \in {"DBG_FLUSH", "DBG_TAKEN_ID"} => FALSE
          /\ ctrl = "XRET_JUMP" => InDebugRom
          /\ ctrl \in {"DECODE", "FLUSH_EX", "FLUSH_WB"} => Running \/ InDebugRom
      BY <1>1, <2>3, PhaseOf, Zenon
    <3>2. CASE Boot /\ ctrl \in {"RESET", "BOOT_SET", "FIRST_FETCH"}
      BY <3>1, <3>2
    <3>3. CASE Decode /\ ctrl = "DECODE"
      BY <3>1, <3>3, Zenon
    <3>4. CASE Flush /\ ctrl \in {"FLUSH_EX", "FLUSH_WB", "DBG_FLUSH"}
      BY <3>1, <3>4, Zenon
    <3>5. CASE ctrl = "XRET_JUMP"
      BY <3>1, <3>5
    <3> QED BY <1>1, <3>2, <3>3, <3>4, <3>5, ClockKinds, Zenon
  <2> QED BY <1>5, <2>1, <2>2, <2>4
<1>7. debug_mode \/ (Take /\ pc' = InRam(wiring.haltAddress))
  BY <1>1, <1>3, ClockKinds, Zenon
<1> QED BY <1>5, <1>6, <1>7

LEMMA ReturnedClock ==
  ASSUME HaltsAtEntry, DebugInv, ResumeInv, clockSpin
  PROVE  Returned' => AtEntry' /\ (depc' = 0 => pc' = 0)
<1> SUFFICES ASSUME Returned' PROVE AtEntry' /\ (depc' = 0 => pc' = 0)
  OBVIOUS
<1>1. /\ HartTypes /\ FlagIsSet /\ Phase /\ (InRom => AtEntry)
      /\ Returned => AtEntry /\ (depc = 0 => pc = 0)
      /\ Hart /\ wiring' = wiring /\ jump' = jump
  BY DEF DebugInv, Phase, ResumeInv, clockSpin
<1>2. ~debug_mode' /\ halted' # -1 /\ ctrl' \in {"DECODE", "FLUSH_EX", "FLUSH_WB"}
  BY DEF Returned
<1>3. AtEntry' <=> AtEntry
  BY <1>1 DEF AtEntry, InRam
<1>4. CASE Return /\ ctrl = "XRET_JUMP" /\ pc' = depc /\ depc' = depc
  <2>1. InDebugRom
    BY <1>1, <1>4, PhaseOf
  <2> QED BY <1>1, <1>3, <1>4, <2>1, RomIsIn, Zenon
<1>5. CASE (Decode \/ Flush) /\ ~debug_mode /\ halted # -1 /\ depc' = depc
             /\ ctrl \in {"DECODE", "FLUSH_EX", "FLUSH_WB"}
  <2>1. Returned
    BY <1>5 DEF Returned
  <2>2. Running
    <3>1. ~InDebugRom
      BY <1>5, Zenon DEF InDebugRom
    <3> QED BY <1>1, <1>5, <3>1, PhaseOf
  <2>3. pc = 0 => pc' = 0
    BY <1>1, <1>5, <2>2, StaysAtZero
  <2> QED BY <1>1, <1>3, <1>5, <2>1, <2>3
<1>6. \/ Return /\ ctrl = "XRET_JUMP" /\ pc' = depc /\ depc' = depc
      \/ (Decode \/ Flush) /\ ~debug_mode /\ halted # -1 /\ depc' = depc
           /\ ctrl \in {"DECODE", "FLUSH_EX", "FLUSH_WB"}
  <2>1. ctrl \in {"RESET", "BOOT_SET", "FIRST_FETCH"} => halted = -1
    BY <1>1, PhaseOf, Zenon DEF Booting
  <2>2. CASE /\ Boot /\ ctrl \in {"RESET", "BOOT_SET", "FIRST_FETCH"}
             /\ UNCHANGED <<debug_mode, depc, halted>>
    BY <1>2, <2>1, <2>2, Zenon
  <2>3. CASE /\ Decode /\ ctrl = "DECODE" /\ UNCHANGED <<debug_mode, depc>>
             /\ (halted' = halted \/ ctrl' = "DBG_FLUSH")
    <3>1. ctrl' # "DBG_FLUSH"
      BY <1>2, SMT
    <3> QED BY <1>2, <2>3, <3>1, Zenon
  <2>4. CASE /\ Flush /\ ctrl \in {"FLUSH_EX", "FLUSH_WB", "DBG_FLUSH"}
             /\ UNCHANGED <<debug_mode, depc, halted>> /\ (ctrl = "DBG_FLUSH" <=> ctrl' = "DBG_TAKEN_ID")
    <3>1. ctrl \in {"DECODE", "FLUSH_EX", "FLUSH_WB"}
      BY <1>2, <2>4, SMT
    <3> QED BY <1>2, <2>4, <3>1, Zenon
  <2>5. CASE debug_mode' = TRUE
    BY <1>2, <2>5
  <2> QED BY <1>1, <2>2, <2>3, <2>4, <2>5, ClockKinds, Zenon
<1> QED BY <1>4, <1>5, <1>6

LEMMA ClockResume ==
  ASSUME HaltsAtEntry, DebugInv, ResumeInv, clockSpin
  PROVE  ResumeInv'
<1>1. Requested' /\ (depc' # 0 => wiring.pulse >= 3)
  BY RequestedClock
<1>2. InRom' => AtEntry'
  BY InRomClock
<1>3. Returned' => AtEntry' /\ (depc' = 0 => pc' = 0)
  BY ReturnedClock
<1>4. wiring' = wiring /\ Flag' = Flag /\ (Flag = FLAGgo => wiring.hartId = TestHart)
  BY HartMoves, Zenon DEF HartState, clockSpin, ResumeInv
<1> QED BY <1>1, <1>2, <1>3, <1>4, Zenon DEF ResumeInv

LEMMA MainResume ==
  ASSUME DebugInv, ResumeInv, main
  PROVE  ResumeInv'
<1>1. HartTypes /\ FlagIsSet /\ Phase
  BY DEF DebugInv, Phase
<1>2. UNCHANGED hartVars /\ wiring' = wiring
  <2>1. \A from, to, clocks : NextSpin(from, to, clocks) => UNCHANGED hartVars /\ wiring' = wiring
    BY DEF NextSpin
  <2> QED BY <2>1, Zenon DEF main, EndReset, EnableFetch, Request, LetResume, Finish
<1>3. ctrl' = ctrl /\ debug_mode' = debug_mode /\ pc' = pc /\ depc' = depc /\ halted' = halted
  BY <1>2 DEF hartVars
<1>4. wiring.pulse \in Nat /\ wiring.hartId \in Nat
  BY <1>1, WiringTypes
<1>5. /\ (InRom' <=> InRom) /\ (Returned' <=> Returned) /\ (AtEntry' <=> AtEntry)
  BY <1>2, <1>3, Zenon DEF InRom, Returned, AtEntry, InRam, Address
<1>6. stage = "run" => ctrl \notin {"DBG_FLUSH", "DBG_TAKEN_ID"}
  <2>1. stage = "run" => halted = -1
    BY DEF ResumeInv, Requested
  <2>2. Halting => halted \in Nat
    BY DEF Halting, Elsewhere
  <2> QED BY <1>1, <2>1, <2>2, PhaseOf, SMT
<1>7. Requested'
  <2>1. stage \in {"reset", "idle", "run"} => halted = -1
    BY DEF ResumeInv, Requested
  <2>2. \/ stage = "reset" /\ stage' = "idle" /\ left' = 5
        \/ stage = "idle" /\ stage' = "run" /\ left' = 96
        \/ stage = "run" /\ stage' = "request" /\ left' = wiring.pulse
        \/ stage = "request" /\ stage' = "resume" /\ left' = 82
        \/ stage = "resume" /\ stage' = "done" /\ left' = 0
    BY Zenon DEF main, EndReset, EnableFetch, Request, LetResume, Finish, NextSpin
  <2> QED BY <1>2, <1>3, <1>4, <1>6, <2>1, <2>2, SMT DEF Requested
<1>8. Flag' = FLAGgo => wiring.hartId = TestHart
  <2>1. Flag = FLAGgo => wiring.hartId = TestHart
    BY DEF ResumeInv
  <2>2. CASE LetResume
    <3>1. mem' = [mem EXCEPT ![FlagOf(TestHart)] = FLAGgo]
      BY <2>2 DEF LetResume, DebugFLAG
    <3>2. FlagOf(wiring.hartId) = FlagOf(TestHart) <=> wiring.hartId = TestHart
      BY <1>4, DataWords
    <3>3. FlagOf(wiring.hartId) \in DataAddresses /\ mem \in [DataAddresses -> Int]
      BY <1>1, Zenon DEF DataAddresses, HartTypes
    <3>4. FlagOf(wiring.hartId) # FlagOf(TestHart) => mem'[FlagOf(wiring.hartId)] = mem[FlagOf(wiring.hartId)]
      BY <3>1, <3>3, Zenon
    <3>5. Flag' = mem'[FlagOf(wiring.hartId)]
      BY <1>2 DEF Flag, FlagOf
    <3> QED BY <2>1, <3>2, <3>4, <3>5, Zenon DEF Flag
  <2>3. CASE EndReset \/ EnableFetch \/ Request \/ Finish
    <3>1. mem' = mem
      BY <2>3 DEF EndReset, EnableFetch, Request, Finish, Untouched
    <3>2. Flag' = Flag
      BY <1>2, <3>1 DEF Flag, FlagOf
    <3> QED BY <2>1, <3>2
  <2> QED BY <2>2, <2>3 DEF main
<1> QED BY <1>2, <1>3, <1>5, <1>7, <1>8, Zenon DEF ResumeInv

LEMMA InitResume == Init => ResumeInv
<1> SUFFICES ASSUME Init PROVE ResumeInv
  OBVIOUS
<1>1. /\ left = 5 /\ stage = "reset" /\ halted = -1 /\ depc = 0 /\ debug_mode = FALSE
      /\ mem = [a \in DataAddresses |-> 0]
  BY DEF Init
<1>2. Requested
  BY <1>1, SMT DEF Requested
<1>3. Flag = 0
  BY <1>1, Zenon DEF Flag, DataAddresses
<1>4. ~InRom /\ ~Returned
  BY <1>1 DEF InRom, Returned
<1> QED BY <1>1, <1>2, <1>3, <1>4, SMT DEF ResumeInv, FLAGgo

LEMMA StepResume == ASSUME HaltsAtEntry, DebugInv, ResumeInv, [Next]_vars PROVE ResumeInv'
<1>1. CASE UNCHANGED vars
  <2>1. UNCHANGED <<wiring, left, stage, ctrl, debug_mode, pc, depc, halted, mem>>
    BY <1>1 DEF vars, benchVars, hartVars
  <2>2. /\ (InRom' <=> InRom) /\ (Returned' <=> Returned) /\ (AtEntry' <=> AtEntry) /\ Flag' = Flag
    BY <2>1, Zenon DEF InRom, Returned, AtEntry, InRam, Address, Flag, FlagOf
  <2>3. Requested'
    BY <2>1 DEF ResumeInv, Requested
  <2> QED BY <2>1, <2>2, <2>3, Zenon DEF ResumeInv
<1>2. CASE clockSpin
  BY <1>2, ClockResume
<1>3. CASE main
  BY <1>3, MainResume
<1> QED BY <1>1, <1>2, <1>3, Zenon DEF Next

LEMMA NeedsFollow == DebugInv /\ ResumeInv => ResumeNeeds
<1> SUFFICES ASSUME DebugInv, ResumeInv, halted > 0, ~debug_mode, pc > halted
             PROVE  Agrees /\ wiring.pulse >= 3
  BY DEF ResumeNeeds, Resumed
<1>1. halted \in Nat \cup {-1}
  BY DEF DebugInv, HartTypes
<1>2. halted # -1 /\ halted \in Nat
  BY <1>1, SMT
<1>3. Running
  <2>1. ~Booting /\ ~InDebugRom
    BY <1>2, Zenon DEF Booting, InDebugRom
  <2>2. ~Halting
    BY <1>2, SMT DEF Halting
  <2> QED BY <2>1, <2>2 DEF DebugInv
<1>4. Returned /\ Flag = FLAGgo
  BY <1>2, <1>3, Zenon DEF Running, Returned
<1>5. AtEntry /\ wiring.hartId = TestHart /\ (depc = 0 => pc = 0) /\ (depc # 0 => wiring.pulse >= 3)
  BY <1>4, Zenon DEF ResumeInv
<1>6. depc # 0
  BY <1>2, <1>5, SMT
<1> QED BY <1>5, <1>6 DEF Agrees, AtEntry

(***************************************************************************)
(* The program goes on behind the instruction at which it was halted only  *)
(* if the core halts at the ROM's entry, is the hart that main flags, and  *)
(* the request is up for three clocks: the return address is saved two     *)
(* clocks after it was accepted (riscv_controller.sv, DBG_TAKEN_ID).       *)
(***************************************************************************)
THEOREM ResumesOnlyAsMeant == ASSUME HaltsAtEntry PROVE Spec => []ResumeNeeds
<1>1. DebugInv /\ ResumeInv /\ [Next]_vars => DebugInv' /\ ResumeInv'
  BY StepDebugInv, StepResume
<1> QED BY <1>1, InitDebugInv, InitResume, NeedsFollow, PTL DEF Spec
===============================================================================
