------------------------ MODULE MemoryPipelineProofs ------------------------
(***************************************************************************)
(* Theorems about MemoryPipeline, for every program, memory size and       *)
(* number of instructions: the registers keep their types, the request     *)
(* machine waits exactly while an answer is owed, the two write ports of   *)
(* the register file never meet, loads stay in order, and the pipeline     *)
(* implements the machine that executes one instruction at a time.         *)
(*                                                                         *)
(* The inductive invariant adds to the properties what the ID/EX registers *)
(* say about each other (Stage) and that a load in WB still owns the write *)
(* address register of EX unless another load has taken it (Owner): this   *)
(* is why comparing with that one register is enough to hold back the      *)
(* instruction in ID.  For the refinement it adds where the first half of  *)
(* a split access is while the second one is in EX (SplitInv).             *)
(***************************************************************************)
EXTENDS MemoryPipeline, TLAPS

ExType ==
    [req : BOOLEAN, we : BOOLEAN, type : Types, sext : BOOLEAN, wdata : Word,
     opA : Address, opB : Address, useincr : BOOLEAN, mis : BOOLEAN, lsuwe : BOOLEAN,
     waddr : DataRegs \cup {X0}, aluwe : BOOLEAN,
     aludst : DataRegs \cup {X0, Base}, word : Word, branch : BOOLEAN]

Stage ==
    /\ ex.lsuwe => ex.req /\ ~ex.we
    /\ ex.branch => ~ex.req

Owner == wb.we /\ ~ex.lsuwe => wb.reg = ex.waddr

Counted == id # Bubble => issued < MaxIssued

IInv == OneAnswerOwed /\ NoWriteConflict /\ LoadsAreInOrder /\ Stage /\ Owner

-----------------------------------------------------------------------------
(* Types of the values a cycle computes.                                   *)

LEMMA AddressMod == \A n \in Nat : n % AddrSpace \in Address
BY AddrSpaceAssumption DEF Address

LEMMA ZeroIsWord == Zero \in Word
BY DEF Zero, Word, Byte, Lane

LEMMA WordIndex == ASSUME NEW a \in Address, NEW l \in Lane
                   PROVE  a - (a % 4) + l \in Address
<1> DEFINE k == AddrSpace \div 4
           m == a \div 4
<1>1. k \in Nat /\ AddrSpace = 4 * k
  BY AddrSpaceAssumption
<1>2. m \in Nat /\ a = 4 * m + (a % 4) /\ a % 4 \in 0..3
  BY AddrSpaceAssumption DEF Address
<1>3. a < AddrSpace /\ AddrSpace \in Nat /\ l \in 0..3
  BY AddrSpaceAssumption DEF Address, Lane
<1> HIDE DEF k, m
<1>4. 4 * m + l < 4 * k
  BY <1>1, <1>2, <1>3
<1> QED BY <1>1, <1>2, <1>3, <1>4 DEF Address

LEMMA AddrTyped == ASSUME ex \in ExType
                   PROVE  DataAddr(ex) \in Address /\ Offset(ex) \in Lane /\ AluAddress \in Address
<1>1. (ex.opA + ex.opB) % AddrSpace \in Address
  BY AddressMod, AddrSpaceAssumption DEF ExType, Address
<1>2. DataAddr(ex) \in Address
  BY <1>1 DEF DataAddr, ExType
<1> QED BY <1>1, <1>2, AddrSpaceAssumption DEF Offset, Lane, Address, AluAddress

LEMMA WriteDataTyped == ASSUME ex \in ExType PROVE WriteData(ex) \in Word
<1>1. \A l \in Lane : (l + 4 - Offset(ex)) % 4 \in Lane
  BY AddrTyped DEF Lane
<1> QED BY <1>1 DEF WriteData, Word, ExType

LEMMA ExtendedTyped == ASSUME LsuTypeOK, NEW rdata \in Word PROVE Extended(rdata) \in Word
<1> DEFINE split   == (q.type = "W" /\ q.off # 0) \/ (q.type = "H" /\ q.off = 3)
           lane(i) == IF q.off + i > 3 THEN rdata[q.off + i - 4]
                      ELSE IF split THEN held[q.off + i] ELSE rdata[q.off + i]
           size    == CASE q.type = "W" -> 4 [] q.type = "H" -> 2 [] q.type = "B" -> 1
           fill    == IF q.sext /\ lane(size - 1) >= 128 THEN 255 ELSE 0
<1>1. q.off \in 0..3
  BY DEF LsuTypeOK, Lane
<1>2. \A i \in 0..3 : lane(i) \in Byte
  BY <1>1 DEF LsuTypeOK, Word, Lane
<1>3. fill \in Byte
  BY DEF Byte
<1> HIDE DEF lane, fill, size
<1>4. [i \in Lane |-> IF i < size THEN lane(i) ELSE fill] \in Word
  BY <1>2, <1>3 DEF Word, Lane
<1> QED BY <1>4 DEF Extended, lane, fill, size

LEMMA RdataTyped == ASSUME TypeOK, NEW v \in BOOLEAN PROVE RdataEx(v, bus.word) \in Word
BY ExtendedTyped DEF TypeOK, LsuTypeOK, RdataEx

LEMMA ReadsTyped == ASSUME TypeOK, NEW v \in BOOLEAN
                    PROVE  /\ \A r \in DataRegs : ReadData(r, v) \in Word
                           /\ ReadBase \in Address
BY RdataTyped, AddrTyped DEF TypeOK, ExType, ReadData, ReadBase

LEMMA MemoryTyped == ASSUME TypeOK PROVE Written \in [Address -> Byte] /\ ReadWord \in Word
<1>1. ex \in ExType
  BY DEF TypeOK, ExType
<1>2. \A k \in Address : k % 4 \in Lane
  BY AddrSpaceAssumption DEF Address, Lane
<1>3. Written \in [Address -> Byte]
  BY <1>1, <1>2, WriteDataTyped DEF Written, TypeOK, Word
<1>4. \A l \in Lane : WordAddr + l \in Address
  BY <1>1, AddrTyped, WordIndex DEF WordAddr, Offset
<1> QED BY <1>3, <1>4 DEF ReadWord, TypeOK, Word

LEMMA IdleTyped == \A w \in DataRegs \cup {X0} : Idle(w) \in ExType
BY ZeroIsWord, AddrSpaceAssumption DEF Idle, ExType, Types, Address

LEMMA SecondHalfTyped == ASSUME ex \in ExType PROVE SecondHalf \in ExType
<1>1. AluAddress \in Address /\ 4 \in Address
  BY AddrTyped, AddrSpaceAssumption DEF Address
<1> QED BY <1>1 DEF SecondHalf, ExType

LoadEx(r, type, sext, opA, opB, useincr, aluwe, dst) ==
    [r EXCEPT !.req = TRUE, !.type = type, !.sext = sext, !.opA = opA, !.opB = opB,
              !.useincr = useincr, !.lsuwe = TRUE, !.aluwe = aluwe, !.aludst = dst]

LEMMA LoadTyped ==
    ASSUME NEW r \in ExType, NEW type \in Types, NEW sext \in BOOLEAN, NEW opA \in Address,
           NEW opB \in Address, NEW u \in BOOLEAN, NEW post \in BOOLEAN,
           NEW dst \in DataRegs \cup {X0, Base}
    PROVE  LoadEx(r, type, sext, opA, opB, u, post, dst) \in ExType
BY DEF LoadEx, ExType

StoreEx(r, type, wdata, opA, opB, useincr, aluwe, dst) ==
    [r EXCEPT !.req = TRUE, !.we = TRUE, !.type = type, !.wdata = wdata, !.opA = opA,
              !.opB = opB, !.useincr = useincr, !.aluwe = aluwe, !.aludst = dst]

LEMMA StoreTyped ==
    ASSUME NEW r \in ExType, NEW type \in Types, NEW wdata \in Word, NEW opA \in Address,
           NEW opB \in Address, NEW u \in BOOLEAN, NEW post \in BOOLEAN,
           NEW dst \in DataRegs \cup {X0, Base}
    PROVE  StoreEx(r, type, wdata, opA, opB, u, post, dst) \in ExType
BY DEF StoreEx, ExType

LEMMA LoadedTyped == ASSUME TypeOK, NEW v \in BOOLEAN, NEW i \in Fetched, i # Bubble
                     PROVE  Loaded(i, v) \in ExType
<1>1. i \in Instruction /\ ex.waddr \in DataRegs \cup {X0}
  BY ProgramAssumption DEF Fetched, TypeOK
<1>2. /\ ReadBase \in Address
      /\ \A r \in DataRegs : ReadData(r, v) \in Word
      /\ \A w \in DataRegs \cup {X0} : Idle(w) \in ExType
  BY ReadsTyped, IdleTyped
<1>3. CASE i.op = "load"
  <2>1. i.type \in Types /\ i.sext \in BOOLEAN /\ i.post \in BOOLEAN /\ i.off \in Address /\ i.reg \in DataRegs
    BY <1>1, <1>3 DEF Instruction
  <2>2. AluDst(i) \in DataRegs \cup {X0, Base}
    BY <1>3, <2>1 DEF AluDst
  <2> DEFINE u == IF i.post THEN FALSE ELSE TRUE
  <2>3. u \in BOOLEAN
    OBVIOUS
  <2>4. Loaded(i, v) = LoadEx(Idle(i.reg), i.type, i.sext, ReadBase, i.off, u, i.post, AluDst(i))
    BY <1>3 DEF Loaded, LoadEx
  <2> HIDE DEF u
  <2> QED BY <1>2, <2>1, <2>2, <2>3, <2>4, LoadTyped
<1>4. CASE i.op = "store"
  <2>1. i.type \in Types /\ i.post \in BOOLEAN /\ i.off \in Address /\ i.reg \in DataRegs
    BY <1>1, <1>4 DEF Instruction
  <2>2. AluDst(i) \in DataRegs \cup {X0, Base}
    BY <1>4, <2>1 DEF AluDst
  <2> DEFINE u == IF i.post THEN FALSE ELSE TRUE
  <2>3. u \in BOOLEAN
    OBVIOUS
  <2>4. Loaded(i, v) = StoreEx(Idle(ex.waddr), i.type, ReadData(i.reg, v), ReadBase, i.off,
                               u, i.post, AluDst(i))
    BY <1>4 DEF Loaded, StoreEx
  <2> HIDE DEF u
  <2> QED BY <1>1, <1>2, <2>1, <2>2, <2>3, <2>4, StoreTyped
<1>5. CASE i.op = "move"
  <2>1. i.dst \in DataRegs /\ i.src \in DataRegs
    BY <1>1, <1>5 DEF Instruction
  <2>2. Loaded(i, v) = [Idle(ex.waddr) EXCEPT !.word = ReadData(i.src, v), !.aluwe = TRUE, !.aludst = i.dst]
    BY <1>5 DEF Loaded
  <2> QED BY <1>1, <1>2, <2>1, <2>2 DEF ExType
<1>6. CASE i.op = "point"
  <2>1. i.val \in Address
    BY <1>1, <1>6 DEF Instruction
  <2>2. Loaded(i, v) = [Idle(ex.waddr) EXCEPT !.opA = i.val, !.aluwe = TRUE, !.aludst = Base]
    BY <1>6 DEF Loaded
  <2> QED BY <1>1, <1>2, <2>1, <2>2 DEF ExType
<1>7. CASE i.op = "branch"
  <2>1. Loaded(i, v) = [Idle(ex.waddr) EXCEPT !.branch = TRUE]
    BY <1>7 DEF Loaded
  <2> QED BY <1>1, <1>2, <2>1 DEF ExType
<1> QED BY <1>1, <1>3, <1>4, <1>5, <1>6, <1>7 DEF Instruction

LEMMA NextExTyped == ASSUME TypeOK, NEW g \in BOOLEAN, NEW v \in BOOLEAN
                     PROVE  NextEx(g, v) \in ExType
<1>1. ex \in ExType /\ ex.waddr \in DataRegs \cup {X0} /\ id \in Fetched
  BY DEF TypeOK, ExType
<1>2. Loaded(id, v) \in ExType
  <2>1. CASE id = Bubble
    BY <1>1, <2>1, IdleTyped DEF Loaded, Bubble
  <2> QED BY <1>1, <2>1, LoadedTyped
<1> QED BY <1>1, <1>2, IdleTyped, SecondHalfTyped DEF NextEx

(* The registers keep their types.                                         *)
LEMMA TypeInit == Init => TypeOK /\ Counted
BY ProgramAssumption, AddrSpaceAssumption, ZeroIsWord, IdleTyped
   DEF Init, TypeOK, Counted, ExType, LsuInit, LsuTypeOK, LsuStates, Types, Lane, Fetched, None, Address

LEMMA TypeStep == ASSUME TypeOK, Counted, [Next]_vars PROVE TypeOK' /\ Counted'
<1>1. CASE UNCHANGED vars
  BY <1>1 DEF vars, lsuVars, TypeOK, LsuTypeOK, Counted
<1>2. ASSUME NEW g \in BOOLEAN, NEW v \in BOOLEAN, NEW n \in Fetched, Cycle(g, v, n)
               PROVE  TypeOK' /\ Counted'
  <2> USE <1>2 DEF Cycle
  <2>1. ex \in ExType /\ bus.word \in Word
    BY DEF TypeOK, ExType
  <2>2. LsuTypeOK'
    <3>1. CS' \in LsuStates
      BY DEF LsuCycle, NextCS, TypeOK, LsuTypeOK, LsuStates
    <3>2. q' \in [type : Types, off : Lane, sext : BOOLEAN, we : BOOLEAN]
      BY <2>1, AddrTyped DEF LsuCycle, TypeOK, LsuTypeOK, ExType
    <3>3. held' \in Word
      BY <2>1, ExtendedTyped DEF LsuCycle, Held, TypeOK, LsuTypeOK
    <3> QED BY <3>1, <3>2, <3>3 DEF LsuTypeOK
  <2>3. ex' \in ExType
    BY NextExTyped
  <2>4. wb' \in [we : BOOLEAN, reg : DataRegs \cup {X0}]
    BY DEF NextWb, TypeOK
  <2>5. data' \in [DataRegs -> Word]
    BY <2>1, RdataTyped DEF NextData, TypeOK, ExType
  <2>6. base' \in Address
    BY <2>1, AddrTyped DEF NextBase, TypeOK
  <2>7. mem' \in [Address -> Byte] /\ bus' \in [owed : BOOLEAN, word : Word]
    BY MemoryTyped, ZeroIsWord DEF Memory, TypeOK, Owed, None
  <2>8. issued' \in 0..MaxIssued
    <3>1. issued' = issued \/ (issued < MaxIssued /\ issued' = issued + 1)
      BY DEF Counted
    <3> QED BY <3>1, ProgramAssumption DEF TypeOK
  <2>9. id' \in Fetched
    BY DEF TypeOK
  <2>10. Counted'
    BY DEF Counted
  <2> QED BY <2>10, <2>2, <2>3, <2>4, <2>5, <2>6, <2>7, <2>8, <2>9 DEF TypeOK, ExType
<1> QED BY <1>1, <1>2 DEF Next

(* The registers of the pipeline and the memory keep their types.          *)
THEOREM TypeCorrect == Spec => []TypeOK
<1>1. Init => TypeOK /\ Counted
  BY TypeInit
<1>2. TypeOK /\ Counted /\ [Next]_vars => TypeOK' /\ Counted'
  BY TypeStep
<1> QED BY <1>1, <1>2, PTL DEF Spec

-----------------------------------------------------------------------------
(* The inductive invariant.                                                *)

LEMMA IInvInit == Init => IInv
BY DEF Init, LsuInit, IInv, OneAnswerOwed, NoWriteConflict, LoadsAreInOrder, Stage, Owner,
       Idle, None

(* When EX moves on because nothing holds it back, an access in it has     *)
(* been granted.                                                           *)
LEMMA GrantedWhenReady ==
    ASSUME TypeOK, OneAnswerOwed, NEW g \in BOOLEAN, NEW v \in BOOLEAN,
           g => DataReq(ex, v), ExReadyLsu(g, v), ex.req
    PROVE  g
BY DEF ExReadyLsu, ReadyEx, ReadyWb, DataReq, OneAnswerOwed

(* A grant means EX moves on.                                              *)
LEMMA ReadyWhenGranted ==
    ASSUME TypeOK, OneAnswerOwed, NEW g \in BOOLEAN, NEW v \in BOOLEAN, DataReq(ex, v), g
    PROVE  ExReadyLsu(g, v)
BY DEF ExReadyLsu, ReadyEx, ReadyWb, DataReq, OneAnswerOwed

(* What an instruction leaving ID says in the ID/EX registers.             *)
LEMMA LoadedStage ==
    ASSUME TypeOK, NEW v \in BOOLEAN
    PROVE  /\ Loaded(id, v).lsuwe => Loaded(id, v).req /\ ~Loaded(id, v).we
           /\ Loaded(id, v).branch => ~Loaded(id, v).req
           /\ ~Loaded(id, v).mis
           /\ ~Loaded(id, v).lsuwe => Loaded(id, v).waddr = ex.waddr
           /\ Loaded(id, v).aluwe => AluWe(id) /\ Loaded(id, v).aludst = AluDst(id)
<1>1. id = Bubble \/ id \in Instruction
  BY ProgramAssumption DEF TypeOK, Fetched
<1>2. CASE id.op = "load"
  BY <1>1, <1>2, ProgramAssumption DEF Loaded, Idle, AluWe, AluDst, Bubble, Instruction, Base, X0
<1>3. CASE id.op = "store"
  BY <1>1, <1>3, ProgramAssumption DEF Loaded, Idle, AluWe, AluDst, Bubble, Instruction, Base, X0
<1>4. CASE id.op = "move"
  <2>1. id.dst \in DataRegs
    BY <1>1, <1>4 DEF Instruction, Bubble
  <2>2. id.dst # X0 /\ AluDst(id) = id.dst
    BY <1>4, <2>1, ProgramAssumption DEF AluDst
  <2> QED BY <1>4, <2>2 DEF Loaded, Idle, AluWe
<1>5. CASE id.op = "point"
  BY <1>1, <1>5, ProgramAssumption DEF Loaded, Idle, AluWe, AluDst, Bubble, Instruction, Base, X0
<1>6. CASE id.op \in {"branch", "none"}
  BY <1>1, <1>6, ProgramAssumption DEF Loaded, Idle
<1> QED BY <1>1, <1>2, <1>3, <1>4, <1>5, <1>6 DEF Bubble, Instruction

LEMMA IInvStep ==
    ASSUME TypeOK, IInv, NEW g \in BOOLEAN, NEW v \in BOOLEAN, NEW n \in Fetched, Cycle(g, v, n)
    PROVE  IInv'
<1>1. v => bus.owed
  BY DEF Cycle
<1>2. g => DataReq(ex, v)
  BY DEF Cycle
<1>3. OneAnswerOwed'
  <2>1. CASE g
    <3>1. ExReadyLsu(g, v)
      BY <1>2, <2>1, ReadyWhenGranted DEF IInv
    <3>2. DataReq(ex, v)
      BY <1>2, <2>1
    <3>3. CS' = "WAIT_RVALID"
      <4>1. CS' = NextCS(ex, g, v, TRUE) /\ CS \in {"IDLE", "WAIT_RVALID"}
        BY <3>1 DEF Cycle, LsuCycle, ExValid, IInv, OneAnswerOwed
      <4> QED BY <2>1, <3>2, <4>1 DEF NextCS
    <3>4. bus'.owed
      BY <2>1 DEF Cycle, Memory, Owed
    <3> QED BY <3>3, <3>4 DEF OneAnswerOwed
  <2>2. CASE ~g
    BY <1>1, <2>2 DEF Cycle, LsuCycle, NextCS, Memory, None, IInv, OneAnswerOwed
  <2> QED BY <2>1, <2>2
<1>4. ex' = NextEx(g, v) /\ wb' = NextWb(g, v)
  BY DEF Cycle
<1>5. SecondHalf.req = ex.req /\ SecondHalf.we = ex.we /\ SecondHalf.lsuwe = ex.lsuwe
      /\ SecondHalf.waddr = ex.waddr /\ SecondHalf.branch = ex.branch /\ ~SecondHalf.aluwe
  BY DEF SecondHalf, TypeOK
<1>6. \/ Misaligned(ex) /\ ExReady(g, v) /\ ex' = SecondHalf
      \/ ~Misaligned(ex) /\ IdValid(g, v) /\ ex' = Loaded(id, v)
      \/ ExReady(g, v) /\ ex' = Idle(ex.waddr)
      \/ ~ExReady(g, v) /\ ex' = ex
  BY <1>4 DEF NextEx
<1>7. Stage'
  BY <1>5, <1>6, LoadedStage DEF IInv, Stage, Idle
<1>8. \/ ExReadyLsu(g, v) /\ wb'.we = ex.lsuwe /\ (ex.lsuwe => wb'.reg = ex.waddr)
      \/ ~ExReadyLsu(g, v) /\ ReadyWb(v) /\ ~wb'.we
      \/ ~ExReadyLsu(g, v) /\ ~ReadyWb(v) /\ wb' = wb
  BY <1>4 DEF NextWb, ExValid, TypeOK
(* The instruction that leaves ID respects the load that stays behind it.  *)
<1>9. IdValid(g, v) /\ wb'.we => ~AluWe(id) \/ AluDst(id) # wb'.reg
  <2>1. CASE ExReadyLsu(g, v)
    BY <1>8, <2>1 DEF IdValid, LoadStall, IInv, Stage
  <2>2. CASE ~ExReadyLsu(g, v)
    <3>1. IdValid(g, v) => ex.branch
      BY <2>2 DEF IdValid, ExReady
    <3>2. ex.branch => ~ex.lsuwe
      BY DEF IInv, Stage
    <3> QED BY <1>8, <2>2, <3>1, <3>2 DEF IdValid, LoadStall, IInv, Owner
  <2> QED BY <2>1, <2>2
<1>10. NoWriteConflict'
  <2>1. CASE Misaligned(ex) /\ ExReady(g, v) /\ ex' = SecondHalf
    BY <1>5, <2>1 DEF NoWriteConflict
  <2>2. CASE IdValid(g, v) /\ ex' = Loaded(id, v)
    BY <1>9, <2>2, LoadedStage DEF NoWriteConflict
  <2>3. CASE ex' = Idle(ex.waddr)
    BY <2>3 DEF NoWriteConflict, Idle
  <2>4. CASE ~ExReady(g, v) /\ ex' = ex
    BY <1>8, <2>4 DEF ExReady, NoWriteConflict, IInv
  <2> QED BY <1>6, <2>1, <2>2, <2>3, <2>4
<1>11. Owner'
  <2>1. wb'.we => wb'.reg = ex.waddr \/ ex.lsuwe
    BY <1>8 DEF IInv, Owner
  <2>2. wb'.we /\ ex.lsuwe /\ ~ExReadyLsu(g, v) => ex' = ex
    BY <1>6 DEF IInv, Stage, ExReady, IdValid
  <2>3. wb'.we /\ ExReadyLsu(g, v) => wb'.reg = ex.waddr
    BY <1>8
  <2>4. ex'.lsuwe \/ ex'.waddr = ex.waddr
    BY <1>5, <1>6, LoadedStage DEF Idle
  <2> QED BY <2>1, <2>2, <2>3, <2>4 DEF Owner
<1>12. LoadsAreInOrder'
  <2>1. wb'.we => bus'.owed /\ ~q'.we
    <3>1. CASE ExReadyLsu(g, v)
      BY <1>2, <1>8, <3>1, GrantedWhenReady
         DEF Cycle, LsuCycle, Memory, Owed, IInv, Stage
    <3>2. CASE ~ExReadyLsu(g, v) /\ ReadyWb(v)
      BY <1>8, <3>2
    <3>3. CASE ~ExReadyLsu(g, v) /\ ~ReadyWb(v)
      <4>1. ~g /\ ~v
        BY <1>2, <3>3, ReadyWhenGranted DEF IInv, ReadyWb
      <4> QED BY <1>8, <3>3, <4>1 DEF Cycle, LsuCycle, Memory, IInv, LoadsAreInOrder
    <3> QED BY <3>1, <3>2, <3>3
  <2>2. ex'.req /\ ex'.mis /\ ex'.lsuwe /\ bus'.owed => wb'.we /\ wb'.reg = ex'.waddr
    <3>1. CASE Misaligned(ex) /\ ExReady(g, v) /\ ex' = SecondHalf
      <4>1. ExReadyLsu(g, v)
        BY <3>1 DEF ExReady, Misaligned, IInv, Stage
      <4> QED BY <1>5, <1>8, <3>1, <4>1
    <3>2. CASE ex' = Loaded(id, v)
      BY <3>2, LoadedStage
    <3>3. CASE ex' = Idle(ex.waddr)
      BY <3>3 DEF Idle
    <3>4. CASE ~ExReady(g, v) /\ ex' = ex
      <4>1. ~g
        BY <1>2, <3>4, ReadyWhenGranted DEF IInv, ExReady
      <4>2. bus'.owed => ~v /\ bus.owed
        BY <4>1 DEF Cycle, Memory, None
      <4>3. bus'.owed => ~ReadyWb(v)
        BY <4>2 DEF IInv, OneAnswerOwed, ReadyWb
      <4> QED BY <1>8, <3>4, <4>2, <4>3 DEF ExReady, IInv, LoadsAreInOrder
    <3> QED BY <1>6, <3>1, <3>2, <3>3, <3>4
  <2> QED BY <2>1, <2>2 DEF LoadsAreInOrder
<1> QED BY <1>3, <1>7, <1>10, <1>11, <1>12 DEF IInv

LEMMA IInvHolds == Spec => []IInv
<1>1. TypeOK /\ IInv /\ [Next]_vars => IInv'
  <2>1. IInv /\ UNCHANGED vars => IInv'
    BY DEF vars, lsuVars, IInv, OneAnswerOwed, NoWriteConflict, LoadsAreInOrder, Stage, Owner
  <2> QED BY <2>1, IInvStep DEF Next
<1> QED BY <1>1, IInvInit, TypeCorrect, PTL DEF Spec

(* The unit waits exactly while the memory owes it an answer, and never    *)
(* enters the states for a stall of EX.                                    *)
THEOREM AnswersAreTracked == Spec => []OneAnswerOwed
<1>1. IInv => OneAnswerOwed
  BY DEF IInv
<1> QED BY <1>1, IInvHolds, PTL

(* The load stall keeps the two write ports of the register file apart.    *)
THEOREM WritesDoNotConflict == Spec => []NoWriteConflict
<1>1. IInv => NoWriteConflict
  BY DEF IInv
<1> QED BY <1>1, IInvHolds, PTL

(* Loads wait for their own answers, and the halves of a split load follow *)
(* each other.                                                             *)
THEOREM LoadsStayInOrder == Spec => []LoadsAreInOrder
<1>1. IInv => LoadsAreInOrder
  BY DEF IInv
<1> QED BY <1>1, IInvHolds, PTL

-----------------------------------------------------------------------------
(* Byte addresses: words, lanes, and the places of the bytes of an access. *)

(* The address of the word of a byte, and the place of byte k in an access *)
(* that begins at address a.                                               *)
First(a)    == a - (a % 4)
After(a)    == (a + 4) % AddrSpace
Place(k, a) == (k + AddrSpace - a) % AddrSpace

(* An access of a type at an offset crosses a word boundary.               *)
Crosses(type, o) == (type = "W" /\ o # 0) \/ (type = "H" /\ o = 3)

LEMMA WrapSmall == \A n \in Nat : n < AddrSpace => n % AddrSpace = n
BY AddrSpaceAssumption

LEMMA WrapLarge == \A n \in Nat : AddrSpace <= n /\ n < 2 * AddrSpace => n % AddrSpace = n - AddrSpace
BY AddrSpaceAssumption

LEMMA Words == \E c \in Nat : AddrSpace = 4 * c /\ c > 1
<1> DEFINE c == AddrSpace \div 4
<1>1. c \in Nat /\ AddrSpace = 4 * c
  BY AddrSpaceAssumption
<1> HIDE DEF c
<1>2. c > 1
  BY <1>1, AddrSpaceAssumption
<1> QED BY <1>1, <1>2

LEMMA WordOf == ASSUME NEW a \in Address
                PROVE  \E m \in Nat, o \in 0..3 : a = 4 * m + o /\ a % 4 = o /\ First(a) = 4 * m
BY AddrSpaceAssumption DEF Address, First

LEMMA RestOf == \A m \in Nat, o \in 0..3 : (4 * m + o) % 4 = o
OBVIOUS

(* The word after that of an address, and the bytes that follow a byte.    *)
LEMMA AfterWord ==
    ASSUME NEW a \in Address
    PROVE  /\ After(a) \in Address
           /\ After(a) % 4 = a % 4
           /\ (After(a) + AddrSpace - 4) % AddrSpace = a
           /\ \A i \in 0..3 : (a + i) % AddrSpace =
                  IF (a % 4) + i > 3 THEN First(After(a)) + ((a % 4) + i - 4)
                  ELSE First(a) + ((a % 4) + i)
<1>1. PICK c \in Nat : AddrSpace = 4 * c /\ c > 1
  BY Words
<1>2. PICK m \in Nat, o \in 0..3 : a = 4 * m + o /\ a % 4 = o /\ First(a) = 4 * m
  BY WordOf
<1>3. m < c /\ a < AddrSpace /\ a \in Nat
  BY <1>1, <1>2 DEF Address
<1>4. CASE m + 1 < c
  <2>1. After(a) = 4 * (m + 1) + o
    BY <1>1, <1>2, <1>4, WrapSmall DEF After
  <2>2. After(a) % 4 = o
    BY <1>2, <2>1, RestOf
  <2>3. (After(a) + AddrSpace - 4) % AddrSpace = a
    BY <1>1, <1>2, <1>3, <2>1, WrapLarge
  <2>4. \A i \in 0..3 : (a + i) % AddrSpace = a + i
    BY <1>1, <1>2, <1>4, WrapSmall
  <2> QED BY <1>1, <1>2, <1>4, <2>1, <2>2, <2>3, <2>4 DEF First, Address
<1>5. CASE m + 1 = c
  <2>1. After(a) = o
    BY <1>1, <1>2, <1>5, WrapLarge DEF After
  <2>2. After(a) % 4 = o
    BY <1>2, <2>1
  <2>3. (After(a) + AddrSpace - 4) % AddrSpace = a
    BY <1>1, <1>2, <1>5, <2>1, WrapSmall
  <2>4. ASSUME NEW i \in 0..3 PROVE (a + i) % AddrSpace = IF o + i > 3 THEN o + i - 4 ELSE a + i
    BY <1>1, <1>2, <1>5, WrapSmall, WrapLarge
  <2> QED BY <1>1, <1>2, <1>5, <2>1, <2>2, <2>3, <2>4 DEF First, Address
<1> QED BY <1>1, <1>3, <1>4, <1>5

(* The four bytes from an address on lie in its word and in the next, and  *)
(* their lanes tell their places.                                          *)
LEMMA PlaceOf ==
    ASSUME NEW a \in Address, NEW k \in Address
    PROVE  /\ Place(k, a) \in Nat
           /\ First(k) = First(a) /\ k % 4 >= a % 4 => Place(k, a) = (k % 4) - (a % 4)
           /\ First(k) = First(After(a)) /\ k % 4 < a % 4 => Place(k, a) = (k % 4) + 4 - (a % 4)
           /\ Place(k, a) < 4 => \/ First(k) = First(a) /\ k % 4 >= a % 4
                                 \/ First(k) = First(After(a)) /\ k % 4 < a % 4
<1>1. PICK c \in Nat : AddrSpace = 4 * c /\ c > 1
  BY Words
<1>2. PICK m \in Nat, o \in 0..3 : a = 4 * m + o /\ a % 4 = o /\ First(a) = 4 * m
  BY WordOf
<1>3. PICK n \in Nat, l \in 0..3 : k = 4 * n + l /\ k % 4 = l /\ First(k) = 4 * n
  BY WordOf
<1>4. m < c /\ n < c /\ a < AddrSpace /\ k < AddrSpace
  BY <1>1, <1>2, <1>3 DEF Address
<1>5. Place(k, a) = IF k >= a THEN k - a ELSE k + AddrSpace - a
  <2>1. CASE k >= a
    BY <1>1, <1>2, <1>3, <1>4, <2>1, WrapLarge DEF Place
  <2>2. CASE k < a
    BY <1>1, <1>2, <1>3, <1>4, <2>2, WrapSmall DEF Place
  <2> QED BY <1>2, <1>3, <2>1, <2>2
<1>6. First(After(a)) = IF m + 1 < c THEN 4 * (m + 1) ELSE 0
  <2>1. CASE m + 1 < c
    <3>1. After(a) = 4 * (m + 1) + o
      BY <1>1, <1>2, <2>1, WrapSmall DEF After
    <3>2. After(a) % 4 = o
      BY <1>2, <3>1, RestOf
    <3> QED BY <1>2, <2>1, <3>1, <3>2 DEF First
  <2>2. CASE m + 1 = c
    <3>1. After(a) = o
      BY <1>1, <1>2, <2>2, WrapLarge DEF After
    <3> QED BY <1>2, <2>2, <3>1 DEF First
  <2> QED BY <1>1, <1>4, <2>1, <2>2
<1>7. Place(k, a) \in Nat
  BY <1>1, <1>2, <1>3, <1>4, <1>5
<1>8. First(k) = First(a) /\ k % 4 >= a % 4 => Place(k, a) = (k % 4) - (a % 4)
  BY <1>1, <1>2, <1>3, <1>4, <1>5
<1>9. First(k) = First(After(a)) /\ k % 4 < a % 4 => Place(k, a) = (k % 4) + 4 - (a % 4)
  BY <1>1, <1>2, <1>3, <1>4, <1>5, <1>6
<1>10. Place(k, a) < 4 => \/ First(k) = First(a) /\ k % 4 >= a % 4
                          \/ First(k) = First(After(a)) /\ k % 4 < a % 4
  BY <1>1, <1>2, <1>3, <1>4, <1>5, <1>6
<1> QED BY <1>7, <1>8, <1>9, <1>10

-----------------------------------------------------------------------------
(* Loads: what the unit joins is what the instruction promises.            *)

(* The answer joined to the lanes held, as a function of the registers.    *)
Joined(r, h, rdata) ==
    LET split   == (r.type = "W" /\ r.off # 0) \/ (r.type = "H" /\ r.off = 3)
        lane(i) == IF r.off + i > 3 THEN rdata[r.off + i - 4]
                   ELSE IF split THEN h[r.off + i] ELSE rdata[r.off + i]
        size    == CASE r.type = "W" -> 4 [] r.type = "H" -> 2 [] r.type = "B" -> 1
        fill    == IF r.sext /\ lane(size - 1) >= 128 THEN 255 ELSE 0
    IN  [i \in Lane |-> IF i < size THEN lane(i) ELSE fill]

LEMMA ExtendedIsJoined == \A w : Extended(w) = Joined(q, held, w)
BY Zenon DEF Extended, Joined

LEMMA SizeOf == \A type \in Types :
    /\ Isa0!Size(type) \in {1, 2, 4}
    /\ Isa0!Size(type) = CASE type = "W" -> 4 [] type = "H" -> 2 [] type = "B" -> 1
    /\ type = "W" => Isa0!Size(type) = 4
    /\ type = "H" => Isa0!Size(type) = 2
    /\ type = "B" => Isa0!Size(type) = 1
BY DEF Isa0!Size, Types

(* The word of the memory a byte lies in.                                  *)
WordAt(m, a) == [l \in Lane |-> m[a + l]]

(* A load assembles the bytes from its address on: from the word of its    *)
(* address, or, when it crosses into the next, from the first word held    *)
(* and the second one that arrives.                                        *)
LEMMA LoadJoins ==
    ASSUME NEW a \in Address, NEW type \in Types, NEW sext \in BOOLEAN, NEW m \in [Address -> Byte],
           NEW r, r.type = type, r.off = a % 4, r.sext = sext, NEW h, NEW rdata,
           \/ ~Crosses(type, a % 4) /\ rdata = WordAt(m, First(a))
           \/ Crosses(type, a % 4) /\ h = WordAt(m, First(a)) /\ rdata = WordAt(m, First(After(a)))
    PROVE  Joined(r, h, rdata) = Isa0!LoadValue(m, a, type, sext)
<1> DEFINE split   == (r.type = "W" /\ r.off # 0) \/ (r.type = "H" /\ r.off = 3)
           lane(i) == IF r.off + i > 3 THEN rdata[r.off + i - 4]
                      ELSE IF split THEN h[r.off + i] ELSE rdata[r.off + i]
           size    == CASE r.type = "W" -> 4 [] r.type = "H" -> 2 [] r.type = "B" -> 1
           fill    == IF r.sext /\ lane(size - 1) >= 128 THEN 255 ELSE 0
           byte(i) == m[(a + i) % AddrSpace]
           fill2   == IF sext /\ byte(Isa0!Size(type) - 1) >= 128 THEN 255 ELSE 0
<1>1. size = Isa0!Size(type) /\ size \in {1, 2, 4}
  BY SizeOf, Zenon
<1> HIDE DEF size
<1>2. ASSUME NEW i \in 0..3, i < size PROVE lane(i) = byte(i)
  <2>1. a % 4 \in 0..3 /\ r.off = a % 4
    BY WordOf
  <2>2. CASE Crosses(type, a % 4)
    <3>1. /\ h = WordAt(m, First(a)) /\ rdata = WordAt(m, First(After(a))) /\ split
      BY <2>2 DEF Crosses
    <3>2. CASE (a % 4) + i > 3
      <4>1. (a + i) % AddrSpace = First(After(a)) + ((a % 4) + i - 4)
        BY <3>2, AfterWord
      <4>2. (a % 4) + i - 4 \in Lane
        BY <2>1, <3>2 DEF Lane
      <4>3. rdata[(a % 4) + i - 4] = m[First(After(a)) + ((a % 4) + i - 4)]
        BY <3>1, <4>2 DEF WordAt
      <4> QED BY <2>1, <3>2, <4>1, <4>3
    <3>3. CASE ~((a % 4) + i > 3)
      <4>1. (a + i) % AddrSpace = First(a) + ((a % 4) + i)
        BY <3>3, AfterWord
      <4>2. (a % 4) + i \in Lane
        BY <2>1, <3>3 DEF Lane
      <4>3. h[(a % 4) + i] = m[First(a) + ((a % 4) + i)]
        BY <3>1, <4>2 DEF WordAt
      <4> QED BY <2>1, <3>1, <3>3, <4>1, <4>3
    <3> QED BY <3>2, <3>3
  <2>3. CASE ~Crosses(type, a % 4)
    <3>1. rdata = WordAt(m, First(a)) /\ ~split
      BY <2>3 DEF Crosses
    <3>2. ~((a % 4) + i > 3)
      BY <1>1, <1>2, <2>1, <2>3, SizeOf DEF Crosses, Types
    <3>3. (a + i) % AddrSpace = First(a) + ((a % 4) + i)
      BY <3>2, AfterWord
    <3>4. (a % 4) + i \in Lane
      BY <2>1, <3>2 DEF Lane
    <3>5. rdata[(a % 4) + i] = m[First(a) + ((a % 4) + i)]
      BY <3>1, <3>4 DEF WordAt
    <3> QED BY <2>1, <3>1, <3>2, <3>3, <3>5
  <2> QED BY <2>2, <2>3
<1>3. fill = fill2
  <2>1. size - 1 \in 0..3 /\ size - 1 < size
    BY <1>1
  <2>2. lane(size - 1) = byte(size - 1)
    BY <1>2, <2>1
  <2> HIDE DEF lane, byte
  <2> QED BY <1>1, <2>2, Zenon
<1>4. Joined(r, h, rdata) = [i \in Lane |-> IF i < size THEN lane(i) ELSE fill]
  BY Zenon DEF Joined, size
<1>5. Isa0!LoadValue(m, a, type, sext) = [i \in 0..3 |-> IF i < Isa0!Size(type) THEN byte(i) ELSE fill2]
  BY Zenon DEF Isa0!LoadValue
<1> HIDE DEF lane, fill, fill2, byte
<1> QED BY <1>1, <1>2, <1>3, <1>4, <1>5 DEF Lane

-----------------------------------------------------------------------------
(* Stores: what one or two requests write is what the instruction promises.*)

(* Lane l of a request that carries the part of an access at offset o that *)
(* lies in the first word, or in the second one.                           *)
Enabled(type, o, mis, l) ==
    IF mis THEN l < o /\ l + 4 - o < Isa0!Size(type) ELSE l >= o /\ l - o < Isa0!Size(type)

LEMMA ByteEnableIs ==
    ASSUME ex \in ExType, ex.mis => Crosses(ex.type, Offset(ex)), NEW l \in Lane
    PROVE  l \in ByteEnable(ex) <=> Enabled(ex.type, Offset(ex), ex.mis, l)
<1>1. Offset(ex) \in 0..3 /\ l \in 0..3 /\ ex.type \in Types
  BY AddrTyped DEF Lane, ExType
<1> DEFINE o == Offset(ex)
<1> HIDE DEF o
<1>2. CASE ex.type = "W"
  <2>1. Isa0!Size(ex.type) = 4
    BY <1>1, <1>2, SizeOf
  <2>2. ByteEnable(ex) = {j \in Lane : IF ex.mis THEN j < o ELSE j >= o}
    BY <1>2 DEF ByteEnable, o
  <2> QED BY <1>1, <2>1, <2>2 DEF Enabled, o
<1>3. CASE ex.type = "H"
  <2>1. Isa0!Size(ex.type) = 2
    BY <1>1, <1>3, SizeOf
  <2>2. ByteEnable(ex) = IF ex.mis THEN {0} ELSE Lane \cap {o, o + 1}
    BY <1>3 DEF ByteEnable, o
  <2>3. ex.mis => o = 3
    BY <1>3 DEF Crosses, o
  <2> QED BY <1>1, <2>1, <2>2, <2>3 DEF Enabled, o
<1>4. CASE ex.type = "B"
  <2>1. Isa0!Size(ex.type) = 1
    BY <1>1, <1>4, SizeOf
  <2>2. ByteEnable(ex) = {o}
    BY <1>4 DEF ByteEnable, o
  <2>3. ~ex.mis
    BY <1>4 DEF Crosses
  <2> QED BY <1>1, <2>1, <2>2, <2>3 DEF Enabled, o
<1> QED BY <1>1, <1>2, <1>3, <1>4 DEF Types

(* What a granted store request writes.                                    *)
LEMMA WrittenIs ==
    ASSUME ex \in ExType, ex.mis => Crosses(ex.type, Offset(ex)), NEW k \in Address,
           mem \in [Address -> Byte]
    PROVE  Written[k] = IF First(k) = First(DataAddr(ex)) /\ Enabled(ex.type, Offset(ex), ex.mis, k % 4)
                        THEN ex.wdata[((k % 4) + 4 - Offset(ex)) % 4] ELSE mem[k]
<1>1. k % 4 \in Lane
  BY WordOf DEF Lane
<1>2. Written[k] = IF k - (k % 4) = WordAddr /\ (k % 4) \in ByteEnable(ex)
                   THEN WriteData(ex)[k % 4] ELSE mem[k]
  BY DEF Written
<1>3. WordAddr = First(DataAddr(ex)) /\ k - (k % 4) = First(k)
  BY DEF WordAddr, First, Offset
<1>4. WriteData(ex)[k % 4] = ex.wdata[((k % 4) + 4 - Offset(ex)) % 4]
  BY <1>1 DEF WriteData
<1> QED BY <1>1, <1>2, <1>3, <1>4, ByteEnableIs

LEMMA LaneMod == \A l, o \in 0..3 : /\ l >= o => (l + 4 - o) % 4 = l - o
                                    /\ l < o => (l + 4 - o) % 4 = l + 4 - o
OBVIOUS

Stored(m, a, type, w) ==
    [k \in Address |-> IF Place(k, a) < Isa0!Size(type) THEN w[Place(k, a)] ELSE m[k]]

LEMMA StoreIntoIs ==
    ASSUME NEW m \in [Address -> Byte]
    PROVE  \A a, type, w : Isa0!StoreInto(m, a, type, w) = Stored(m, a, type, w)
<1>1. DOMAIN m = Address
  OBVIOUS
<1> QED BY <1>1, Zenon DEF Isa0!StoreInto, Stored, Place

(* A request in one word is the whole store.                               *)
LEMMA OnlyHalf ==
    ASSUME ex \in ExType, mem \in [Address -> Byte], ~ex.mis, ~Crosses(ex.type, Offset(ex))
    PROVE  Written = Stored(mem, DataAddr(ex), ex.type, ex.wdata)
<1> DEFINE a == DataAddr(ex)
           s == Isa0!Size(ex.type)
<1>1. a \in Address /\ Offset(ex) = a % 4 /\ DataAddr(ex) = a /\ ex.type \in Types
  BY AddrTyped DEF Offset, ExType
<1>2. /\ ex.type = "W" => s = 4 /\ a % 4 = 0
      /\ ex.type = "H" => s = 2 /\ a % 4 # 3
      /\ ex.type = "B" => s = 1
  BY <1>1, SizeOf DEF Crosses
<1> HIDE DEF a, s
<1>3. ASSUME NEW k \in Address
      PROVE  Written[k] = IF Place(k, a) < s THEN ex.wdata[Place(k, a)] ELSE mem[k]
  <2>1. a % 4 \in 0..3 /\ k % 4 \in 0..3
    BY <1>1, WordOf
  <2>2. Enabled(ex.type, a % 4, ex.mis, k % 4) <=> k % 4 >= a % 4 /\ (k % 4) - (a % 4) < s
    BY Zenon DEF Enabled, s
  <2>3. First(k) = First(a) /\ k % 4 >= a % 4 => Place(k, a) = (k % 4) - (a % 4)
    BY <1>1, PlaceOf
  <2>4. Place(k, a) < s => First(k) = First(a) /\ k % 4 >= a % 4
    <3>1. /\ Place(k, a) \in Nat
          /\ First(k) = First(After(a)) /\ k % 4 < a % 4 => Place(k, a) = (k % 4) + 4 - (a % 4)
          /\ Place(k, a) < 4 => \/ First(k) = First(a) /\ k % 4 >= a % 4
                                \/ First(k) = First(After(a)) /\ k % 4 < a % 4
      BY <1>1, PlaceOf
    <3> QED BY <1>1, <1>2, <2>1, <3>1 DEF Types
  <2>5. k % 4 >= a % 4 => ((k % 4) + 4 - (a % 4)) % 4 = (k % 4) - (a % 4)
    BY <2>1, LaneMod
  <2>6. Written[k] = IF First(k) = First(a) /\ Enabled(ex.type, a % 4, ex.mis, k % 4)
                     THEN ex.wdata[((k % 4) + 4 - (a % 4)) % 4] ELSE mem[k]
    BY <1>1, WrittenIs, Zenon
  <2>7. CASE First(k) = First(a) /\ k % 4 >= a % 4
    <3>1. Place(k, a) = (k % 4) - (a % 4) /\ ((k % 4) + 4 - (a % 4)) % 4 = Place(k, a)
      BY <2>3, <2>5, <2>7
    <3> QED BY <2>2, <2>6, <2>7, <3>1
  <2>8. CASE ~(First(k) = First(a) /\ k % 4 >= a % 4)
    BY <2>2, <2>4, <2>6, <2>8
  <2> QED BY <2>7, <2>8
<1>4. Written = [k \in Address |-> Written[k]]
  BY DEF Written
<1> QED BY <1>3, <1>4 DEF Stored, a, s

(* The first request of a split store writes nothing but bytes of the      *)
(* store, and all of them that lie in its word.                            *)
LEMMA FirstHalf ==
    ASSUME ex \in ExType, mem \in [Address -> Byte], ~ex.mis, Crosses(ex.type, Offset(ex))
    PROVE  LET a == DataAddr(ex)
           IN  \A k \in Address :
                   /\ Place(k, a) < Isa0!Size(ex.type) /\ First(k) = First(a) => Written[k] = ex.wdata[Place(k, a)]
                   /\ ~(Place(k, a) < Isa0!Size(ex.type)) => Written[k] = mem[k]
<1> DEFINE a == DataAddr(ex)
           s == Isa0!Size(ex.type)
<1>1. a \in Address /\ Offset(ex) = a % 4 /\ DataAddr(ex) = a /\ ex.type \in Types
  BY AddrTyped DEF Offset, ExType
<1>2. s \in {1, 2, 4}
  BY <1>1, SizeOf
<1> HIDE DEF a, s
<1>3. ASSUME NEW k \in Address
      PROVE  /\ Place(k, a) < s /\ First(k) = First(a) => Written[k] = ex.wdata[Place(k, a)]
             /\ ~(Place(k, a) < s) => Written[k] = mem[k]
  <2>1. a % 4 \in 0..3 /\ k % 4 \in 0..3
    BY <1>1, WordOf
  <2>2. Enabled(ex.type, a % 4, ex.mis, k % 4) <=> k % 4 >= a % 4 /\ (k % 4) - (a % 4) < s
    BY Zenon DEF Enabled, s
  <2>3. First(k) = First(a) /\ k % 4 >= a % 4 => Place(k, a) = (k % 4) - (a % 4)
    BY <1>1, PlaceOf
  <2>4. Place(k, a) < s /\ First(k) = First(a) => k % 4 >= a % 4
    <3>1. PICK c \in Nat : AddrSpace = 4 * c /\ c > 1
      BY Words
    <3>2. Place(k, a) = IF k >= a THEN k - a ELSE k + AddrSpace - a
      <4>1. a \in Nat /\ k \in Nat /\ a < AddrSpace /\ k < AddrSpace /\ AddrSpace \in Nat
        BY <1>1, AddrSpaceAssumption DEF Address
      <4> QED BY <4>1, WrapSmall, WrapLarge DEF Place
    <3> QED BY <1>1, <1>2, <2>1, <3>1, <3>2 DEF First, Address
  <2>5. k % 4 >= a % 4 => ((k % 4) + 4 - (a % 4)) % 4 = (k % 4) - (a % 4)
    BY <2>1, LaneMod
  <2>6. Written[k] = IF First(k) = First(a) /\ Enabled(ex.type, a % 4, ex.mis, k % 4)
                     THEN ex.wdata[((k % 4) + 4 - (a % 4)) % 4] ELSE mem[k]
    BY <1>1, WrittenIs, Zenon
  <2>7. CASE First(k) = First(a) /\ k % 4 >= a % 4
    <3>1. Place(k, a) = (k % 4) - (a % 4) /\ ((k % 4) + 4 - (a % 4)) % 4 = Place(k, a)
      BY <2>3, <2>5, <2>7
    <3> QED BY <2>2, <2>6, <2>7, <3>1
  <2>8. CASE ~(First(k) = First(a) /\ k % 4 >= a % 4)
    BY <2>2, <2>4, <2>6, <2>8
  <2> QED BY <2>7, <2>8
<1> QED BY <1>3 DEF a, s

(* The second request completes the store.                                 *)
LEMMA OtherHalf ==
    ASSUME ex \in ExType, mem \in [Address -> Byte], NEW a \in Address,
           ex.mis, Crosses(ex.type, a % 4), DataAddr(ex) = After(a),
           \A k \in Address : Place(k, a) < Isa0!Size(ex.type) /\ First(k) = First(a) => mem[k] = ex.wdata[Place(k, a)]
    PROVE  Written = Stored(mem, a, ex.type, ex.wdata)
<1> DEFINE b == After(a)
           s == Isa0!Size(ex.type)
<1>1. b \in Address /\ Offset(ex) = a % 4 /\ ex.type \in Types
  BY AfterWord DEF Offset, ExType
<1>2. s \in {1, 2, 4}
  BY <1>1, SizeOf
<1> HIDE DEF b, s
<1>3. ASSUME NEW k \in Address
      PROVE  Written[k] = IF Place(k, a) < s THEN ex.wdata[Place(k, a)] ELSE mem[k]
  <2>1. a % 4 \in 0..3 /\ k % 4 \in 0..3
    BY WordOf
  <2>2. Enabled(ex.type, a % 4, ex.mis, k % 4) <=> k % 4 < a % 4 /\ (k % 4) + 4 - (a % 4) < s
    BY Zenon DEF Enabled, s
  <2>3. /\ First(k) = First(b) /\ k % 4 < a % 4 => Place(k, a) = (k % 4) + 4 - (a % 4)
        /\ Place(k, a) < 4 => \/ First(k) = First(a) /\ k % 4 >= a % 4
                              \/ First(k) = First(b) /\ k % 4 < a % 4
        /\ Place(k, a) \in Nat
    BY PlaceOf DEF b
  <2>4. Place(k, a) < s /\ First(k) = First(a) => mem[k] = ex.wdata[Place(k, a)]
    BY DEF s
  <2>5. k % 4 < a % 4 => ((k % 4) + 4 - (a % 4)) % 4 = (k % 4) + 4 - (a % 4)
    BY <2>1, LaneMod
  <2>6. Written[k] = IF First(k) = First(b) /\ Enabled(ex.type, a % 4, ex.mis, k % 4)
                     THEN ex.wdata[((k % 4) + 4 - (a % 4)) % 4] ELSE mem[k]
    BY <1>1, WrittenIs, Zenon DEF b
  <2>7. CASE First(k) = First(b) /\ k % 4 < a % 4
    <3>1. Place(k, a) = (k % 4) + 4 - (a % 4) /\ ((k % 4) + 4 - (a % 4)) % 4 = Place(k, a)
      BY <2>3, <2>5, <2>7
    <3> QED BY <2>2, <2>6, <2>7, <3>1
  <2>8. CASE ~(First(k) = First(b) /\ k % 4 < a % 4)
    <3>1. Written[k] = mem[k]
      BY <2>2, <2>6, <2>8
    <3>2. Place(k, a) < s => First(k) = First(a)
      BY <1>2, <2>3, <2>8
    <3> QED BY <2>4, <3>1, <3>2
  <2> QED BY <2>7, <2>8
<1>4. Written = [k \in Address |-> Written[k]]
  BY DEF Written
<1> QED BY <1>3, <1>4 DEF Stored, s

-----------------------------------------------------------------------------
(* The refinement of MemoryIsa.  Between the two halves of a split access  *)
(* the mapped state holds the whole access, while the memory or the unit   *)
(* holds its first half: the word that was read is owed or held            *)
(* (FirstRead), the bytes of the first word are stored (FirstWritten).     *)

PostOnly == ex.req /\ ex.aluwe => ex.aludst = Base

SplitAccess == ex.mis => ex.req /\ ~ex.aluwe /\ Crosses(ex.type, Origin % 4)

FirstRead == ex.mis /\ ex.lsuwe => (IF bus.owed THEN bus.word ELSE held) = WordAt(mem, First(Origin))

FirstWritten ==
    ex.mis /\ ex.we =>
        \A k \in Address : Place(k, Origin) < Isa0!Size(ex.type) /\ First(k) = First(Origin)
                           => mem[k] = ex.wdata[Place(k, Origin)]

SplitInv == PostOnly /\ SplitAccess /\ FirstRead /\ FirstWritten

LEMMA OriginIs ==
    ASSUME ex \in ExType
    PROVE  /\ Origin \in Address
           /\ ex.mis => After(Origin) = DataAddr(ex)
           /\ ~ex.mis => Origin = DataAddr(ex)
           /\ Origin % 4 = Offset(ex)
<1>1. DataAddr(ex) \in Address
  BY AddrTyped
<1>2. CASE ex.mis
  <2>1. Origin = (DataAddr(ex) + AddrSpace - 4) % AddrSpace
    BY <1>2 DEF Origin
  <2> DEFINE b == DataAddr(ex)
  <2>2. b \in Nat /\ b < AddrSpace /\ AddrSpace \in Nat /\ AddrSpace > 4
    BY <1>1, AddrSpaceAssumption DEF Address
  <2> HIDE DEF b
  <2>3. (b + AddrSpace - 4) % AddrSpace = IF b >= 4 THEN b - 4 ELSE b + AddrSpace - 4
    BY <2>2, WrapSmall, WrapLarge
  <2>4. Origin \in Address /\ After(Origin) = b
    BY <2>1, <2>2, <2>3, WrapSmall, WrapLarge DEF Address, After, b
  <2> QED BY <1>2, <2>4, AfterWord DEF b, Offset
<1>3. CASE ~ex.mis
  BY <1>1, <1>3 DEF Origin, Offset
<1> QED BY <1>2, <1>3

(* The registers as they are when the answer owed to the load in WB has    *)
(* come, and when the ALU port has written too.                            *)
Back(r) == IF wb.we /\ wb.reg = r THEN Extended(bus.word) ELSE data[r]
Forwarded(r) == IF AluPort(r) THEN ex.word ELSE Back(r)

LEMMA DoneDataIs ==
    DoneData = [r \in DataRegs |->
        IF ex.req /\ ex.lsuwe /\ ex.waddr = r THEN Isa0!LoadValue(mem, Origin, ex.type, ex.sext)
        ELSE Forwarded(r)]
BY Zenon DEF DoneData, Forwarded, Back

LEMMA ExtendedPrimed == Extended(bus.word)' = Joined(q', held', bus'.word)
BY Zenon DEF Extended, Joined

(* A cycle takes the registers on to what they were to become, but for the *)
(* load that goes on to WB.                                                *)
LEMMA BackStep ==
    ASSUME TypeOK, IInv, NEW g \in BOOLEAN, NEW v \in BOOLEAN, NEW n \in Fetched, Cycle(g, v, n),
           NEW r \in DataRegs, ~(ExReadyLsu(g, v) /\ ex.lsuwe /\ ex.waddr = r)
    PROVE  Back(r)' = Forwarded(r)
<1>1. v => bus.owed
  BY DEF Cycle
<1>2. g => DataReq(ex, v)
  BY DEF Cycle
<1>3. wb' = NextWb(g, v) /\ data' = NextData(v)
  BY DEF Cycle
<1>4. data'[r] = IF AluPort(r) THEN ex.word
                 ELSE IF wb.we /\ wb.reg = r THEN RdataEx(v, bus.word) ELSE data[r]
  BY <1>3 DEF NextData
<1>5. Back(r)' = IF wb'.we /\ wb'.reg = r THEN Extended(bus.word)' ELSE data'[r]
  BY DEF Back
<1>6. CASE ReadyWb(v)
  <2>1. ~(wb'.we /\ wb'.reg = r)
    BY <1>3, <1>6 DEF NextWb, ExValid
  <2>2. wb.we => v
    BY <1>6 DEF ReadyWb, IInv, LoadsAreInOrder, OneAnswerOwed
  <2> QED BY <1>4, <1>5, <2>1, <2>2 DEF Forwarded, Back, RdataEx
<1>7. CASE ~ReadyWb(v)
  <2>1. ~g /\ ~v
    BY <1>2, <1>7, ReadyWhenGranted DEF ReadyWb, ExReadyLsu, IInv
  <2>2. wb' = wb
    BY <1>3, <1>7 DEF NextWb, ExValid, ExReadyLsu
  <2>3. q' = q /\ held' = held /\ bus' = bus
    BY <2>1 DEF Cycle, LsuCycle, Held, Memory
  <2>4. Extended(bus.word)' = Extended(bus.word)
    BY <2>3, ExtendedPrimed, ExtendedIsJoined
  <2>5. wb.we /\ wb.reg = r => ~AluPort(r)
    BY DEF IInv, NoWriteConflict, AluPort
  <2> QED BY <1>4, <1>5, <2>2, <2>4, <2>5 DEF Forwarded, Back
<1> QED BY <1>6, <1>7

(* While EX stands still, the mapped state does too.                       *)
Unmoved == DoneMem' = DoneMem /\ DoneData' = DoneData /\ NextBase' = NextBase

LEMMA StalledStep ==
    ASSUME TypeOK, IInv, SplitInv, NEW g \in BOOLEAN, NEW v \in BOOLEAN, NEW n \in Fetched, Cycle(g, v, n),
           ~ExReady(g, v)
    PROVE  Unmoved /\ ~IdValid(g, v) /\ ex' = ex /\ mem' = mem /\ SplitInv'
<1>1. ~IdValid(g, v) /\ ex' = ex
  BY DEF Cycle, NextEx, IdValid
<1>2. ~g
  BY ReadyWhenGranted DEF Cycle, IInv, ExReady
<1>3. mem' = mem
  BY <1>2 DEF Cycle, Memory
<1>4. base' = NextBase
  BY DEF Cycle
<1>5. Origin' = Origin
  BY <1>1 DEF Origin, DataAddr
<1>6. DoneMem' = DoneMem
  BY <1>1, <1>3, <1>5, Zenon DEF DoneMem, Isa0!StoreInto, Isa0!Size
<1>7. NextBase' = NextBase
  BY <1>1, <1>4 DEF NextBase, AluPort, AluAddress
<1>8. ASSUME NEW r \in DataRegs PROVE Forwarded(r)' = Forwarded(r)
  <2>1. Back(r)' = Forwarded(r)
    BY BackStep DEF ExReady
  <2> QED BY <1>1, <2>1 DEF Forwarded, AluPort
<1>9. DoneData' = DoneData
  <2>1. DoneData' = [r \in DataRegs |->
          IF ex'.req /\ ex'.lsuwe /\ ex'.waddr = r THEN Isa0!LoadValue(mem', Origin', ex'.type, ex'.sext)
          ELSE Forwarded(r)']
    BY Zenon DEF DoneData, Forwarded, Back, Isa0!LoadValue, Isa0!Size
  <2> QED BY <1>1, <1>3, <1>5, <1>8, <2>1, DoneDataIs
<1>10. PostOnly' /\ SplitAccess' /\ FirstWritten'
  BY <1>1, <1>3, <1>5 DEF SplitInv, PostOnly, SplitAccess, FirstWritten, Crosses, Isa0!Size
<1>11. FirstRead'
  <2>1. CASE v
    <3>1. bus' = None
      BY <1>2, <2>1 DEF Cycle, Memory
    <3>2. ex.mis /\ ex.lsuwe => held' = bus.word /\ bus.owed
      <4>1. v => bus.owed
        BY DEF Cycle
      <4>2. ex.mis /\ ex.lsuwe => ~q.we
        BY <2>1, <4>1 DEF IInv, LoadsAreInOrder, SplitInv, SplitAccess
      <4> QED BY <2>1, <4>1, <4>2 DEF Cycle, LsuCycle, Held
    <3> QED BY <1>1, <1>3, <1>5, <3>1, <3>2 DEF FirstRead, SplitInv, None
  <2>2. CASE ~v
    <3>1. bus' = bus /\ held' = held
      BY <1>2, <2>2 DEF Cycle, Memory, LsuCycle, Held
    <3> QED BY <1>1, <1>3, <1>5, <3>1 DEF FirstRead, SplitInv
  <2> QED BY <2>1, <2>2
<1> QED BY <1>1, <1>3, <1>6, <1>7, <1>9, <1>10, <1>11 DEF Unmoved, SplitInv

LEMMA MemTyped == TypeOK => mem \in [Address -> Byte] /\ ex \in ExType
BY DEF TypeOK, ExType

LEMMA DoneMemIs ==
    ASSUME TypeOK
    PROVE  DoneMem = IF ex.req /\ ex.we THEN Stored(mem, Origin, ex.type, ex.wdata) ELSE mem
BY MemTyped, StoreIntoIs, Zenon DEF DoneMem

LEMMA DoneMemPrimed ==
    ASSUME TypeOK'
    PROVE  DoneMem' = IF ex'.req /\ ex'.we THEN Stored(mem', Origin', ex'.type, ex'.wdata) ELSE mem'
<1>1. mem' \in [Address -> Byte]
  BY DEF TypeOK
<1>2. DoneMem' = IF ex'.req /\ ex'.we THEN Isa0!StoreInto(mem', Origin', ex'.type, ex'.wdata) ELSE mem'
  BY Zenon DEF DoneMem, Isa0!StoreInto, Isa0!Size
<1> QED BY <1>1, <1>2, StoreIntoIs

LEMMA DoneDataPrimed ==
    DoneData' = [r \in DataRegs |->
        IF ex'.req /\ ex'.lsuwe /\ ex'.waddr = r THEN Isa0!LoadValue(mem', Origin', ex'.type, ex'.sext)
        ELSE Forwarded(r)']
BY Zenon DEF DoneData, Forwarded, Back, Isa0!LoadValue, Isa0!Size

LEMMA MisalignedIs == ASSUME ex \in ExType
                      PROVE  Misaligned(ex) <=> ex.req /\ ~ex.mis /\ Crosses(ex.type, Offset(ex))
BY DEF Misaligned, Crosses, ExType

(* The first half of a split access leaves the mapped state as it is.      *)
LEMMA SplitStep ==
    ASSUME TypeOK, TypeOK', IInv, SplitInv, NEW g \in BOOLEAN, NEW v \in BOOLEAN, NEW n \in Fetched,
           Cycle(g, v, n), Misaligned(ex), ExReady(g, v)
    PROVE  Unmoved /\ ~IdValid(g, v) /\ SplitInv'
<1>1. ex \in ExType /\ mem \in [Address -> Byte] /\ ex' \in ExType
  BY DEF TypeOK, ExType
<1>2. ex.req /\ ~ex.mis /\ Crosses(ex.type, Offset(ex))
  BY <1>1, MisalignedIs
<1>3. ExReadyLsu(g, v) /\ g
  BY <1>2, GrantedWhenReady DEF ExReady, IInv, Stage, Cycle
<1>4. ~IdValid(g, v) /\ ex' = SecondHalf
  BY DEF Cycle, NextEx, IdValid
<1>5. /\ ex'.req = ex.req /\ ex'.we = ex.we /\ ex'.type = ex.type /\ ex'.sext = ex.sext
      /\ ex'.wdata = ex.wdata /\ ex'.lsuwe = ex.lsuwe /\ ex'.waddr = ex.waddr
      /\ ex'.mis = TRUE /\ ex'.aluwe = FALSE /\ ex'.useincr = TRUE /\ ex'.opB = 4
      /\ ex'.opA = DataAddr(ex)
  BY <1>1, <1>4 DEF SecondHalf, ExType, DataAddr, AluAddress
<1> DEFINE a == DataAddr(ex)
<1>6. a \in Address /\ Offset(ex) = a % 4 /\ Origin = a /\ DataAddr(ex) = a
  BY <1>1, <1>2, AddrTyped, OriginIs DEF Offset
<1> HIDE DEF a
<1>7. Origin' = a
  <2>1. DataAddr(ex)' = After(a)
    BY <1>5, <1>6 DEF DataAddr, After
  <2>2. Origin' = (After(a) + AddrSpace - 4) % AddrSpace
    BY <1>5, <2>1 DEF Origin
  <2> QED BY <1>6, <2>2, AfterWord
<1>8. mem' = IF ex.we THEN Written ELSE mem
  BY <1>3 DEF Cycle, Memory
<1>9. /\ \A k \in Address : Place(k, a) < Isa0!Size(ex.type) /\ First(k) = First(a) => Written[k] = ex.wdata[Place(k, a)]
      /\ \A k \in Address : ~(Place(k, a) < Isa0!Size(ex.type)) => Written[k] = mem[k]
  BY <1>1, <1>2, FirstHalf DEF a
<1>10. DoneMem' = DoneMem
  <2>1. CASE ex.we
    <3>1. DoneMem = Stored(mem, a, ex.type, ex.wdata)
      BY <1>2, <1>6, <2>1, DoneMemIs
    <3>2. DoneMem' = Stored(Written, a, ex.type, ex.wdata)
      BY <1>2, <1>5, <1>7, <1>8, <2>1, DoneMemPrimed
    <3> QED BY <1>9, <3>1, <3>2 DEF Stored
  <2>2. CASE ~ex.we
    BY <1>5, <1>8, <2>2, DoneMemIs, DoneMemPrimed
  <2> QED BY <2>1, <2>2
<1>11. base' = NextBase
  BY DEF Cycle
<1>12. NextBase' = NextBase
  BY <1>5, <1>11 DEF NextBase, AluPort
<1>13. DoneData' = DoneData
  <2>1. ASSUME NEW r \in DataRegs, ~(ex.lsuwe /\ ex.waddr = r)
        PROVE  Forwarded(r)' = Forwarded(r)
    <3>1. Back(r)' = Forwarded(r)
      BY <2>1, BackStep
    <3>2. ~AluPort(r)'
      BY <1>5 DEF AluPort
    <3> QED BY <3>1, <3>2 DEF Forwarded
  <2>2. ex.lsuwe => mem' = mem
    BY <1>8 DEF IInv, Stage
  <2> QED BY <1>2, <1>5, <1>6, <1>7, <2>1, <2>2, DoneDataIs, DoneDataPrimed
<1>14. PostOnly' /\ SplitAccess'
  BY <1>2, <1>5, <1>6, <1>7 DEF PostOnly, SplitAccess, Crosses
<1>15. FirstWritten'
  <2>1. FirstWritten' <=>
          (ex'.mis /\ ex'.we =>
            \A k \in Address : Place(k, Origin') < Isa0!Size(ex'.type) /\ First(k) = First(Origin')
                               => mem'[k] = ex'.wdata[Place(k, Origin')])
    BY Zenon DEF FirstWritten, Place, First, Isa0!Size
  <2> QED BY <1>5, <1>7, <1>8, <1>9, <2>1
<1>16. FirstRead'
  <2>1. ASSUME ex.lsuwe PROVE mem' = mem /\ bus' = Owed(ReadWord)
    BY <1>3, <1>8, <2>1 DEF IInv, Stage, Cycle, Memory
  <2>2. ReadWord = WordAt(mem, First(a))
    BY <1>6 DEF ReadWord, WordAt, WordAddr, First
  <2>3. FirstRead' <=> (ex'.mis /\ ex'.lsuwe => (IF bus'.owed THEN bus'.word ELSE held') = WordAt(mem', First(Origin')))
    BY Zenon DEF FirstRead, WordAt, First
  <2> QED BY <1>5, <1>7, <2>1, <2>2, <2>3 DEF Owed
<1> QED BY <1>4, <1>10, <1>12, <1>13, <1>14, <1>15, <1>16 DEF Unmoved, SplitInv

(* When EX lets its instruction go, what was to become has become.         *)
LEMMA RetireStep ==
    ASSUME TypeOK, TypeOK', IInv, SplitInv, NEW g \in BOOLEAN, NEW v \in BOOLEAN, NEW n \in Fetched,
           Cycle(g, v, n), ~Misaligned(ex), ExReady(g, v)
    PROVE  /\ mem' = DoneMem
           /\ base' = NextBase
           /\ \A r \in DataRegs : Back(r)' = DoneData[r]
<1>1. ex \in ExType /\ mem \in [Address -> Byte]
  BY DEF TypeOK, ExType
<1>2. base' = NextBase
  BY DEF Cycle
<1>3. ASSUME ex.req PROVE ExReadyLsu(g, v) /\ g
  BY <1>3, GrantedWhenReady DEF ExReady, IInv, Stage, Cycle
<1>4. ASSUME ~ex.req PROVE ~g
  BY <1>4 DEF Cycle, DataReq
<1> DEFINE a == Origin
<1>5. /\ a \in Address /\ a % 4 = Offset(ex)
      /\ ex.mis => After(a) = DataAddr(ex)
      /\ ~ex.mis => a = DataAddr(ex)
  BY <1>1, OriginIs
<1>6. ex.mis => ex.req /\ Crosses(ex.type, a % 4)
  BY DEF SplitInv, SplitAccess
<1>7. ex.req /\ ~ex.mis => ~Crosses(ex.type, Offset(ex))
  BY <1>1, MisalignedIs
<1>8. mem' = DoneMem
  <2>1. CASE ex.req /\ ex.we
    <3>1. mem' = Written /\ DoneMem = Stored(mem, a, ex.type, ex.wdata)
      BY <1>3, <2>1, DoneMemIs DEF Cycle, Memory
    <3>2. CASE ex.mis
      <4>1. \A k \in Address : Place(k, a) < Isa0!Size(ex.type) /\ First(k) = First(a) => mem[k] = ex.wdata[Place(k, a)]
        BY <2>1, <3>2 DEF SplitInv, FirstWritten
      <4> HIDE DEF a
      <4> QED BY <1>1, <1>5, <1>6, <3>1, <3>2, <4>1, OtherHalf
    <3>3. CASE ~ex.mis
      BY <1>1, <1>5, <1>7, <2>1, <3>1, <3>3, OnlyHalf
    <3> QED BY <3>2, <3>3
  <2>2. CASE ~(ex.req /\ ex.we)
    <3>1. mem' = mem
      BY <1>4, <2>2 DEF Cycle, Memory
    <3> QED BY <2>2, <3>1, DoneMemIs
  <2> QED BY <2>1, <2>2
<1>9. ASSUME NEW r \in DataRegs PROVE Back(r)' = DoneData[r]
  <2>1. CASE ex.lsuwe /\ ex.waddr = r
    <3>1. ex.req /\ ~ex.we
      BY <2>1 DEF IInv, Stage
    <3>2. ExReadyLsu(g, v) /\ g
      BY <1>3, <3>1
    <3>3. wb'.we /\ wb'.reg = r
      BY <2>1, <3>2 DEF Cycle, NextWb, ExValid
    <3>4. Back(r)' = Joined(q', held', bus'.word)
      <4>1. Back(r)' = Extended(bus.word)'
        BY <3>3 DEF Back
      <4> QED BY <4>1, ExtendedPrimed
    <3>5. q'.type = ex.type /\ q'.off = Offset(ex) /\ q'.sext = ex.sext
      BY <3>2 DEF Cycle, LsuCycle
    <3>6. bus'.word = WordAt(mem, First(DataAddr(ex)))
      <4>1. bus'.word = ReadWord
        BY <3>1, <3>2 DEF Cycle, Memory, Owed
      <4> QED BY <4>1 DEF ReadWord, WordAt, WordAddr, First, Offset
    <3>7. ex.mis => held' = WordAt(mem, First(a))
      <4>1. CASE ex.mis /\ bus.owed
        <5>1. v
          BY <3>2, <4>1 DEF ExReadyLsu, ReadyWb, IInv, OneAnswerOwed
        <5>2. ~q.we
          BY <2>1, <3>1, <4>1 DEF IInv, LoadsAreInOrder
        <5>3. held' = bus.word
          BY <4>1, <5>1, <5>2 DEF Cycle, LsuCycle, Held
        <5> QED BY <2>1, <4>1, <5>3 DEF SplitInv, FirstRead
      <4>2. CASE ex.mis /\ ~bus.owed
        <5>1. held' = held
          BY <4>2 DEF Cycle, LsuCycle, Held
        <5> QED BY <2>1, <4>2, <5>1 DEF SplitInv, FirstRead
      <4> QED BY <4>1, <4>2
    <3>8. ex.type \in Types /\ ex.sext \in BOOLEAN
      BY <1>1 DEF ExType
    <3>9. Joined(q', held', bus'.word) = Isa0!LoadValue(mem, a, ex.type, ex.sext)
      <4> HIDE DEF a
      <4>1. \/ ~Crosses(ex.type, a % 4) /\ bus'.word = WordAt(mem, First(a))
            \/ Crosses(ex.type, a % 4) /\ held' = WordAt(mem, First(a)) /\ bus'.word = WordAt(mem, First(After(a)))
        BY <1>5, <1>6, <1>7, <3>1, <3>6, <3>7
      <4> QED BY <1>1, <1>5, <3>5, <3>8, <4>1, LoadJoins
    <3>10. DoneData[r] = Isa0!LoadValue(mem, a, ex.type, ex.sext)
      BY <2>1, <3>1, DoneDataIs
    <3> QED BY <3>4, <3>9, <3>10
  <2>2. CASE ~(ex.lsuwe /\ ex.waddr = r)
    <3>1. Back(r)' = Forwarded(r)
      BY <2>2, BackStep
    <3> QED BY <2>2, <3>1, DoneDataIs
  <2> QED BY <2>1, <2>2
<1> QED BY <1>2, <1>8, <1>9

(* An instruction in EX that does nothing to the mapped state.             *)
LEMMA SilentEx ==
    ASSUME TypeOK', ~ex'.req, ~ex'.aluwe
    PROVE  /\ DoneMem' = mem'
           /\ NextBase' = base'
           /\ \A r \in DataRegs : DoneData'[r] = Back(r)'
<1>1. DoneMem' = mem'
  BY DoneMemPrimed
<1>2. NextBase' = base'
  BY DEF NextBase, AluPort
<1>3. ASSUME NEW r \in DataRegs PROVE DoneData'[r] = Back(r)'
  BY DoneDataPrimed DEF Forwarded, AluPort
<1> QED BY <1>1, <1>2, <1>3

LEMMA FreshSplit ==
    ASSUME ~ex'.mis, ex'.req /\ ex'.aluwe => ex'.aludst = Base
    PROVE  SplitInv'
BY DEF SplitInv, PostOnly, SplitAccess, FirstRead, FirstWritten

(* A bubble goes to EX.                                                    *)
LEMMA IdleStep ==
    ASSUME TypeOK, TypeOK', IInv, SplitInv, NEW g \in BOOLEAN, NEW v \in BOOLEAN, NEW n \in Fetched,
           Cycle(g, v, n), ~Misaligned(ex), ExReady(g, v), ex' = Idle(ex.waddr)
    PROVE  Unmoved /\ SplitInv'
<1>1. ex'.req = FALSE /\ ex'.aluwe = FALSE /\ ex'.mis = FALSE
  BY DEF Idle
<1>2. /\ mem' = DoneMem
      /\ base' = NextBase
      /\ \A r \in DataRegs : Back(r)' = DoneData[r]
  BY RetireStep
<1>3. /\ DoneMem' = mem'
      /\ NextBase' = base'
      /\ \A r \in DataRegs : DoneData'[r] = Back(r)'
  BY <1>1, SilentEx
<1>4. DoneData' = DoneData
  <2>1. DoneData = [r \in DataRegs |-> DoneData[r]]
    BY DoneDataIs
  <2>2. DoneData' = [r \in DataRegs |-> DoneData'[r]]
    BY DoneDataPrimed
  <2>3. \A r \in DataRegs : DoneData'[r] = DoneData[r]
    BY <1>2, <1>3
  <2> HIDE DEF DoneData
  <2> QED BY <2>1, <2>2, <2>3, Zenon
<1>5. SplitInv'
  BY <1>1, FreshSplit
<1> QED BY <1>2, <1>3, <1>4, <1>5 DEF Unmoved

(* An operand is read as the instructions before have left it.             *)
LEMMA ReadDone ==
    ASSUME TypeOK, IInv, NEW g \in BOOLEAN, NEW v \in BOOLEAN, NEW n \in Fetched,
           Cycle(g, v, n), IdValid(g, v), NEW r \in DataRegs, r \in Reads(id)
    PROVE  ReadData(r, v) = DoneData[r]
<1>1. ~LoadStall(v) /\ ExReady(g, v)
  BY DEF IdValid
<1>2. ~(ex.req /\ ex.lsuwe /\ ex.waddr = r)
  BY <1>1 DEF LoadStall
<1>3. DoneData[r] = Forwarded(r)
  BY <1>2, DoneDataIs
<1>4. wb.we /\ wb.reg = r => v
  <2>1. ASSUME wb.we, wb.reg = r, ~v PROVE FALSE
    <3>1. ~ReadyWb(v)
      BY <2>1 DEF ReadyWb, IInv, LoadsAreInOrder, OneAnswerOwed
    <3>2. ~ex.lsuwe
      BY <1>1, <3>1 DEF ExReady, ExReadyLsu, IInv, Stage
    <3>3. wb.reg = ex.waddr
      BY <2>1, <3>2 DEF IInv, Owner
    <3> QED BY <1>1, <2>1, <3>1, <3>3 DEF LoadStall
  <2> QED BY <2>1
<1> QED BY <1>3, <1>4 DEF ReadData, Forwarded, Back, RdataEx

(* What the instruction that leaves ID does to the mapped state.           *)
Does(i) ==
    LET a == IF i.post THEN NextBase ELSE (NextBase + i.off) % AddrSpace
        b == IF i.post THEN (NextBase + i.off) % AddrSpace ELSE NextBase
    IN  \/ /\ i.op = "load"
           /\ DoneData' = [DoneData EXCEPT ![i.reg] = Isa0!LoadValue(DoneMem, a, i.type, i.sext)]
           /\ NextBase' = b /\ DoneMem' = DoneMem
        \/ /\ i.op = "store"
           /\ DoneMem' = Isa0!StoreInto(DoneMem, a, i.type, DoneData[i.reg])
           /\ NextBase' = b /\ DoneData' = DoneData
        \/ /\ i.op = "move"
           /\ DoneData' = [DoneData EXCEPT ![i.dst] = DoneData[i.src]]
           /\ DoneMem' = DoneMem /\ NextBase' = NextBase
        \/ /\ i.op = "point"
           /\ NextBase' = i.val
           /\ DoneMem' = DoneMem /\ DoneData' = DoneData
        \/ i.op = "branch" /\ Unmoved

LEMMA IssueStep ==
    ASSUME TypeOK, TypeOK', IInv, SplitInv, NEW g \in BOOLEAN, NEW v \in BOOLEAN, NEW n \in Fetched,
           Cycle(g, v, n), IdValid(g, v), id # Bubble
    PROVE  Does(id) /\ SplitInv'
<1>1. id \in Instrs /\ id \in Instruction
  BY ProgramAssumption DEF TypeOK, Fetched
<1>2. ~Misaligned(ex) /\ ExReady(g, v) /\ ex' = Loaded(id, v)
  BY DEF IdValid, Cycle, NextEx
<1>3. /\ mem' = DoneMem
      /\ base' = NextBase
      /\ \A r \in DataRegs : Back(r)' = DoneData[r]
  BY <1>2, RetireStep
<1>4. ReadBase = NextBase /\ NextBase \in Address
  BY ReadsTyped DEF ReadBase, NextBase
<1>5. DoneData = [r \in DataRegs |-> DoneData[r]] /\ DoneData' = [r \in DataRegs |-> DoneData'[r]]
  BY DoneDataIs, DoneDataPrimed
<1>6. ex.waddr \in DataRegs \cup {X0}
  BY DEF TypeOK
<1>7. X0 \notin DataRegs /\ Base \notin DataRegs /\ X0 # Base
  BY ProgramAssumption DEF X0, Base
<1>8. ASSUME NEW m, m = DoneMem PROVE m \in [Address -> Byte]
  BY <1>3, <1>8 DEF TypeOK
<1>9. CASE id.op = "load"
  <2>1. id.type \in Types /\ id.sext \in BOOLEAN /\ id.post \in BOOLEAN /\ id.off \in Address /\ id.reg \in DataRegs
    BY <1>1, <1>9 DEF Instruction
  <2>2. AluDst(id) = IF id.post THEN Base ELSE X0
    BY <1>9 DEF AluDst
  <2>3. /\ ex'.req = TRUE /\ ex'.we = FALSE /\ ex'.type = id.type /\ ex'.sext = id.sext
        /\ ex'.opA = NextBase /\ ex'.opB = id.off /\ ex'.useincr = (IF id.post THEN FALSE ELSE TRUE)
        /\ ex'.lsuwe = TRUE /\ ex'.waddr = id.reg /\ ex'.mis = FALSE
        /\ ex'.aluwe = id.post /\ ex'.aludst = AluDst(id)
    BY <1>2, <1>4, <1>9 DEF Loaded, Idle
  <2> DEFINE a == IF id.post THEN NextBase ELSE (NextBase + id.off) % AddrSpace
             b == IF id.post THEN (NextBase + id.off) % AddrSpace ELSE NextBase
  <2>4. Origin' = a
    BY <2>3 DEF Origin, DataAddr
  <2>5. NextBase' = b
    BY <1>3, <1>7, <2>1, <2>2, <2>3 DEF NextBase, AluPort, AluAddress
  <2>6. DoneMem' = DoneMem
    BY <1>3, <2>3, DoneMemPrimed
  <2> HIDE DEF a
  <2>7. ASSUME NEW r \in DataRegs
        PROVE  DoneData'[r] = IF r = id.reg THEN Isa0!LoadValue(DoneMem, a, id.type, id.sext) ELSE DoneData[r]
    <3>1. CASE r = id.reg
      BY <1>3, <2>3, <2>4, <3>1, DoneDataPrimed
    <3>2. CASE r # id.reg
      <4>1. DoneData'[r] = Forwarded(r)'
        BY <2>3, <3>2, DoneDataPrimed
      <4>2. ~AluPort(r)'
        BY <1>7, <2>2, <2>3 DEF AluPort
      <4> QED BY <1>3, <3>2, <4>1, <4>2 DEF Forwarded
    <3> QED BY <3>1, <3>2
  <2>8. DoneData' = [DoneData EXCEPT ![id.reg] = Isa0!LoadValue(DoneMem, a, id.type, id.sext)]
    BY <1>5, <2>1, <2>7
  <2>9. SplitInv'
    BY <2>2, <2>3, FreshSplit
  <2> QED BY <1>9, <2>5, <2>6, <2>8, <2>9 DEF Does, a
<1>10. CASE id.op = "store"
  <2>1. id.type \in Types /\ id.post \in BOOLEAN /\ id.off \in Address /\ id.reg \in DataRegs
    BY <1>1, <1>10 DEF Instruction
  <2>2. AluDst(id) = IF id.post THEN Base ELSE X0
    BY <1>10 DEF AluDst
  <2>3. /\ ex'.req = TRUE /\ ex'.we = TRUE /\ ex'.type = id.type
        /\ ex'.wdata = ReadData(id.reg, v)
        /\ ex'.opA = NextBase /\ ex'.opB = id.off /\ ex'.useincr = (IF id.post THEN FALSE ELSE TRUE)
        /\ ex'.lsuwe = FALSE /\ ex'.mis = FALSE
        /\ ex'.aluwe = id.post /\ ex'.aludst = AluDst(id)
    BY <1>2, <1>4, <1>10 DEF Loaded, Idle
  <2> DEFINE a == IF id.post THEN NextBase ELSE (NextBase + id.off) % AddrSpace
             b == IF id.post THEN (NextBase + id.off) % AddrSpace ELSE NextBase
  <2>4. Origin' = a
    BY <2>3 DEF Origin, DataAddr
  <2>5. NextBase' = b
    BY <1>3, <1>7, <2>1, <2>2, <2>3 DEF NextBase, AluPort, AluAddress
  <2> HIDE DEF a
  <2>6. ReadData(id.reg, v) = DoneData[id.reg]
    <3>1. id.reg \in Reads(id)
      BY <1>10 DEF Reads
    <3> QED BY <2>1, <3>1, ReadDone
  <2>7. DoneMem' = Isa0!StoreInto(DoneMem, a, id.type, DoneData[id.reg])
    <3>1. DoneMem' = Stored(mem', a, id.type, DoneData[id.reg])
      BY <2>3, <2>4, <2>6, DoneMemPrimed
    <3> QED BY <1>3, <1>8, <3>1, StoreIntoIs
  <2>8. ASSUME NEW r \in DataRegs PROVE DoneData'[r] = DoneData[r]
    <3>1. DoneData'[r] = Forwarded(r)'
      BY <2>3, DoneDataPrimed
    <3>2. ~AluPort(r)'
      BY <1>7, <2>2, <2>3 DEF AluPort
    <3> QED BY <1>3, <3>1, <3>2 DEF Forwarded
  <2>9. DoneData' = DoneData
    BY <1>5, <2>8, Zenon
  <2>10. SplitInv'
    BY <2>2, <2>3, FreshSplit
  <2> QED BY <1>10, <2>5, <2>7, <2>9, <2>10 DEF Does, a
<1>11. CASE id.op = "move"
  <2>1. id.dst \in DataRegs /\ id.src \in DataRegs
    BY <1>1, <1>11 DEF Instruction
  <2>2. /\ ex'.req = FALSE /\ ex'.mis = FALSE /\ ex'.aluwe = TRUE /\ ex'.aludst = id.dst
        /\ ex'.word = ReadData(id.src, v)
    BY <1>2, <1>11 DEF Loaded, Idle
  <2>3. ReadData(id.src, v) = DoneData[id.src]
    <3>1. id.src \in Reads(id)
      BY <1>11 DEF Reads
    <3> QED BY <2>1, <3>1, ReadDone
  <2>4. NextBase' = NextBase
    BY <1>3, <1>7, <2>1, <2>2 DEF NextBase, AluPort
  <2>5. DoneMem' = DoneMem
    BY <1>3, <2>2, DoneMemPrimed
  <2>6. ASSUME NEW r \in DataRegs
        PROVE  DoneData'[r] = IF r = id.dst THEN DoneData[id.src] ELSE DoneData[r]
    <3>1. DoneData'[r] = Forwarded(r)'
      BY <2>2, DoneDataPrimed
    <3>2. Forwarded(r)' = IF r = id.dst THEN ex'.word ELSE Back(r)'
      BY <2>2 DEF Forwarded, AluPort
    <3> QED BY <1>3, <2>2, <2>3, <3>1, <3>2
  <2>7. DoneData' = [DoneData EXCEPT ![id.dst] = DoneData[id.src]]
    BY <1>5, <2>1, <2>6
  <2>8. SplitInv'
    BY <2>2, FreshSplit
  <2> QED BY <1>11, <2>4, <2>5, <2>7, <2>8 DEF Does
<1>12. CASE id.op = "point"
  <2>1. id.val \in Address
    BY <1>1, <1>12 DEF Instruction
  <2>2. /\ ex'.req = FALSE /\ ex'.mis = FALSE /\ ex'.aluwe = TRUE /\ ex'.aludst = Base
        /\ ex'.opA = id.val /\ ex'.opB = 0
    BY <1>2, <1>12 DEF Loaded, Idle
  <2>3. NextBase' = id.val
    <3>1. NextBase' = (id.val + 0) % AddrSpace
      BY <2>2 DEF NextBase, AluPort, AluAddress
    <3> QED BY <2>1, <3>1, WrapSmall, AddrSpaceAssumption DEF Address
  <2>4. DoneMem' = DoneMem
    BY <1>3, <2>2, DoneMemPrimed
  <2>5. ASSUME NEW r \in DataRegs PROVE DoneData'[r] = DoneData[r]
    <3>1. DoneData'[r] = Forwarded(r)'
      BY <2>2, DoneDataPrimed
    <3>2. ~AluPort(r)'
      BY <1>7, <2>2 DEF AluPort
    <3> QED BY <1>3, <3>1, <3>2 DEF Forwarded
  <2>6. DoneData' = DoneData
    BY <1>5, <2>5, Zenon
  <2>7. SplitInv'
    BY <2>2, FreshSplit
  <2> QED BY <1>12, <2>3, <2>4, <2>6, <2>7 DEF Does
<1>13. CASE id.op = "branch"
  <2>1. ex'.req = FALSE /\ ex'.mis = FALSE /\ ex'.aluwe = FALSE
    BY <1>2, <1>13 DEF Loaded, Idle
  <2>2. /\ DoneMem' = mem'
        /\ NextBase' = base'
        /\ \A r \in DataRegs : DoneData'[r] = Back(r)'
    BY <2>1, SilentEx
  <2>3. \A r \in DataRegs : DoneData'[r] = DoneData[r]
    BY <1>3, <2>2
  <2>4. DoneData' = DoneData
    BY <1>5, <2>3, Zenon
  <2>5. SplitInv'
    BY <2>1, FreshSplit
  <2> QED BY <1>3, <1>13, <2>2, <2>4, <2>5 DEF Does, Unmoved
<1> QED BY <1>1, <1>9, <1>10, <1>11, <1>12, <1>13 DEF Instruction

LEMMA ArchitectureOperators ==
    /\ \A m, a, type, sext : Architecture!LoadValue(m, a, type, sext) = Isa0!LoadValue(m, a, type, sext)
    /\ \A m, a, type, w : Architecture!StoreInto(m, a, type, w) = Isa0!StoreInto(m, a, type, w)
<1>1. \A type : Architecture!Size(type) = Isa0!Size(type)
  BY Zenon DEF Architecture!Size, Isa0!Size
<1>2. \A m, a, type, sext : Architecture!LoadValue(m, a, type, sext) = Isa0!LoadValue(m, a, type, sext)
  BY Zenon DEF Architecture!LoadValue, Isa0!LoadValue, Architecture!Size, Isa0!Size
<1>3. \A m, a, type, w : Architecture!StoreInto(m, a, type, w) = Isa0!StoreInto(m, a, type, w)
  BY Zenon DEF Architecture!StoreInto, Isa0!StoreInto, Architecture!Size, Isa0!Size
<1> QED BY <1>2, <1>3

LEMMA DoesOne ==
    ASSUME NEW i \in Instrs, Does(i), issued < MaxIssued, issued' = issued + 1
    PROVE  Architecture!Next
<1> DEFINE a == IF i.post THEN NextBase ELSE (NextBase + i.off) % AddrSpace
           b == IF i.post THEN (NextBase + i.off) % AddrSpace ELSE NextBase
<1>1. Architecture!Address(i) = a /\ Architecture!NewBase(i) = b
  BY Zenon DEF Architecture!Address, Architecture!NewBase, Architecture!Sum
<1>2. \/ /\ i.op = "load"
         /\ DoneData' = [DoneData EXCEPT ![i.reg] = Isa0!LoadValue(DoneMem, a, i.type, i.sext)]
         /\ NextBase' = b /\ DoneMem' = DoneMem
      \/ /\ i.op = "store"
         /\ DoneMem' = Isa0!StoreInto(DoneMem, a, i.type, DoneData[i.reg])
         /\ NextBase' = b /\ DoneData' = DoneData
      \/ /\ i.op = "move"
         /\ DoneData' = [DoneData EXCEPT ![i.dst] = DoneData[i.src]]
         /\ DoneMem' = DoneMem /\ NextBase' = NextBase
      \/ /\ i.op = "point"
         /\ NextBase' = i.val
         /\ DoneMem' = DoneMem /\ DoneData' = DoneData
      \/ i.op = "branch" /\ DoneMem' = DoneMem /\ DoneData' = DoneData /\ NextBase' = NextBase
  BY Zenon DEF Does, Unmoved
<1> HIDE DEF a, b
<1>3. Architecture!Load(i) \/ Architecture!Store(i) \/ Architecture!Move(i) \/ Architecture!Point(i)
      \/ Architecture!Branch(i)
  <2>1. CASE /\ i.op = "load"
             /\ DoneData' = [DoneData EXCEPT ![i.reg] = Isa0!LoadValue(DoneMem, a, i.type, i.sext)]
             /\ NextBase' = b /\ DoneMem' = DoneMem
    BY <1>1, <2>1, ArchitectureOperators, Zenon DEF Architecture!Load
  <2>2. CASE /\ i.op = "store"
             /\ DoneMem' = Isa0!StoreInto(DoneMem, a, i.type, DoneData[i.reg])
             /\ NextBase' = b /\ DoneData' = DoneData
    BY <1>1, <2>2, ArchitectureOperators, Zenon DEF Architecture!Store
  <2>3. CASE /\ i.op = "move"
             /\ DoneData' = [DoneData EXCEPT ![i.dst] = DoneData[i.src]]
             /\ DoneMem' = DoneMem /\ NextBase' = NextBase
    BY <2>3, Zenon DEF Architecture!Move
  <2>4. CASE /\ i.op = "point"
             /\ NextBase' = i.val
             /\ DoneMem' = DoneMem /\ DoneData' = DoneData
    BY <2>4, Zenon DEF Architecture!Point
  <2>5. CASE i.op = "branch" /\ DoneMem' = DoneMem /\ DoneData' = DoneData /\ NextBase' = NextBase
    BY <2>5, Zenon DEF Architecture!Branch
  <2> QED BY <1>2, <2>1, <2>2, <2>3, <2>4, <2>5
<1> QED BY <1>3, Zenon DEF Architecture!Next

(* Every cycle is one step of the machine that executes one instruction    *)
(* at a time, when an instruction leaves ID, and none otherwise.           *)
LEMMA IsaStep ==
    ASSUME TypeOK, TypeOK', Counted, IInv, SplitInv, NEW g \in BOOLEAN, NEW v \in BOOLEAN, NEW n \in Fetched,
           Cycle(g, v, n)
    PROVE  [Architecture!Next]_<<DoneMem, DoneData, NextBase, issued>> /\ SplitInv'
<1>1. CASE IdValid(g, v) /\ id # Bubble
  <2>1. Does(id) /\ SplitInv'
    BY <1>1, IssueStep
  <2>2. issued < MaxIssued /\ issued' = issued + 1
    BY <1>1 DEF Counted, Cycle
  <2>3. id \in Instrs
    BY <1>1 DEF TypeOK, Fetched
  <2> QED BY <2>1, <2>2, <2>3, DoesOne
<1>2. CASE ~(IdValid(g, v) /\ id # Bubble)
  <2>1. issued' = issued
    BY <1>2 DEF Cycle
  <2>2. Unmoved /\ SplitInv'
    <3>1. CASE ~ExReady(g, v)
      BY <3>1, StalledStep
    <3>2. CASE ExReady(g, v) /\ Misaligned(ex)
      BY <3>2, SplitStep
    <3>3. CASE ExReady(g, v) /\ ~Misaligned(ex)
      <4>1. ex' = Idle(ex.waddr)
        <5>1. ex' = IF IdValid(g, v) THEN Loaded(id, v) ELSE Idle(ex.waddr)
          BY <3>3 DEF Cycle, NextEx
        <5>2. Loaded(Bubble, v) = Idle(ex.waddr)
          BY DEF Loaded, Bubble
        <5> QED BY <1>2, <5>1, <5>2
      <4> QED BY <3>3, <4>1, IdleStep
    <3> QED BY <3>1, <3>2, <3>3
  <2> QED BY <2>1, <2>2 DEF Unmoved
<1> QED BY <1>1, <1>2

LEMMA SplitInit == Init => Architecture!Init /\ SplitInv
<1> SUFFICES ASSUME Init PROVE Architecture!Init /\ SplitInv
  OBVIOUS
<1>1. ex = Idle(X0) /\ mem = InitMem /\ data = InitData /\ base = 0 /\ issued = 0 /\ wb = [we |-> FALSE, reg |-> X0]
  BY DEF Init
<1>2. ex.req = FALSE /\ ex.aluwe = FALSE /\ ex.mis = FALSE /\ wb.we = FALSE
  BY <1>1 DEF Idle
<1>3. DoneMem = InitMem /\ NextBase = 0
  BY <1>1, <1>2 DEF DoneMem, NextBase, AluPort
<1>4. DoneData = InitData
  <2>1. \A r \in DataRegs : DoneData[r] = data[r]
    BY <1>2, DoneDataIs DEF Forwarded, AluPort, Back
  <2>2. DoneData = [r \in DataRegs |-> DoneData[r]] /\ InitData = [r \in DataRegs |-> InitData[r]]
    BY DoneDataIs, ProgramAssumption
  <2> QED BY <1>1, <2>1, <2>2, Zenon
<1>5. Architecture!Init
  BY <1>1, <1>3, <1>4 DEF Architecture!Init
<1> QED BY <1>2, <1>5 DEF SplitInv, PostOnly, SplitAccess, FirstRead, FirstWritten

LEMMA CountedHolds == Spec => []Counted
<1>1. Init => TypeOK /\ Counted
  BY TypeInit
<1>2. TypeOK /\ Counted /\ [Next]_vars => TypeOK' /\ Counted'
  BY TypeStep
<1> QED BY <1>1, <1>2, PTL DEF Spec

(* Split accesses, forwarding, load stalls and write-back add up to the    *)
(* machine that executes one instruction at a time.                        *)
THEOREM IsaImplemented == Spec => ImplementsIsa
<1>1. Init => Architecture!Init /\ SplitInv
  BY SplitInit
<1>2. TypeOK /\ TypeOK' /\ Counted /\ IInv /\ SplitInv /\ [Next]_vars => [Architecture!Next]_(Architecture!isaVars) /\ SplitInv'
  <2>1. TypeOK /\ SplitInv /\ UNCHANGED vars => UNCHANGED (Architecture!isaVars) /\ SplitInv'
    <3> SUFFICES ASSUME TypeOK, SplitInv, UNCHANGED vars PROVE UNCHANGED (Architecture!isaVars) /\ SplitInv'
      OBVIOUS
    <3>1. /\ CS' = CS /\ q' = q /\ held' = held /\ id' = id /\ ex' = ex /\ wb' = wb /\ data' = data
          /\ base' = base /\ mem' = mem /\ bus' = bus /\ issued' = issued
      BY DEF vars, lsuVars
    <3>2. Origin' = Origin
      BY <3>1, Zenon DEF Origin, DataAddr
    <3>3. DoneMem' = DoneMem
      BY <3>1, <3>2, Zenon DEF DoneMem, Isa0!StoreInto, Isa0!Size
    <3>4. DoneData' = DoneData
      <4>1. Extended(bus.word)' = Extended(bus.word)
        BY <3>1, ExtendedPrimed, ExtendedIsJoined
      <4>2. \A r \in DataRegs : Forwarded(r)' = Forwarded(r)
        BY <3>1, <4>1 DEF Forwarded, Back, AluPort
      <4> QED BY <3>1, <3>2, <4>2, DoneDataIs, DoneDataPrimed
    <3>5. NextBase' = NextBase
      BY <3>1, Zenon DEF NextBase, AluPort, AluAddress
    <3>6. SplitInv'
      BY <3>1, <3>2, Zenon DEF SplitInv, PostOnly, SplitAccess, FirstRead, FirstWritten, Crosses, Isa0!Size, WordAt, First, Place
    <3> QED BY <3>1, <3>3, <3>4, <3>5, <3>6 DEF Architecture!isaVars
  <2>2. TypeOK /\ TypeOK' /\ Counted /\ IInv /\ SplitInv /\ Next => [Architecture!Next]_(Architecture!isaVars) /\ SplitInv'
    BY IsaStep, Zenon DEF Next, Architecture!isaVars
  <2> QED BY <2>1, <2>2
<1> QED BY <1>1, <1>2, TypeCorrect, CountedHolds, IInvHolds, PTL DEF Spec, ImplementsIsa, Architecture!Spec
=============================================================================
