----------------------------- MODULE FetchProofs -----------------------------
(***************************************************************************)
(* Theorems about FetchPath, for every program, every placement of         *)
(* compressed instructions, loops and denied words: the registers keep     *)
(* their types, the prefetch buffer knows when an answer is owed, and the  *)
(* FIFO always has room for it.                                            *)
(*                                                                         *)
(* The inductive invariant adds to the types that a loop target in entry 1 *)
(* is really there (TargetIsStored), and to the room for an owed answer    *)
(* the room for one that is only requested (RoomForRequest).               *)
(*                                                                         *)
(* The second part is about what the FIFO holds, for programs whose        *)
(* hardware loops jump back (LoopsBehave). A run of consecutive words of   *)
(* memory ends where the next request is for (Contents, Requested); in     *)
(* front of it there may be the word of the end of a loop, which is held   *)
(* until its instruction is taken, while the run is that of the start of   *)
(* the loop (Held). The loop registers are those of the program, less the  *)
(* decrement in flight (LoopRegs, Rounds), and jumps happen exactly at     *)
(* ends with rounds to go (Jumps). So ID is given the words of the program *)
(* in order, saved PCs follow it, and the path implements                  *)
(* InstructionStream (InStep).                                             *)
(***************************************************************************)
EXTENDS FetchPath, Integers, TLAPS

TargetIsStored == is_hwlp_Q[1] => Len(rdata_Q) >= 2

RoomForRequest ==
    CS \in {"WAIT_GNT", "WAIT_RVALID", "WAIT_ABORTED"} =>
        Len(rdata_Q) <= 3 \/ hwlp_CS = "FETCHING"

IInv == TypeOK /\ TargetIsStored /\ OneFetchOwed /\ RoomForRequest

FifoInputs == [valid : BOOLEAN, addr : Addr, data : Pair, jump : BOOLEAN]

-----------------------------------------------------------------------------
(* Addresses.                                                              *)

LEMMA EvenAddr ==
    ASSUME NEW a \in Addr
    PROVE  /\ WordOf(a) \in Addr
           /\ WordOf(a) + 1 \in Addr
           /\ ~Odd(a) => a + 1 \in Addr
BY FetchAssumption DEF Addr, WordOf, Odd

LEMMA NextWordAddr ==
    ASSUME NEW a \in Addr
    PROVE  NextWord(a) \in Addr /\ NextWord(a) + 1 \in Addr
<1>1. WordOf(a) + 2 <= Halves /\ WordOf(a) \in Nat
  BY FetchAssumption DEF Addr, WordOf
<1>2. CASE WordOf(a) + 2 = Halves
  BY <1>2, FetchAssumption DEF NextWord, Addr
<1>3. CASE WordOf(a) + 2 < Halves
  <2>1. NextWord(a) = WordOf(a) + 2
    BY <1>1, <1>3, FetchAssumption DEF NextWord
  <2>2. WordOf(a) + 3 < Halves
    BY <1>1, <1>3, FetchAssumption DEF WordOf, Addr
  <2> QED BY <2>1, <2>2, <1>1, FetchAssumption DEF Addr
<1> QED BY <1>1, <1>2, <1>3, FetchAssumption

-----------------------------------------------------------------------------
(* The FIFO.                                                               *)

LEMMA FrontType ==
    ASSUME FifoTypeOK, NEW in \in FifoInputs
    PROVE  /\ Front(in) \in Pair
           /\ OutRdata(in) \in Pair
           /\ OutAddr(in) \in Addr
           /\ OutIsHwlp(in) \in BOOLEAN
<1>1. Front(in) \in Pair
  BY DEF FifoTypeOK, FifoInputs, Front
<1>2. OutAddr(in) \in Addr
  BY DEF FifoTypeOK, FifoInputs, OutAddr
<1>3. OutIsHwlp(in) \in BOOLEAN
  BY DEF FifoTypeOK, FifoInputs, OutIsHwlp
<1>4. OutRdata(in) \in Pair
  <2> DEFINE lower == IF Len(rdata_Q) > 1 THEN rdata_Q[2][1] ELSE in.data[1]
  <2>1. lower \in Half
    BY DEF FifoTypeOK, FifoInputs, Pair
  <2>2. Front(in)[2] \in Half
    BY <1>1 DEF Pair
  <2> HIDE DEF lower
  <2>3. <<Front(in)[2], lower>> \in Pair
    BY <2>1, <2>2 DEF Pair
  <2> USE DEF lower
  <2> QED BY <1>1, <2>3 DEF OutRdata
<1> QED BY <1>1, <1>2, <1>3, <1>4

LEMMA PushedType ==
    ASSUME FifoTypeOK, TargetIsStored, NEW in \in FifoInputs
    PROVE  /\ Pushed(in) \in Seq(Pair)
           /\ Len(Pushed(in)) <= DEPTH
           /\ Len(Pushed(in)) <= Len(rdata_Q) + 1
           /\ ~in.valid => Pushed(in) = rdata_Q
           /\ rdata_Q # <<>> \/ in.valid => Pushed(in) # <<>>
           /\ PushedHwlp(in)[1] => Len(Pushed(in)) >= 2
<1>1. OutRdata(in) \in Pair /\ in.data \in Pair
  BY FrontType DEF FifoInputs
<1>2. rdata_Q \in Seq(Pair) /\ Len(rdata_Q) <= DEPTH
  BY DEF FifoTypeOK
<1>3. CASE Replaces(in)
  <2>1. Pushed(in) = <<OutRdata(in), in.data>>
    BY <1>3 DEF Pushed
  <2>2. Pushed(in) \in Seq(Pair) /\ Len(Pushed(in)) = 2
    BY <1>1, <2>1
  <2>3. Len(rdata_Q) >= 1 /\ in.valid
    BY <1>2, <1>3 DEF Replaces
  <2> QED BY <2>2, <2>3 DEF DEPTH
<1>4. CASE ~Replaces(in)
  <2>1. PushedHwlp(in)[1] => is_hwlp_Q[1]
    BY <1>4 DEF PushedHwlp, Replaces
  <2>2. CASE in.valid /\ Len(rdata_Q) < DEPTH
    <3>1. Pushed(in) = Append(rdata_Q, in.data)
      BY <1>4, <2>2 DEF Pushed
    <3>2. Pushed(in) \in Seq(Pair) /\ Len(Pushed(in)) = Len(rdata_Q) + 1
      BY <1>1, <1>2, <3>1
    <3> QED BY <1>2, <2>1, <2>2, <3>2 DEF DEPTH, TargetIsStored
  <2>3. CASE ~in.valid \/ ~(Len(rdata_Q) < DEPTH)
    <3>1. Pushed(in) = rdata_Q
      BY <1>4, <2>3 DEF Pushed
    <3>2. ~(Len(rdata_Q) < DEPTH) => rdata_Q # <<>>
      BY <1>2 DEF DEPTH
    <3>3. in.valid => rdata_Q # <<>>
      BY <2>3, <3>2
    <3>4. Len(rdata_Q) \in Nat
      BY <1>2
    <3>5. PushedHwlp(in)[1] => Len(rdata_Q) >= 2
      BY <2>1 DEF TargetIsStored
    <3>6. Len(rdata_Q) <= Len(rdata_Q) + 1
      BY <3>4
    <3> QED BY <1>2, <3>1, <3>3, <3>5, <3>6
  <2> QED BY <2>2, <2>3
<1> QED BY <1>3, <1>4

LEMMA PushedRegisters ==
    ASSUME FifoTypeOK, NEW in \in FifoInputs
    PROVE  /\ PushedAddr(in) \in [0..1 -> Addr]
           /\ PushedHwlp(in) \in [0..1 -> BOOLEAN]
           /\ PoppedAddr(in) \in Addr
<1>1. PushedAddr(in) \in [0..1 -> Addr]
  BY DEF FifoTypeOK, FifoInputs, PushedAddr
<1>2. PushedHwlp(in) \in [0..1 -> BOOLEAN]
  BY DEF FifoTypeOK, FifoInputs, PushedHwlp
<1>3. PoppedAddr(in) \in Addr
  <2> DEFINE a == PushedAddr(in)[0]
  <2>1. a \in Addr /\ PushedAddr(in)[1] \in Addr
    BY <1>1
  <2>2. NextWord(a) \in Addr /\ NextWord(a) + 1 \in Addr
    BY <2>1, NextWordAddr
  <2>3. KeepsWord(in) => a + 1 \in Addr
    BY <2>1, EvenAddr DEF KeepsWord
  <2> QED BY <2>1, <2>2, <2>3 DEF PoppedAddr
<1> QED BY <1>1, <1>2, <1>3

(* A word that leaves is there, or arrives in the same cycle.              *)
LEMMA ValidIsThere ==
    ASSUME FifoTypeOK, TargetIsStored, NEW in \in FifoInputs, OutValid(in)
    PROVE  rdata_Q # <<>> \/ in.valid
BY DEF OutValid, FifoTypeOK, TargetIsStored

LEMMA FifoStepType ==
    ASSUME NEW data \in Seq(Pair), Len(data) <= DEPTH,
           NEW addr \in [0..1 -> Addr], NEW hwlp \in [0..1 -> BOOLEAN],
           hwlp[1] => Len(data) >= 2,
           FifoStep(data, addr, hwlp)
    PROVE  FifoTypeOK' /\ TargetIsStored' /\ rdata_Q' = data
<1>1. 0 \in Addr
  BY FetchAssumption DEF Addr
<1>2. addr_Q' \in [0..1 -> Addr]
  BY <1>1 DEF FifoStep
<1> QED BY <1>2 DEF FifoStep, FifoTypeOK, TargetIsStored

LEMMA ShiftedFlags ==
    ASSUME NEW b \in BOOLEAN
    PROVE  /\ [e \in 0..1 |-> e = 0 /\ b] \in [0..1 -> BOOLEAN]
           /\ ~[e \in 0..1 |-> e = 0 /\ b][1]
<1>1. \A e \in 0..1 : (e = 0 /\ b) \in BOOLEAN
  OBVIOUS
<1>2. ~(1 = 0) /\ 1 \in 0..1
  OBVIOUS
<1>3. [e \in 0..1 |-> e = 0 /\ b][1] = (1 = 0 /\ b)
  BY <1>2
<1> QED BY <1>1, <1>2, <1>3, Zenon

LEMMA FifoCycleType ==
    ASSUME FifoTypeOK, TargetIsStored, NEW in \in FifoInputs,
           NEW ready \in BOOLEAN, NEW clear \in BOOLEAN,
           FifoCycle(in, ready, clear)
    PROVE  /\ FifoTypeOK'
           /\ TargetIsStored'
           /\ clear => Len(rdata_Q') = 0
           /\ Len(rdata_Q') <= Len(rdata_Q) + 1
           /\ ~in.valid => Len(rdata_Q') <= Len(rdata_Q)
<1>1. /\ Pushed(in) \in Seq(Pair) /\ Len(Pushed(in)) <= DEPTH
      /\ Len(Pushed(in)) <= Len(rdata_Q) + 1
      /\ ~in.valid => Len(Pushed(in)) <= Len(rdata_Q)
      /\ PushedHwlp(in)[1] => Len(Pushed(in)) >= 2
  <2>1. rdata_Q \in Seq(Pair)
    BY DEF FifoTypeOK
  <2> QED BY <2>1, PushedType
<1>2. PushedAddr(in) \in [0..1 -> Addr] /\ PushedHwlp(in) \in [0..1 -> BOOLEAN]
  BY PushedRegisters
<1>3. Len(rdata_Q) \in Nat
  BY DEF FifoTypeOK
<1>4. CASE clear
  <2> DEFINE none == [e \in 0..1 |-> FALSE]
  <2>1. FifoStep(<<>>, addr_Q, none)
    BY <1>4 DEF FifoCycle
  <2>2. addr_Q \in [0..1 -> Addr] /\ none \in [0..1 -> BOOLEAN] /\ ~none[1]
    BY DEF FifoTypeOK
  <2>3. <<>> \in Seq(Pair) /\ Len(<<>>) = 0 /\ Len(<<>>) <= DEPTH
    BY DEF DEPTH
  <2> HIDE DEF none
  <2>4. FifoTypeOK' /\ TargetIsStored' /\ rdata_Q' = <<>>
    BY <2>1, <2>2, <2>3, FifoStepType
  <2> QED BY <1>3, <2>3, <2>4
<1>5. CASE ~clear /\ ready /\ OutValid(in)
  <2> DEFINE data == IF KeepsWord(in) THEN Pushed(in) ELSE Tail(Pushed(in))
             addr == [PushedAddr(in) EXCEPT ![0] = PoppedAddr(in)]
             hwlp == [e \in 0..1 |-> e = 0 /\ PushedHwlp(in)[1]]
  <2>1. FifoStep(data, addr, hwlp)
    BY <1>5 DEF FifoCycle
  <2>2. Pushed(in) # <<>>
    BY <1>5, ValidIsThere, PushedType
  <2>3. Tail(Pushed(in)) \in Seq(Pair) /\ Len(Tail(Pushed(in))) = Len(Pushed(in)) - 1
    BY <1>1, <2>2
  <2>4. data \in Seq(Pair) /\ Len(data) <= Len(Pushed(in))
    BY <1>1, <2>3
  <2>5. addr \in [0..1 -> Addr]
    BY <1>2, PushedRegisters
  <2>6. hwlp \in [0..1 -> BOOLEAN] /\ ~hwlp[1]
    <3>1. PushedHwlp(in)[1] \in BOOLEAN
      BY <1>2
    <3> QED BY <3>1, ShiftedFlags, Zenon
  <2> HIDE DEF data, addr, hwlp
  <2>7. Len(data) <= DEPTH
    BY <1>1, <2>4 DEF DEPTH
  <2>8. FifoTypeOK' /\ TargetIsStored' /\ rdata_Q' = data
    BY <2>1, <2>4, <2>5, <2>6, <2>7, FifoStepType
  <2> QED BY <1>1, <1>3, <1>5, <2>4, <2>8
<1>6. CASE ~clear /\ ~(ready /\ OutValid(in))
  <2>1. FifoStep(Pushed(in), PushedAddr(in), PushedHwlp(in))
    BY <1>6 DEF FifoCycle
  <2>2. FifoTypeOK' /\ TargetIsStored' /\ rdata_Q' = Pushed(in)
    BY <1>1, <1>2, <2>1, FifoStepType
  <2> QED BY <1>1, <1>3, <1>6, <2>2
<1> QED BY <1>4, <1>5, <1>6

-----------------------------------------------------------------------------
(* The prefetch buffer.                                                    *)

Inputs ==
    [req : BOOLEAN, branch : BOOLEAN, target : Addr, hwloop : BOOLEAN, hwtarget : Addr,
     gnt : BOOLEAN, rvalid : BOOLEAN, rdata : Pair, err : BOOLEAN, ready : BOOLEAN]

LEMMA NothingIsPair == <<Junk, Junk>> \in Pair
BY FetchAssumption DEF Pair, Half, Junk

LEMMA FifoInType ==
    ASSUME PrefetchTypeOK, NEW rvalid \in BOOLEAN, NEW rdata \in Pair
    PROVE  FifoIn(rvalid, rdata) \in FifoInputs /\ FifoIn(rvalid, rdata).valid = FifoValid(rvalid)
<1>1. FifoValid(rvalid) \in BOOLEAN /\ (hwlp_CS = "FETCHING") \in BOOLEAN
  BY DEF FifoValid
<1>2. instr_addr_q \in Addr
  BY DEF PrefetchTypeOK
<1>3. (IF FifoValid(rvalid) THEN rdata ELSE <<Junk, Junk>>) \in Pair
  BY NothingIsPair
<1> QED BY <1>1, <1>2, <1>3 DEF FifoIn, FifoInputs

LEMMA InstrAddrType ==
    ASSUME PrefetchTypeOK, NEW i \in Inputs
    PROVE  InstrAddr(i) \in Addr
<1>1. instr_addr_q \in Addr /\ i.target \in Addr /\ i.hwtarget \in Addr
  BY DEF PrefetchTypeOK, Inputs
<1>2. NextWord(instr_addr_q) \in Addr /\ BranchAddr(i) \in Addr
  BY <1>1, NextWordAddr DEF BranchAddr
<1> QED BY <1>1, <1>2 DEF InstrAddr

LEMMA PrefetchCycleType ==
    ASSUME PrefetchTypeOK, TargetIsStored, NEW i \in Inputs, PrefetchCycle(i)
    PROVE  /\ PrefetchTypeOK'
           /\ TargetIsStored'
           /\ FifoClear(i) => Len(rdata_Q') = 0
           /\ Len(rdata_Q') <= Len(rdata_Q) + 1
           /\ ~FifoValid(i.rvalid) => Len(rdata_Q') <= Len(rdata_Q)
<1>1. CS' \in FetchStates
  <2>1. CS \in FetchStates /\ CS' = NextFetch(i)
    BY DEF PrefetchTypeOK, PrefetchCycle
  <2> QED BY <2>1 DEF NextFetch, FetchStates
<1>2. hwlp_CS' \in HwlpStates
  <2>1. hwlp_CS \in HwlpStates /\ hwlp_CS' = NextHwlp(i)
    BY DEF PrefetchTypeOK, PrefetchCycle
  <2> QED BY <2>1 DEF NextHwlp, HwlpStates
<1>3. instr_addr_q' \in Addr
  <2>1. i.hwtarget \in Addr /\ instr_addr_q \in Addr /\ InstrAddr(i) \in Addr
    BY InstrAddrType DEF Inputs, PrefetchTypeOK
  <2> QED BY <2>1 DEF PrefetchCycle
<1>4. In(i) \in FifoInputs /\ In(i).valid = FifoValid(i.rvalid)
  <2>1. i.rvalid \in BOOLEAN /\ i.rdata \in Pair
    BY DEF Inputs
  <2> QED BY <2>1, FifoInType DEF In
<1>5. i.ready \in BOOLEAN /\ FifoClear(i) \in BOOLEAN
  <2>1. i.ready \in BOOLEAN /\ i.branch \in BOOLEAN
    BY DEF Inputs
  <2> QED BY <2>1 DEF FifoClear, HwlpBranch
<1>6. FifoTypeOK /\ FifoCycle(In(i), i.ready, FifoClear(i))
  BY DEF PrefetchTypeOK, PrefetchCycle
<1>7. /\ FifoTypeOK' /\ TargetIsStored'
      /\ FifoClear(i) => Len(rdata_Q') = 0
      /\ Len(rdata_Q') <= Len(rdata_Q) + 1
      /\ ~In(i).valid => Len(rdata_Q') <= Len(rdata_Q)
  BY <1>4, <1>5, <1>6, FifoCycleType
<1>8. ~FifoValid(i.rvalid) => Len(rdata_Q') <= Len(rdata_Q)
  BY <1>4, <1>7
<1> QED BY <1>1, <1>2, <1>3, <1>7, <1>8 DEF PrefetchTypeOK

-----------------------------------------------------------------------------
(* Requests and answers.                                                   *)

LEMMA OwedKept ==
    ASSUME PrefetchTypeOK, OneFetchOwed, NEW i \in Inputs,
           i.rvalid => owed # Junk,
           i.gnt => InstrReq(i) /\ ~i.err,
           CS' = NextFetch(i),
           owed' = IF i.gnt THEN WordOf(InstrAddr(i)) ELSE IF i.rvalid THEN Junk ELSE owed
    PROVE  OneFetchOwed'
<1>1. WordOf(InstrAddr(i)) # Junk
  <2>1. WordOf(InstrAddr(i)) \in Addr
    BY InstrAddrType, EvenAddr
  <2> QED BY <2>1, FetchAssumption DEF Addr, Junk
<1>2. CS \in FetchStates
  BY DEF PrefetchTypeOK
<1>3. CASE i.gnt
  <2>1. InstrReq(i) /\ ~Refused(i)
    BY <1>3 DEF Refused
  <2>2. CS' = "WAIT_RVALID"
    BY <1>3, <2>1 DEF NextFetch
  <2>3. owed' # Junk
    BY <1>1, <1>3
  <2> QED BY <2>2, <2>3 DEF OneFetchOwed
<1>4. CASE ~i.gnt /\ InstrReq(i)
  <2>1. CS' \in {"WAIT_JUMP", "WAIT_GNT"}
    BY <1>4 DEF NextFetch
  <2>2. CASE i.rvalid
    BY <1>4, <2>1, <2>2 DEF OneFetchOwed
  <2>3. CASE ~i.rvalid
    <3>1. CS \notin {"WAIT_RVALID", "WAIT_ABORTED"}
      BY <1>4, <2>3 DEF InstrReq
    <3> QED BY <1>4, <2>1, <2>3, <3>1 DEF OneFetchOwed
  <2> QED BY <2>2, <2>3
<1>5. CASE ~i.gnt /\ ~InstrReq(i)
  <2>1. CASE Aborts(i)
    <3>1. CS = "WAIT_RVALID" /\ ~i.rvalid
      BY <2>1 DEF Aborts
    <3>2. CS' = "WAIT_ABORTED"
      BY <1>5, <2>1, <3>1 DEF NextFetch, FifoValid
    <3> QED BY <1>5, <3>1, <3>2 DEF OneFetchOwed
  <2>2. CASE ~Aborts(i) /\ FifoValid(i.rvalid)
    <3>1. i.rvalid
      BY <2>2 DEF FifoValid
    <3>2. CS' = "IDLE"
      BY <1>5, <2>2 DEF NextFetch
    <3> QED BY <1>5, <3>1, <3>2 DEF OneFetchOwed
  <2>3. CASE ~Aborts(i) /\ ~FifoValid(i.rvalid)
    <3>1. CS' = CS
      BY <1>5, <2>3 DEF NextFetch
    <3>2. ~i.rvalid
      BY <1>5, <2>3 DEF FifoValid, InstrReq, OneFetchOwed
    <3> QED BY <1>5, <3>1, <3>2 DEF OneFetchOwed
  <2> QED BY <2>1, <2>2, <2>3
<1> QED BY <1>3, <1>4, <1>5

(* A loop jump that goes out is followed by the state that lets its word   *)
(* replace what is in the FIFO; any other jump clears the FIFO.            *)
LEMMA LoopFetch ==
    ASSUME PrefetchTypeOK, NEW i \in Inputs, FetchIsHwlp(i), ~i.branch, ~HwlpBranch
    PROVE  NextHwlp(i) = "FETCHING"
<1>1. Masked(i)
  BY DEF FetchIsHwlp, MaskedStored
<1>2. CASE hwlp_CS = "NONE" /\ i.hwloop /\ ~Odd(instr_addr_q)
  <2>1. ~CompressedEnd(i) /\ ~WaitsForEnd(i)
    BY <1>2 DEF CompressedEnd, WaitsForEnd
  <2> QED BY <1>2, <2>1 DEF NextHwlp
<1>3. CASE hwlp_CS = "UNALIGNED" /\ OutValid(In(i))
  BY <1>3 DEF NextHwlp
<1>4. CASE hwlp_CS = "IN"
  BY <1>4 DEF NextHwlp
<1> QED BY <1>1, <1>2, <1>3, <1>4 DEF Masked

LEMMA RedirectClears ==
    ASSUME NEW i \in Inputs, Redirected(i)
    PROVE  FifoClear(i)
BY DEF Redirected, FifoClear

LEMMA RoomKept ==
    ASSUME PrefetchTypeOK, TargetIsStored, OneFetchOwed, RoomForRequest, NEW i \in Inputs,
           i.rvalid => owed # Junk,
           PrefetchCycle(i)
    PROVE  RoomForRequest'
<1>1. /\ FifoClear(i) => Len(rdata_Q') = 0
      /\ Len(rdata_Q') <= Len(rdata_Q) + 1
      /\ ~FifoValid(i.rvalid) => Len(rdata_Q') <= Len(rdata_Q)
  BY PrefetchCycleType
<1>2. Len(rdata_Q) \in Nat /\ Len(rdata_Q') \in Nat
  <2>1. FifoTypeOK /\ FifoTypeOK'
    BY PrefetchCycleType DEF PrefetchTypeOK
  <2> QED BY <2>1 DEF FifoTypeOK
<1>3. CS' = NextFetch(i) /\ hwlp_CS' = NextHwlp(i)
  BY DEF PrefetchCycle
<1>4. CS \in FetchStates
  BY DEF PrefetchTypeOK
<1>5. CASE Redirected(i)
  BY <1>1, <1>2, <1>5, RedirectClears DEF RoomForRequest
<1>6. CASE ~Redirected(i) /\ FetchIsHwlp(i)
  BY <1>3, <1>6, LoopFetch DEF Redirected, RoomForRequest
<1>7. CASE ~Redirected(i) /\ ~FetchIsHwlp(i)
  <2> USE <1>7
  <2>1. CASE CS = "IDLE"
    <3>1. ~FifoValid(i.rvalid) /\ ~Aborts(i)
      BY <2>1 DEF FifoValid, Aborts
    <3>2. CASE InstrReq(i)
      <4>1. InReady
        BY <2>1, <3>2 DEF InstrReq, Wants, FetchIsHwlp
      <4> QED BY <1>1, <1>2, <3>1, <4>1 DEF InReady, DEPTH, RoomForRequest
    <3>3. CASE ~InstrReq(i)
      BY <1>3, <2>1, <3>1, <3>3 DEF NextFetch, RoomForRequest
    <3> QED BY <3>2, <3>3
  <2>2. CASE CS = "WAIT_JUMP"
    <3>1. ~FifoValid(i.rvalid) /\ ~Aborts(i)
      BY <2>2 DEF FifoValid, Aborts
    <3>2. ~InstrReq(i)
      BY <2>2 DEF InstrReq, Redirected
    <3> QED BY <1>3, <2>2, <3>1, <3>2 DEF NextFetch, RoomForRequest
  <2>3. CASE CS \in {"WAIT_GNT", "WAIT_ABORTED"}
    <3>1. ~FifoValid(i.rvalid)
      BY <2>3 DEF FifoValid
    <3>2. ~(i.rvalid /\ CS # "WAIT_ABORTED")
      BY <2>3 DEF OneFetchOwed
    <3>3. hwlp_CS = "FETCHING" => hwlp_CS' = "FETCHING"
      BY <1>3, <3>2 DEF NextHwlp, Redirected
    <3> QED BY <1>1, <1>2, <2>3, <3>1, <3>3 DEF RoomForRequest
  <2>4. CASE CS = "WAIT_RVALID"
    <3>1. CASE i.rvalid /\ Wants(i)
      <4>1. InReady
        BY <2>4, <3>1 DEF InstrReq, Wants, FetchIsHwlp
      <4> QED BY <1>1, <1>2, <4>1 DEF InReady, DEPTH, RoomForRequest
    <3>2. CASE i.rvalid /\ ~Wants(i)
      <4>1. CS' = "IDLE"
        BY <1>3, <2>4, <3>2 DEF NextFetch, InstrReq, Aborts, FifoValid
      <4> QED BY <4>1 DEF RoomForRequest
    <3>3. CASE ~i.rvalid
      <4>1. ~FifoValid(i.rvalid)
        BY <3>3 DEF FifoValid
      <4>2. hwlp_CS = "FETCHING" => hwlp_CS' = "FETCHING"
        BY <1>3, <3>3 DEF NextHwlp, Redirected
      <4> QED BY <1>1, <1>2, <2>4, <4>1, <4>2 DEF RoomForRequest
    <3> QED BY <3>1, <3>2, <3>3
  <2> QED BY <1>4, <2>1, <2>2, <2>3, <2>4 DEF FetchStates
<1> QED BY <1>5, <1>6, <1>7

-----------------------------------------------------------------------------
(* One cycle of the fetch path.                                            *)

Controls ==
    [req : BOOLEAN, branch : BOOLEAN, target : Addr,
     take : BOOLEAN, clear : BOOLEAN, mark : Half]

IdType == [valid : BOOLEAN, pc : Addr, word : Pair, hwlp : BOOLEAN,
           dec : 0..N_HWLP, failed : BOOLEAN, to : Half]

LEMMA PcIfType ==
    ASSUME PrefetchTypeOK
    PROVE  PcIf \in Addr
<1>1. FifoIn(FALSE, <<Junk, Junk>>) \in FifoInputs
  BY NothingIsPair, FifoInType
<1>2. FifoTypeOK
  BY DEF PrefetchTypeOK
<1> QED BY <1>1, <1>2, FrontType DEF PcIf

LEMMA DecCntType ==
    ASSUME NEW pc, NEW dec
    PROVE  /\ DecCnt(pc, dec) \in 0..N_HWLP
           /\ HwloopJump(pc, dec) => DecCnt(pc, dec) \in Loops
           /\ HwloopJump(pc, dec) \in BOOLEAN
BY DEF DecCnt, HwloopJump, Loops, NoLoop, N_HWLP

LEMMA StoredType ==
    ASSUME owed \in Half
    PROVE  Stored \in Pair
BY NothingIsPair, FetchAssumption DEF Stored, Pair, Half, Junk

LEMMA AskedType ==
    ASSUME TypeOK, NEW c \in Controls, NEW rvalid \in BOOLEAN
    PROVE  Asked(c, rvalid) \in Inputs /\ Asked(c, rvalid).rvalid = rvalid
<1> DEFINE jump == HwloopJump(PcIf, DecInId)
           target == HwloopTarget(PcIf, DecInId)
<1>1. jump \in BOOLEAN
  BY DecCntType
<1>2. target \in Addr
  <2>1. hwlp_start \in [Loops -> Addr] /\ 0 \in Addr
    BY FetchAssumption DEF TypeOK, Addr
  <2> QED BY <2>1, DecCntType DEF HwloopTarget
<1>3. Stored \in Pair
  BY StoredType DEF TypeOK
<1>4. c.req \in BOOLEAN /\ c.branch \in BOOLEAN /\ c.target \in Addr
  BY DEF Controls
<1>5. Asked(c, rvalid) =
        [req |-> c.req, branch |-> c.branch, target |-> c.target, hwloop |-> jump,
         hwtarget |-> target, gnt |-> FALSE, rvalid |-> rvalid, rdata |-> Stored,
         err |-> FALSE, ready |-> FALSE]
  BY Zenon DEF Asked
<1> HIDE DEF jump, target
<1> QED BY <1>1, <1>2, <1>3, <1>4, <1>5 DEF Inputs

LEMMA AnsweredType ==
    ASSUME NEW c \in Controls, NEW i \in Inputs, NEW gnt \in BOOLEAN
    PROVE  /\ Answered(c, i, gnt) \in Inputs
           /\ Answered(c, i, gnt).gnt = gnt
           /\ Answered(c, i, gnt).rvalid = i.rvalid
<1> DEFINE refused == InstrReq(i) /\ WordOf(InstrAddr(i)) \in Denied
           taken == Takes(c, i)
<1>1. refused \in BOOLEAN
  OBVIOUS
<1>2. taken \in BOOLEAN
  <2>1. c.take \in BOOLEAN
    BY DEF Controls
  <2> QED BY <2>1, Zenon DEF Takes
<1>3. Answered(c, i, gnt) = [i EXCEPT !.gnt = gnt, !.err = refused, !.ready = taken]
  BY Zenon DEF Answered
<1> HIDE DEF refused, taken
<1>4. /\ [i EXCEPT !.gnt = gnt, !.err = refused, !.ready = taken] \in Inputs
      /\ [i EXCEPT !.gnt = gnt, !.err = refused, !.ready = taken].gnt = gnt
      /\ [i EXCEPT !.gnt = gnt, !.err = refused, !.ready = taken].rvalid = i.rvalid
  BY <1>1, <1>2 DEF Inputs
<1> QED BY <1>3, <1>4, Zenon

LEMMA NextIdType ==
    ASSUME TypeOK, NEW c \in Controls, NEW i \in Inputs
    PROVE  NextId(c, i) \in IdType
<1>1. PrefetchTypeOK /\ id \in IdType /\ dec_if \in 0..N_HWLP
  BY DEF TypeOK, IdType
<1>2. In(i) \in FifoInputs
  <2>1. i.rvalid \in BOOLEAN /\ i.rdata \in Pair
    BY DEF Inputs
  <2> QED BY <1>1, <2>1, FifoInType DEF In
<1>3. OutAddr(In(i)) \in Addr /\ OutRdata(In(i)) \in Pair /\ OutIsHwlp(In(i)) \in BOOLEAN
  BY <1>1, <1>2, FrontType DEF PrefetchTypeOK
<1>4. Junk \in Half /\ 0 \in Addr /\ NoLoop \in 0..N_HWLP /\ c.mark \in Half
  BY FetchAssumption DEF Junk, Half, Addr, NoLoop, N_HWLP, Controls
<1> DEFINE pc == OutAddr(In(i))
           word == OutRdata(In(i))
           hwlp == OutIsHwlp(In(i))
           failed == FetchFailed(i)
<1>5. failed \in BOOLEAN
  BY DEF FetchFailed
<1>6. CASE i.ready
  <2>1. NextId(c, i) = [valid |-> TRUE, pc |-> pc, word |-> word, hwlp |-> hwlp,
                        dec |-> IF hwlp THEN dec_if ELSE NoLoop, failed |-> FALSE, to |-> Junk]
    BY <1>6, Zenon DEF NextId
  <2> HIDE DEF pc, word, hwlp
  <2>2. pc \in Addr /\ word \in Pair /\ hwlp \in BOOLEAN
    BY <1>3 DEF pc, word, hwlp
  <2>3. (IF hwlp THEN dec_if ELSE NoLoop) \in 0..N_HWLP
    BY <1>1, <1>4
  <2> QED BY <1>4, <2>1, <2>2, <2>3 DEF IdType
<1>7. CASE ~i.ready /\ c.clear
  <2>1. NextId(c, i) = [EmptyId EXCEPT !.pc = id.pc, !.failed = failed]
    BY <1>7, Zenon DEF NextId
  <2> HIDE DEF failed
  <2>2. id.pc \in Addr /\ EmptyId \in IdType
    BY <1>1, <1>4, NothingIsPair DEF IdType, EmptyId
  <2> QED BY <1>5, <2>1, <2>2 DEF IdType
<1>8. CASE ~i.ready /\ ~c.clear
  <2>1. NextId(c, i) = [id EXCEPT !.to = IF c.mark # Junk THEN c.mark ELSE @]
    BY <1>8, Zenon DEF NextId
  <2>2. (IF c.mark # Junk THEN c.mark ELSE id.to) \in Half
    BY <1>1, <1>4 DEF IdType
  <2> QED BY <1>1, <2>1, <2>2 DEF IdType
<1> QED BY <1>6, <1>7, <1>8

LoopTypes ==
    /\ hwlp_start \in [Loops -> Addr] /\ hwlp_end \in [Loops -> Addr]
    /\ hwlp_counter \in [Loops -> 0..(Counts - 1)]

LEMMA HwloopCycleType ==
    ASSUME LoopTypes, NEW start \in Addr, NEW dec, NEW valid,
           NEW w \in Setups \cup {NoSetup}, HwloopCycle(w, start, dec, valid)
    PROVE  LoopTypes'
<1>1. \A k \in Loops : k = w.reg => w.end \in Addr /\ w.count \in 0..(Counts - 1)
  <2>1. CASE w \in Setups
    BY <2>1, ProgramAssumption
  <2>2. CASE w = NoSetup
    BY <2>2 DEF NoSetup, Loops, NoLoop, N_HWLP
  <2> QED BY <2>1, <2>2
<1>2. \A n \in 0..(Counts - 1) : (n + Counts - 1) % Counts \in 0..(Counts - 1)
  BY CountsAssumption
<1>3. hwlp_start' \in [Loops -> Addr]
  BY DEF HwloopCycle, LoopTypes
<1>4. hwlp_end' \in [Loops -> Addr]
  BY <1>1 DEF HwloopCycle, LoopTypes
<1>5. hwlp_counter' \in [Loops -> 0..(Counts - 1)]
  <2>1. \A k \in Loops : hwlp_counter[k] \in 0..(Counts - 1)
    BY DEF LoopTypes
  <2>2. \A k \in Loops : (hwlp_counter[k] + Counts - 1) % Counts \in 0..(Counts - 1)
    BY <1>2, <2>1
  <2> QED BY <1>1, <2>1, <2>2 DEF HwloopCycle
<1> QED BY <1>3, <1>4, <1>5 DEF LoopTypes

(* What a cycle keeps, whatever the controller does in it.                 *)
CycleInv ==
    /\ PrefetchTypeOK /\ LoopTypes
    /\ id \in IdType
    /\ dec_if \in 0..N_HWLP
    /\ owed \in Half
    /\ TargetIsStored /\ OneFetchOwed /\ RoomForRequest

LEMMA EdgeKeeps ==
    ASSUME IInv, NEW c \in Controls, NEW setup, NEW gnt \in BOOLEAN, NEW rvalid \in BOOLEAN,
           Edge(c, setup, gnt, rvalid)
    PROVE  CycleInv'
<1> DEFINE i == Answered(c, Asked(c, rvalid), gnt)
           w == IF setup /\ id.valid THEN SetupAt(id.pc) ELSE NoSetup
<1>1. PrefetchTypeOK /\ LoopTypes /\ dec_if \in 0..N_HWLP /\ owed \in Half
  BY DEF IInv, TypeOK, LoopTypes
<1>2. i \in Inputs /\ i.gnt = gnt /\ i.rvalid = rvalid
  <2>1. Asked(c, rvalid) \in Inputs /\ Asked(c, rvalid).rvalid = rvalid
    BY AskedType DEF IInv
  <2> QED BY <2>1, AnsweredType
<1>3. /\ rvalid => owed # Junk
      /\ gnt => InstrReq(i) /\ ~i.err
      /\ PrefetchCycle(i)
      /\ HwloopCycle(w, PcIf, id.dec, id.valid /\ id.hwlp /\ c.clear)
      /\ id' = NextId(c, i)
      /\ dec_if' = IF i.hwloop THEN DecCnt(PcIf, DecInId) ELSE dec_if
      /\ owed' = IF gnt THEN WordOf(InstrAddr(i)) ELSE IF rvalid THEN Junk ELSE owed
  BY Zenon DEF Edge
<1>4. w \in Setups \cup {NoSetup}
  BY DEF SetupAt
<1> HIDE DEF i, w
<1>5. PrefetchTypeOK' /\ TargetIsStored'
  BY <1>1, <1>2, <1>3, PrefetchCycleType DEF IInv
<1>6. LoopTypes'
  BY <1>1, <1>3, <1>4, PcIfType, HwloopCycleType
<1>7. id' \in IdType
  BY <1>2, <1>3, NextIdType DEF IInv
<1>8. dec_if' \in 0..N_HWLP
  BY <1>1, <1>3, DecCntType
<1>9. owed' \in Half
  <2>1. WordOf(InstrAddr(i)) \in Addr
    BY <1>1, <1>2, InstrAddrType, EvenAddr
  <2> QED BY <1>1, <1>3, <2>1, FetchAssumption DEF Addr, Half, Junk
<1>10. OneFetchOwed'
  <2>1. CS' = NextFetch(i)
    BY <1>3 DEF PrefetchCycle
  <2> QED BY <1>1, <1>2, <1>3, <2>1, OwedKept DEF IInv
<1>11. RoomForRequest'
  BY <1>1, <1>2, <1>3, RoomKept DEF IInv
<1> QED BY <1>5, <1>6, <1>7, <1>8, <1>9, <1>10, <1>11 DEF CycleInv

AtType == [pc : Addr, done : BOOLEAN]

LEMMA ClockKeeps ==
    ASSUME IInv, NEW c \in Controls, NEW setup, Clock(c, setup),
           ctl' \in {"RESET", "RUN", "FLUSH", "SLEEP"}, at' \in AtType
    PROVE  IInv'
<1>1. CycleInv'
  BY EdgeKeeps DEF Clock
<1> QED BY <1>1 DEF CycleInv, LoopTypes, IdType, AtType, IInv, TypeOK

LEMMA PlainTypes ==
    /\ Plain \in Controls
    /\ [Plain EXCEPT !.req = FALSE] \in Controls
    /\ [Plain EXCEPT !.clear = TRUE] \in Controls
    /\ [Plain EXCEPT !.req = FALSE, !.clear = TRUE] \in Controls
    /\ \A a \in Addr : [Plain EXCEPT !.branch = TRUE, !.target = a, !.clear = TRUE] \in Controls
    /\ \A a \in Addr, ready \in BOOLEAN :
          [Plain EXCEPT !.branch = TRUE, !.target = a, !.clear = ready, !.mark = a] \in Controls
<1>1. 0 \in Addr /\ Junk \in Half /\ Addr \subseteq Half
  BY FetchAssumption DEF Addr, Half, Junk
<1> QED BY <1>1 DEF Plain, Controls

LEMMA AdvanceTypes ==
    ASSUME NEW ready \in BOOLEAN, NEW halt_if \in BOOLEAN
    PROVE  [Plain EXCEPT !.take = ready /\ ~halt_if, !.clear = ready] \in Controls
<1> DEFINE take == ready /\ ~halt_if
<1>1. take \in BOOLEAN
  OBVIOUS
<1>2. Plain \in Controls
  BY PlainTypes
<1> HIDE DEF take
<1>3. [Plain EXCEPT !.take = take, !.clear = ready] \in Controls
  BY <1>1, <1>2 DEF Controls
<1> QED BY <1>3, Zenon DEF take

LEMMA AtTypes ==
    ASSUME TypeOK
    PROVE  /\ at \in AtType /\ Left \in AtType /\ StoppedAt \in AtType
           /\ \A a \in Targets : a \in Addr /\ ExactlyAt(a) \in AtType
<1>1. at \in AtType /\ id.pc \in Addr /\ id.to \in Half
  BY DEF TypeOK, AtType
<1>2. id.to # Junk => id.to \in Addr
  BY <1>1, FetchAssumption DEF Half, Junk, Addr
<1> QED BY <1>1, <1>2, ProgramAssumption DEF Left, StoppedAt, ExactlyAt, AtType

-----------------------------------------------------------------------------
(* The invariant.                                                          *)

LEMMA InitInv == Init => IInv
<1> SUFFICES ASSUME Init PROVE IInv
  OBVIOUS
<1>1. 0 \in Addr /\ Junk \in Half
  BY FetchAssumption DEF Addr, Half, Junk
<1>2. FifoTypeOK /\ Len(rdata_Q) = 0
  BY <1>1 DEF Init, PrefetchInit, FifoInit, FifoTypeOK, DEPTH
<1>3. PrefetchTypeOK
  BY <1>1, <1>2 DEF Init, PrefetchInit, PrefetchTypeOK, FetchStates, HwlpStates
<1>4. LoopTypes
  BY <1>1, CountsAssumption DEF Init, HwloopInit, LoopTypes
<1>5. id \in IdType /\ dec_if \in 0..N_HWLP
  BY <1>1, NothingIsPair DEF Init, EmptyId, IdType, NoLoop, N_HWLP
<1>6. TypeOK
  BY <1>1, <1>3, <1>4, <1>5 DEF Init, TypeOK, LoopTypes, IdType
<1>7. TargetIsStored /\ OneFetchOwed /\ RoomForRequest
  BY <1>2 DEF Init, PrefetchInit, FifoInit, TargetIsStored, OneFetchOwed, RoomForRequest
<1> QED BY <1>6, <1>7 DEF IInv

LEMMA StepInv == IInv /\ [Next]_vars => IInv'
<1> SUFFICES ASSUME IInv, [Next]_vars PROVE IInv'
  OBVIOUS
<1> USE DEF AtType
<1>a. TypeOK /\ ctl \in {"RESET", "RUN", "FLUSH", "SLEEP"} /\ at \in AtType
  BY DEF IInv, TypeOK
<1>b. \A a \in Targets : a \in Addr /\ ExactlyAt(a) \in AtType
  BY <1>a, AtTypes
<1>1. CASE Hold
  BY <1>a, <1>1, PlainTypes, ClockKeeps DEF Hold
<1>2. CASE Boot
  BY <1>b, <1>2, PlainTypes, ClockKeeps DEF Boot
<1>3. CASE Advance
  BY <1>a, <1>3, AtTypes, AdvanceTypes, ClockKeeps DEF Advance
<1>4. CASE Jump
  BY <1>a, <1>b, <1>4, PlainTypes, ClockKeeps DEF Jump
<1>5. CASE Branch
  BY <1>a, <1>b, <1>5, PlainTypes, ClockKeeps DEF Branch
<1>6. CASE Trap
  BY <1>a, <1>6, AtTypes, PlainTypes, ClockKeeps DEF Trap
<1>7. CASE HaltBehind
  BY <1>a, <1>7, AtTypes, PlainTypes, ClockKeeps DEF HaltBehind
<1>8. CASE FetchFault
  BY <1>a, <1>8, PlainTypes, ClockKeeps DEF FetchFault
<1>9. CASE Flush
  BY <1>a, <1>9, PlainTypes, ClockKeeps DEF Flush
<1>10. CASE SetPc
  BY <1>b, <1>10, PlainTypes, ClockKeeps DEF SetPc
<1>11. CASE Sleep
  BY <1>a, <1>11, PlainTypes, ClockKeeps DEF Sleep
<1>12. CASE UNCHANGED vars
  BY <1>12 DEF vars, prefetchVars, fifoVars, hwloopVars, IInv, TypeOK, PrefetchTypeOK,
               FifoTypeOK, TargetIsStored, OneFetchOwed, RoomForRequest
<1> QED BY <1>1, <1>2, <1>3, <1>4, <1>5, <1>6, <1>7, <1>8, <1>9, <1>10, <1>11, <1>12 DEF Next

(* All registers of the fetch path keep their types; addresses stay within *)
(* the address space when they wrap and the FIFO within its four entries.  *)
THEOREM TypeCorrect == Spec => []TypeOK
<1>1. IInv => TypeOK
  BY DEF IInv
<1> QED BY <1>1, InitInv, StepInv, PTL DEF Spec

(* The prefetch buffer waits for an answer exactly while the memory owes   *)
(* one: no jump, loop or refused request makes it lose or repeat one.      *)
THEOREM AnswersAreTracked == Spec => []OneFetchOwed
<1>1. IInv => OneFetchOwed
  BY DEF IInv
<1> QED BY <1>1, InitInv, StepInv, PTL DEF Spec

(* The FIFO never overflows: when a word may arrive there is room for it,  *)
(* or it is the word of a loop jump, which replaces what is stored.        *)
THEOREM NeverOverflows == Spec => []RoomForAnswer
<1>1. IInv => RoomForAnswer
  <2>1. RoomForRequest /\ FifoTypeOK => RoomForAnswer
    BY DEF RoomForRequest, RoomForAnswer, FifoTypeOK, DEPTH
  <2> QED BY <2>1 DEF IInv, TypeOK, PrefetchTypeOK
<1> QED BY <1>1, InitInv, StepInv, PTL DEF Spec

-----------------------------------------------------------------------------
(* What the FIFO holds while its words are in order.                       *)

LEMMA ModHalves ==
    ASSUME NEW x \in Nat, x < Halves + Halves
    PROVE  x % Halves = IF x < Halves THEN x ELSE x - Halves
<1>1. CASE x < Halves
  BY <1>1, FetchAssumption
<1>2. CASE ~(x < Halves)
  <2>1. x = Halves + (x - Halves) /\ x - Halves \in Nat /\ x - Halves < Halves
    BY <1>2, FetchAssumption
  <2> QED BY <1>2, <2>1, FetchAssumption
<1> QED BY <1>1, <1>2

LEMMA WordFacts ==
    ASSUME NEW a \in Addr
    PROVE  /\ WordOf(a) \in Addr /\ ~Odd(WordOf(a)) /\ WordOf(WordOf(a)) = WordOf(a)
           /\ NextWord(a) \in Addr /\ ~Odd(NextWord(a)) /\ WordOf(NextWord(a)) = NextWord(a)
           /\ NextWord(WordOf(a)) = NextWord(a)
           /\ Odd(a) => WordOf(a) + 1 = a
           /\ ~Odd(a) => WordOf(a) = a
<1>1. a \in Nat /\ a < Halves /\ (a % 2 = 0 \/ a % 2 = 1)
  BY FetchAssumption DEF Addr
<1>2. WordOf(a) \in Nat /\ WordOf(a) % 2 = 0 /\ WordOf(a) + 2 <= Halves
  BY <1>1, FetchAssumption DEF WordOf
<1>3. NextWord(a) = IF WordOf(a) + 2 < Halves THEN WordOf(a) + 2 ELSE 0
  BY <1>2, ModHalves, FetchAssumption DEF NextWord
<1>4. NextWord(a) \in Nat /\ NextWord(a) < Halves /\ NextWord(a) % 2 = 0
  BY <1>2, <1>3, FetchAssumption
<1>5. WordOf(WordOf(a)) = WordOf(a) /\ WordOf(NextWord(a)) = NextWord(a)
  BY <1>2, <1>4 DEF WordOf
<1>6. NextWord(WordOf(a)) = NextWord(a)
  BY <1>5 DEF NextWord
<1> QED BY <1>1, <1>2, <1>4, <1>5, <1>6, FetchAssumption DEF Addr, Odd, WordOf

LEMMA AfterFacts ==
    ASSUME NEW a \in Addr
    PROVE  /\ After(a) = IF Odd(a)
                         THEN IF a \in Compressed THEN NextWord(a) ELSE NextWord(a) + 1
                         ELSE IF a \in Compressed THEN a + 1 ELSE NextWord(a)
           /\ Odd(a) => (a + 1) % Halves = NextWord(a)
           /\ ~Odd(a) => (a + 1) % Halves = a + 1
<1>1. a \in Nat /\ a < Halves /\ (a % 2 = 0 \/ a % 2 = 1)
  BY FetchAssumption DEF Addr
<1>2. CASE Odd(a)
  <2>1. WordOf(a) = a - 1 /\ a \in Nat \ {0}
    BY <1>1, <1>2 DEF WordOf, Odd
  <2>2. NextWord(a) = (a + 1) % Halves
    BY <1>1, <2>1 DEF NextWord
  <2>3. NextWord(a) + 1 = (a + 2) % Halves
    <3>1. CASE a + 1 = Halves
      BY <1>1, <2>2, <3>1, ModHalves, FetchAssumption
    <3>2. CASE a + 1 < Halves
      <4>1. a + 2 < Halves
        BY <1>1, <1>2, <3>2, FetchAssumption DEF Odd
      <4> QED BY <1>1, <2>2, <3>2, <4>1, ModHalves, FetchAssumption
    <3> QED BY <1>1, <3>1, <3>2, FetchAssumption
  <2> QED BY <1>2, <2>2, <2>3 DEF After
<1>3. CASE ~Odd(a)
  <2>1. WordOf(a) = a /\ a + 1 < Halves
    BY <1>1, <1>3, FetchAssumption DEF WordOf, Odd
  <2>2. (a + 1) % Halves = a + 1
    BY <1>1, <2>1, ModHalves, FetchAssumption
  <2>3. NextWord(a) = (a + 2) % Halves
    BY <2>1 DEF NextWord
  <2> QED BY <1>3, <2>2, <2>3 DEF After
<1> QED BY <1>2, <1>3


WordAt(a) == <<a, a + 1>>

(* The words of a sequence are memory, and each follows the one before it. *)
Ordered(q) ==
    /\ \A k \in 1..Len(q) :
          q[k][1] \in Addr /\ WordOf(q[k][1]) = q[k][1] /\ q[k] = WordAt(q[k][1])
    /\ \A k \in 1..(Len(q) - 1) : q[k + 1][1] = NextWord(q[k][1])

(* The stored words are in order, the PC at the output is in the first.    *)
InOrder ==
    /\ Ordered(rdata_Q)
    /\ rdata_Q # <<>> => rdata_Q[1][1] = WordOf(addr_Q[0])

LastOf(q) == q[Len(q)]

(* The word that arrives fits, is memory, and follows the last one.        *)
Arrives(in) ==
    in.valid =>
        /\ Len(rdata_Q) < DEPTH
        /\ in.data = WordAt(WordOf(in.addr))
        /\ rdata_Q # <<>> => in.addr = NextWord(LastOf(rdata_Q)[1])

LEMMA WordAtParts ==
    ASSUME NEW a
    PROVE  WordAt(a)[1] = a /\ WordAt(a)[2] = a + 1
BY DEF WordAt

LEMMA OrderedAppend ==
    ASSUME NEW q \in Seq(Pair), Ordered(q), NEW a \in Addr, WordOf(a) = a, WordAt(a) \in Pair,
           q # <<>> => a = NextWord(q[Len(q)][1])
    PROVE  Ordered(Append(q, WordAt(a)))
<1> DEFINE p == WordAt(a)
           r == Append(q, p)
<1>1. p[1] = a
  BY WordAtParts
<1> HIDE DEF p
<1>2. Len(r) = Len(q) + 1 /\ r[Len(q) + 1] = p /\ Len(q) \in Nat
  OBVIOUS
<1>3. \A k \in 1..Len(q) : r[k] = q[k]
  OBVIOUS
<1> HIDE DEF r
<1>4. ASSUME NEW k \in 1..Len(r)
      PROVE  r[k][1] \in Addr /\ WordOf(r[k][1]) = r[k][1] /\ r[k] = WordAt(r[k][1])
  <2>1. CASE k = Len(q) + 1
    BY <1>1, <1>2, <2>1 DEF p
  <2>2. CASE k # Len(q) + 1
    <3>1. k \in 1..Len(q)
      BY <1>2, <2>2
    <3> QED BY <1>3, <3>1 DEF Ordered
  <2> QED BY <2>1, <2>2
<1>5. ASSUME NEW k \in 1..(Len(r) - 1)
      PROVE  r[k + 1][1] = NextWord(r[k][1])
  <2>1. CASE k = Len(q)
    <3>1. q # <<>>
      BY <1>2, <2>1
    <3>2. r[k + 1][1] = a /\ r[k] = q[Len(q)]
      BY <1>1, <1>2, <1>3, <2>1
    <3> QED BY <3>1, <3>2
  <2>2. CASE k # Len(q)
    <3>1. k \in 1..(Len(q) - 1) /\ k \in 1..Len(q) /\ k + 1 \in 1..Len(q)
      BY <1>2, <2>2
    <3> QED BY <1>3, <3>1 DEF Ordered
  <2> QED BY <2>1, <2>2
<1> QED BY <1>4, <1>5 DEF Ordered, r, p

LEMMA OrderedTail ==
    ASSUME NEW q \in Seq(Pair), Ordered(q), q # <<>>
    PROVE  /\ Ordered(Tail(q))
           /\ Tail(q) \in Seq(Pair) /\ Len(Tail(q)) = Len(q) - 1
           /\ Tail(q) # <<>> => /\ Tail(q)[1][1] = NextWord(q[1][1])
                                /\ Tail(q)[Len(Tail(q))] = q[Len(q)]
<1> DEFINE t == Tail(q)
<1>1. t \in Seq(Pair) /\ Len(t) = Len(q) - 1 /\ Len(q) \in Nat /\ Len(q) >= 1
  OBVIOUS
<1>2. \A k \in 1..Len(t) : t[k] = q[k + 1]
  OBVIOUS
<1> HIDE DEF t
<1>3. \A k \in 1..Len(t) : k + 1 \in 1..Len(q)
  BY <1>1
<1>4. \A k \in 1..(Len(t) - 1) :
        k + 1 \in 1..(Len(q) - 1) /\ k \in 1..Len(t) /\ k + 1 \in 1..Len(t)
  BY <1>1
<1>5. Ordered(t)
  BY <1>2, <1>3, <1>4 DEF Ordered
<1>6. t # <<>> => t[1][1] = NextWord(q[1][1]) /\ t[Len(t)] = q[Len(q)]
  <2> SUFFICES ASSUME t # <<>> PROVE t[1][1] = NextWord(q[1][1]) /\ t[Len(t)] = q[Len(q)]
    OBVIOUS
  <2>1. Len(t) >= 1 /\ 1 \in 1..(Len(q) - 1) /\ 1 \in 1..Len(t) /\ Len(t) \in 1..Len(t)
    BY <1>1
  <2>2. t[1] = q[2] /\ t[Len(t)] = q[Len(t) + 1]
    BY <1>2, <2>1
  <2>3. q[2][1] = NextWord(q[1][1])
    BY <2>1 DEF Ordered
  <2> QED BY <1>1, <2>2, <2>3
<1> QED BY <1>1, <1>5, <1>6 DEF t


LEMMA EvenWord ==
    ASSUME NEW a \in Addr, WordOf(a) = a
    PROVE  /\ ~Odd(a) /\ a + 1 \in Addr /\ WordOf(a + 1) = a /\ Odd(a + 1)
           /\ WordAt(a) \in Pair
<1>1. a \in Nat /\ a < Halves /\ a % 2 = 0
  BY FetchAssumption DEF Addr, WordOf
<1>2. a + 1 < Halves /\ (a + 1) % 2 = 1
  BY <1>1, FetchAssumption
<1>3. WordAt(a) \in Pair
  BY <1>1, <1>2, FetchAssumption DEF WordAt, Pair, Half
<1> QED BY <1>1, <1>2, <1>3, FetchAssumption DEF Addr, WordOf, Odd

(* The word in front is the one the PC at the output is in.                *)
LEMMA FrontIsThere ==
    ASSUME FifoTypeOK, InOrder, NEW in \in FifoInputs, Arrives(in),
           rdata_Q # <<>> \/ in.valid
    PROVE  /\ Front(in) = WordAt(WordOf(OutAddr(in)))
           /\ Odd(OutAddr(in)) => Front(in)[2] = OutAddr(in)
           /\ ~Odd(OutAddr(in)) => Front(in)[1] = OutAddr(in)
<1> DEFINE a == OutAddr(in)
<1>1. a \in Addr
  BY FrontType
<1>2. Front(in) = WordAt(WordOf(a))
  <2>1. CASE rdata_Q # <<>>
    <3>1. 1 \in 1..Len(rdata_Q)
      BY <2>1 DEF FifoTypeOK
    <3>2. rdata_Q[1] = WordAt(rdata_Q[1][1]) /\ rdata_Q[1][1] = WordOf(addr_Q[0])
      BY <2>1, <3>1 DEF InOrder, Ordered
    <3> QED BY <2>1, <3>2 DEF Front, OutAddr
  <2>2. CASE rdata_Q = <<>>
    BY <2>2 DEF Front, OutAddr, Arrives
  <2> QED BY <2>1, <2>2
<1> HIDE DEF a
<1>3. Front(in)[1] = WordOf(a) /\ Front(in)[2] = WordOf(a) + 1
  BY <1>2, WordAtParts
<1>4. (Odd(a) => Front(in)[2] = a) /\ (~Odd(a) => Front(in)[1] = a)
  BY <1>1, <1>3, WordFacts
<1> QED BY <1>2, <1>4 DEF a

(* Without a loop target in entry 1 an instruction is at the output when its words    *)
(* are.                                                                    *)
LEMMA OutIsThere ==
    ASSUME FifoTypeOK, ~is_hwlp_Q[1], InOrder,
           NEW in \in FifoInputs, Arrives(in), in.jump => rdata_Q = <<>>, OutValid(in)
    PROVE  /\ rdata_Q # <<>> \/ in.valid
           /\ Odd(OutAddr(in)) /\ OutAddr(in) \notin Compressed =>
                rdata_Q # <<>> /\ (Len(rdata_Q) > 1 \/ in.valid)
<1>1. rdata_Q # <<>> \/ in.valid
  BY DEF OutValid, FifoTypeOK
<1>2. ASSUME Odd(OutAddr(in)), OutAddr(in) \notin Compressed
      PROVE  rdata_Q # <<>> /\ (Len(rdata_Q) > 1 \/ in.valid)
  <2>1. Front(in)[2] = OutAddr(in)
    BY <1>1, <1>2, FrontIsThere
  <2>2. Unaligned(in) /\ ~UnalignedIsCompressed(in)
    BY <1>2, <2>1 DEF Unaligned, UnalignedIsCompressed
  <2>3. Len(rdata_Q) > 1 \/ (Len(rdata_Q) = 1 /\ in.valid)
    BY <2>2 DEF OutValid
  <2>4. rdata_Q # <<>>
    BY <2>3
  <2> QED BY <2>3, <2>4
<1> QED BY <1>1, <1>2

(* The aligner cuts the right instruction out of the right words.          *)
LEMMA OutIsMemory ==
    ASSUME FifoTypeOK, ~is_hwlp_Q[1], InOrder,
           NEW in \in FifoInputs, Arrives(in), in.jump => rdata_Q = <<>>, OutValid(in)
    PROVE  /\ OutRdata(in)[1] = OutAddr(in)
           /\ OutAddr(in) \notin Compressed => OutRdata(in)[2] = (OutAddr(in) + 1) % Halves
<1> DEFINE a == OutAddr(in)
<1>1. rdata_Q # <<>> \/ in.valid
  BY OutIsThere
<1>2. Front(in) = WordAt(WordOf(a)) /\ a \in Addr
  BY <1>1, FrontIsThere, FrontType
<1>3. Front(in)[1] = WordOf(a) /\ Front(in)[2] = WordOf(a) + 1
  BY <1>2, WordAtParts
<1>5. Unaligned(in) <=> Odd(a)
  BY DEF Unaligned
<1>6. CASE ~Odd(a)
  <2>1. OutRdata(in) = Front(in)
    BY <1>5, <1>6 DEF OutRdata
  <2>2. WordOf(a) = a /\ (a + 1) % Halves = a + 1
    BY <1>2, <1>6, WordFacts, AfterFacts
  <2> QED BY <1>3, <2>1, <2>2
<1>7. CASE Odd(a)
  <2> DEFINE lower == IF Len(rdata_Q) > 1 THEN rdata_Q[2][1] ELSE in.data[1]
  <2>1. OutRdata(in) = <<Front(in)[2], lower>>
    BY <1>5, <1>7 DEF OutRdata
  <2>2. Front(in)[2] = a /\ (a + 1) % Halves = NextWord(a)
    BY <1>1, <1>2, <1>7, FrontIsThere, AfterFacts
  <2>3. ASSUME a \notin Compressed PROVE lower = NextWord(a)
    <3>1. rdata_Q # <<>> /\ (Len(rdata_Q) > 1 \/ in.valid) /\ Len(rdata_Q) \in Nat
      BY <1>7, <2>3, OutIsThere DEF FifoTypeOK
    <3>2. rdata_Q[1][1] = WordOf(a) /\ NextWord(WordOf(a)) = NextWord(a)
      BY <1>2, <3>1, WordFacts DEF InOrder, OutAddr
    <3>3. CASE Len(rdata_Q) > 1
      <4>1. 1 \in 1..(Len(rdata_Q) - 1)
        BY <3>1, <3>3
      <4>2. rdata_Q[2][1] = NextWord(rdata_Q[1][1])
        BY <4>1 DEF InOrder, Ordered
      <4> QED BY <3>2, <3>3, <4>2
    <3>4. CASE ~(Len(rdata_Q) > 1)
      <4>1. Len(rdata_Q) = 1 /\ in.valid
        BY <3>1, <3>4 DEF FifoTypeOK
      <4>2. in.addr = NextWord(a)
        BY <3>1, <3>2, <4>1 DEF Arrives, LastOf
      <4>3. in.data = WordAt(NextWord(a))
        BY <1>2, <4>1, <4>2, WordFacts DEF Arrives
      <4> QED BY <3>4, <4>3, WordAtParts
    <3> QED BY <3>3, <3>4
  <2> HIDE DEF lower
  <2> QED BY <2>1, <2>2, <2>3
<1> QED BY <1>6, <1>7

LEMMA PushedOrder ==
    ASSUME FifoTypeOK, ~is_hwlp_Q[1], InOrder, NEW in \in FifoInputs, Arrives(in),
           in.jump => rdata_Q = <<>>
    PROVE  /\ Pushed(in) = IF in.valid THEN Append(rdata_Q, in.data) ELSE rdata_Q
           /\ Pushed(in) \in Seq(Pair)
           /\ Ordered(Pushed(in))
           /\ (PushedHwlp(in)[0] <=> is_hwlp_Q[0] \/ (in.valid /\ in.jump)) /\ ~PushedHwlp(in)[1]
           /\ in.valid => Pushed(in)[Len(Pushed(in))][1] = WordOf(in.addr)
           /\ Pushed(in) # <<>> => /\ Pushed(in)[1][1] = WordOf(OutAddr(in))
                                   /\ PushedAddr(in)[0] = OutAddr(in)
<1>1. Pushed(in) = IF in.valid THEN Append(rdata_Q, in.data) ELSE rdata_Q
  BY DEF Pushed, Replaces, Arrives
<1>2. (PushedHwlp(in)[0] <=> is_hwlp_Q[0] \/ (in.valid /\ in.jump)) /\ ~PushedHwlp(in)[1]
  <2>1. 0 \in 0..1 /\ 1 \in 0..1 /\ ~(0 = 1)
    OBVIOUS
  <2>2. /\ PushedHwlp(in)[0] = IF in.valid /\ in.jump /\ (0 = 1 <=> rdata_Q # <<>>)
                               THEN TRUE ELSE is_hwlp_Q[0]
        /\ PushedHwlp(in)[1] = IF in.valid /\ in.jump /\ (1 = 1 <=> rdata_Q # <<>>)
                               THEN TRUE ELSE is_hwlp_Q[1]
    BY <2>1, Zenon DEF PushedHwlp
  <2>3. is_hwlp_Q[0] \in BOOLEAN
    BY <2>1 DEF FifoTypeOK
  <2> QED BY <2>1, <2>2, <2>3, Zenon
<1>3. rdata_Q \in Seq(Pair) /\ Len(rdata_Q) \in Nat
  BY DEF FifoTypeOK
<1>4. CASE in.valid
  <2> DEFINE w == WordOf(in.addr)
  <2>1. w \in Addr /\ WordOf(w) = w /\ WordAt(w) \in Pair /\ in.data = WordAt(w)
    BY <1>4, WordFacts, EvenWord DEF Arrives, FifoInputs
  <2>2. rdata_Q # <<>> => w = NextWord(rdata_Q[Len(rdata_Q)][1])
    <3> SUFFICES ASSUME rdata_Q # <<>> PROVE w = NextWord(rdata_Q[Len(rdata_Q)][1])
      OBVIOUS
    <3>1. Len(rdata_Q) \in 1..Len(rdata_Q)
      BY <1>3
    <3>2. rdata_Q[Len(rdata_Q)][1] \in Addr
      BY <3>1 DEF InOrder, Ordered
    <3>3. in.addr = NextWord(rdata_Q[Len(rdata_Q)][1])
      BY <1>4 DEF Arrives, LastOf
    <3> QED BY <3>2, <3>3, WordFacts
  <2> HIDE DEF w
  <2>3. Ordered(Append(rdata_Q, WordAt(w)))
    BY <1>3, <2>1, <2>2, OrderedAppend DEF InOrder
  <2>4. Pushed(in) = Append(rdata_Q, WordAt(w)) /\ Pushed(in) \in Seq(Pair)
    BY <1>1, <1>3, <1>4, <2>1
  <2>5. Pushed(in)[Len(Pushed(in))] = WordAt(w)
    BY <1>3, <2>1, <2>4
  <2>6. Pushed(in)[1][1] = WordOf(OutAddr(in)) /\ PushedAddr(in)[0] = OutAddr(in)
    <3>1. CASE rdata_Q = <<>>
      BY <1>4, <2>1, <2>4, <3>1, WordAtParts DEF OutAddr, PushedAddr, w
    <3>2. CASE rdata_Q # <<>>
      <4>1. Len(rdata_Q) >= 1
        BY <1>3, <3>2
      <4>2. Pushed(in)[1] = rdata_Q[1]
        BY <1>3, <2>1, <2>4, <4>1
      <4> QED BY <3>2, <4>1, <4>2 DEF OutAddr, PushedAddr, InOrder
    <3> QED BY <3>1, <3>2
  <2> QED BY <1>1, <1>2, <2>3, <2>4, <2>5, <2>6, WordAtParts DEF w
<1>5. CASE ~in.valid
  <2>1. Pushed(in) = rdata_Q
    BY <1>1, <1>5
  <2>2. rdata_Q # <<>> => PushedAddr(in)[0] = OutAddr(in)
    BY <1>5 DEF PushedAddr, OutAddr
  <2> QED BY <1>1, <1>2, <1>3, <1>5, <2>1, <2>2 DEF InOrder, OutAddr
<1> QED BY <1>4, <1>5


(* What remains of the front word, and where the PC at the output goes.    *)
LEMMA PoppedOrder ==
    ASSUME FifoTypeOK, ~is_hwlp_Q[1], InOrder,
           NEW in \in FifoInputs, Arrives(in), in.jump => rdata_Q = <<>>, OutValid(in)
    PROVE  /\ PoppedAddr(in) = After(OutAddr(in))
           /\ KeepsWord(in) => WordOf(After(OutAddr(in))) = WordOf(OutAddr(in))
           /\ ~KeepsWord(in) =>
                /\ WordOf(After(OutAddr(in))) = NextWord(OutAddr(in))
                /\ After(OutAddr(in)) # NextWord(OutAddr(in)) => Len(Pushed(in)) > 1
<1> DEFINE a == OutAddr(in)
<1>1. a \in Addr /\ (rdata_Q # <<>> \/ in.valid)
  BY FrontType, OutIsThere
<1>2. Pushed(in) # <<>> /\ ~PushedHwlp(in)[1] /\ Pushed(in) \in Seq(Pair)
  BY <1>1, PushedOrder DEF FifoTypeOK
<1>3. PushedAddr(in)[0] = a
  BY <1>2, PushedOrder
<1>4. KeepsWord(in) <=> ~Odd(a) /\ a \in Compressed
  BY <1>1, <1>2, <1>3, FrontIsThere DEF KeepsWord
<1>5. Odd(a) => (UnalignedIsCompressed(in) <=> a \in Compressed)
  BY <1>1, FrontIsThere DEF UnalignedIsCompressed
<1>6. PoppedAddr(in) = IF KeepsWord(in) THEN a + 1
                       ELSE IF Odd(a) /\ ~UnalignedIsCompressed(in) THEN NextWord(a) + 1
                       ELSE NextWord(a)
  BY <1>2, <1>3 DEF PoppedAddr
<1>7. PoppedAddr(in) = After(a)
  BY <1>1, <1>4, <1>5, <1>6, AfterFacts
<1>8. ASSUME KeepsWord(in) PROVE WordOf(After(a)) = WordOf(a)
  <2>1. WordOf(a) = a /\ After(a) = a + 1
    BY <1>1, <1>4, <1>6, <1>7, <1>8, WordFacts
  <2> QED BY <1>1, <2>1, EvenWord
<1>9. ASSUME ~KeepsWord(in)
      PROVE  /\ WordOf(After(a)) = NextWord(a)
             /\ After(a) # NextWord(a) => Len(Pushed(in)) > 1
  <2>1. NextWord(a) \in Addr /\ WordOf(NextWord(a)) = NextWord(a)
    BY <1>1, WordFacts
  <2>2. WordOf(NextWord(a) + 1) = NextWord(a)
    BY <2>1, EvenWord
  <2>3. After(a) = NextWord(a) \/ (After(a) = NextWord(a) + 1 /\ Odd(a) /\ a \notin Compressed)
    BY <1>5, <1>6, <1>7, <1>9
  <2>4. ASSUME Odd(a), a \notin Compressed PROVE Len(Pushed(in)) > 1
    <3>1. rdata_Q # <<>> /\ (Len(rdata_Q) > 1 \/ in.valid)
      BY <2>4, OutIsThere
    <3>2. Pushed(in) = IF in.valid THEN Append(rdata_Q, in.data) ELSE rdata_Q
      BY PushedOrder
    <3>3. in.data \in Pair /\ rdata_Q \in Seq(Pair) /\ Len(rdata_Q) \in Nat /\ Len(rdata_Q) >= 1
      BY <3>1 DEF FifoInputs, FifoTypeOK
    <3> QED BY <3>1, <3>2, <3>3
  <2> QED BY <2>1, <2>2, <2>3, <2>4
<1> QED BY <1>7, <1>8, <1>9

LEMMA ClearedFlags ==
    ASSUME NEW b, ~b
    PROVE  ~[e \in 0..1 |-> e = 0 /\ b][0] /\ ~[e \in 0..1 |-> e = 0 /\ b][1]
<1>1. 0 \in 0..1 /\ 1 \in 0..1
  OBVIOUS
<1> QED BY <1>1, Zenon

(* One cycle of the FIFO.  Where the PC at the output is depends on the    *)
(* FIFO while it holds a word, and otherwise on the last request.          *)
LEMMA FifoOrder ==
    ASSUME FifoTypeOK, TargetIsStored, ~is_hwlp_Q[1], InOrder,
           NEW in \in FifoInputs, Arrives(in), in.jump => rdata_Q = <<>>,
           NEW ready \in BOOLEAN, ready => OutValid(in), FifoCycle(in, ready, FALSE)
    PROVE  /\ InOrder' /\ ~is_hwlp_Q'[1]
           /\ (is_hwlp_Q'[0] <=> ~ready /\ (is_hwlp_Q[0] \/ (in.valid /\ in.jump)))
           /\ Len(rdata_Q') <= Len(rdata_Q) + (IF in.valid THEN 1 ELSE 0)
           /\ Len(rdata_Q') >= Len(rdata_Q) + (IF in.valid THEN 1 ELSE 0) - (IF ready THEN 1 ELSE 0)
           /\ ~ready /\ ~in.valid => rdata_Q' = rdata_Q
           /\ rdata_Q' # <<>> =>
                /\ addr_Q'[0] = IF ready THEN After(OutAddr(in)) ELSE OutAddr(in)
                /\ LastOf(rdata_Q')[1] = IF in.valid THEN WordOf(in.addr) ELSE LastOf(rdata_Q)[1]
                /\ ~in.valid => rdata_Q # <<>>
           /\ rdata_Q' = <<>> /\ ready => After(OutAddr(in)) = NextWord(OutAddr(in))
<1> DEFINE a == OutAddr(in)
           p == Pushed(in)
<1>1. /\ p = IF in.valid THEN Append(rdata_Q, in.data) ELSE rdata_Q
      /\ p \in Seq(Pair) /\ Ordered(p) /\ ~PushedHwlp(in)[1]
      /\ PushedHwlp(in)[0] <=> is_hwlp_Q[0] \/ (in.valid /\ in.jump)
      /\ in.valid => p[Len(p)][1] = WordOf(in.addr)
      /\ p # <<>> => p[1][1] = WordOf(a) /\ PushedAddr(in)[0] = a
  BY PushedOrder
<1>2. rdata_Q \in Seq(Pair) /\ in.data \in Pair /\ a \in Addr
  BY FrontType DEF FifoTypeOK, FifoInputs
<1>3. Len(p) = Len(rdata_Q) + (IF in.valid THEN 1 ELSE 0) /\ Len(p) \in Nat
  BY <1>1, <1>2
<1>4. p # <<>> => p[Len(p)][1] = IF in.valid THEN WordOf(in.addr) ELSE LastOf(rdata_Q)[1]
  BY <1>1 DEF LastOf
<1>5. ~in.valid => p = rdata_Q
  BY <1>1
<1>6. CASE ready
  <2> DEFINE data == IF KeepsWord(in) THEN p ELSE Tail(p)
             addr == [PushedAddr(in) EXCEPT ![0] = PoppedAddr(in)]
             hwlp == [e \in 0..1 |-> e = 0 /\ PushedHwlp(in)[1]]
  <2>1. FifoStep(data, addr, hwlp)
    BY <1>6 DEF FifoCycle
  <2>2. p # <<>>
    BY <1>3, <1>6, OutIsThere, <1>2
  <2>3. /\ Ordered(Tail(p)) /\ Tail(p) \in Seq(Pair) /\ Len(Tail(p)) = Len(p) - 1
        /\ Tail(p) # <<>> => /\ Tail(p)[1][1] = NextWord(p[1][1])
                             /\ Tail(p)[Len(Tail(p))] = p[Len(p)]
    BY <1>1, <2>2, OrderedTail
  <2>4. /\ PoppedAddr(in) = After(a)
        /\ KeepsWord(in) => WordOf(After(a)) = WordOf(a)
        /\ ~KeepsWord(in) => /\ WordOf(After(a)) = NextWord(a)
                             /\ After(a) # NextWord(a) => Len(p) > 1
    BY <1>6, PoppedOrder
  <2>5. addr[0] = After(a)
    BY <2>4, PushedRegisters
  <2>6. ~hwlp[0] /\ ~hwlp[1]
    BY <1>1, ClearedFlags, Zenon
  <2> HIDE DEF p, a
  <2>7. data \in Seq(Pair) /\ Ordered(data) /\ Len(data) >= Len(p) - 1 /\ Len(data) <= Len(p)
    BY <1>1, <1>3, <2>3
  <2>8. data # <<>> => data[1][1] = WordOf(After(a)) /\ data[Len(data)] = p[Len(p)]
    <3>1. NextWord(WordOf(a)) = NextWord(a)
      BY <1>2, WordFacts
    <3> QED BY <1>1, <2>2, <2>3, <2>4, <3>1
  <2>9. data = <<>> => After(a) = NextWord(a)
    <3> SUFFICES ASSUME data = <<>> PROVE After(a) = NextWord(a)
      OBVIOUS
    <3>1. ~KeepsWord(in) /\ Tail(p) = <<>>
      BY <2>2
    <3>2. Len(<<>>) = 0
      OBVIOUS
    <3>3. Len(p) - 1 = 0
      BY <2>3, <3>1, <3>2, Zenon
    <3>4. Len(p) = 1
      BY <1>3, <3>3
    <3> QED BY <2>4, <3>1, <3>4
  <2> HIDE DEF data, addr, hwlp
  <2>10. rdata_Q' = data /\ is_hwlp_Q' = hwlp /\ (data # <<>> => addr_Q'[0] = addr[0])
    BY <2>1 DEF FifoStep
  <2>11. InOrder' /\ ~is_hwlp_Q'[1] /\ ~is_hwlp_Q'[0]
    BY <2>5, <2>6, <2>7, <2>8, <2>10 DEF InOrder
  <2>12. rdata_Q' # <<>> =>
           /\ addr_Q'[0] = After(a)
           /\ LastOf(rdata_Q')[1] = IF in.valid THEN WordOf(in.addr) ELSE LastOf(rdata_Q)[1]
    BY <1>4, <2>2, <2>5, <2>8, <2>10 DEF LastOf
  <2>13. ~in.valid => rdata_Q # <<>>
    BY <1>5, <2>2
  <2>14. (is_hwlp_Q'[0] <=> ~ready /\ (is_hwlp_Q[0] \/ (in.valid /\ in.jump)))
    BY <1>6, <2>11, Zenon
  <2>15. Len(rdata_Q') <= Len(p)
    BY <2>7, <2>10
  <2>16. Len(rdata_Q') >= Len(p) - 1
    BY <2>7, <2>10
  <2> USE DEF a
  <2> HIDE DEF Pushed
  <2> QED BY <1>3, <1>6, <2>9, <2>10, <2>11, <2>12, <2>13, <2>14, <2>15, <2>16
<1>7. CASE ~ready
  <2>1. FifoStep(p, PushedAddr(in), PushedHwlp(in))
    BY <1>7 DEF FifoCycle
  <2> HIDE DEF p, a
  <2>2. /\ rdata_Q' = p /\ is_hwlp_Q' = PushedHwlp(in)
        /\ p # <<>> => addr_Q'[0] = PushedAddr(in)[0]
    BY <2>1 DEF FifoStep
  <2>3. InOrder' /\ ~is_hwlp_Q'[1] /\ (is_hwlp_Q'[0] <=> is_hwlp_Q[0] \/ (in.valid /\ in.jump))
    BY <1>1, <2>2 DEF InOrder
  <2>4. rdata_Q' # <<>> =>
          /\ addr_Q'[0] = a
          /\ LastOf(rdata_Q')[1] = IF in.valid THEN WordOf(in.addr) ELSE LastOf(rdata_Q)[1]
    BY <1>1, <1>4, <2>2 DEF LastOf
  <2> QED BY <1>2, <1>3, <1>5, <1>7, <2>2, <2>3, <2>4 DEF a
<1> QED BY <1>6, <1>7


(* The last request is for the word behind the FIFO, the answer owed is    *)

(* An instruction that begins an aligned word needs no other.              *)
LEMMA AlignedOut ==
    ASSUME FifoTypeOK, NEW in \in FifoInputs, rdata_Q # <<>>, ~Odd(addr_Q[0])
    PROVE  /\ OutValid(in) /\ OutAddr(in) = addr_Q[0] /\ OutRdata(in) = rdata_Q[1]
           /\ OutIsHwlp(in) <=> is_hwlp_Q[0]
<1>1. OutAddr(in) = addr_Q[0] /\ (OutIsHwlp(in) <=> is_hwlp_Q[0])
  BY DEF OutAddr, OutIsHwlp
<1>2. ~Unaligned(in)
  BY <1>1 DEF Unaligned
<1> QED BY <1>1, <1>2 DEF OutValid, OutRdata, Front

LEMMA ClearedFifo ==
    ASSUME NEW in, NEW ready, FifoCycle(in, ready, TRUE)
    PROVE  rdata_Q' = <<>> /\ ~is_hwlp_Q'[0] /\ ~is_hwlp_Q'[1]
<1>1. FifoStep(<<>>, addr_Q, [e \in 0..1 |-> FALSE])
  BY DEF FifoCycle
<1> QED BY <1>1 DEF FifoStep

LEMMA NothingArrives ==
    ASSUME FifoTypeOK, NEW in \in FifoInputs, ~in.valid, FifoCycle(in, FALSE, FALSE)
    PROVE  /\ rdata_Q' = rdata_Q /\ (rdata_Q # <<>> => addr_Q'[0] = addr_Q[0])
           /\ (is_hwlp_Q'[0] <=> is_hwlp_Q[0]) /\ (is_hwlp_Q'[1] <=> is_hwlp_Q[1])
<1>1. FifoStep(Pushed(in), PushedAddr(in), PushedHwlp(in))
  BY DEF FifoCycle
<1>2. Pushed(in) = rdata_Q /\ PushedAddr(in)[0] = addr_Q[0]
  BY DEF Pushed, Replaces, PushedAddr
<1>3. (PushedHwlp(in)[0] <=> is_hwlp_Q[0]) /\ (PushedHwlp(in)[1] <=> is_hwlp_Q[1])
  <2>1. 0 \in 0..1 /\ 1 \in 0..1
    OBVIOUS
  <2> QED BY <2>1, Zenon DEF PushedHwlp
<1>4. /\ rdata_Q' = rdata_Q /\ is_hwlp_Q' = PushedHwlp(in)
      /\ rdata_Q # <<>> => addr_Q'[0] = PushedAddr(in)[0]
  BY <1>1, <1>2 DEF FifoStep
<1> QED BY <1>2, <1>3, <1>4

LEMMA PairTail ==
    ASSUME NEW p, NEW q
    PROVE  Tail(<<p, q>>) = <<q>> /\ <<p, q>> # <<>> /\ <<p, q>>[1] = p
OBVIOUS

(* The word of a loop jump replaces what is behind the end of the loop.    *)
LEMMA TargetArrives ==
    ASSUME FifoTypeOK, NEW in \in FifoInputs, in.valid, in.jump, rdata_Q # <<>>,
           ~is_hwlp_Q[0], OutValid(in), NEW ready \in BOOLEAN, FifoCycle(in, ready, FALSE)
    PROVE  /\ ready => /\ rdata_Q' = <<in.data>> /\ addr_Q'[0] = in.addr
                       /\ is_hwlp_Q'[0] /\ ~is_hwlp_Q'[1]
           /\ ~ready => /\ rdata_Q' = <<OutRdata(in), in.data>>
                        /\ addr_Q'[0] = addr_Q[0] /\ addr_Q'[1] = in.addr
                        /\ ~is_hwlp_Q'[0] /\ is_hwlp_Q'[1]
<1>1. Pushed(in) = <<OutRdata(in), in.data>>
  BY DEF Pushed, Replaces
<1>2. ~PushedHwlp(in)[0] /\ PushedHwlp(in)[1]
  <2>1. 0 \in 0..1 /\ 1 \in 0..1 /\ 1 = 1 /\ ~(0 = 1)
    OBVIOUS
  <2> QED BY <2>1, Zenon DEF PushedHwlp
<1>3. Len(rdata_Q) # 0
  BY DEF FifoTypeOK
<1>4. PushedAddr(in)[0] = addr_Q[0] /\ PushedAddr(in)[1] = in.addr
  BY <1>3 DEF PushedAddr, Replaces
<1>5. CASE ready
  <2> DEFINE addr == [PushedAddr(in) EXCEPT ![0] = PoppedAddr(in)]
             hwlp == [e \in 0..1 |-> e = 0 /\ PushedHwlp(in)[1]]
  <2>1. ~KeepsWord(in) /\ PoppedAddr(in) = in.addr
    BY <1>2, <1>4 DEF KeepsWord, PoppedAddr
  <2>2. FifoStep(Tail(Pushed(in)), addr, hwlp)
    BY <1>5, <2>1 DEF FifoCycle
  <2>3. addr[0] = in.addr
    BY <2>1, PushedRegisters
  <2>4. hwlp[0] /\ ~hwlp[1]
    <3>1. 0 \in 0..1 /\ 1 \in 0..1 /\ 0 = 0 /\ ~(1 = 0)
      OBVIOUS
    <3> QED BY <1>2, <3>1, Zenon
  <2>5. Tail(Pushed(in)) = <<in.data>> /\ <<in.data>> # <<>>
    BY <1>1, PairTail
  <2> HIDE DEF addr, hwlp
  <2>6. rdata_Q' = <<in.data>> /\ addr_Q'[0] = addr[0] /\ is_hwlp_Q' = hwlp
    BY <2>2, <2>5 DEF FifoStep
  <2> QED BY <1>5, <2>3, <2>4, <2>6
<1>6. CASE ~ready
  <2>1. FifoStep(Pushed(in), PushedAddr(in), PushedHwlp(in))
    BY <1>6 DEF FifoCycle
  <2>2. /\ rdata_Q' = <<OutRdata(in), in.data>> /\ is_hwlp_Q' = PushedHwlp(in)
        /\ addr_Q'[0] = PushedAddr(in)[0] /\ addr_Q'[1] = PushedAddr(in)[1]
    BY <1>1, <1>2, <2>1, PairTail DEF FifoStep
  <2> QED BY <1>2, <1>4, <1>6, <2>2
<1> QED BY <1>5, <1>6

LEMMA AppendTail ==
    ASSUME NEW q \in Seq(Pair), q # <<>>, NEW p \in Pair
    PROVE  /\ Tail(Append(q, p)) = Append(Tail(q), p)
           /\ Append(q, p)[1] = q[1] /\ Len(Append(q, p)) = Len(q) + 1
OBVIOUS

(* Behind the end of a loop the FIFO goes on with the words of its start.  *)
LEMMA TargetWaits ==
    ASSUME FifoTypeOK, NEW in \in FifoInputs, ~in.jump, Len(rdata_Q) >= 2,
           in.valid => Len(rdata_Q) < DEPTH,
           is_hwlp_Q[1], ~is_hwlp_Q[0], OutValid(in),
           NEW ready \in BOOLEAN, FifoCycle(in, ready, FALSE),
           NEW run, run = IF in.valid THEN Append(Tail(rdata_Q), in.data) ELSE Tail(rdata_Q)
    PROVE  /\ ready => /\ rdata_Q' = run /\ addr_Q'[0] = addr_Q[1]
                       /\ is_hwlp_Q'[0] /\ ~is_hwlp_Q'[1]
           /\ ~ready => /\ Tail(rdata_Q') = run /\ rdata_Q'[1] = rdata_Q[1] /\ rdata_Q' # <<>>
                        /\ addr_Q'[0] = addr_Q[0] /\ addr_Q'[1] = addr_Q[1]
                        /\ ~is_hwlp_Q'[0] /\ is_hwlp_Q'[1]
<1> DEFINE p == Pushed(in)
<1>1. rdata_Q \in Seq(Pair) /\ rdata_Q # <<>> /\ in.data \in Pair /\ Len(rdata_Q) \in Nat
  BY DEF FifoTypeOK, FifoInputs
<1>2. p = IF in.valid THEN Append(rdata_Q, in.data) ELSE rdata_Q
  BY DEF Pushed, Replaces
<1>3. Tail(p) = run /\ p[1] = rdata_Q[1] /\ Len(p) >= 2 /\ p \in Seq(Pair)
  <2>1. CASE in.valid
    <3>1. /\ Tail(Append(rdata_Q, in.data)) = Append(Tail(rdata_Q), in.data)
          /\ Append(rdata_Q, in.data)[1] = rdata_Q[1]
          /\ Len(Append(rdata_Q, in.data)) = Len(rdata_Q) + 1
      BY <1>1, AppendTail
    <3>2. Append(rdata_Q, in.data) \in Seq(Pair)
      BY <1>1
    <3>3. p = Append(rdata_Q, in.data)
      BY <1>2, <2>1
    <3> HIDE DEF p
    <3> QED BY <1>1, <2>1, <3>1, <3>2, <3>3
  <2>2. CASE ~in.valid
    BY <1>1, <1>2, <2>2
  <2> QED BY <2>1, <2>2
<1>4. ~PushedHwlp(in)[0] /\ PushedHwlp(in)[1]
  <2>1. 0 \in 0..1 /\ 1 \in 0..1
    OBVIOUS
  <2> QED BY <2>1, Zenon DEF PushedHwlp
<1>5. PushedAddr(in)[0] = addr_Q[0] /\ PushedAddr(in)[1] = addr_Q[1]
  BY <1>1 DEF PushedAddr, Replaces
<1> HIDE DEF p
<1>6. run # <<>> /\ p # <<>>
  <2>1. p # <<>>
    BY <1>3
  <2>2. Len(Tail(p)) = Len(p) - 1 /\ Len(p) \in Nat
    BY <1>3, <2>1
  <2>3. Len(run) # 0
    BY <1>3, <2>2
  <2> QED BY <2>1, <2>3
<1>7. CASE ready
  <2> DEFINE addr == [PushedAddr(in) EXCEPT ![0] = PoppedAddr(in)]
             hwlp == [e \in 0..1 |-> e = 0 /\ PushedHwlp(in)[1]]
  <2>1. ~KeepsWord(in) /\ PoppedAddr(in) = addr_Q[1]
    BY <1>4, <1>5 DEF KeepsWord, PoppedAddr
  <2>2. FifoStep(Tail(p), addr, hwlp)
    BY <1>7, <2>1 DEF FifoCycle, p
  <2>3. addr[0] = addr_Q[1]
    BY <2>1, PushedRegisters
  <2>4. hwlp[0] /\ ~hwlp[1]
    <3>1. 0 \in 0..1 /\ 1 \in 0..1 /\ 0 = 0 /\ ~(1 = 0)
      OBVIOUS
    <3> QED BY <1>4, <3>1, Zenon
  <2> HIDE DEF addr, hwlp
  <2>5. rdata_Q' = run /\ addr_Q'[0] = addr[0] /\ is_hwlp_Q' = hwlp
    <3>1. Tail(p) = run
      BY <1>3
    <3>2. FifoStep(run, addr, hwlp)
      BY <2>2, <3>1, Zenon
    <3> QED BY <1>6, <3>2 DEF FifoStep
  <2> QED BY <1>7, <2>3, <2>4, <2>5
<1>8. CASE ~ready
  <2>1. FifoStep(p, PushedAddr(in), PushedHwlp(in))
    BY <1>8 DEF FifoCycle, p
  <2>2. /\ rdata_Q' = p /\ is_hwlp_Q' = PushedHwlp(in)
        /\ addr_Q'[0] = PushedAddr(in)[0] /\ addr_Q'[1] = PushedAddr(in)[1]
    BY <1>4, <1>6, <2>1 DEF FifoStep
  <2> QED BY <1>3, <1>4, <1>5, <1>6, <1>8, <2>2
<1> QED BY <1>7, <1>8

-----------------------------------------------------------------------------
(* What the FIFO holds of the program.                                     *)

\* The first instruction after a loop jump is the next one at the output.
Flagged == IF rdata_Q = <<>> THEN hwlp_CS = "FETCHING" ELSE is_hwlp_Q[0]

\* The loop jump is asked for while the end of the loop is at the output.
Held == is_hwlp_Q[1] \/ (hwlp_CS = "FETCHING" /\ rdata_Q # <<>>)

\* The words to which the next request is added, and the PC in the first.
Run == IF is_hwlp_Q[1] THEN Tail(rdata_Q) ELSE IF hwlp_CS = "FETCHING" THEN <<>> ELSE rdata_Q
RunAddr == IF is_hwlp_Q[1] THEN addr_Q[1] ELSE IF Run = <<>> THEN instr_addr_q ELSE addr_Q[0]

Phase ==
    /\ hwlp_CS \in {"NONE", "IN", "FETCHING", "DONE"}
    /\ hwlp_CS = "DONE" => is_hwlp_Q[0] \/ is_hwlp_Q[1]
    /\ is_hwlp_Q[1] => hwlp_CS = "DONE"
    /\ is_hwlp_Q[0] => rdata_Q # <<>>

Contents ==
    /\ Ordered(Run)
    /\ Run # <<>> => Run[1][1] = WordOf(RunAddr)
    /\ Held => rdata_Q[1] = WordAt(PcIf)

(* The last request is for the word behind the run, the answer owed is for *)
(* it, and only a word the core may not execute stops the fetching.        *)
Requested ==
    /\ CS = "IDLE" => Run # <<>> /\ LastOf(Run)[1] = WordOf(instr_addr_q)
    /\ CS # "IDLE" /\ Run # <<>> => instr_addr_q = NextWord(LastOf(Run)[1]) /\ Len(Run) <= 3
    /\ CS = "WAIT_ABORTED" => Run = <<>>
    /\ CS = "WAIT_RVALID" => owed = WordOf(instr_addr_q)
    /\ CS = "WAIT_JUMP" => WordOf(instr_addr_q) \in Denied
    /\ Odd(instr_addr_q) => RunAddr = instr_addr_q /\ Len(Run) <= 1

Asking == {"WAIT_GNT", "WAIT_RVALID", "WAIT_JUMP"}

(* How the fetch path drives the inputs of the prefetch buffer.            *)
Driven(i) ==
    /\ i.rvalid => owed # Junk
    /\ i.rdata = Stored
    /\ i.ready => i.req /\ OutValid(In(i))
    /\ i.gnt => InstrReq(i) /\ ~i.err
    /\ i.err => WordOf(InstrAddr(i)) \in Denied
    /\ owed' = IF i.gnt THEN WordOf(InstrAddr(i)) ELSE IF i.rvalid THEN Junk ELSE owed

LEMMA PcIfIs == PcIf = IF rdata_Q # <<>> THEN addr_Q[0] ELSE instr_addr_q
BY DEF PcIf, OutAddr, FifoIn

LEMMA OneIsLeft == \A n \in Nat : n # 0 /\ n <= 1 => n = 1
OBVIOUS

LEMMA InputWires ==
    ASSUME PrefetchTypeOK, NEW i \in Inputs
    PROVE  /\ In(i) \in FifoInputs
           /\ In(i).addr = instr_addr_q
           /\ In(i).valid <=> FifoValid(i.rvalid)
           /\ In(i).jump <=> hwlp_CS = "FETCHING"
           /\ OutAddr(In(i)) = PcIf
           /\ OutIsHwlp(In(i)) <=> Flagged
<1>1. In(i) \in FifoInputs
  <2>1. i.rvalid \in BOOLEAN /\ i.rdata \in Pair
    BY DEF Inputs
  <2> QED BY <2>1, FifoInType DEF In
<1>2. /\ In(i).addr = instr_addr_q
      /\ In(i).valid <=> FifoValid(i.rvalid)
      /\ In(i).jump <=> hwlp_CS = "FETCHING"
  BY DEF In, FifoIn
<1>3. OutAddr(In(i)) = PcIf
  BY <1>2, PcIfIs DEF OutAddr
<1>4. OutIsHwlp(In(i)) <=> Flagged
  BY <1>2, Zenon DEF OutIsHwlp, Flagged
<1> QED BY <1>1, <1>2, <1>3, <1>4

\* The end of a loop is at the output and the jump is asked for.
LEMMA HeldFacts ==
    ASSUME PrefetchTypeOK, TargetIsStored, Held
    PROVE  rdata_Q # <<>> /\ PcIf = addr_Q[0]
<1>1. rdata_Q # <<>>
  BY DEF Held, TargetIsStored, PrefetchTypeOK, FifoTypeOK
<1> QED BY <1>1, PcIfIs

\* The run begins at the PC.
LEMMA FreeFacts ==
    ASSUME PrefetchTypeOK, Phase, ~Held
    PROVE  /\ ~is_hwlp_Q[1] /\ (hwlp_CS = "FETCHING" => rdata_Q = <<>>)
           /\ Run = rdata_Q /\ RunAddr = PcIf
<1>1. ~is_hwlp_Q[1] /\ (hwlp_CS = "FETCHING" => rdata_Q = <<>>)
  BY DEF Held
<1>2. Run = rdata_Q
  BY <1>1 DEF Run
<1> QED BY <1>1, <1>2, PcIfIs DEF RunAddr

LEMMA RunTypes ==
    ASSUME PrefetchTypeOK, TargetIsStored
    PROVE  /\ Run \in Seq(Pair) /\ Len(Run) \in Nat /\ Len(Run) <= Len(rdata_Q)
           /\ (Run = <<>> <=> Len(Run) = 0)
           /\ RunAddr \in Addr
           /\ Run = <<>> => RunAddr = instr_addr_q
<1>1. rdata_Q \in Seq(Pair) /\ Len(rdata_Q) \in Nat /\ (is_hwlp_Q[1] => Len(rdata_Q) >= 2)
  BY DEF PrefetchTypeOK, FifoTypeOK, TargetIsStored
<1>2. is_hwlp_Q[1] => /\ Tail(rdata_Q) \in Seq(Pair) /\ Len(Tail(rdata_Q)) = Len(rdata_Q) - 1
                      /\ Tail(rdata_Q) # <<>>
  <2> SUFFICES ASSUME is_hwlp_Q[1]
               PROVE  /\ Tail(rdata_Q) \in Seq(Pair) /\ Len(Tail(rdata_Q)) = Len(rdata_Q) - 1
                      /\ Tail(rdata_Q) # <<>>
    OBVIOUS
  <2>1. rdata_Q # <<>> /\ Len(rdata_Q) >= 2
    BY <1>1
  <2>2. Tail(rdata_Q) \in Seq(Pair) /\ Len(Tail(rdata_Q)) = Len(rdata_Q) - 1
    BY <1>1, <2>1
  <2>3. Tail(rdata_Q) # <<>>
    <3>1. Len(Tail(rdata_Q)) # 0 /\ Len(<<>>) = 0
      BY <1>1, <2>1, <2>2
    <3> QED BY <3>1, Zenon
  <2> QED BY <2>2, <2>3
<1>3. Run \in Seq(Pair) /\ Len(Run) <= Len(rdata_Q) /\ (is_hwlp_Q[1] => Run # <<>>)
  BY <1>1, <1>2 DEF Run
<1>4. addr_Q[0] \in Addr /\ addr_Q[1] \in Addr /\ instr_addr_q \in Addr
  BY DEF PrefetchTypeOK, FifoTypeOK
<1> QED BY <1>3, <1>4 DEF RunAddr

(* The word that arrives is memory, and the next one of the run.           *)
LEMMA AnswerArrives ==
    ASSUME PrefetchTypeOK, TargetIsStored, RoomForRequest, Requested,
           NEW i \in Inputs, Driven(i), FifoValid(i.rvalid)
    PROVE  /\ CS = "WAIT_RVALID" /\ i.rvalid
           /\ In(i).data = WordAt(WordOf(instr_addr_q))
           /\ Len(rdata_Q) < DEPTH \/ hwlp_CS = "FETCHING"
           /\ Run # <<>> => instr_addr_q = NextWord(LastOf(Run)[1])
<1>1. CS = "WAIT_RVALID" /\ i.rvalid
  BY DEF FifoValid
<1>2. Len(rdata_Q) < DEPTH \/ hwlp_CS = "FETCHING"
  BY <1>1 DEF RoomForRequest, PrefetchTypeOK, FifoTypeOK, DEPTH
<1>3. In(i).data = <<owed, owed + 1>>
  BY <1>1 DEF In, FifoIn, Driven, Stored
<1> QED BY <1>1, <1>2, <1>3 DEF Requested, WordAt

LEMMA FreeArrival ==
    ASSUME PrefetchTypeOK, TargetIsStored, RoomForRequest, Phase, Contents, Requested, ~Held,
           NEW i \in Inputs, Driven(i)
    PROVE  InOrder /\ Arrives(In(i)) /\ (In(i).jump => rdata_Q = <<>>)
<1>1. Run = rdata_Q /\ RunAddr = PcIf /\ (hwlp_CS = "FETCHING" => rdata_Q = <<>>)
  BY FreeFacts
<1>2. InOrder
  BY <1>1, PcIfIs DEF InOrder, Contents
<1>3. In(i).valid => /\ Len(rdata_Q) < DEPTH
                     /\ In(i).data = WordAt(WordOf(In(i).addr))
                     /\ rdata_Q # <<>> => In(i).addr = NextWord(LastOf(rdata_Q)[1])
  <2> SUFFICES ASSUME In(i).valid
               PROVE /\ Len(rdata_Q) < DEPTH
                     /\ In(i).data = WordAt(WordOf(In(i).addr))
                     /\ rdata_Q # <<>> => In(i).addr = NextWord(LastOf(rdata_Q)[1])
    OBVIOUS
  <2>1. Len(<<>>) < DEPTH
    BY DEF DEPTH
  <2> QED BY <1>1, <2>1, InputWires, AnswerArrives
<1> QED BY <1>1, <1>2, <1>3, InputWires DEF Arrives

-----------------------------------------------------------------------------
(* Requests.                                                               *)

(* The prefetch buffer asks for the next word.                             *)
AsksNext(i) ==
    i.req /\ InReady /\ (CS = "IDLE" \/ (CS = "WAIT_RVALID" /\ i.rvalid))

(* Nothing but the next word is asked for.                                 *)
PlainRequests(i) ==
    /\ instr_addr_q' = IF AsksNext(i) THEN NextWord(instr_addr_q) ELSE instr_addr_q
    /\ InstrReq(i) =>
         /\ InstrAddr(i) = instr_addr_q'
         /\ CS' = IF i.err THEN "WAIT_JUMP" ELSE IF i.gnt THEN "WAIT_RVALID" ELSE "WAIT_GNT"
    /\ ~InstrReq(i) => CS' = IF FifoValid(i.rvalid) THEN "IDLE" ELSE CS
    /\ InstrReq(i) <=> AsksNext(i) \/ CS = "WAIT_GNT" \/ (CS = "WAIT_ABORTED" /\ i.rvalid)

(* The word at a is asked for, or will be when the last request is         *)
(* answered.                                                               *)
JumpRequests(i, a) ==
    /\ instr_addr_q' = a
    /\ InstrReq(i) => InstrAddr(i) = a /\ CS' \in Asking
    /\ InstrReq(i) /\ CS' = "WAIT_RVALID" => i.gnt
    /\ InstrReq(i) /\ CS' = "WAIT_JUMP" => i.err
    /\ ~InstrReq(i) => CS' = "WAIT_ABORTED"

LEMMA UnmaskedWires ==
    ASSUME hwlp_CS \in {"NONE", "FETCHING", "DONE"}, NEW i, i.hwloop => hwlp_CS # "NONE"
    PROVE  /\ ~Masked(i) /\ ~MaskedStored(i) /\ ~Speculative(i) /\ ~HwlpBranch
           /\ Redirected(i) <=> i.branch
<1>1. ~Masked(i) /\ ~Speculative(i) /\ ~HwlpBranch
  BY DEF Masked, Speculative, HwlpBranch
<1>2. ~MaskedStored(i)
  BY <1>1 DEF MaskedStored
<1>3. Redirected(i) <=> i.branch
  BY <1>1 DEF Redirected
<1> QED BY <1>1, <1>2, <1>3

LEMMA UnmaskedRequests ==
    ASSUME PrefetchTypeOK, hwlp_CS \in {"NONE", "FETCHING", "DONE"}, NEW i \in Inputs,
           i.hwloop => hwlp_CS # "NONE", ~i.branch, PrefetchCycle(i)
    PROVE  PlainRequests(i)
<1>1. ~Masked(i) /\ ~MaskedStored(i) /\ ~Speculative(i) /\ ~Redirected(i)
  BY UnmaskedWires
<1>2. CS \in FetchStates
  BY DEF PrefetchTypeOK
<1>3. InstrReq(i) <=> AsksNext(i) \/ CS = "WAIT_GNT" \/ (CS = "WAIT_ABORTED" /\ i.rvalid)
  BY <1>1, <1>2, Zenon DEF InstrReq, Wants, AsksNext, FetchStates
<1>4. ~Aborts(i)
  BY <1>1 DEF Aborts
<1>5. CS' = NextFetch(i)
  BY DEF PrefetchCycle
<1>6. instr_addr_q' = IF AddrValid(i) THEN InstrAddr(i) ELSE instr_addr_q
  BY <1>1 DEF PrefetchCycle
<1>7. AddrValid(i) <=> AsksNext(i)
  BY <1>1, <1>2, <1>3, <1>4, Zenon DEF AddrValid, AsksNext, FetchStates
<1>8. AsksNext(i) => InstrAddr(i) = NextWord(instr_addr_q)
  BY <1>1 DEF InstrAddr, AsksNext
<1>9. CS \in {"WAIT_GNT", "WAIT_ABORTED"} => InstrAddr(i) = instr_addr_q
  BY <1>1 DEF InstrAddr
<1>10. InstrReq(i) => CS # "WAIT_JUMP"
  BY <1>3 DEF AsksNext
<1>11. InstrReq(i) =>
         CS' = IF i.err THEN "WAIT_JUMP" ELSE IF i.gnt THEN "WAIT_RVALID" ELSE "WAIT_GNT"
  BY <1>5, <1>10 DEF NextFetch, Refused
<1>12. ~InstrReq(i) => CS' = IF FifoValid(i.rvalid) THEN "IDLE" ELSE CS
  BY <1>4, <1>5 DEF NextFetch
<1>13. instr_addr_q' = IF AsksNext(i) THEN NextWord(instr_addr_q) ELSE instr_addr_q
  BY <1>6, <1>7, <1>8
<1>14. InstrReq(i) => InstrAddr(i) = instr_addr_q'
  BY <1>3, <1>8, <1>9, <1>13
<1> QED BY <1>3, <1>11, <1>12, <1>13, <1>14 DEF PlainRequests

(* A jump empties the FIFO; the request goes out or waits for the answer   *)
(* to the last one.                                                        *)
LEMMA BranchRequests ==
    ASSUME PrefetchTypeOK, Phase, NEW i \in Inputs, i.branch, i.req, PrefetchCycle(i)
    PROVE  /\ JumpRequests(i, i.target)
           /\ rdata_Q' = <<>> /\ ~is_hwlp_Q'[0] /\ ~is_hwlp_Q'[1] /\ hwlp_CS' = "NONE"
<1>1. Redirected(i) /\ FifoClear(i) /\ ~HwlpBranch
  BY DEF Redirected, FifoClear, HwlpBranch, Phase
<1>2. CS \in FetchStates
  BY DEF PrefetchTypeOK
<1>3. Wants(i) <=> CS \in {"IDLE", "WAIT_RVALID"}
  BY <1>1, Zenon DEF Wants
<1>4. InstrReq(i) <=> CS \in {"IDLE", "WAIT_JUMP", "WAIT_GNT"} \/ i.rvalid
  BY <1>1, <1>2, <1>3, Zenon DEF InstrReq, FetchStates
<1>5. ~InstrReq(i) => CS = "WAIT_ABORTED" \/ Aborts(i)
  BY <1>1, <1>2, <1>3, <1>4, Zenon DEF Aborts, FetchStates
<1>6. InstrAddr(i) = i.target
  BY <1>1 DEF InstrAddr, BranchAddr
<1>7. AddrValid(i)
  BY <1>1, <1>2, <1>4, <1>5, Zenon DEF AddrValid, FetchStates
<1>8. instr_addr_q' = i.target
  BY <1>6, <1>7 DEF PrefetchCycle
<1>9. CS' = NextFetch(i) /\ hwlp_CS' = NextHwlp(i)
  BY DEF PrefetchCycle
<1>10. FifoCycle(In(i), i.ready, TRUE)
  <2>1. FifoClear(i) = TRUE
    BY <1>1 DEF FifoClear
  <2> QED BY <2>1 DEF PrefetchCycle
<1>11. rdata_Q' = <<>> /\ ~is_hwlp_Q'[0] /\ ~is_hwlp_Q'[1]
  BY <1>10, ClearedFifo
<1>12. ~InstrReq(i) => CS' = "WAIT_ABORTED"
  <2>1. Aborts(i) => ~FifoValid(i.rvalid)
    BY DEF Aborts, FifoValid
  <2>2. CS = "WAIT_ABORTED" => ~FifoValid(i.rvalid)
    BY DEF FifoValid
  <2> QED BY <1>5, <1>9, <2>1, <2>2 DEF NextFetch
<1>13. hwlp_CS' = "NONE"
  BY <1>9 DEF NextHwlp
<1>14. JumpRequests(i, i.target)
  BY <1>6, <1>8, <1>9, <1>12 DEF NextFetch, Refused, Asking, JumpRequests
<1> QED BY <1>11, <1>13, <1>14

LEMMA JumpKept ==
    ASSUME NEW i, NEW a, Driven(i), JumpRequests(i, a), Run' = <<>>, ~is_hwlp_Q'[1]
    PROVE  Requested' /\ RunAddr' = a
<1>1. RunAddr' = a
  BY DEF RunAddr, JumpRequests
<1>2. Len(Run') = 0
  OBVIOUS
<1>3. CS' \in {"WAIT_GNT", "WAIT_RVALID", "WAIT_JUMP", "WAIT_ABORTED"} /\ instr_addr_q' = a
  BY DEF JumpRequests, Asking
<1>4. CS' = "WAIT_RVALID" => owed' = WordOf(a)
  BY DEF JumpRequests, Driven
<1>5. CS' = "WAIT_JUMP" => WordOf(a) \in Denied
  BY DEF JumpRequests, Driven
<1> QED BY <1>1, <1>2, <1>3, <1>4, <1>5 DEF Requested

-----------------------------------------------------------------------------
(* The run of words after a cycle.                                         *)

RunLength ==
    /\ Len(Run) \in Nat
    /\ (Run = <<>> <=> Len(Run) = 0)
    /\ Run = <<>> => RunAddr = instr_addr_q

LEMMA RunLengthIs == PrefetchTypeOK /\ TargetIsStored => RunLength
BY RunTypes DEF RunLength

LEMMA NextRunLength == PrefetchTypeOK' /\ TargetIsStored' => RunLength'
BY RunLengthIs, PTL

(* The run after a cycle in which nothing but the next word is asked for.  *)
(* v words arrive, popped says that an instruction of the run is taken.    *)
Runs(valid, popped, v, r) ==
    /\ v = IF valid THEN 1 ELSE 0
    /\ r = IF popped THEN 1 ELSE 0
    /\ Len(Run') >= Len(Run) + v - r /\ Len(Run') <= Len(Run) + v
    /\ popped => Run # <<>> \/ valid
    /\ Run' # <<>> =>
         /\ RunAddr' = IF popped THEN After(RunAddr) ELSE RunAddr
         /\ LastOf(Run')[1] = IF valid THEN WordOf(instr_addr_q) ELSE LastOf(Run)[1]
         /\ ~valid => Run # <<>>
    /\ Run' = <<>> /\ popped => After(RunAddr) = NextWord(RunAddr)

LEMMA RunKept ==
    ASSUME PrefetchTypeOK, TargetIsStored, PrefetchTypeOK', TargetIsStored', Contents, Requested,
           NEW i \in Inputs, Driven(i), PlainRequests(i),
           NEW popped \in BOOLEAN, popped => i.req /\ Run = rdata_Q,
           NEW v, NEW r, Runs(FifoValid(i.rvalid), popped, v, r)
    PROVE  Requested' /\ RunAddr' = IF popped THEN After(RunAddr) ELSE RunAddr
<1> DEFINE valid == FifoValid(i.rvalid)
<1>1. instr_addr_q \in Addr /\ i.ready \in BOOLEAN
  BY DEF PrefetchTypeOK, Inputs
<1>2. /\ Run \in Seq(Pair) /\ Len(Run) \in Nat /\ Len(Run) <= Len(rdata_Q)
      /\ (Run = <<>> <=> Len(Run) = 0)
      /\ RunAddr \in Addr
      /\ Run = <<>> => RunAddr = instr_addr_q
  BY RunTypes
<1>3. /\ Len(Run') \in Nat
      /\ (Run' = <<>> <=> Len(Run') = 0)
      /\ Run' = <<>> => RunAddr' = instr_addr_q'
  BY NextRunLength DEF RunLength
<1>4. Len(rdata_Q) \in Nat
  BY DEF PrefetchTypeOK, FifoTypeOK
<1>5. /\ Len(Run') >= Len(Run) + v - r /\ Len(Run') <= Len(Run) + v
      /\ popped => Run # <<>> \/ valid
      /\ Run' # <<>> =>
           /\ RunAddr' = IF popped THEN After(RunAddr) ELSE RunAddr
           /\ LastOf(Run')[1] = IF valid THEN WordOf(instr_addr_q) ELSE LastOf(Run)[1]
           /\ ~valid => Run # <<>>
      /\ Run' = <<>> /\ popped => After(RunAddr) = NextWord(RunAddr)
  BY DEF Runs
<1>6. valid <=> CS = "WAIT_RVALID" /\ i.rvalid
  BY DEF FifoValid
<1>7. /\ instr_addr_q' = IF AsksNext(i) THEN NextWord(instr_addr_q) ELSE instr_addr_q
      /\ InstrReq(i) =>
           /\ InstrAddr(i) = instr_addr_q'
           /\ CS' = IF i.err THEN "WAIT_JUMP" ELSE IF i.gnt THEN "WAIT_RVALID" ELSE "WAIT_GNT"
      /\ ~InstrReq(i) => CS' = IF valid THEN "IDLE" ELSE CS
      /\ InstrReq(i) <=> AsksNext(i) \/ CS = "WAIT_GNT" \/ (CS = "WAIT_ABORTED" /\ i.rvalid)
  BY DEF PlainRequests
<1>8. popped => i.req /\ Run = rdata_Q
  OBVIOUS
<1>9. NextWord(WordOf(instr_addr_q)) = NextWord(instr_addr_q) /\ ~Odd(NextWord(instr_addr_q))
  BY <1>1, WordFacts
<1>10. Run # <<>> => LastOf(Run)[1] \in Addr
  <2>1. Run # <<>> => Len(Run) \in 1..Len(Run)
    BY <1>2
  <2> QED BY <2>1 DEF Contents, Ordered, LastOf
<1>11. AsksNext(i) <=> i.req /\ InReady /\ (CS = "IDLE" \/ valid)
  BY <1>6 DEF AsksNext
<1>12. InReady <=> Len(rdata_Q) < 3
  BY DEF InReady, DEPTH
<1>13. v \in 0..1 /\ (valid <=> v = 1) /\ r \in 0..1 /\ (popped <=> r = 1)
  BY DEF Runs
<1> HIDE DEF valid
<1>14. CS' = "IDLE" => Run' # <<>> /\ LastOf(Run')[1] = WordOf(instr_addr_q')
  <2> SUFFICES ASSUME CS' = "IDLE" PROVE Run' # <<>> /\ LastOf(Run')[1] = WordOf(instr_addr_q')
    OBVIOUS
  <2>1. ~InstrReq(i) /\ ~AsksNext(i)
    BY <1>7
  <2>2. CS = "IDLE" \/ valid
    BY <1>7, <2>1
  <2>3. popped => ~(Len(rdata_Q) < 3)
    BY <1>8, <1>11, <1>12, <2>1, <2>2
  <2>4. CS = "IDLE" => Len(Run) # 0 /\ LastOf(Run)[1] = WordOf(instr_addr_q)
    BY <1>2 DEF Requested
  <2>5. Len(Run) + v - r > 0
    BY <1>2, <1>4, <1>8, <1>13, <2>2, <2>3, <2>4
  <2>6. Run' # <<>>
    BY <1>2, <1>3, <1>5, <1>13, <2>5
  <2> QED BY <1>5, <1>7, <2>1, <2>2, <2>4, <2>6
<1>15. CS' # "IDLE" /\ Run' # <<>> => instr_addr_q' = NextWord(LastOf(Run')[1]) /\ Len(Run') <= 3
  <2> SUFFICES ASSUME CS' # "IDLE", Run' # <<>>
               PROVE  instr_addr_q' = NextWord(LastOf(Run')[1]) /\ Len(Run') <= 3
    OBVIOUS
  <2>1. CASE AsksNext(i)
    <3>1. LastOf(Run')[1] = WordOf(instr_addr_q)
      BY <1>5, <1>11, <2>1 DEF Requested
    <3>2. Len(Run') <= 3
      BY <1>2, <1>3, <1>4, <1>5, <1>11, <1>12, <1>13, <2>1
    <3> QED BY <1>7, <1>9, <2>1, <3>1, <3>2
  <2>2. CASE ~AsksNext(i)
    <3>1. CS # "IDLE"
      BY <1>7, <2>2
    <3>2. ~valid
      BY <1>6, <1>7, <2>2
    <3>3. Len(Run') <= Len(Run) /\ Run # <<>>
      BY <1>2, <1>3, <1>5, <1>13, <3>2
    <3>4. LastOf(Run')[1] = LastOf(Run)[1]
      BY <1>5, <3>2
    <3>5. instr_addr_q = NextWord(LastOf(Run)[1]) /\ Len(Run) <= 3
      BY <3>1, <3>3 DEF Requested
    <3>6. Len(Run') <= 3
      BY <1>2, <1>3, <3>3, <3>5
    <3> QED BY <1>7, <2>2, <3>4, <3>5, <3>6
  <2> QED BY <2>1, <2>2
<1>16. CS' = "WAIT_ABORTED" => Run' = <<>>
  <2> SUFFICES ASSUME CS' = "WAIT_ABORTED" PROVE Run' = <<>>
    OBVIOUS
  <2>1. CS = "WAIT_ABORTED" /\ ~valid
    BY <1>6, <1>7
  <2> QED BY <1>5, <2>1 DEF Requested
<1>17. CS' = "WAIT_RVALID" => owed' = WordOf(instr_addr_q')
  <2> SUFFICES ASSUME CS' = "WAIT_RVALID" PROVE owed' = WordOf(instr_addr_q')
    OBVIOUS
  <2>1. CASE InstrReq(i)
    <3>1. i.gnt
      BY <1>7, <2>1
    <3> QED BY <1>7, <2>1, <3>1 DEF Driven
  <2>2. CASE ~InstrReq(i)
    <3>1. CS = "WAIT_RVALID" /\ ~i.rvalid /\ ~i.gnt /\ ~AsksNext(i)
      BY <1>6, <1>7, <2>2 DEF Driven
    <3> QED BY <1>7, <3>1 DEF Driven, Requested
  <2> QED BY <2>1, <2>2
<1>18. CS' = "WAIT_JUMP" => WordOf(instr_addr_q') \in Denied
  <2> SUFFICES ASSUME CS' = "WAIT_JUMP" PROVE WordOf(instr_addr_q') \in Denied
    OBVIOUS
  <2>1. CASE InstrReq(i)
    <3>1. i.err
      BY <1>7, <2>1
    <3> QED BY <1>7, <2>1, <3>1 DEF Driven
  <2>2. CASE ~InstrReq(i)
    BY <1>7, <2>2 DEF Requested
  <2> QED BY <2>1, <2>2
<1>19. Odd(instr_addr_q') => RunAddr' = instr_addr_q' /\ Len(Run') <= 1
  <2> SUFFICES ASSUME Odd(instr_addr_q') PROVE RunAddr' = instr_addr_q' /\ Len(Run') <= 1
    OBVIOUS
  <2>1. ~AsksNext(i) /\ instr_addr_q' = instr_addr_q
    BY <1>7, <1>9
  <2>2. RunAddr = instr_addr_q /\ Len(Run) <= 1
    BY <2>1 DEF Requested
  <2>3. CASE Run = <<>>
    <3>1. Len(Run) = 0
      BY <1>2, <2>3
    <3>2. popped => valid
      BY <1>5, <2>3
    <3>3. ~popped
      <4> SUFFICES ASSUME popped PROVE FALSE
        OBVIOUS
      <4>1. i.req /\ Len(rdata_Q) = 0 /\ valid
        BY <1>8, <3>1, <3>2
      <4> QED BY <1>4, <1>11, <1>12, <2>1, <4>1
    <3> QED BY <1>3, <1>5, <1>13, <2>1, <2>2, <3>1, <3>3
  <2>4. CASE Run # <<>>
    <3>1. CS = "IDLE"
      <4> SUFFICES ASSUME CS # "IDLE" PROVE FALSE
        OBVIOUS
      <4>1. instr_addr_q = NextWord(LastOf(Run)[1])
        BY <2>4 DEF Requested
      <4>2. ~Odd(NextWord(LastOf(Run)[1]))
        BY <1>10, <2>4, WordFacts
      <4> QED BY <2>1, <4>1, <4>2
    <3>2. ~valid
      BY <1>6, <3>1
    <3>3. ~popped
      <4> SUFFICES ASSUME popped PROVE FALSE
        OBVIOUS
      <4>1. i.req /\ Len(rdata_Q) <= 1
        BY <1>8, <2>2
      <4> QED BY <1>4, <1>11, <1>12, <2>1, <3>1, <4>1
    <3>4. Len(Run') <= 1
      BY <1>2, <1>3, <1>5, <1>13, <2>2, <3>2
    <3> QED BY <1>3, <1>5, <2>1, <2>2, <3>3, <3>4
  <2> QED BY <2>3, <2>4
<1>20. Requested'
  BY <1>14, <1>15, <1>16, <1>17, <1>18, <1>19 DEF Requested
<1>21. RunAddr' = IF popped THEN After(RunAddr) ELSE RunAddr
  <2>1. CASE Run' # <<>>
    BY <1>5, <2>1
  <2>2. CASE Run' = <<>> /\ popped
    <3>1. Len(Run) + v <= 1
      BY <1>2, <1>3, <1>5, <1>13, <2>2
    <3>2. Run # <<>> \/ valid
      BY <1>5, <2>2
    <3>3. After(RunAddr) = NextWord(RunAddr) /\ RunAddr' = instr_addr_q'
      BY <1>3, <1>5, <2>2
    <3>4. CASE valid
      <4>1. Len(Run) = 0 /\ Len(rdata_Q) = 0
        BY <1>2, <1>8, <1>13, <2>2, <3>1, <3>4
      <4>2. RunAddr = instr_addr_q
        BY <1>2, <4>1
      <4>3. AsksNext(i)
        BY <1>8, <1>11, <1>12, <2>2, <3>4, <4>1
      <4> QED BY <1>7, <2>2, <3>3, <4>2, <4>3
    <3>5. CASE ~valid
      <4>1. Run # <<>>
        BY <3>2, <3>5
      <4>2. Len(Run) = 1
        <5>1. Len(Run) # 0 /\ Len(Run) <= 1
          BY <1>2, <1>13, <3>1, <3>5, <4>1
        <5> QED BY <1>2, <5>1, OneIsLeft, Zenon
      <4>3. LastOf(Run)[1] = WordOf(RunAddr)
        BY <4>1, <4>2 DEF LastOf, Contents
      <4>4. NextWord(LastOf(Run)[1]) = NextWord(RunAddr)
        BY <1>2, <4>3, WordFacts
      <4>5. CASE CS = "IDLE"
        <5>1. Len(rdata_Q) = 1
          BY <1>8, <2>2, <4>2
        <5>2. AsksNext(i)
          BY <1>8, <1>11, <1>12, <2>2, <4>5, <5>1
        <5>3. LastOf(Run)[1] = WordOf(instr_addr_q)
          BY <4>5 DEF Requested
        <5> QED BY <1>7, <1>9, <2>2, <3>3, <4>4, <5>2, <5>3
      <4>6. CASE CS # "IDLE"
        <5>1. ~AsksNext(i)
          BY <1>11, <3>5, <4>6
        <5>2. instr_addr_q = NextWord(LastOf(Run)[1])
          BY <4>1, <4>6 DEF Requested
        <5> QED BY <1>7, <2>2, <3>3, <4>4, <5>1, <5>2
      <4> QED BY <4>5, <4>6
    <3> QED BY <3>4, <3>5
  <2>3. CASE Run' = <<>> /\ ~popped
    <3>1. Len(Run) = 0 /\ ~valid
      BY <1>2, <1>3, <1>5, <1>13, <2>3
    <3>2. RunAddr = instr_addr_q
      BY <1>2, <3>1
    <3>3. CS # "IDLE"
      BY <1>2, <3>1 DEF Requested
    <3>4. ~AsksNext(i)
      BY <1>11, <3>1, <3>3
    <3> QED BY <1>3, <1>7, <2>3, <3>2, <3>4
  <2> QED BY <2>1, <2>2, <2>3
<1> QED BY <1>20, <1>21

-----------------------------------------------------------------------------
(* The flow through the prefetch buffer in a cycle without a branch.       *)

\* The end of a loop is at the output: it is aligned, and no fault hides it.
LoopSide(i) ==
    /\ hwlp_CS = "IN" \/ Held => i.hwloop
    /\ Held => RunAddr = i.hwtarget
    /\ i.hwloop => ~Odd(PcIf) /\ ~Flagged
    /\ i.hwloop /\ CS = "WAIT_JUMP" /\ ~Held => rdata_Q = <<>>

Flowing(i) ==
    /\ PrefetchTypeOK /\ TargetIsStored /\ RoomForRequest /\ OneFetchOwed
    /\ Phase /\ Contents /\ Requested /\ LoopSide(i)
    /\ Driven(i) /\ ~i.branch /\ PrefetchCycle(i)
    /\ PrefetchTypeOK' /\ TargetIsStored'

\* The PC of the IF stage moves exactly with the instructions that are taken.
FlowsOn(i) ==
    /\ Phase' /\ Contents' /\ Requested'
    /\ hwlp_CS' = "IN" \/ Held' => i.hwloop /\ ~i.ready
    /\ Held' => RunAddr' = i.hwtarget
    /\ PcIf' = IF i.ready THEN IF i.hwloop THEN i.hwtarget ELSE After(PcIf) ELSE PcIf
    /\ Flagged' <=> IF i.ready THEN i.hwloop ELSE Flagged

LEMMA NextPcIf == PcIf' = IF rdata_Q' # <<>> THEN addr_Q'[0] ELSE instr_addr_q'
BY DEF PcIf, OutAddr, FifoIn

\* No loop ends here.
LEMMA FreeFlow ==
    ASSUME NEW i \in Inputs, Flowing(i), ~i.hwloop
    PROVE  FlowsOn(i)
<1> DEFINE in == In(i)
           valid == FifoValid(i.rvalid)
<1>1. /\ PrefetchTypeOK /\ TargetIsStored /\ RoomForRequest /\ OneFetchOwed
      /\ Phase /\ Contents /\ Requested /\ Driven(i) /\ ~i.branch /\ PrefetchCycle(i)
      /\ PrefetchTypeOK' /\ TargetIsStored'
  BY DEF Flowing
<1>2. hwlp_CS \in {"NONE", "FETCHING", "DONE"} /\ ~Held
  BY DEF Flowing, LoopSide, Phase
<1>3. /\ ~is_hwlp_Q[1] /\ (hwlp_CS = "FETCHING" => rdata_Q = <<>>)
      /\ Run = rdata_Q /\ RunAddr = PcIf
  BY <1>1, <1>2, FreeFacts
<1>4. /\ in \in FifoInputs /\ in.addr = instr_addr_q /\ (in.valid <=> valid)
      /\ (in.jump <=> hwlp_CS = "FETCHING") /\ OutAddr(in) = PcIf /\ (OutIsHwlp(in) <=> Flagged)
  BY <1>1, InputWires
<1>5. InOrder /\ Arrives(in) /\ (in.jump => rdata_Q = <<>>)
  BY <1>1, <1>2, FreeArrival
<1>6. PlainRequests(i)
  BY <1>1, <1>2, UnmaskedRequests
<1>7. FifoTypeOK /\ i.ready \in BOOLEAN /\ (i.ready => OutValid(in)) /\ (i.ready => i.req)
  BY <1>1 DEF PrefetchTypeOK, Inputs, Driven
<1>8. OutValid(in) => rdata_Q # <<>> \/ valid
  BY <1>3, <1>4, <1>5, <1>7, OutIsThere
<1>9. i.rvalid /\ CS # "WAIT_ABORTED" <=> valid
  <2>1. i.rvalid => CS \in {"WAIT_RVALID", "WAIT_ABORTED"}
    BY <1>1 DEF Driven, OneFetchOwed
  <2> QED BY <2>1 DEF FifoValid
<1>10. FifoCycle(in, i.ready, FALSE)
  <2>1. FifoClear(i) = FALSE
    <3>1. ~HwlpBranch /\ hwlp_CS \notin {"UNALIGNED", "IN"}
      BY <1>2 DEF HwlpBranch
    <3>2. ~(i.ready /\ hwlp_CS = "FETCHING" /\ ~(i.rvalid /\ CS # "WAIT_ABORTED"))
      BY <1>3, <1>7, <1>8, <1>9
    <3> QED BY <1>1, <3>1, <3>2 DEF FifoClear
  <2> QED BY <1>1, <2>1 DEF PrefetchCycle
<1> DEFINE v == IF valid THEN 1 ELSE 0
           r == IF i.ready THEN 1 ELSE 0
<1>11. /\ InOrder' /\ ~is_hwlp_Q'[1]
       /\ (is_hwlp_Q'[0] <=> ~i.ready /\ (is_hwlp_Q[0] \/ (valid /\ hwlp_CS = "FETCHING")))
       /\ Len(rdata_Q') <= Len(rdata_Q) + v
       /\ Len(rdata_Q') >= Len(rdata_Q) + v - r
       /\ rdata_Q' # <<>> =>
            /\ addr_Q'[0] = IF i.ready THEN After(PcIf) ELSE PcIf
            /\ LastOf(rdata_Q')[1] =
                         IF valid THEN WordOf(instr_addr_q) ELSE LastOf(rdata_Q)[1]
            /\ ~valid => rdata_Q # <<>>
       /\ rdata_Q' = <<>> /\ i.ready => After(PcIf) = NextWord(PcIf)
  BY <1>1, <1>3, <1>4, <1>5, <1>7, <1>10, FifoOrder
<1>12. Len(rdata_Q) \in Nat /\ Len(rdata_Q') \in Nat
  BY <1>1 DEF PrefetchTypeOK, FifoTypeOK
<1>13. /\ (rdata_Q = <<>> <=> Len(rdata_Q) = 0) /\ (rdata_Q' = <<>> <=> Len(rdata_Q') = 0)
  BY <1>1 DEF PrefetchTypeOK, FifoTypeOK
<1>14. hwlp_CS' = IF hwlp_CS = "FETCHING" /\ valid THEN IF OutValid(in) THEN "NONE" ELSE "DONE"
                  ELSE IF hwlp_CS = "DONE" /\ OutValid(in) THEN "NONE" ELSE hwlp_CS
  <2>1. hwlp_CS \in {"FETCHING", "DONE"} => OutIsHwlp(in)
    BY <1>1, <1>3, <1>4 DEF Flagged, Phase
  <2>2. hwlp_CS' = NextHwlp(i)
    BY <1>1 DEF PrefetchCycle
  <2>3. CASE hwlp_CS = "NONE"
    BY <1>1, <2>2, <2>3 DEF NextHwlp
  <2>4. CASE hwlp_CS = "FETCHING"
    BY <1>1, <1>9, <2>1, <2>2, <2>4 DEF NextHwlp
  <2>5. CASE hwlp_CS = "DONE"
    BY <1>1, <2>1, <2>2, <2>5 DEF NextHwlp
  <2> QED BY <1>2, <2>3, <2>4, <2>5
<1>15. v \in 0..1 /\ (valid <=> v = 1) /\ r \in 0..1 /\ (i.ready <=> r = 1)
  BY <1>7
<1> HIDE DEF in, valid
<1>16. hwlp_CS' = "FETCHING" => rdata_Q' = <<>>
  <2> SUFFICES ASSUME hwlp_CS' = "FETCHING" PROVE rdata_Q' = <<>>
    OBVIOUS
  <2>1. hwlp_CS = "FETCHING" /\ ~valid
    BY <1>2, <1>14
  <2> QED BY <1>3, <1>11, <2>1
<1>17. Run' = rdata_Q'
  BY <1>11, <1>16 DEF Run
<1>18. ~Held' /\ hwlp_CS' # "IN"
  BY <1>2, <1>11, <1>14, <1>16 DEF Held
<1>19. Contents'
  <2>1. rdata_Q' # <<>> => RunAddr' = addr_Q'[0]
    BY <1>11, <1>17 DEF RunAddr
  <2> QED BY <1>11, <1>17, <1>18, <2>1 DEF Contents, InOrder
<1>20. is_hwlp_Q'[0] => rdata_Q' # <<>>
  <2> SUFFICES ASSUME is_hwlp_Q'[0] PROVE rdata_Q' # <<>>
    OBVIOUS
  <2>1. ~i.ready /\ (rdata_Q # <<>> \/ valid)
    BY <1>1, <1>11 DEF Phase
  <2> HIDE DEF v, r
  <2>2. r = 0 /\ (Len(rdata_Q) # 0 \/ v = 1)
    BY <1>13, <1>15, <2>1
  <2>3. Len(rdata_Q') >= Len(rdata_Q) + v - r
    BY <1>11 DEF v, r
  <2>4. Len(rdata_Q') # 0
    BY <1>12, <1>15, <2>2, <2>3
  <2> QED BY <1>13, <2>4
<1>21. hwlp_CS' = "DONE" => is_hwlp_Q'[0]
  <2>1. i.ready => OutValid(in)
    BY <1>7
  <2> QED BY <1>1, <1>2, <1>3, <1>11, <1>14, <2>1 DEF Phase
<1>22. Phase'
  BY <1>2, <1>11, <1>14, <1>20, <1>21 DEF Phase
<1>23. Runs(valid, i.ready, v, r)
  <2>1. Run' # <<>> => RunAddr' = IF i.ready THEN After(RunAddr) ELSE RunAddr
    BY <1>3, <1>11, <1>17 DEF RunAddr
  <2>2. i.ready => rdata_Q # <<>> \/ valid
    BY <1>7, <1>8
  <2> HIDE DEF v, r
  <2>3. v = (IF valid THEN 1 ELSE 0) /\ r = (IF i.ready THEN 1 ELSE 0)
    BY DEF v, r
  <2> QED BY <1>3, <1>11, <1>17, <2>1, <2>2, <2>3 DEF Runs
<1>24. Requested' /\ RunAddr' = IF i.ready THEN After(RunAddr) ELSE RunAddr
  BY <1>1, <1>3, <1>6, <1>7, <1>23, RunKept DEF valid
<1>25. PcIf' = RunAddr'
  BY <1>11, <1>17, NextPcIf DEF RunAddr
<1>26. Flagged' <=> ~i.ready /\ Flagged
  <2>1. CASE rdata_Q' = <<>>
    <3>1. Flagged' <=> hwlp_CS' = "FETCHING"
      BY <2>1 DEF Flagged
    <3>2. Len(rdata_Q) + v <= 1 /\ (~i.ready => Len(rdata_Q) = 0 /\ ~valid)
      BY <1>11, <1>12, <1>13, <1>15, <2>1
    <3>3. ~i.ready => rdata_Q = <<>> /\ ~valid
      BY <1>13, <3>2
    <3>4. CASE i.ready
      <4>1. hwlp_CS # "FETCHING" \/ valid
        BY <1>3, <1>7, <1>8, <3>4
      <4> QED BY <1>14, <3>1, <3>4, <4>1
    <3>5. CASE ~i.ready
      <4>1. Flagged <=> hwlp_CS = "FETCHING"
        BY <3>3, <3>5 DEF Flagged
      <4> QED BY <1>14, <3>1, <3>3, <3>5, <4>1
    <3> QED BY <3>4, <3>5
  <2>2. CASE rdata_Q' # <<>>
    <3>1. Flagged' <=> ~i.ready /\ (is_hwlp_Q[0] \/ (valid /\ hwlp_CS = "FETCHING"))
      BY <1>11, <2>2 DEF Flagged
    <3>2. CASE rdata_Q = <<>>
      <4>1. valid /\ ~is_hwlp_Q[0]
        BY <1>1, <1>11, <2>2, <3>2 DEF Phase
      <4> QED BY <3>1, <3>2, <4>1 DEF Flagged
    <3>3. CASE rdata_Q # <<>>
      <4>1. hwlp_CS # "FETCHING"
        BY <1>3, <3>3
      <4> QED BY <3>1, <3>3, <4>1 DEF Flagged
    <3> QED BY <3>2, <3>3
  <2> QED BY <2>1, <2>2
<1> QED BY <1>3, <1>18, <1>19, <1>22, <1>24, <1>25, <1>26 DEF FlowsOn

\* While the end of the loop is at the output, words are added to the run.
LEMMA RunGrows ==
    ASSUME NEW i \in Inputs, Flowing(i), PlainRequests(i),
           Run' = IF FifoValid(i.rvalid) THEN Append(Run, In(i).data) ELSE Run,
           Run' # <<>> => RunAddr' = RunAddr
    PROVE  /\ Requested' /\ RunAddr' = RunAddr
           /\ Ordered(Run') /\ (Run' # <<>> => Run'[1][1] = WordOf(RunAddr'))
<1> DEFINE valid == FifoValid(i.rvalid)
           w == WordOf(instr_addr_q)
<1>1. /\ PrefetchTypeOK /\ TargetIsStored /\ RoomForRequest /\ Contents /\ Requested
      /\ Driven(i) /\ PrefetchTypeOK' /\ TargetIsStored'
  BY DEF Flowing
<1>2. /\ Run \in Seq(Pair) /\ Len(Run) \in Nat /\ (Run = <<>> <=> Len(Run) = 0)
      /\ RunAddr \in Addr /\ (Run = <<>> => RunAddr = instr_addr_q)
  BY <1>1, RunTypes
<1>3. Ordered(Run) /\ (Run # <<>> => Run[1][1] = WordOf(RunAddr))
  BY <1>1 DEF Contents
<1>4. instr_addr_q \in Addr /\ w \in Addr /\ WordOf(w) = w
  <2>1. instr_addr_q \in Addr
    BY <1>1 DEF PrefetchTypeOK
  <2> QED BY <2>1, WordFacts
<1>5. WordAt(w) \in Pair /\ WordAt(w)[1] = w
  BY <1>4, EvenWord, WordAtParts
<1>6. CASE ~valid
  <2>1. Run' = Run
    BY <1>6
  <2>2. Runs(valid, FALSE, 0, 0)
    BY <1>2, <1>6, <2>1 DEF Runs
  <2>3. Requested' /\ RunAddr' = RunAddr
    BY <1>1, <2>2, RunKept
  <2> QED BY <1>3, <2>1, <2>3
<1>7. CASE valid
  <2>1. /\ In(i).data = WordAt(w)
        /\ Run # <<>> => instr_addr_q = NextWord(LastOf(Run)[1])
    BY <1>1, <1>7, AnswerArrives
  <2>2. Run # <<>> => w = NextWord(Run[Len(Run)][1])
    <3> SUFFICES ASSUME Run # <<>> PROVE w = NextWord(Run[Len(Run)][1])
      OBVIOUS
    <3>1. Len(Run) \in 1..Len(Run)
      BY <1>2
    <3>2. Run[Len(Run)][1] \in Addr
      BY <1>3, <3>1 DEF Ordered
    <3>3. instr_addr_q = NextWord(Run[Len(Run)][1])
      BY <2>1 DEF LastOf
    <3> QED BY <3>2, <3>3, WordFacts
  <2> HIDE DEF w
  <2>3. Run' = Append(Run, WordAt(w))
    BY <1>7, <2>1
  <2> DEFINE p == WordAt(w)
  <2>4. p \in Pair /\ p[1] = w
    BY <1>5
  <2>5. Ordered(Append(Run, p))
    BY <1>2, <1>3, <1>4, <1>5, <2>2, OrderedAppend
  <2> HIDE DEF p
  <2>6. /\ Len(Append(Run, p)) = Len(Run) + 1 /\ Append(Run, p)[Len(Run) + 1] = p
        /\ Append(Run, p) # <<>>
        /\ Append(Run, p)[1] = IF Len(Run) = 0 THEN p ELSE Run[1]
    BY <1>2, <2>4
  <2>7. Run' = Append(Run, p)
    BY <2>3 DEF p
  <2>8. Len(Run') = Len(Run) + 1 /\ LastOf(Run') = p /\ Run' # <<>>
    BY <2>6, <2>7 DEF LastOf
  <2>9. LastOf(Run')[1] = WordOf(instr_addr_q)
    BY <2>4, <2>8 DEF w
  <2>10. Runs(valid, FALSE, 1, 0)
    BY <1>2, <1>7, <2>8, <2>9 DEF Runs
  <2>11. Requested' /\ RunAddr' = RunAddr
    BY <1>1, <2>10, RunKept
  <2>12. Run'[1][1] = WordOf(RunAddr)
    <3>1. Run'[1] = IF Len(Run) = 0 THEN p ELSE Run[1]
      BY <2>6, <2>7
    <3>2. CASE Run = <<>>
      BY <1>2, <2>4, <3>1, <3>2 DEF w
    <3>3. CASE Run # <<>>
      BY <1>2, <1>3, <3>1, <3>3
    <3> QED BY <3>2, <3>3
  <2> QED BY <2>5, <2>7, <2>11, <2>12
<1> QED BY <1>6, <1>7

\* The jump is asked for and not answered yet, or its words are stored.
LEMMA HeldFlow ==
    ASSUME NEW i \in Inputs, Flowing(i), Held
    PROVE  FlowsOn(i)
<1> DEFINE in == In(i)
           valid == FifoValid(i.rvalid)
<1>1. /\ PrefetchTypeOK /\ TargetIsStored /\ RoomForRequest /\ OneFetchOwed
      /\ Phase /\ Contents /\ Requested /\ LoopSide(i)
      /\ Driven(i) /\ ~i.branch /\ PrefetchCycle(i)
  BY DEF Flowing
<1>2. /\ i.hwloop /\ RunAddr = i.hwtarget /\ ~Odd(PcIf) /\ ~Flagged
      /\ rdata_Q # <<>> /\ PcIf = addr_Q[0] /\ rdata_Q[1] = WordAt(PcIf)
  BY <1>1, HeldFacts DEF LoopSide, Contents
<1>3. ~is_hwlp_Q[0] /\ hwlp_CS \in {"FETCHING", "DONE"} /\ (is_hwlp_Q[1] <=> hwlp_CS = "DONE")
  <2>1. ~is_hwlp_Q[0]
    BY <1>2 DEF Flagged
  <2> QED BY <1>1, <2>1 DEF Held, Phase
<1>4. /\ in \in FifoInputs /\ in.addr = instr_addr_q /\ (in.valid <=> valid)
      /\ (in.jump <=> hwlp_CS = "FETCHING") /\ OutAddr(in) = PcIf
  BY <1>1, InputWires
<1>5. FifoTypeOK /\ i.ready \in BOOLEAN
  BY <1>1 DEF PrefetchTypeOK, Inputs
<1>6. OutValid(in) /\ OutRdata(in) = rdata_Q[1] /\ ~OutIsHwlp(in)
  BY <1>2, <1>3, <1>4, <1>5, AlignedOut
<1>7. PlainRequests(i)
  BY <1>1, <1>3, UnmaskedRequests
<1>8. i.rvalid /\ CS # "WAIT_ABORTED" <=> valid
  <2>1. i.rvalid => CS \in {"WAIT_RVALID", "WAIT_ABORTED"}
    BY <1>1 DEF Driven, OneFetchOwed
  <2> QED BY <2>1 DEF FifoValid
<1>9. hwlp_CS' = IF hwlp_CS = "FETCHING" /\ ~valid THEN "FETCHING" ELSE "DONE"
  <2>1. hwlp_CS' = NextHwlp(i)
    BY <1>1 DEF PrefetchCycle
  <2>2. CASE hwlp_CS = "FETCHING"
    BY <1>1, <1>6, <1>8, <2>1, <2>2 DEF NextHwlp
  <2>3. CASE hwlp_CS = "DONE"
    BY <1>1, <1>6, <2>1, <2>3 DEF NextHwlp
  <2> QED BY <1>3, <2>2, <2>3
<1>10. FifoClear(i) <=> i.ready /\ hwlp_CS = "FETCHING" /\ ~valid
  BY <1>1, <1>3, <1>8, Zenon DEF FifoClear, HwlpBranch
<1>11. FifoCycle(in, i.ready, FifoClear(i))
  BY <1>1 DEF PrefetchCycle
<1> HIDE DEF in, valid
<1>12. CASE hwlp_CS = "FETCHING" /\ ~valid
  <2>1. Run = <<>> /\ ~is_hwlp_Q[1]
    BY <1>3, <1>12 DEF Run
  <2>2. CASE i.ready
    <3>1. FifoClear(i) = TRUE
      BY <1>10, <1>12, <2>2 DEF FifoClear
    <3>2. rdata_Q' = <<>> /\ ~is_hwlp_Q'[0] /\ ~is_hwlp_Q'[1]
      BY <1>11, <3>1, ClearedFifo
    <3>3. Run' = <<>>
      BY <1>9, <1>12, <3>2 DEF Run
    <3>4. Requested' /\ RunAddr' = RunAddr /\ Ordered(Run')
      BY <1>7, <1>12, <2>1, <3>3, RunGrows DEF valid
    <3>5. PcIf' = RunAddr'
      BY <3>2, <3>3, NextPcIf DEF RunAddr
    <3>6. Flagged' /\ ~Held' /\ hwlp_CS' = "FETCHING"
      BY <1>9, <1>12, <3>2 DEF Flagged, Held
    <3>7. Phase' /\ Contents'
      BY <3>2, <3>3, <3>4, <3>6 DEF Phase, Contents
    <3> QED BY <1>2, <2>2, <3>4, <3>5, <3>6, <3>7 DEF FlowsOn
  <2>3. CASE ~i.ready
    <3>1. FifoClear(i) = FALSE /\ i.ready = FALSE
      BY <1>5, <1>10, <2>3 DEF FifoClear
    <3>2. /\ rdata_Q' = rdata_Q /\ addr_Q'[0] = addr_Q[0]
          /\ ~is_hwlp_Q'[0] /\ ~is_hwlp_Q'[1]
      BY <1>2, <1>3, <1>4, <1>5, <1>11, <1>12, <2>1, <3>1, NothingArrives
    <3>3. Run' = <<>>
      BY <1>9, <1>12, <3>2 DEF Run
    <3>4. Requested' /\ RunAddr' = RunAddr /\ Ordered(Run')
      BY <1>7, <1>12, <2>1, <3>3, RunGrows DEF valid
    <3>5. PcIf' = PcIf
      BY <1>2, <3>2, NextPcIf
    <3>6. ~Flagged' /\ hwlp_CS' = "FETCHING"
      BY <1>2, <1>9, <1>12, <3>2 DEF Flagged
    <3>7. Phase' /\ Contents'
      BY <1>2, <3>2, <3>3, <3>4, <3>5, <3>6 DEF Phase, Contents
    <3> QED BY <1>2, <2>3, <3>4, <3>5, <3>6, <3>7 DEF FlowsOn
  <2> QED BY <2>2, <2>3
<1>13. CASE hwlp_CS = "FETCHING" /\ valid
  <2>1. Run = <<>> /\ in.data \in Pair /\ in.jump /\ in.valid
    BY <1>3, <1>4, <1>13 DEF Run, FifoInputs
  <2>2. RunAddr = instr_addr_q
    BY <1>3, <1>13, <2>1 DEF RunAddr
  <2>3. FifoClear(i) = FALSE /\ hwlp_CS' = "DONE"
    BY <1>9, <1>10, <1>13 DEF FifoClear
  <2>4. /\ i.ready => /\ rdata_Q' = <<in.data>> /\ addr_Q'[0] = in.addr
                      /\ is_hwlp_Q'[0] /\ ~is_hwlp_Q'[1]
        /\ ~i.ready => /\ rdata_Q' = <<OutRdata(in), in.data>>
                       /\ addr_Q'[0] = addr_Q[0] /\ addr_Q'[1] = in.addr
                       /\ ~is_hwlp_Q'[0] /\ is_hwlp_Q'[1]
    <3>1. FifoCycle(in, i.ready, FALSE)
      BY <1>11, <2>3
    <3> QED BY <1>2, <1>3, <1>4, <1>5, <1>6, <2>1, <3>1, TargetArrives
  <2>5. Append(Run, in.data) = <<in.data>> /\ <<in.data>> # <<>>
    BY <2>1
  <2>6. CASE i.ready
    <3>1. Run' = <<in.data>> /\ RunAddr' = instr_addr_q
      BY <1>4, <2>3, <2>4, <2>5, <2>6 DEF Run, RunAddr
    <3>2. /\ Requested' /\ RunAddr' = RunAddr /\ Ordered(Run')
          /\ Run' # <<>> => Run'[1][1] = WordOf(RunAddr')
      BY <1>13, <1>7, <2>2, <2>5, <3>1, RunGrows DEF valid, in
    <3>3. PcIf' = i.hwtarget
      BY <1>2, <1>4, <2>2, <2>4, <2>5, <2>6, NextPcIf
    <3>4. Flagged' /\ ~Held'
      BY <2>3, <2>4, <2>5, <2>6 DEF Flagged, Held
    <3>5. Phase' /\ Contents'
      BY <2>3, <2>4, <2>5, <2>6, <3>2, <3>4 DEF Phase, Contents
    <3> QED BY <1>2, <2>3, <2>6, <3>2, <3>3, <3>4, <3>5 DEF FlowsOn
  <2>7. CASE ~i.ready
    <3>1. Tail(rdata_Q') = <<in.data>> /\ rdata_Q' # <<>> /\ rdata_Q'[1] = rdata_Q[1]
      <4> DEFINE p == OutRdata(in)
                 q == in.data
      <4>1. rdata_Q' = <<p, q>> /\ p = rdata_Q[1]
        BY <1>6, <2>4, <2>7
      <4>2. Tail(<<p, q>>) = <<q>> /\ <<p, q>> # <<>> /\ <<p, q>>[1] = p
        BY PairTail
      <4> HIDE DEF p, q
      <4>3. Tail(rdata_Q') = <<q>> /\ rdata_Q' # <<>> /\ rdata_Q'[1] = p
        BY <4>1, <4>2, Zenon
      <4> QED BY <4>1, <4>3 DEF q
    <3>2. Run' = <<in.data>> /\ RunAddr' = instr_addr_q
      BY <1>4, <2>4, <2>7, <3>1 DEF Run, RunAddr
    <3>3. /\ Requested' /\ RunAddr' = RunAddr /\ Ordered(Run')
          /\ Run' # <<>> => Run'[1][1] = WordOf(RunAddr')
      BY <1>13, <1>7, <2>2, <2>5, <3>2, RunGrows DEF valid, in
    <3>4. PcIf' = PcIf
      BY <1>2, <2>4, <2>7, <3>1, NextPcIf
    <3>5. ~Flagged'
      BY <2>4, <2>7, <3>1 DEF Flagged
    <3>6. Phase' /\ Contents'
      BY <1>2, <2>3, <2>4, <2>7, <3>1, <3>3, <3>4 DEF Phase, Contents
    <3> QED BY <1>2, <2>3, <2>7, <3>3, <3>4, <3>5, <3>6 DEF FlowsOn
  <2> QED BY <2>6, <2>7
<1>14. CASE hwlp_CS = "DONE"
  <2>1. is_hwlp_Q[1] /\ Run = Tail(rdata_Q) /\ RunAddr = addr_Q[1] /\ Len(rdata_Q) >= 2
    BY <1>1, <1>3, <1>14 DEF Run, RunAddr, TargetIsStored
  <2>2. FifoClear(i) = FALSE /\ hwlp_CS' = "DONE"
    BY <1>9, <1>10, <1>14 DEF FifoClear
  <2>3. in.valid => Len(rdata_Q) < DEPTH
    <3>1. valid => Len(rdata_Q) < DEPTH \/ hwlp_CS = "FETCHING"
      BY <1>1, AnswerArrives DEF valid
    <3> QED BY <1>4, <1>14, <3>1
  <2> DEFINE run == IF in.valid THEN Append(Tail(rdata_Q), in.data) ELSE Tail(rdata_Q)
  <2>4. run = IF valid THEN Append(Run, in.data) ELSE Run
    BY <1>4, <2>1
  <2>5. run = IF in.valid THEN Append(Tail(rdata_Q), in.data) ELSE Tail(rdata_Q)
    OBVIOUS
  <2> HIDE DEF run
  <2>6. /\ i.ready => /\ rdata_Q' = run /\ addr_Q'[0] = addr_Q[1]
                      /\ is_hwlp_Q'[0] /\ ~is_hwlp_Q'[1]
        /\ ~i.ready => /\ Tail(rdata_Q') = run /\ rdata_Q'[1] = rdata_Q[1] /\ rdata_Q' # <<>>
                       /\ addr_Q'[0] = addr_Q[0] /\ addr_Q'[1] = addr_Q[1]
                       /\ ~is_hwlp_Q'[0] /\ is_hwlp_Q'[1]
    <3>1. FifoCycle(in, i.ready, FALSE)
      BY <1>11, <2>2
    <3>2. ~in.jump
      BY <1>4, <1>14
    <3> QED BY <1>3, <1>4, <1>5, <1>6, <2>1, <2>3, <2>5, <3>1, <3>2, TargetWaits
  <2>7. Run' = run
    BY <2>2, <2>6 DEF Run
  <2>8. Run' # <<>> => RunAddr' = RunAddr
    BY <2>1, <2>6, <2>7 DEF RunAddr
  <2>9. /\ Requested' /\ RunAddr' = RunAddr /\ Ordered(Run')
        /\ Run' # <<>> => Run'[1][1] = WordOf(RunAddr')
    BY <1>7, <2>4, <2>7, <2>8, RunGrows DEF valid, in
  <2>10. Run' # <<>>
    <3>1. Len(Run) # 0 /\ Run \in Seq(Pair)
      <4>1. rdata_Q \in Seq(Pair) /\ rdata_Q # <<>> /\ Len(rdata_Q) \in Nat
        BY <1>2, <1>5 DEF FifoTypeOK
      <4> QED BY <2>1, <4>1
    <3>2. Len(<<>>) = 0
      OBVIOUS
    <3>3. CASE valid
      <4>1. in.data \in Pair
        BY <1>4 DEF FifoInputs
      <4>2. Append(Run, in.data) # <<>>
        BY <3>1, <4>1
      <4> QED BY <2>4, <2>7, <3>3, <4>2
    <3>4. CASE ~valid
      <4>1. Run # <<>>
        BY <3>1, <3>2, Zenon
      <4> QED BY <2>4, <2>7, <3>4, <4>1
    <3> QED BY <3>3, <3>4
  <2>11. CASE i.ready
    <3>1. rdata_Q' # <<>>
      BY <2>6, <2>7, <2>10, <2>11
    <3>2. PcIf' = i.hwtarget
      BY <1>2, <2>1, <2>6, <2>11, <3>1, NextPcIf
    <3>3. Flagged' /\ ~Held'
      BY <2>2, <2>6, <2>11, <3>1 DEF Flagged, Held
    <3>4. Phase' /\ Contents'
      BY <2>2, <2>6, <2>9, <2>11, <3>1, <3>3 DEF Phase, Contents
    <3> QED BY <1>2, <2>2, <2>9, <2>11, <3>2, <3>3, <3>4 DEF FlowsOn
  <2>12. CASE ~i.ready
    <3>1. PcIf' = PcIf
      BY <1>2, <2>6, <2>12, NextPcIf
    <3>2. ~Flagged'
      BY <2>6, <2>12 DEF Flagged
    <3>3. Phase' /\ Contents'
      BY <1>2, <2>2, <2>6, <2>9, <2>12, <3>1 DEF Phase, Contents
    <3> QED BY <1>2, <2>2, <2>9, <2>12, <3>1, <3>2, <3>3 DEF FlowsOn
  <2> QED BY <2>11, <2>12
<1> QED BY <1>3, <1>12, <1>13, <1>14

\* The end of a loop is at the output and the jump is not asked for yet.
LEMMA EndFacts ==
    ASSUME NEW i \in Inputs, Flowing(i), i.hwloop, ~Held
    PROVE  /\ hwlp_CS \in {"NONE", "IN"} /\ ~is_hwlp_Q[0] /\ ~is_hwlp_Q[1] /\ ~In(i).jump
           /\ Run = rdata_Q /\ RunAddr = PcIf /\ PcIf \in Addr /\ ~Odd(PcIf) /\ ~Flagged
           /\ Masked(i) /\ ~Speculative(i) /\ ~HwlpBranch /\ ~Redirected(i) /\ ~Odd(instr_addr_q)
           /\ MaskedStored(i) <=> rdata_Q # <<>>
           /\ OutValid(In(i)) <=> rdata_Q # <<>> \/ FifoValid(i.rvalid)
<1>1. /\ PrefetchTypeOK /\ TargetIsStored /\ Phase /\ Requested /\ LoopSide(i) /\ ~i.branch
  BY DEF Flowing
<1>2. /\ ~is_hwlp_Q[1] /\ (hwlp_CS = "FETCHING" => rdata_Q = <<>>)
      /\ Run = rdata_Q /\ RunAddr = PcIf
  BY <1>1, FreeFacts
<1>3. ~Odd(PcIf) /\ ~Flagged /\ PcIf \in Addr
  BY <1>1, PcIfType DEF LoopSide
<1>4. ~is_hwlp_Q[0] /\ hwlp_CS \in {"NONE", "IN"}
  BY <1>1, <1>2, <1>3 DEF Phase, Flagged
<1>5. ~Odd(instr_addr_q)
  BY <1>1, <1>2, <1>3 DEF Requested
<1>6. Masked(i) /\ ~Speculative(i) /\ ~HwlpBranch /\ ~Redirected(i)
  BY <1>1, <1>4, <1>5, Zenon
     DEF Masked, Speculative, CompressedEnd, WaitsForEnd, HwlpBranch, Redirected
<1>7. /\ OutAddr(In(i)) = PcIf /\ (In(i).jump <=> hwlp_CS = "FETCHING")
      /\ (In(i).valid <=> FifoValid(i.rvalid))
  BY <1>1, InputWires
<1>8. ~Unaligned(In(i))
  BY <1>3, <1>7 DEF Unaligned
<1>9. MaskedStored(i) <=> rdata_Q # <<>>
  BY <1>6, <1>8 DEF MaskedStored, ValidStored
<1>10. OutValid(In(i)) <=> rdata_Q # <<>> \/ FifoValid(i.rvalid)
  BY <1>2, <1>7, <1>8 DEF OutValid
<1> QED BY <1>2, <1>3, <1>4, <1>5, <1>6, <1>7, <1>9, <1>10

LEMMA EndRequests ==
    ASSUME NEW i \in Inputs, Flowing(i), i.hwloop, ~Held
    PROVE  /\ FetchIsHwlp(i) => /\ JumpRequests(i, i.hwtarget)
                                /\ rdata_Q # <<>> \/ FifoValid(i.rvalid)
           /\ ~FetchIsHwlp(i) => PlainRequests(i) /\ ~AsksNext(i) /\ ~i.ready
           /\ hwlp_CS' = IF FetchIsHwlp(i) THEN "FETCHING" ELSE "IN"
<1> DEFINE valid == FifoValid(i.rvalid)
           stored == rdata_Q # <<>>
<1>1. /\ PrefetchTypeOK /\ TargetIsStored /\ Requested /\ LoopSide(i) /\ Driven(i) /\ ~i.branch
      /\ PrefetchCycle(i)
  BY DEF Flowing
<1>2. /\ hwlp_CS \in {"NONE", "IN"} /\ Run = rdata_Q
      /\ Masked(i) /\ ~Speculative(i) /\ ~Redirected(i) /\ ~Odd(instr_addr_q)
      /\ (MaskedStored(i) <=> stored) /\ (OutValid(In(i)) <=> stored \/ valid)
  BY EndFacts
<1>3. valid <=> CS = "WAIT_RVALID" /\ i.rvalid
  BY DEF FifoValid
<1>4. /\ CS \in FetchStates
      /\ CS = "IDLE" => stored
      /\ CS = "WAIT_ABORTED" => ~stored
      /\ CS = "WAIT_JUMP" => ~stored
      /\ i.ready => i.req /\ (stored \/ valid)
  BY <1>1, <1>2 DEF PrefetchTypeOK, Requested, LoopSide, Driven
<1> HIDE DEF valid, stored
<1>5. Wants(i) <=> i.req /\ CS \in {"IDLE", "WAIT_RVALID"}
  BY <1>2, <1>4 DEF Wants
<1>6. /\ InstrReq(i) <=> \/ CS = "IDLE" /\ i.req
                         \/ CS = "WAIT_GNT"
                         \/ CS = "WAIT_RVALID" /\ i.req /\ i.rvalid
                         \/ CS = "WAIT_ABORTED" /\ i.rvalid
      /\ Aborts(i) <=> CS = "WAIT_RVALID" /\ i.req /\ ~i.rvalid /\ stored
  <2>1. InstrReq(i) <=> \/ CS = "IDLE" /\ i.req
                        \/ CS = "WAIT_GNT"
                        \/ CS = "WAIT_RVALID" /\ i.req /\ i.rvalid
                        \/ CS = "WAIT_ABORTED" /\ i.rvalid
    <3>1. CASE CS = "IDLE"
      BY <1>5, <3>1 DEF InstrReq
    <3>2. CASE CS = "WAIT_GNT"
      BY <3>2 DEF InstrReq
    <3>3. CASE CS = "WAIT_RVALID"
      BY <1>5, <3>3 DEF InstrReq
    <3>4. CASE CS = "WAIT_ABORTED"
      BY <3>4 DEF InstrReq
    <3>5. CASE CS = "WAIT_JUMP"
      BY <1>1, <3>5 DEF InstrReq
    <3> QED BY <1>4, <3>1, <3>2, <3>3, <3>4, <3>5 DEF FetchStates
  <2>2. Aborts(i) <=> CS = "WAIT_RVALID" /\ i.req /\ ~i.rvalid /\ stored
    BY <1>2, <1>3, <1>5, Zenon DEF Aborts
  <2> QED BY <2>1, <2>2
<1>7. FetchIsHwlp(i) <=> \/ CS = "IDLE" /\ i.req
                         \/ CS = "WAIT_GNT" /\ stored
                         \/ CS = "WAIT_RVALID" /\ i.req /\ (i.rvalid \/ stored)
  <2>1. CASE CS = "IDLE"
    BY <1>2, <1>4, <1>5, <2>1 DEF FetchIsHwlp
  <2>2. CASE CS = "WAIT_GNT"
    BY <1>2, <2>2 DEF FetchIsHwlp
  <2>3. CASE CS = "WAIT_RVALID"
    BY <1>2, <1>6, <2>3 DEF FetchIsHwlp
  <2>4. CASE CS \in {"WAIT_ABORTED", "WAIT_JUMP"}
    BY <2>4 DEF FetchIsHwlp
  <2> QED BY <1>4, <2>1, <2>2, <2>3, <2>4 DEF FetchStates
<1>8. InstrReq(i) \/ Aborts(i) =>
        InstrAddr(i) = IF FetchIsHwlp(i) THEN i.hwtarget ELSE instr_addr_q
  <2>1. CASE CS = "IDLE"
    BY <1>2, <1>4, <1>6, <1>7, <2>1 DEF InstrAddr
  <2>2. CASE CS = "WAIT_GNT"
    BY <1>2, <1>7, <2>2 DEF InstrAddr
  <2>3. CASE CS = "WAIT_RVALID"
    BY <1>2, <1>6, <1>7, <2>3 DEF InstrAddr
  <2>4. CASE CS = "WAIT_ABORTED"
    BY <1>2, <1>7, <2>4 DEF InstrAddr
  <2>5. CASE CS = "WAIT_JUMP"
    BY <1>6, <2>5
  <2> QED BY <1>4, <2>1, <2>2, <2>3, <2>4, <2>5 DEF FetchStates
<1>9. AddrValid(i) <=> FetchIsHwlp(i)
  <2>1. CASE CS \in {"IDLE", "WAIT_JUMP"}
    BY <1>6, <1>7, <2>1 DEF AddrValid
  <2>2. CASE CS = "WAIT_GNT"
    BY <1>2, <1>7, <2>2 DEF AddrValid
  <2>3. CASE CS = "WAIT_RVALID"
    BY <1>6, <1>7, <2>3 DEF AddrValid
  <2>4. CASE CS = "WAIT_ABORTED"
    BY <1>2, <1>7, <2>4 DEF AddrValid
  <2> QED BY <1>4, <2>1, <2>2, <2>3, <2>4 DEF FetchStates
<1>10. CS' = NextFetch(i) /\ hwlp_CS' = NextHwlp(i)
       /\ instr_addr_q' = IF ~AddrValid(i) THEN instr_addr_q ELSE InstrAddr(i)
  BY <1>1, <1>2 DEF PrefetchCycle
<1>11. hwlp_CS' = IF FetchIsHwlp(i) THEN "FETCHING" ELSE "IN"
  <2>1. ~CompressedEnd(i) /\ ~WaitsForEnd(i)
    BY <1>2 DEF CompressedEnd, WaitsForEnd
  <2>2. CASE hwlp_CS = "NONE"
    BY <1>1, <1>10, <2>1, <2>2 DEF NextHwlp
  <2>3. CASE hwlp_CS = "IN"
    BY <1>1, <1>10, <2>3 DEF NextHwlp
  <2> QED BY <1>2, <2>2, <2>3
<1>12. InstrReq(i) =>
         CS' = IF i.err THEN "WAIT_JUMP" ELSE IF i.gnt THEN "WAIT_RVALID" ELSE "WAIT_GNT"
  <2>1. InstrReq(i) => CS # "WAIT_JUMP"
    BY <1>6
  <2> QED BY <1>10, <2>1 DEF NextFetch, Refused
<1>13. ~InstrReq(i) => CS' = IF Aborts(i) THEN "WAIT_ABORTED" ELSE IF valid THEN "IDLE" ELSE CS
  <2>1. ~(Aborts(i) /\ valid)
    BY <1>3, <1>6
  <2> QED BY <1>10, <2>1 DEF NextFetch, valid
<1>14. ASSUME FetchIsHwlp(i)
       PROVE  JumpRequests(i, i.hwtarget) /\ (stored \/ valid)
  <2>1. InstrReq(i) \/ Aborts(i)
    BY <1>6, <1>7, <1>14
  <2>2. InstrAddr(i) = i.hwtarget /\ instr_addr_q' = i.hwtarget
    BY <1>8, <1>9, <1>10, <1>14, <2>1
  <2>3. stored \/ valid
    BY <1>3, <1>4, <1>7, <1>14
  <2> QED BY <1>12, <1>13, <2>1, <2>2, <2>3 DEF JumpRequests, Asking
<1>15. ASSUME ~FetchIsHwlp(i)
       PROVE  PlainRequests(i) /\ ~AsksNext(i) /\ ~i.ready
  <2>1. ~AsksNext(i)
    BY <1>7, <1>15 DEF AsksNext
  <2>2. ~i.ready
    BY <1>3, <1>4, <1>7, <1>15 DEF FetchStates
  <2>3. instr_addr_q' = instr_addr_q /\ (InstrReq(i) => InstrAddr(i) = instr_addr_q)
    BY <1>8, <1>9, <1>10, <1>15
  <2>4. ~Aborts(i)
    BY <1>6, <1>7, <1>15
  <2>5. InstrReq(i) <=> CS = "WAIT_GNT" \/ (CS = "WAIT_ABORTED" /\ i.rvalid)
    BY <1>6, <1>7, <1>15
  <2> QED BY <1>12, <1>13, <2>1, <2>2, <2>3, <2>4, <2>5 DEF PlainRequests, valid
<1> QED BY <1>11, <1>14, <1>15 DEF stored, valid

LEMMA EndFlow ==
    ASSUME NEW i \in Inputs, Flowing(i), i.hwloop, ~Held
    PROVE  FlowsOn(i)
<1> DEFINE in == In(i)
           valid == FifoValid(i.rvalid)
<1>1. /\ PrefetchTypeOK /\ TargetIsStored /\ RoomForRequest
      /\ Phase /\ Contents /\ Requested /\ Driven(i) /\ ~i.branch /\ PrefetchCycle(i)
      /\ PrefetchTypeOK' /\ TargetIsStored'
  BY DEF Flowing
<1>2. /\ hwlp_CS \in {"NONE", "IN"} /\ ~is_hwlp_Q[0] /\ ~is_hwlp_Q[1] /\ ~in.jump
      /\ Run = rdata_Q /\ RunAddr = PcIf /\ PcIf \in Addr /\ ~Odd(PcIf) /\ ~Flagged
      /\ ~HwlpBranch
      /\ OutValid(in) <=> rdata_Q # <<>> \/ valid
  BY EndFacts
<1>3. in \in FifoInputs /\ in.addr = instr_addr_q /\ (in.valid <=> valid) /\ OutAddr(in) = PcIf
  BY <1>1, InputWires
<1>4. InOrder /\ Arrives(in)
  BY <1>1, FreeArrival
<1>5. /\ FetchIsHwlp(i) => JumpRequests(i, i.hwtarget) /\ (rdata_Q # <<>> \/ valid)
      /\ ~FetchIsHwlp(i) => PlainRequests(i) /\ ~AsksNext(i) /\ ~i.ready
      /\ hwlp_CS' = IF FetchIsHwlp(i) THEN "FETCHING" ELSE "IN"
  BY EndRequests
<1>6. FifoTypeOK /\ i.ready \in BOOLEAN
  BY <1>1 DEF PrefetchTypeOK, Inputs
<1>7. FifoClear(i) <=> i.ready
  BY <1>1, <1>2 DEF FifoClear
<1>8. FifoCycle(in, i.ready, FifoClear(i))
  BY <1>1 DEF PrefetchCycle
<1> DEFINE v == IF valid THEN 1 ELSE 0
<1>9. v \in 0..1 /\ (valid <=> v = 1)
  OBVIOUS
<1>10. ASSUME ~i.ready
       PROVE  /\ InOrder' /\ ~is_hwlp_Q'[0] /\ ~is_hwlp_Q'[1]
              /\ Len(rdata_Q') = Len(rdata_Q) + v
              /\ rdata_Q' # <<>> =>
                   /\ addr_Q'[0] = PcIf
                   /\ LastOf(rdata_Q')[1] =
                         IF valid THEN WordOf(instr_addr_q) ELSE LastOf(rdata_Q)[1]
                   /\ ~valid => rdata_Q # <<>>
  <2>1. FifoCycle(in, FALSE, FALSE)
    <3>1. i.ready = FALSE /\ FifoClear(i) = FALSE
      BY <1>6, <1>7, <1>10 DEF FifoClear
    <3> QED BY <1>8, <3>1
  <2>2. Len(rdata_Q) \in Nat /\ Len(rdata_Q') \in Nat
    BY <1>1 DEF PrefetchTypeOK, FifoTypeOK
  <2>3. /\ InOrder' /\ ~is_hwlp_Q'[1]
        /\ (is_hwlp_Q'[0] <=> is_hwlp_Q[0] \/ (in.valid /\ in.jump))
        /\ Len(rdata_Q') <= Len(rdata_Q) + v
        /\ Len(rdata_Q') >= Len(rdata_Q) + v - 0
        /\ rdata_Q' # <<>> =>
             /\ addr_Q'[0] = PcIf
             /\ LastOf(rdata_Q')[1] =
                         IF valid THEN WordOf(instr_addr_q) ELSE LastOf(rdata_Q)[1]
             /\ ~valid => rdata_Q # <<>>
    BY <1>1, <1>2, <1>3, <1>4, <1>6, <2>1, FifoOrder
  <2> HIDE DEF v
  <2>4. Len(rdata_Q') = Len(rdata_Q) + v
    BY <1>9, <2>2, <2>3
  <2> QED BY <1>2, <2>3, <2>4
<1>11. /\ (rdata_Q = <<>> <=> Len(rdata_Q) = 0) /\ (rdata_Q' = <<>> <=> Len(rdata_Q') = 0)
       /\ Len(rdata_Q) \in Nat
  BY <1>1 DEF PrefetchTypeOK, FifoTypeOK
<1> HIDE DEF in, valid
<1>12. CASE FetchIsHwlp(i) /\ i.ready
  <2>1. FifoClear(i) = TRUE
    BY <1>7, <1>12 DEF FifoClear
  <2>2. rdata_Q' = <<>> /\ ~is_hwlp_Q'[0] /\ ~is_hwlp_Q'[1]
    BY <1>8, <2>1, ClearedFifo
  <2>3. Run' = <<>> /\ hwlp_CS' = "FETCHING" /\ ~Held' /\ Flagged'
    BY <1>5, <1>12, <2>2 DEF Run, Held, Flagged
  <2>4. Requested' /\ RunAddr' = i.hwtarget
    BY <1>1, <1>5, <1>12, <2>2, <2>3, JumpKept
  <2>5. PcIf' = i.hwtarget
    BY <2>2, <2>3, <2>4, NextPcIf DEF RunAddr
  <2>6. Phase' /\ Contents'
    BY <2>2, <2>3 DEF Phase, Contents, Ordered
  <2> QED BY <1>12, <2>3, <2>4, <2>5, <2>6 DEF FlowsOn
<1>13. CASE FetchIsHwlp(i) /\ ~i.ready
  <2>1. /\ InOrder' /\ ~is_hwlp_Q'[0] /\ ~is_hwlp_Q'[1]
        /\ Len(rdata_Q') = Len(rdata_Q) + v
        /\ rdata_Q' # <<>> => addr_Q'[0] = PcIf
    BY <1>10, <1>13
  <2>2. rdata_Q' # <<>>
    <3>1. Len(rdata_Q) # 0 \/ v = 1
      BY <1>5, <1>9, <1>11, <1>13
    <3> HIDE DEF v
    <3>2. Len(rdata_Q') # 0
      BY <1>9, <1>11, <2>1, <3>1
    <3> QED BY <1>11, <3>2
  <2>3. hwlp_CS' = "FETCHING" /\ Run' = <<>> /\ ~Flagged'
    BY <1>5, <1>13, <2>1, <2>2 DEF Run, Flagged
  <2>4. Requested' /\ RunAddr' = i.hwtarget
    BY <1>1, <1>5, <1>13, <2>1, <2>3, JumpKept
  <2>5. PcIf' = PcIf
    BY <2>1, <2>2, NextPcIf
  <2>6. rdata_Q'[1] = WordAt(PcIf)
    <3>1. rdata_Q'[1][1] = WordOf(PcIf)
      BY <2>1, <2>2 DEF InOrder
    <3>2. 1 \in 1..Len(rdata_Q')
      BY <1>1, <2>2 DEF PrefetchTypeOK, FifoTypeOK
    <3>3. rdata_Q'[1] = WordAt(rdata_Q'[1][1])
      BY <2>1, <3>2 DEF InOrder, Ordered
    <3>4. WordOf(PcIf) = PcIf
      BY <1>2, WordFacts
    <3> QED BY <3>1, <3>3, <3>4
  <2>7. Phase' /\ Contents'
    BY <2>1, <2>3, <2>5, <2>6 DEF Phase, Contents, Ordered
  <2> QED BY <1>2, <1>13, <2>3, <2>4, <2>5, <2>7 DEF FlowsOn
<1>14. CASE ~FetchIsHwlp(i)
  <2>1. PlainRequests(i) /\ ~i.ready /\ hwlp_CS' = "IN"
    BY <1>5, <1>14
  <2>2. /\ InOrder' /\ ~is_hwlp_Q'[0] /\ ~is_hwlp_Q'[1]
        /\ Len(rdata_Q') = Len(rdata_Q) + v
        /\ rdata_Q' # <<>> =>
             /\ addr_Q'[0] = PcIf
             /\ LastOf(rdata_Q')[1] =
                         IF valid THEN WordOf(instr_addr_q) ELSE LastOf(rdata_Q)[1]
             /\ ~valid => rdata_Q # <<>>
    BY <1>10, <2>1
  <2>3. Run' = rdata_Q' /\ ~Held' /\ ~Flagged'
    BY <2>1, <2>2 DEF Run, Held, Flagged
  <2>4. Run' # <<>> => RunAddr' = RunAddr
    BY <1>2, <2>2, <2>3 DEF RunAddr
  <2>5. Runs(valid, FALSE, v, 0)
    <3>1. v = (IF valid THEN 1 ELSE 0)
      OBVIOUS
    <3> HIDE DEF v
    <3>2. Len(Run') >= Len(Run) + v - 0 /\ Len(Run') <= Len(Run) + v
      BY <1>2, <1>9, <1>11, <2>2, <2>3
    <3> QED BY <1>2, <2>2, <2>3, <2>4, <3>1, <3>2 DEF Runs
  <2>6. Requested' /\ RunAddr' = RunAddr
    BY <1>1, <2>1, <2>5, RunKept DEF valid
  <2>7. PcIf' = RunAddr'
    BY <2>1, <2>2, <2>3, NextPcIf DEF RunAddr
  <2>8. Contents'
    BY <1>2, <2>2, <2>3, <2>6 DEF Contents, InOrder
  <2>9. Phase'
    BY <2>1, <2>2 DEF Phase
  <2> QED BY <1>2, <2>1, <2>3, <2>6, <2>7, <2>8, <2>9 DEF FlowsOn
<1> QED BY <1>12, <1>13, <1>14

(* A cycle without a branch: the content of the FIFO stays in order, and   *)
(* the PC of the IF stage moves exactly with the instructions taken, to    *)
(* the start of the loop from its end.                                     *)
LEMMA Flow ==
    ASSUME NEW i \in Inputs, Flowing(i)
    PROVE  FlowsOn(i)
<1>1. Held => i.hwloop
  BY DEF Flowing, LoopSide
<1> QED BY <1>1, FreeFlow, HeldFlow, EndFlow

(* The instruction that is taken is the memory at the PC.                  *)
LEMMA TakenIsMemory ==
    ASSUME NEW i \in Inputs, Flowing(i), i.ready
    PROVE  /\ OutRdata(In(i))[1] = PcIf
           /\ PcIf \notin Compressed => OutRdata(In(i))[2] = (PcIf + 1) % Halves
<1>1. /\ PrefetchTypeOK /\ TargetIsStored /\ RoomForRequest /\ Phase /\ Contents /\ Requested
      /\ Driven(i) /\ OutValid(In(i)) /\ FifoTypeOK
  BY DEF Flowing, Driven, PrefetchTypeOK
<1>2. In(i) \in FifoInputs /\ OutAddr(In(i)) = PcIf /\ PcIf \in Addr
  BY <1>1, InputWires, PcIfType
<1>3. CASE ~Held
  <2>1. InOrder /\ Arrives(In(i)) /\ (In(i).jump => rdata_Q = <<>>) /\ ~is_hwlp_Q[1]
    BY <1>1, <1>3, FreeArrival, FreeFacts
  <2> QED BY <1>1, <1>2, <2>1, OutIsMemory
<1>4. CASE Held
  <2>1. ~Odd(PcIf) /\ rdata_Q # <<>> /\ PcIf = addr_Q[0] /\ rdata_Q[1] = WordAt(PcIf)
    BY <1>1, <1>4, HeldFacts DEF Flowing, LoopSide, Contents
  <2>2. OutRdata(In(i)) = WordAt(PcIf)
    BY <1>1, <1>2, <2>1, AlignedOut
  <2>3. (PcIf + 1) % Halves = PcIf + 1
    BY <1>2, <2>1, AfterFacts
  <2> QED BY <2>2, <2>3, WordAtParts
<1> QED BY <1>3, <1>4

(* The prefetch buffer has refused the instruction at the PC of the IF     *)
(* stage, or its second word.                                              *)
Stuck ==
    /\ CS = "WAIT_JUMP"
    /\ \/ rdata_Q = <<>>
       \/ Len(rdata_Q) = 1 /\ Odd(PcIf) /\ PcIf \notin Compressed

(* A fault is found where fetching has stopped.                            *)
LEMMA FaultIsStuck ==
    ASSUME NEW i \in Inputs, Flowing(i), FetchFailed(i)
    PROVE  Stuck'
<1>1. CS = "WAIT_JUMP" /\ ~i.branch /\ ~OutValid(In(i))
  BY DEF FetchFailed
<1>2. /\ PrefetchTypeOK /\ TargetIsStored /\ RoomForRequest /\ Phase /\ Contents /\ Requested
      /\ Driven(i) /\ PrefetchCycle(i) /\ LoopSide(i) /\ FifoTypeOK /\ i.ready \in BOOLEAN
  BY DEF Flowing, Driven, PrefetchTypeOK, Inputs
<1>3. ~FifoValid(i.rvalid) /\ ~i.ready
  BY <1>1, <1>2 DEF FifoValid, Driven
<1>4. In(i) \in FifoInputs /\ OutAddr(In(i)) = PcIf /\ ~In(i).valid
  BY <1>2, <1>3, InputWires
<1>5. ~Held
  <2> SUFFICES ASSUME Held PROVE FALSE
    OBVIOUS
  <2>1. ~Odd(PcIf) /\ rdata_Q # <<>> /\ PcIf = addr_Q[0]
    BY <1>2, HeldFacts DEF LoopSide
  <2> QED BY <1>1, <1>2, <1>4, <2>1, AlignedOut
<1>6. /\ InOrder /\ Arrives(In(i)) /\ (In(i).jump => rdata_Q = <<>>) /\ ~is_hwlp_Q[1]
      /\ RunAddr = PcIf
  BY <1>2, <1>5, FreeArrival, FreeFacts
<1>7. rdata_Q' = rdata_Q
  <2>1. FifoClear(i) = FALSE
    BY <1>1, <1>2, <1>3 DEF FifoClear, HwlpBranch, Phase
  <2>2. FifoCycle(In(i), FALSE, FALSE)
    <3>1. i.ready = FALSE
      BY <1>2, <1>3
    <3> QED BY <1>2, <2>1, <3>1 DEF PrefetchCycle
  <2> QED BY <1>2, <1>4, <1>6, <2>2, FifoOrder
<1>8. CS' = "WAIT_JUMP"
  <2>1. ~InstrReq(i) /\ ~Aborts(i)
    BY <1>1 DEF InstrReq, Aborts
  <2> QED BY <1>1, <1>2, <1>3, <2>1 DEF PrefetchCycle, NextFetch
<1>9. PcIf' = PcIf
  BY <1>3, Flow DEF FlowsOn
<1>10. rdata_Q # <<>> => Len(rdata_Q) = 1 /\ Odd(PcIf) /\ PcIf \notin Compressed
  <2> SUFFICES ASSUME rdata_Q # <<>>
               PROVE  Len(rdata_Q) = 1 /\ Odd(PcIf) /\ PcIf \notin Compressed
    OBVIOUS
  <2>1. Unaligned(In(i)) /\ ~UnalignedIsCompressed(In(i)) /\ ~(Len(rdata_Q) > 1)
    BY <1>1 DEF OutValid
  <2>2. Odd(PcIf)
    BY <1>4, <2>1 DEF Unaligned
  <2>3. Front(In(i))[2] = PcIf
    BY <1>2, <1>4, <1>6, <2>2, FrontIsThere
  <2>4. Len(rdata_Q) \in Nat /\ Len(rdata_Q) # 0
    BY <1>2 DEF FifoTypeOK
  <2>5. Len(rdata_Q) <= 1
    BY <2>1, <2>4
  <2>6. Len(rdata_Q) = 1
    BY <2>4, <2>5, OneIsLeft, Zenon
  <2> QED BY <2>1, <2>2, <2>3, <2>6 DEF UnalignedIsCompressed
<1> QED BY <1>7, <1>8, <1>9, <1>10 DEF Stuck

-----------------------------------------------------------------------------
(* The hardware loops of the program.                                      *)

\* Where the loops that jump back start.
Starts == {After(s.at) : s \in Iterating}

\* A register with rounds to go was set by a loop that iterates.
LoopRegs == \A k \in Loops : hwlp_counter[k] > 1 =>
    \E s \in Iterating : s.reg = k /\ hwlp_end[k] = s.end /\ hwlp_start[k] = After(s.at)

\* What the counters will be when the instruction in ID has left.
Rounds == [k \in Loops |->
    IF id.valid /\ id.hwlp /\ k = id.dec THEN hwlp_counter[k] - 1 ELSE hwlp_counter[k]]

\* The loops of which the last round but one, or an earlier one, ends at a.
EndingAt(a) == {k \in Loops : hwlp_end[k] = a /\ Rounds[k] > 1}
Lowest(ks)  == IF 0 \in ks THEN 0 ELSE 1

Ends == EndingAt(PcIf) # {}
Goal == hwlp_start[Lowest(EndingAt(PcIf))]

Jumps ==
    /\ hwlp_CS = "IN" \/ Held => Ends
    /\ Held => RunAddr = Goal
    /\ Flagged => PcIf \in Starts

LEMMA AfterType ==
    ASSUME NEW a \in Addr
    PROVE  After(a) \in Addr
BY FetchAssumption DEF After, Addr

LEMMA SetupTypes ==
    ASSUME NEW s \in Setups
    PROVE  s.at \in Addr /\ s.end \in Addr /\ s.reg \in Loops /\ s.count \in 0..(Counts - 1)
           /\ s.count \in Nat /\ After(s.at) \in Addr
<1>1. s.at \in Addr /\ s.end \in Addr /\ s.reg \in Loops /\ s.count \in 0..(Counts - 1)
  BY ProgramAssumption
<1>2. s.count \in Nat
  BY <1>1, CountsAssumption
<1> QED BY <1>1, <1>2, AfterType

LEMMA LoopTypesHere ==
    ASSUME TypeOK
    PROVE  /\ \A k \in Loops : /\ hwlp_counter[k] \in Nat /\ hwlp_counter[k] < Counts
                               /\ hwlp_start[k] \in Addr /\ hwlp_end[k] \in Addr
           /\ id.valid \in BOOLEAN /\ id.hwlp \in BOOLEAN /\ id.dec \in 0..N_HWLP /\ id.pc \in Addr
           /\ id.to \in Half /\ id.failed \in BOOLEAN
           /\ \A k \in Loops : Rounds[k] \in Int /\ Rounds[k] <= hwlp_counter[k]
<1>1. \A k \in Loops : /\ hwlp_counter[k] \in Nat /\ hwlp_counter[k] < Counts
                       /\ hwlp_start[k] \in Addr /\ hwlp_end[k] \in Addr
  BY CountsAssumption DEF TypeOK
<1>2. /\ id.valid \in BOOLEAN /\ id.hwlp \in BOOLEAN /\ id.dec \in 0..N_HWLP /\ id.pc \in Addr
      /\ id.to \in Half /\ id.failed \in BOOLEAN
  BY DEF TypeOK
<1>3. \A k \in Loops : Rounds[k] \in Int /\ Rounds[k] <= hwlp_counter[k]
  <2> TAKE k \in Loops
  <2>1. Rounds[k] =
          IF id.valid /\ id.hwlp /\ k = id.dec THEN hwlp_counter[k] - 1 ELSE hwlp_counter[k]
    BY Zenon DEF Rounds
  <2>2. Rounds[k] = hwlp_counter[k] - 1 \/ Rounds[k] = hwlp_counter[k]
    BY <2>1, Zenon
  <2>3. hwlp_counter[k] \in Nat
    BY <1>1
  <2> HIDE DEF Rounds
  <2> QED BY <2>2, <2>3
<1> HIDE DEF Rounds
<1> QED BY <1>1, <1>2, <1>3, Zenon

(* The comparison of the hardware is that of the rounds that remain.       *)
LEMMA PcIsEndIs ==
    ASSUME TypeOK, NEW k \in Loops, NEW a
    PROVE  PcIsEnd(k, a, DecInId) <=> k \in EndingAt(a)
<1> DEFINE flight == id.valid /\ id.hwlp /\ k = id.dec
<1>1. hwlp_counter[k] \in Nat
  BY LoopTypesHere
<1>2. DecInId = k <=> flight
  BY DEF DecInId, Loops, NoLoop, N_HWLP
<1>3. Rounds[k] = IF flight THEN hwlp_counter[k] - 1 ELSE hwlp_counter[k]
  BY Zenon DEF Rounds
<1>4. k \in EndingAt(a) <=> hwlp_end[k] = a /\ Rounds[k] > 1
  BY DEF EndingAt
<1> HIDE DEF flight
<1>5. CASE flight
  BY <1>1, <1>2, <1>3, <1>4, <1>5 DEF PcIsEnd
<1>6. CASE ~flight
  BY <1>1, <1>2, <1>3, <1>4, <1>6 DEF PcIsEnd
<1> QED BY <1>5, <1>6

LEMMA LowestIs ==
    ASSUME NEW ks \in SUBSET Loops, ks # {}
    PROVE  Lowest(ks) \in ks /\ \A j \in ks : Lowest(ks) <= j
<1>1. Loops = {0, 1}
  BY DEF Loops, N_HWLP
<1>2. 0 \in ks \/ 1 \in ks
  BY <1>1
<1>3. \A j \in ks : j = 0 \/ j = 1
  BY <1>1
<1> QED BY <1>2, <1>3 DEF Lowest

LEMMA JumpIs ==
    ASSUME TypeOK
    PROVE  /\ HwloopJump(PcIf, DecInId) <=> Ends
           /\ Ends => HwloopTarget(PcIf, DecInId) = Goal
           /\ Ends => DecCnt(PcIf, DecInId) = Lowest(EndingAt(PcIf))
<1>1. \A k \in Loops : PcIsEnd(k, PcIf, DecInId) <=> k \in EndingAt(PcIf)
  BY PcIsEndIs
<1>2. EndingAt(PcIf) \in SUBSET Loops
  BY DEF EndingAt
<1>3. HwloopJump(PcIf, DecInId) <=> Ends
  BY <1>1, <1>2 DEF HwloopJump, Ends
<1>4. Ends => DecCnt(PcIf, DecInId) = Lowest(EndingAt(PcIf))
  <2> DEFINE ks == EndingAt(PcIf)
  <2>1. 0 \in Loops /\ 1 \in Loops /\ Loops = {0, 1}
    BY DEF Loops, N_HWLP
  <2>2. (PcIsEnd(0, PcIf, DecInId) <=> 0 \in ks) /\ (PcIsEnd(1, PcIf, DecInId) <=> 1 \in ks)
    BY <1>1, <2>1
  <2> HIDE DEF ks
  <2>3. ks # {} => 0 \in ks \/ 1 \in ks
    BY <1>2, <2>1 DEF ks
  <2>4. ks # {} => DecCnt(PcIf, DecInId) = Lowest(ks)
    BY <2>2, <2>3 DEF DecCnt, Lowest
  <2> QED BY <2>4 DEF Ends, ks
<1> QED BY <1>3, <1>4 DEF HwloopTarget, Goal

(* Where a loop ends no other instruction of a loop is.                    *)
LEMMA LoopEndFacts ==
    ASSUME LoopsBehave, TypeOK, LoopRegs, NEW a, NEW k \in EndingAt(a)
    PROVE  /\ \E s \in Iterating : s.reg = k /\ a = s.end /\ hwlp_end[k] = s.end
                                   /\ hwlp_start[k] = After(s.at)
           /\ a \in Addr /\ ~Odd(a) /\ a \notin Starts
           /\ \A t \in Setups : a # t.at /\ a # After(t.at)
<1>1. k \in Loops /\ hwlp_end[k] = a /\ Rounds[k] > 1
  BY DEF EndingAt
<1>2. hwlp_counter[k] > 1
  <2>1. hwlp_counter[k] \in Nat /\ Rounds[k] \in Int /\ Rounds[k] <= hwlp_counter[k]
    BY <1>1, LoopTypesHere
  <2> QED BY <1>1, <2>1
<1>3. PICK s \in Iterating : s.reg = k /\ hwlp_end[k] = s.end /\ hwlp_start[k] = After(s.at)
  BY <1>1, <1>2 DEF LoopRegs
<1>4. s \in Setups
  BY DEF Iterating
<1>5. ~Odd(s.end) /\ \A t \in Setups : t.at # s.end /\ After(t.at) # s.end
  BY Zenon DEF LoopsBehave
<1>6. a \notin Starts
  BY <1>1, <1>3, <1>5 DEF Starts, Iterating
<1>7. a \in Addr
  BY <1>1, <1>3, <1>4, SetupTypes
<1> QED BY <1>1, <1>3, <1>5, <1>6, <1>7

\* The same for the end at the output of the prefetch buffer.
LEMMA EndsFacts ==
    ASSUME LoopsBehave, TypeOK, LoopRegs, Jumps, Ends
    PROVE  ~Odd(PcIf) /\ ~Flagged /\ Goal \in Starts
           /\ \E s \in Iterating : PcIf = s.end
<1> DEFINE ks == EndingAt(PcIf)
           k == Lowest(ks)
<1>1. ks \in SUBSET Loops /\ ks # {}
  BY DEF EndingAt, Ends
<1>2. k \in ks
  BY <1>1, LowestIs
<1> HIDE DEF k
<1>3. \E s \in Iterating : s.reg = k /\ PcIf = s.end /\ hwlp_start[k] = After(s.at)
  BY <1>2, LoopEndFacts
<1>4. ~Odd(PcIf) /\ PcIf \notin Starts
  BY <1>2, LoopEndFacts
<1>5. Goal \in Starts
  BY <1>3 DEF Goal, k, Starts
<1> QED BY <1>3, <1>4, <1>5 DEF Jumps

-----------------------------------------------------------------------------
(* The fetch path is in step with the program.                             *)

\* The loops that jump back behind the last instruction that left ID.
Ending == {k \in Loops : at.done /\ at.pc = hwlp_end[k] /\ hwlp_counter[k] > 1}

\* What follows that instruction.
Follow == IF Ending # {} THEN hwlp_start[Lowest(Ending)]
          ELSE IF at.done THEN After(at.pc) ELSE at.pc

\* The same for the instruction in ID.
NextEnding == IF ~id.valid THEN Ending ELSE IF id.to # Junk THEN {} ELSE EndingAt(id.pc)
NextPc ==
    IF NextEnding # {} THEN hwlp_start[Lowest(NextEnding)]
    ELSE IF ~id.valid THEN IF at.done THEN After(at.pc) ELSE at.pc
    ELSE IF id.to # Junk THEN id.to ELSE After(id.pc)

WordInId == id.word[1] = id.pc /\ (id.pc \notin Compressed => id.word[2] = (id.pc + 1) % Halves)

NothingAsked == CS = "IDLE" /\ rdata_Q = <<>> /\ hwlp_CS = "NONE"

Quiet ==
    /\ NothingAsked /\ ~id.failed /\ ~id.valid /\ ~at.done
    /\ \A k \in Loops : hwlp_counter[k] = 0

\* The PC, the mark and the decrement of the IF stage are those that follow.
Synchronous ==
    /\ PcIf = NextPc
    /\ Flagged <=> NextEnding # {}
    /\ Flagged => dec_if = Lowest(NextEnding)

IdInStep ==
    /\ id.valid => ctl = "RUN" /\ id.pc = Follow /\ WordInId
    /\ id.hwlp => id.valid
    /\ id.valid => (id.hwlp <=> Ending # {})
    /\ id.hwlp => id.dec = Lowest(Ending)
    /\ id.to # Junk => SetupAt(id.pc) = NoSetup
    /\ id.failed => ~id.valid /\ Stuck

InStep ==
    /\ ctl = "RESET" => Quiet
    /\ ctl # "RESET" => Requested
    /\ ctl = "SLEEP" => at.done
    /\ ctl # "RUN" /\ at.done => Ending = {}
    /\ ctl = "RUN" \/ (ctl # "RESET" /\ at.done) => Synchronous
    /\ IdInStep

\* The inductive invariant.
OrderInv == IInv /\ LoopRegs /\ Phase /\ Jumps /\ Contents /\ InStep

\* The instruction in ID without its decrement has not left yet.
LEMMA RoundsAre ==
    ASSUME OrderInv
    PROVE  /\ Rounds \in [Loops -> 0..(Counts - 1)]
           /\ \A k \in Loops : Rounds[k] =
                IF id.valid /\ id.hwlp /\ k = id.dec THEN hwlp_counter[k] - 1 ELSE hwlp_counter[k]
           /\ id.valid /\ id.hwlp => id.dec \in Loops /\ hwlp_counter[id.dec] > 1
           /\ Rounds = IF id.valid /\ Ending # {}
                       THEN [hwlp_counter EXCEPT ![Lowest(Ending)] = @ - 1] ELSE hwlp_counter
<1>1. TypeOK /\ IdInStep
  BY DEF OrderInv, IInv, InStep
<1>2. id.valid /\ id.hwlp => id.dec \in Loops /\ hwlp_counter[id.dec] > 1
  <2> SUFFICES ASSUME id.valid, id.hwlp PROVE id.dec \in Loops /\ hwlp_counter[id.dec] > 1
    OBVIOUS
  <2>1. Ending # {} /\ Ending \in SUBSET Loops /\ id.dec = Lowest(Ending)
    BY <1>1 DEF IdInStep, Ending
  <2>2. id.dec \in Ending
    BY <2>1, LowestIs
  <2> QED BY <2>2 DEF Ending
<1>3. \A k \in Loops : Rounds[k] =
         IF id.valid /\ id.hwlp /\ k = id.dec THEN hwlp_counter[k] - 1 ELSE hwlp_counter[k]
  BY Zenon DEF Rounds
<1>4. \A k \in Loops : Rounds[k] \in 0..(Counts - 1)
  <2> TAKE k \in Loops
  <2>1. hwlp_counter[k] \in Nat /\ hwlp_counter[k] < Counts
    BY <1>1, LoopTypesHere
  <2>2. Rounds[k] = hwlp_counter[k] \/ (Rounds[k] = hwlp_counter[k] - 1 /\ hwlp_counter[k] > 1)
    BY <1>2, <1>3, Zenon
  <2> HIDE DEF Rounds
  <2> QED BY <2>1, <2>2, CountsAssumption
<1>5. Rounds \in [Loops -> 0..(Counts - 1)]
  BY <1>4 DEF Rounds
<1>6. Rounds = IF id.valid /\ Ending # {}
               THEN [hwlp_counter EXCEPT ![Lowest(Ending)] = @ - 1] ELSE hwlp_counter
  <2>1. hwlp_counter \in [Loops -> 0..(Counts - 1)]
    BY <1>1 DEF TypeOK
  <2>2. CASE id.valid /\ Ending # {}
    <3>1. id.hwlp /\ id.dec = Lowest(Ending)
      BY <1>1, <2>2 DEF IdInStep
    <3>2. Rounds = [k \in Loops |-> IF k = id.dec THEN hwlp_counter[k] - 1 ELSE hwlp_counter[k]]
      BY <2>2, <3>1 DEF Rounds
    <3>3. Rounds = [hwlp_counter EXCEPT ![id.dec] = @ - 1]
      BY <2>1, <3>2
    <3> QED BY <2>2, <3>1, <3>3
  <2>3. CASE ~(id.valid /\ Ending # {})
    <3>1. ~(id.valid /\ id.hwlp)
      BY <1>1, <2>3 DEF IdInStep
    <3>2. Rounds = [k \in Loops |-> hwlp_counter[k]]
      BY <3>1 DEF Rounds
    <3> QED BY <2>1, <2>3, <3>2
  <2> QED BY <2>2, <2>3
<1> HIDE DEF Rounds
<1> QED BY <1>2, <1>3, <1>5, <1>6

\* A loop instruction is in ID and writes the registers of its loop.
Writes(s, n) ==
    /\ s \in Setups /\ s.at = id.pc /\ id.valid /\ id.to = Junk
    /\ EndingAt(id.pc) = {} /\ EndingAt(PcIf) = {} /\ PcIf = After(id.pc)
    /\ hwlp_start' = [hwlp_start EXCEPT ![s.reg] = After(s.at)]
    /\ hwlp_end' = [hwlp_end EXCEPT ![s.reg] = s.end]
    /\ hwlp_counter' = [n EXCEPT ![s.reg] = s.count]

\* No registers are written.
Keeps(n) == hwlp_start' = hwlp_start /\ hwlp_end' = hwlp_end /\ hwlp_counter' = n

\* The counters after a cycle in which the instruction in ID leaves or not.
Counted(clear) == IF clear THEN Rounds ELSE hwlp_counter

LEMMA DecrementIs ==
    ASSUME NEW n \in Nat, n > 1, n < Counts
    PROVE  (n + Counts - 1) % Counts = n - 1
<1>1. n + Counts - 1 = Counts + (n - 1) /\ n - 1 \in 0..(Counts - 1)
  BY CountsAssumption
<1>2. (Counts + (n - 1)) % Counts = n - 1
  BY <1>1, CountsAssumption
<1> QED BY <1>1, <1>2

LEMMA LoopsWritten ==
    ASSUME LoopsBehave, OrderInv, NEW c \in Controls, NEW setup \in BOOLEAN, setup => ctl = "RUN",
           Clock(c, setup)
    PROVE  \/ Keeps(Counted(c.clear)) /\ (setup /\ id.valid => \A s \in Setups : s.at # id.pc)
           \/ setup /\ \E s \in Setups : Writes(s, Counted(c.clear))
<1>1. PICK gnt \in BOOLEAN, rvalid \in BOOLEAN : Edge(c, setup, gnt, rvalid)
  BY Zenon DEF Clock
<1> DEFINE w == IF setup /\ id.valid THEN SetupAt(id.pc) ELSE NoSetup
           decs == id.valid /\ id.hwlp /\ c.clear
           n == Counted(c.clear)
<1>2. HwloopCycle(w, PcIf, id.dec, decs)
  BY <1>1, Zenon DEF Edge
<1>3. TypeOK /\ LoopRegs /\ IdInStep
  BY DEF OrderInv, IInv, InStep
<1>4. /\ hwlp_start \in [Loops -> Addr] /\ hwlp_end \in [Loops -> Addr]
      /\ hwlp_counter \in [Loops -> 0..(Counts - 1)]
  BY <1>3 DEF TypeOK
<1>5. n \in [Loops -> 0..(Counts - 1)]
  <2>1. Rounds \in [Loops -> 0..(Counts - 1)]
    BY RoundsAre
  <2> QED BY <1>4, <2>1 DEF Counted
<1>6. \A k \in Loops : IF decs /\ k = id.dec
                       THEN n[k] = (hwlp_counter[k] + Counts - 1) % Counts
                       ELSE n[k] = hwlp_counter[k]
  <2> TAKE k \in Loops
  <2>1. CASE decs /\ k = id.dec
    <3>1. hwlp_counter[k] \in Nat /\ hwlp_counter[k] < Counts
      BY <1>3, LoopTypesHere
    <3>2. hwlp_counter[k] > 1 /\ Rounds[k] = hwlp_counter[k] - 1
      BY <2>1, RoundsAre
    <3>3. n[k] = Rounds[k]
      BY <2>1 DEF Counted
    <3>4. (hwlp_counter[k] + Counts - 1) % Counts = hwlp_counter[k] - 1
      BY <3>1, <3>2, DecrementIs
    <3> QED BY <2>1, <3>2, <3>3, <3>4, Zenon
  <2>2. CASE ~(decs /\ k = id.dec)
    <3>1. c.clear => Rounds[k] = hwlp_counter[k]
      BY <2>2, RoundsAre
    <3>2. n[k] = hwlp_counter[k]
      BY <3>1 DEF Counted
    <3> QED BY <2>2, <3>2, Zenon
  <2> QED BY <2>1, <2>2
<1>7. CASE setup /\ id.valid /\ \E s \in Setups : s.at = id.pc
  <2>1. w \in Setups /\ w.at = id.pc
    BY <1>7 DEF SetupAt
  <2>2. id.to = Junk
    <3>1. id.pc \in Addr
      BY <1>3 DEF TypeOK
    <3>2. SetupAt(id.pc) # NoSetup
      BY <1>7, <2>1, <3>1, FetchAssumption DEF NoSetup, Addr, Junk
    <3> QED BY <1>3, <3>2 DEF IdInStep
  <2>3. EndingAt(id.pc) = {}
    BY <1>3, <2>1, LoopEndFacts
  <2>4. PcIf = After(id.pc)
    <3>1. NextEnding = {}
      BY <1>7, <2>2, <2>3 DEF NextEnding
    <3>2. Synchronous
      BY <1>7 DEF OrderInv, InStep
    <3> QED BY <1>7, <2>2, <3>1, <3>2 DEF Synchronous, NextPc
  <2>5. EndingAt(PcIf) = {}
    BY <1>3, <2>1, <2>4, LoopEndFacts
  <2>6. w.reg \in Loops
    BY <2>1, SetupTypes
  <2> HIDE DEF w, decs, n
  <2>7. /\ hwlp_start' = [k \in Loops |-> IF k = w.reg THEN PcIf ELSE hwlp_start[k]]
        /\ hwlp_end' = [k \in Loops |-> IF k = w.reg THEN w.end ELSE hwlp_end[k]]
        /\ hwlp_counter' = [k \in Loops |-> IF k = w.reg THEN w.count ELSE n[k]]
    BY <1>2, <1>6 DEF HwloopCycle
  <2>8. /\ hwlp_start' = [hwlp_start EXCEPT ![w.reg] = PcIf]
        /\ hwlp_end' = [hwlp_end EXCEPT ![w.reg] = w.end]
        /\ hwlp_counter' = [n EXCEPT ![w.reg] = w.count]
    BY <1>4, <1>5, <2>6, <2>7
  <2>9. Writes(w, n)
    BY <1>7, <2>1, <2>2, <2>3, <2>4, <2>5, <2>8 DEF Writes
  <2> QED BY <1>7, <2>1, <2>9 DEF n
<1>8. CASE ~(setup /\ id.valid /\ \E s \in Setups : s.at = id.pc)
  <2>1. w = NoSetup
    BY <1>8 DEF SetupAt
  <2>2. \A k \in Loops : k # w.reg
    BY <2>1 DEF NoSetup, NoLoop, N_HWLP, Loops
  <2> HIDE DEF w, decs, n
  <2>3. /\ hwlp_start' = [k \in Loops |-> hwlp_start[k]]
        /\ hwlp_end' = [k \in Loops |-> hwlp_end[k]]
        /\ hwlp_counter' = [k \in Loops |-> n[k]]
    BY <1>2, <1>6, <2>2 DEF HwloopCycle
  <2>4. Keeps(n)
    BY <1>4, <1>5, <2>3 DEF Keeps
  <2> QED BY <1>8, <2>4 DEF n
<1> QED BY <1>7, <1>8

-----------------------------------------------------------------------------
(* The loop registers after a cycle.                                       *)

\* In a cycle the loop registers keep their rounds or are set.
Written(clear) ==
    Keeps(Counted(clear)) \/ \E s \in Setups : Writes(s, Counted(clear))

EndsAreApart ==
    \A a : \A k \in EndingAt(a) :
        /\ hwlp_start[k] \in Starts
        /\ \A t \in Setups : a # t.at /\ a # After(t.at)

LEMMA ApartNow == LoopsBehave /\ TypeOK /\ LoopRegs => EndsAreApart
<1> SUFFICES ASSUME LoopsBehave, TypeOK, LoopRegs PROVE EndsAreApart
  OBVIOUS
<1> SUFFICES ASSUME NEW a, NEW k \in EndingAt(a)
             PROVE  hwlp_start[k] \in Starts /\ \A t \in Setups : a # t.at /\ a # After(t.at)
  BY DEF EndsAreApart
<1> QED BY LoopEndFacts DEF Starts

LEMMA ApartNext == LoopsBehave /\ TypeOK' /\ LoopRegs' => EndsAreApart'
<1>1. LoopsBehave' <=> LoopsBehave
  BY DEF LoopsBehave, Iterating, Behind, First
<1>2. LoopsBehave' /\ TypeOK' /\ LoopRegs' => EndsAreApart'
  BY ApartNow, PTL
<1> QED BY <1>1, <1>2

LEMMA CountedIs ==
    ASSUME OrderInv, NEW clear \in BOOLEAN
    PROVE  /\ Counted(clear) \in [Loops -> 0..(Counts - 1)]
           /\ \A k \in Loops : Counted(clear)[k] <= hwlp_counter[k]
           /\ hwlp_start \in [Loops -> Addr] /\ hwlp_end \in [Loops -> Addr]
<1>1. TypeOK
  BY DEF OrderInv, IInv
<1>2. Rounds \in [Loops -> 0..(Counts - 1)] /\ \A k \in Loops : Rounds[k] <= hwlp_counter[k]
  BY <1>1, LoopTypesHere, RoundsAre
<1>3. hwlp_counter \in [Loops -> 0..(Counts - 1)]
  BY <1>1 DEF TypeOK
<1>4. \A k \in Loops : hwlp_counter[k] <= hwlp_counter[k]
  BY <1>1, LoopTypesHere
<1>5. hwlp_start \in [Loops -> Addr] /\ hwlp_end \in [Loops -> Addr]
  BY <1>1 DEF TypeOK
<1> QED BY <1>2, <1>3, <1>4, <1>5 DEF Counted

LEMMA LoopRegsKept ==
    ASSUME OrderInv, NEW clear \in BOOLEAN, Written(clear)
    PROVE  LoopRegs'
<1> DEFINE n == Counted(clear)
<1>1. LoopRegs /\ TypeOK
  BY DEF OrderInv, IInv
<1>2. /\ n \in [Loops -> 0..(Counts - 1)] /\ \A k \in Loops : n[k] <= hwlp_counter[k]
      /\ hwlp_start \in [Loops -> Addr] /\ hwlp_end \in [Loops -> Addr]
  BY CountedIs
<1> HIDE DEF n
<1>3. \A k \in Loops : n[k] > 1 =>
         \E s \in Iterating : s.reg = k /\ hwlp_end[k] = s.end /\ hwlp_start[k] = After(s.at)
  <2> SUFFICES ASSUME NEW k \in Loops, n[k] > 1
               PROVE  \E s \in Iterating :
                         s.reg = k /\ hwlp_end[k] = s.end /\ hwlp_start[k] = After(s.at)
    OBVIOUS
  <2>1. n[k] \in Nat /\ n[k] <= hwlp_counter[k] /\ hwlp_counter[k] \in Nat
    BY <1>1, <1>2, LoopTypesHere
  <2>2. hwlp_counter[k] > 1
    BY <2>1
  <2> QED BY <1>1, <2>2 DEF LoopRegs
<1>4. CASE Keeps(n)
  BY <1>3, <1>4 DEF Keeps, LoopRegs
<1>5. CASE \E s \in Setups : Writes(s, n)
  <2>1. PICK s \in Setups : Writes(s, n)
    BY <1>5
  <2>2. s.reg \in Loops
    BY SetupTypes
  <2>3. \A k \in Loops : k # s.reg =>
           hwlp_counter'[k] = n[k] /\ hwlp_end'[k] = hwlp_end[k] /\ hwlp_start'[k] = hwlp_start[k]
    BY <1>2, <2>1 DEF Writes
  <2>4. /\ hwlp_counter'[s.reg] = s.count /\ hwlp_end'[s.reg] = s.end
        /\ hwlp_start'[s.reg] = After(s.at)
    BY <1>2, <2>1, <2>2 DEF Writes
  <2> SUFFICES ASSUME NEW k \in Loops, hwlp_counter'[k] > 1
               PROVE  \E t \in Iterating :
                         t.reg = k /\ hwlp_end'[k] = t.end /\ hwlp_start'[k] = After(t.at)
    BY DEF LoopRegs
  <2>5. CASE k = s.reg
    BY <2>4, <2>5 DEF Iterating
  <2>6. CASE k # s.reg
    BY <1>3, <2>3, <2>6
  <2> QED BY <2>5, <2>6
<1> QED BY <1>4, <1>5 DEF Written, n

\* EndingAt(a) after the cycle.
EndingNext(a) == {k \in Loops : hwlp_end'[k] = a /\ Rounds'[k] > 1}

(* What ends at the PC of the IF stage, or at that of an instruction in    *)
(* ID, does not change before it moves on.                                 *)
LEMMA EndingStays ==
    ASSUME LoopsBehave, OrderInv, TypeOK', NEW clear \in BOOLEAN, Written(clear),
           NEW a \in {PcIf, id.pc},
           clear => ~(id'.valid /\ id'.hwlp) \/ EndingAt(a) = {},
           ~clear => id'.valid = id.valid /\ id'.hwlp = id.hwlp /\ id'.dec = id.dec
    PROVE  /\ EndingNext(a) = EndingAt(a)
           /\ \A k \in EndingAt(a) : hwlp_start'[k] = hwlp_start[k]
<1> DEFINE n == Counted(clear)
<1>1. LoopRegs'
  BY LoopRegsKept
<1>2. /\ Rounds \in [Loops -> 0..(Counts - 1)]
      /\ \A k \in Loops : Rounds[k] =
            IF id.valid /\ id.hwlp /\ k = id.dec THEN hwlp_counter[k] - 1 ELSE hwlp_counter[k]
  BY RoundsAre
<1>3. \A k \in Loops : Rounds'[k] =
         IF id'.valid /\ id'.hwlp /\ k = id'.dec THEN hwlp_counter'[k] - 1 ELSE hwlp_counter'[k]
  BY Zenon DEF Rounds
<1> HIDE DEF n
<1>4. CASE Keeps(n)
  <2>1. hwlp_end' = hwlp_end /\ hwlp_start' = hwlp_start /\ hwlp_counter' = n
    BY <1>4 DEF Keeps
  <2>2. CASE ~clear
    <3>1. hwlp_counter' = hwlp_counter
      BY <2>1, <2>2 DEF n, Counted
    <3>2. \A k \in Loops : Rounds'[k] = Rounds[k]
      BY <1>2, <1>3, <2>2, <3>1, Zenon
    <3> HIDE DEF Rounds
    <3> QED BY <2>1, <3>2 DEF EndingNext, EndingAt
  <2>3. CASE clear
    <3>1. hwlp_counter' = Rounds
      BY <2>1, <2>3 DEF n, Counted
    <3>2. CASE ~(id'.valid /\ id'.hwlp)
      <4>1. \A k \in Loops : Rounds'[k] = Rounds[k]
        BY <1>3, <3>1, <3>2, Zenon
      <4> HIDE DEF Rounds
      <4> QED BY <2>1, <4>1 DEF EndingNext, EndingAt
    <3>3. CASE EndingAt(a) = {}
      <4>1. \A k \in Loops : Rounds'[k] > 1 => Rounds[k] > 1
        <5> TAKE k \in Loops
        <5>1. Rounds[k] \in Nat
          BY <1>2, CountsAssumption
        <5>2. Rounds'[k] = Rounds[k] \/ Rounds'[k] = Rounds[k] - 1
          BY <1>3, <3>1, Zenon
        <5> HIDE DEF Rounds
        <5> QED BY <5>1, <5>2
      <4> HIDE DEF Rounds
      <4>2. EndingNext(a) \subseteq EndingAt(a)
        BY <2>1, <4>1 DEF EndingNext, EndingAt
      <4> QED BY <3>3, <4>2
    <3> QED BY <2>3, <3>2, <3>3
  <2> QED BY <2>2, <2>3
<1>5. CASE \E s \in Setups : Writes(s, n)
  <2>1. PICK s \in Setups : Writes(s, n)
    BY <1>5
  <2>2. EndingAt(a) = {} /\ (a = s.at \/ a = After(s.at))
    BY <2>1 DEF Writes
  <2>3. EndsAreApart'
    BY <1>1, ApartNext
  <2>4. ASSUME NEW k \in EndingNext(a) PROVE FALSE
    <3>1. \A k_1 \in EndingNext(a) : \A t \in Setups : a # t.at /\ a # After(t.at)
      BY <2>3 DEF EndsAreApart, EndingAt, EndingNext
    <3> QED BY <2>2, <2>4, <3>1
  <2> QED BY <2>2, <2>4
<1> QED BY <1>4, <1>5 DEF Written, n

(* The instruction in ID leaves: what follows is what was to follow it.    *)
LEMMA LeftFollows ==
    ASSUME LoopsBehave, OrderInv, TypeOK', Written(TRUE), at' = Left
    PROVE  /\ Ending' = NextEnding
           /\ Follow' = NextPc
<1> DEFINE n == Counted(TRUE)
<1>1. LoopRegs' /\ n = Rounds
  BY LoopRegsKept DEF Counted
<1>2. Rounds = IF id.valid /\ Ending # {}
               THEN [hwlp_counter EXCEPT ![Lowest(Ending)] = @ - 1] ELSE hwlp_counter
  BY RoundsAre
<1>3. EndsAreApart'
  BY <1>1, ApartNext
<1>a. NextEnding \in SUBSET Loops
  BY DEF NextEnding, Ending, EndingAt
<1> HIDE DEF n
<1>4. CASE ~id.valid
  <2>1. Keeps(n) /\ n = hwlp_counter
    BY <1>1, <1>2, <1>4 DEF Written, Writes, n
  <2>2. at' = at /\ NextEnding = Ending
    BY <1>4 DEF Left, NextEnding
  <2>3. Ending' = Ending
    BY <2>1, <2>2 DEF Ending, Keeps
  <2>4. Follow' = Follow
    BY <2>1, <2>2, <2>3 DEF Follow, Keeps, After
  <2>5. NextPc = Follow
    BY <1>4, <2>2 DEF NextPc, Follow
  <2> QED BY <2>2, <2>3, <2>4, <2>5
<1>5. CASE id.valid /\ id.to # Junk
  <2>1. at'.pc = id.to /\ at'.done = FALSE
    BY <1>5 DEF Left
  <2>2. NextEnding = {} /\ Ending' = {}
    BY <1>5, <2>1 DEF NextEnding, Ending
  <2> QED BY <1>5, <2>1, <2>2 DEF Follow, NextPc
<1>6. CASE id.valid /\ id.to = Junk
  <2>1. at'.pc = id.pc /\ at'.done = TRUE
    BY <1>6 DEF Left
  <2>2. NextEnding = EndingAt(id.pc)
    BY <1>6 DEF NextEnding
  <2>3. Ending' = {k \in Loops : hwlp_end'[k] = id.pc /\ hwlp_counter'[k] > 1}
    BY <2>1 DEF Ending
  <2>4. Ending' = NextEnding /\ \A k \in NextEnding : hwlp_start'[k] = hwlp_start[k]
    <3>1. CASE Keeps(n)
      BY <1>1, <2>2, <2>3, <3>1 DEF Keeps, EndingAt
    <3>2. CASE \E s \in Setups : Writes(s, n)
      <4>1. PICK s \in Setups : Writes(s, n)
        BY <3>2
      <4>2. s.at = id.pc /\ NextEnding = {} /\ s.reg \in Loops
        BY <2>2, <4>1, SetupTypes DEF Writes
      <4>3. ASSUME NEW k \in Ending' PROVE FALSE
        <5>1. k \in Loops /\ hwlp_end'[k] = s.at /\ hwlp_counter'[k] > 1
          BY <2>3, <4>2, <4>3
        <5>2. PICK t \in Iterating : hwlp_end'[k] = t.end
          BY <1>1, <5>1 DEF LoopRegs
        <5>3. s.at # t.end
          BY Zenon DEF LoopsBehave
        <5> QED BY <5>1, <5>2, <5>3
      <4> QED BY <4>2, <4>3
    <3> QED BY <3>1, <3>2 DEF Written, n
  <2>5. Follow' = NextPc
    <3>1. NextEnding # {} => Lowest(NextEnding) \in NextEnding
      BY <1>a, LowestIs
    <3>2. Follow' = IF Ending' # {} THEN hwlp_start'[Lowest(Ending')] ELSE After(id.pc)
      BY <2>1 DEF Follow, Lowest, After
    <3>3. NextPc = IF NextEnding # {} THEN hwlp_start[Lowest(NextEnding)] ELSE After(id.pc)
      BY <1>6 DEF NextPc
    <3> HIDE DEF NextEnding, NextPc, Follow
    <3> QED BY <2>4, <3>1, <3>2, <3>3
  <2> QED BY <2>4, <2>5
<1> QED BY <1>4, <1>5, <1>6

(* The instruction in ID stays there, and may set a loop.                  *)
LEMMA WaitFollows ==
    ASSUME LoopsBehave, OrderInv, NEW clear \in BOOLEAN, Written(clear), at' = at,
           ~(clear /\ id.valid)
    PROVE  /\ Ending' # {} <=> Ending # {}
           /\ Ending # {} => Lowest(Ending') = Lowest(Ending)
           /\ Follow' = Follow
           /\ ~id.valid => Ending' = Ending /\ hwlp_start' = hwlp_start
<1> DEFINE n == Counted(clear)
<1>1. n = hwlp_counter
  BY RoundsAre DEF Counted
<1>2. Ending \in SUBSET Loops
  BY DEF Ending
<1> HIDE DEF n
<1>3. CASE Keeps(n)
  <2>1. Ending' = Ending
    BY <1>1, <1>3 DEF Ending, Keeps
  <2>2. Follow' = Follow
    BY <1>3, <2>1 DEF Follow, Keeps, After
  <2> QED BY <1>3, <2>1, <2>2 DEF Keeps
<1>4. CASE \E s \in Setups : Writes(s, n)
  <2>1. PICK w \in Setups : Writes(w, n)
    BY <1>4
  <2>2. w.at = id.pc /\ id.valid /\ w.reg \in Loops
    BY <2>1, SetupTypes DEF Writes
  <2>3. id.pc = Follow
    BY <2>2 DEF OrderInv, InStep, IdInStep
  <2>4. /\ hwlp_start \in [Loops -> Addr] /\ hwlp_end \in [Loops -> Addr]
        /\ hwlp_counter \in [Loops -> 0..(Counts - 1)]
    BY DEF OrderInv, IInv, TypeOK
  <2>5. \A k \in Loops : k # w.reg =>
           /\ hwlp_counter'[k] = hwlp_counter[k] /\ hwlp_end'[k] = hwlp_end[k]
           /\ hwlp_start'[k] = hwlp_start[k]
    BY <1>1, <2>1, <2>4 DEF Writes
  <2>6. hwlp_counter'[w.reg] = w.count /\ hwlp_end'[w.reg] = w.end
    BY <1>1, <2>1, <2>2, <2>4 DEF Writes
  <2>7. \A k \in Loops : k # w.reg => (k \in Ending' <=> k \in Ending)
    BY <2>5 DEF Ending
  <2>8. CASE Ending = {}
    <3>1. w.reg \notin Ending'
      <4> SUFFICES ASSUME w.reg \in Ending' PROVE FALSE
        OBVIOUS
      <4>1. at.done /\ at.pc = w.end /\ w.count > 1
        BY <2>6 DEF Ending
      <4>2. w.at = After(w.end)
        BY <2>2, <2>3, <2>8, <4>1 DEF Follow
      <4>3. w \in Iterating
        BY <4>1 DEF Iterating
      <4>4. After(w.end) # w.at
        BY <4>3, Zenon DEF LoopsBehave
      <4> QED BY <4>2, <4>4
    <3>2. Ending' = {}
      <4>1. Ending' \in SUBSET Loops
        BY DEF Ending
      <4> QED BY <2>7, <2>8, <3>1, <4>1
    <3>3. Follow' = Follow
      BY <2>8, <3>2 DEF Follow, After
    <3> QED BY <2>2, <2>8, <3>2, <3>3
  <2>9. CASE Ending # {}
    <3> DEFINE l == Lowest(Ending)
    <3>1. l \in Ending /\ \A j \in Ending : l <= j
      BY <1>2, <2>9, LowestIs
    <3>2. Follow = hwlp_start[l]
      BY <2>9 DEF Follow
    <3> HIDE DEF l
    <3>3. l \in Loops /\ at.pc = hwlp_end[l] /\ hwlp_counter[l] > 1
      BY <3>1 DEF Ending
    <3>4. PICK s \in Iterating : s.reg = l /\ hwlp_end[l] = s.end /\ hwlp_start[l] = After(s.at)
      BY <3>3 DEF OrderInv, LoopRegs
    <3>5. w.at = After(s.at)
      BY <2>2, <2>3, <3>2, <3>4
    <3>6. w.reg # s.reg /\ w.end # s.end
      BY <3>5, Zenon DEF LoopsBehave
    <3>7. w.reg \notin Ending'
      BY <2>6, <3>3, <3>4, <3>6 DEF Ending
    <3>8. l \in Ending' /\ hwlp_start'[l] = hwlp_start[l]
      BY <2>5, <2>7, <3>1, <3>3, <3>4, <3>6
    <3>9. Ending' \subseteq Ending
      <4>1. Ending' \in SUBSET Loops
        BY DEF Ending
      <4> QED BY <2>7, <3>7, <4>1
    <3>10. Lowest(Ending') = l
      <4>1. 0 \in Ending' <=> 0 \in Ending
        <5>1. 0 \in Ending => l = 0
          BY DEF l, Lowest
        <5> QED BY <3>8, <3>9, <5>1
      <4> QED BY <4>1 DEF Lowest, l
    <3>11. Follow' = hwlp_start'[l]
      BY <3>8, <3>10 DEF Follow, Lowest
    <3> QED BY <2>2, <2>9, <3>2, <3>8, <3>10, <3>11 DEF l
  <2> QED BY <2>8, <2>9
<1> QED BY <1>3, <1>4 DEF Written, n

-----------------------------------------------------------------------------
(* A cycle of the fetch path, for the prefetch buffer and the ID stage.    *)

LEMMA SameWires ==
    ASSUME CS \in FetchStates, NEW i, NEW j,
           i.req = j.req, i.branch = j.branch, i.target = j.target,
           i.hwloop = j.hwloop, i.hwtarget = j.hwtarget, i.rvalid = j.rvalid, i.rdata = j.rdata
    PROVE  /\ In(i) = In(j)
           /\ InstrReq(i) <=> InstrReq(j)
           /\ InstrAddr(i) = InstrAddr(j)
<1>1. In(i) = In(j)
  BY DEF In
<1>2. (Masked(i) <=> Masked(j)) /\ (Redirected(i) <=> Redirected(j))
  BY <1>1, Zenon DEF Masked, Redirected
<1>3. MaskedStored(i) <=> MaskedStored(j)
  BY <1>1, <1>2, Zenon DEF MaskedStored
<1>4. Wants(i) <=> Wants(j)
  <2>1. (CS = "IDLE") \/ (CS = "WAIT_RVALID") \/ (CS \notin {"IDLE", "WAIT_RVALID"})
    OBVIOUS
  <2> QED BY <1>2, <1>3 DEF Wants
<1>5. InstrReq(i) <=> InstrReq(j)
  BY <1>4 DEF InstrReq, FetchStates
<1>6. BranchAddr(i) = BranchAddr(j)
  BY DEF BranchAddr
<1>7. InstrAddr(i) = InstrAddr(j)
  BY <1>2, <1>3, <1>6 DEF InstrAddr
<1> QED BY <1>1, <1>5, <1>7

(* What the cycle gives the prefetch buffer and the ID stage.              *)
LEMMA EdgeInputs ==
    ASSUME IInv, NEW c \in Controls, c.take => c.req, NEW setup,
           NEW gnt \in BOOLEAN, NEW rvalid \in BOOLEAN, Edge(c, setup, gnt, rvalid)
    PROVE  \E i \in Inputs :
             /\ Driven(i) /\ PrefetchCycle(i)
             /\ i.req = c.req /\ i.branch = c.branch /\ i.target = c.target
             /\ i.hwloop <=> Ends
             /\ Ends => i.hwtarget = Goal
             /\ i.ready => c.take /\ ~c.branch
             /\ id' = NextId(c, i)
             /\ dec_if' = IF Ends THEN Lowest(EndingAt(PcIf)) ELSE dec_if
<1> DEFINE a == Asked(c, rvalid)
           i == Answered(c, a, gnt)
           refused == InstrReq(a) /\ WordOf(InstrAddr(a)) \in Denied
           taken == Takes(c, a)
<1>1. a \in Inputs /\ i \in Inputs /\ i.gnt = gnt /\ i.rvalid = rvalid
  <2>1. a \in Inputs /\ a.rvalid = rvalid
    BY AskedType DEF IInv
  <2> QED BY <2>1, AnsweredType
<1>2. /\ rvalid => owed # Junk
      /\ gnt => InstrReq(i) /\ ~i.err
      /\ PrefetchCycle(i)
      /\ id' = NextId(c, i)
      /\ dec_if' = IF i.hwloop THEN DecCnt(PcIf, DecInId) ELSE dec_if
      /\ owed' = IF gnt THEN WordOf(InstrAddr(i)) ELSE IF rvalid THEN Junk ELSE owed
  BY Zenon DEF Edge
<1>3. /\ a.req = c.req /\ a.branch = c.branch /\ a.target = c.target
      /\ a.rvalid = rvalid /\ a.rdata = Stored
      /\ a.hwloop = HwloopJump(PcIf, DecInId) /\ a.hwtarget = HwloopTarget(PcIf, DecInId)
  <2> DEFINE jump == HwloopJump(PcIf, DecInId)
             target == HwloopTarget(PcIf, DecInId)
  <2>1. a = [req |-> c.req, branch |-> c.branch, target |-> c.target, hwloop |-> jump,
             hwtarget |-> target, gnt |-> FALSE, rvalid |-> rvalid, rdata |-> Stored,
             err |-> FALSE, ready |-> FALSE]
    BY Zenon DEF Asked
  <2> HIDE DEF jump, target, a
  <2>2. a.hwloop = jump /\ a.hwtarget = target
    BY <2>1
  <2>3. /\ a.req = c.req /\ a.branch = c.branch /\ a.target = c.target
        /\ a.rvalid = rvalid /\ a.rdata = Stored
    BY <2>1
  <2> QED BY <2>2, <2>3, Zenon DEF jump, target
<1>4. /\ i.req = a.req /\ i.branch = a.branch /\ i.target = a.target /\ i.hwloop = a.hwloop
      /\ i.hwtarget = a.hwtarget /\ i.rdata = a.rdata /\ i.err = refused /\ i.ready = taken
  <2>1. i = [a EXCEPT !.gnt = gnt, !.err = refused, !.ready = taken]
    BY Zenon DEF Answered
  <2> HIDE DEF a, i, refused, taken
  <2> QED BY <1>1, <2>1 DEF Inputs
<1>5. In(i) = In(a) /\ (InstrReq(i) <=> InstrReq(a)) /\ InstrAddr(i) = InstrAddr(a)
  <2>1. i.rvalid = a.rvalid
    BY <1>1, <1>3
  <2>2. CS \in FetchStates
    BY DEF IInv, TypeOK, PrefetchTypeOK
  <2> HIDE DEF a, i, refused, taken
  <2> QED BY <1>4, <2>1, <2>2, SameWires
<1>6. i.ready => c.take /\ ~c.branch /\ OutValid(In(i))
  <2>1. taken => c.take /\ ~c.branch /\ OutValid(In(a))
    BY Zenon DEF Takes
  <2> HIDE DEF a, i, taken
  <2> QED BY <1>4, <1>5, <2>1
<1>7. i.err => WordOf(InstrAddr(i)) \in Denied
  <2>1. refused => WordOf(InstrAddr(a)) \in Denied
    OBVIOUS
  <2> HIDE DEF a, i, refused
  <2> QED BY <1>4, <1>5, <2>1
<1> HIDE DEF a, i, refused, taken
<1>8. Driven(i)
  <2>1. i.rdata = Stored /\ (i.ready => i.req)
    BY <1>3, <1>4, <1>6
  <2> QED BY <1>1, <1>2, <1>6, <1>7, <2>1 DEF Driven
<1>9. (i.hwloop <=> Ends) /\ (Ends => i.hwtarget = Goal)
  <2>1. /\ HwloopJump(PcIf, DecInId) <=> Ends
        /\ Ends => HwloopTarget(PcIf, DecInId) = Goal
    BY JumpIs DEF IInv
  <2> QED BY <1>3, <1>4, <2>1, Zenon
<1>10. dec_if' = IF Ends THEN Lowest(EndingAt(PcIf)) ELSE dec_if
  <2>1. Ends => DecCnt(PcIf, DecInId) = Lowest(EndingAt(PcIf))
    BY JumpIs DEF IInv
  <2> QED BY <1>2, <1>9, <2>1, Zenon
<1> QED BY <1>1, <1>2, <1>3, <1>4, <1>6, <1>8, <1>9, <1>10

(* The end of a loop is aligned, and it is not hidden by a fault behind it.*)
LEMMA LoopSideHolds ==
    ASSUME LoopsBehave, IInv, LoopRegs, Phase, Jumps, Contents, Requested,
           NEW i \in Inputs, i.hwloop <=> Ends, Ends => i.hwtarget = Goal
    PROVE  LoopSide(i)
<1>1. TypeOK /\ PrefetchTypeOK /\ TargetIsStored
  BY DEF IInv, TypeOK
<1>2. Ends => ~Odd(PcIf) /\ ~Flagged /\ \E s \in Iterating : PcIf = s.end
  BY <1>1, EndsFacts
<1>3. Ends /\ CS = "WAIT_JUMP" /\ ~Held => rdata_Q = <<>>
  <2> SUFFICES ASSUME Ends, CS = "WAIT_JUMP", ~Held, rdata_Q # <<>> PROVE FALSE
    OBVIOUS
  <2>1. Run = rdata_Q /\ RunAddr = PcIf
    BY <1>1, FreeFacts
  <2>2. PICK s \in Iterating : PcIf = s.end
    BY <1>2
  <2> DEFINE e == s.end
  <2>3. e \in Addr /\ ~Odd(e)
    <3>1. s \in Setups
      BY DEF Iterating
    <3> QED BY <1>2, <2>2, <3>1, SetupTypes
  <2>4. WordOf(e) = e
    BY <2>3 DEF WordOf, Odd, Addr
  <2>5. /\ instr_addr_q = NextWord(LastOf(rdata_Q)[1]) /\ Len(rdata_Q) <= 3
        /\ WordOf(instr_addr_q) \in Denied
    BY <2>1 DEF Requested
  <2>6. rdata_Q[1][1] = e /\ Ordered(rdata_Q) /\ rdata_Q \in Seq(Pair)
    BY <1>1, <2>1, <2>2, <2>4 DEF Contents, PrefetchTypeOK, FifoTypeOK
  <2> HIDE DEF e
  <2>7. /\ Len(rdata_Q) > 1 => rdata_Q[2][1] = NextWord(e)
        /\ Len(rdata_Q) > 2 => rdata_Q[3][1] = NextWord(NextWord(e))
    <3>1. Len(rdata_Q) > 1 => rdata_Q[2][1] = NextWord(rdata_Q[1][1])
      <4>1. Len(rdata_Q) > 1 => 1 \in 1..(Len(rdata_Q) - 1) /\ 1 + 1 = 2
        BY <2>6
      <4> QED BY <2>6, <4>1 DEF Ordered
    <3>2. Len(rdata_Q) > 2 => rdata_Q[3][1] = NextWord(rdata_Q[2][1])
      <4>1. Len(rdata_Q) > 2 => 2 \in 1..(Len(rdata_Q) - 1) /\ 2 + 1 = 3
        BY <2>6
      <4> QED BY <2>6, <4>1 DEF Ordered
    <3>3. Len(rdata_Q) \in Nat
      BY <2>6
    <3> QED BY <2>6, <3>1, <3>2, <3>3
  <2>8. Len(rdata_Q) = 1 \/ Len(rdata_Q) = 2 \/ Len(rdata_Q) = 3
    <3>1. Len(rdata_Q) \in Nat
      BY <2>6
    <3>2. Len(rdata_Q) # 0
      BY <2>6
    <3>3. Len(rdata_Q) <= 3
      BY <2>5
    <3>4. \A n \in Nat : n # 0 /\ n <= 3 => n = 1 \/ n = 2 \/ n = 3
      OBVIOUS
    <3> QED BY <3>1, <3>2, <3>3, <3>4, Zenon
  <2>9. instr_addr_q \in {NextWord(e), NextWord(NextWord(e)), NextWord(NextWord(NextWord(e)))}
    <3>1. CASE Len(rdata_Q) = 1
      BY <2>5, <2>6, <3>1 DEF LastOf
    <3>2. CASE Len(rdata_Q) = 2
      BY <2>5, <2>7, <3>2 DEF LastOf
    <3>3. CASE Len(rdata_Q) = 3
      BY <2>5, <2>7, <3>3 DEF LastOf
    <3> QED BY <2>8, <3>1, <3>2, <3>3
  <2>10. WordOf(instr_addr_q) = instr_addr_q
    BY <2>3, <2>9, WordFacts
  <2>11. instr_addr_q \in Behind(s)
    BY <2>9 DEF Behind, e
  <2>12. (Behind(s) \cup First(s)) \cap Denied = {}
    BY Zenon DEF LoopsBehave
  <2> QED BY <2>5, <2>10, <2>11, <2>12
<1> QED BY <1>2, <1>3 DEF LoopSide, Jumps

(* The instruction in ID after a cycle.                                    *)
TakesNext ==
    /\ id'.valid /\ id'.pc = PcIf /\ id'.to = Junk /\ ~id'.failed /\ WordInId'
    /\ id'.hwlp <=> Flagged
    /\ Flagged => id'.dec = dec_if
Empties   == ~id'.valid /\ id'.to = Junk /\ ~id'.hwlp /\ (id'.failed => Stuck')
KeepsInId(c) ==
    /\ id'.valid = id.valid /\ id'.pc = id.pc /\ id'.word = id.word /\ id'.failed = id.failed
    /\ id'.hwlp = id.hwlp /\ id'.dec = id.dec
    /\ id'.to = IF c.mark # Junk THEN c.mark ELSE id.to

LEMMA NextIdIs ==
    ASSUME IInv, NEW c \in Controls, NEW i \in Inputs, id' = NextId(c, i)
    PROVE  /\ i.ready => /\ id'.valid /\ id'.pc = OutAddr(In(i)) /\ id'.word = OutRdata(In(i))
                         /\ id'.hwlp = OutIsHwlp(In(i)) /\ id'.to = Junk /\ ~id'.failed
                         /\ OutIsHwlp(In(i)) => id'.dec = dec_if
           /\ ~i.ready /\ c.clear => /\ ~id'.valid /\ id'.to = Junk /\ id'.failed = FetchFailed(i)
                                     /\ ~id'.hwlp
           /\ ~i.ready /\ ~c.clear => KeepsInId(c)
<1>1. id \in IdType /\ id' \in IdType
  <2>1. id \in IdType /\ TypeOK
    BY DEF IInv, TypeOK, IdType
  <2> QED BY <2>1, NextIdType
<1> DEFINE pc == OutAddr(In(i))
           word == OutRdata(In(i))
           hwlp == OutIsHwlp(In(i))
           failed == FetchFailed(i)
           dec == IF hwlp THEN dec_if ELSE NoLoop
<1>2. CASE i.ready
  <2>1. NextId(c, i) = [valid |-> TRUE, pc |-> pc, word |-> word, hwlp |-> hwlp,
                        dec |-> dec, failed |-> FALSE, to |-> Junk]
    BY <1>2, Zenon DEF NextId
  <2>2. hwlp => dec = dec_if
    OBVIOUS
  <2> HIDE DEF pc, word, hwlp, dec
  <2>3. /\ id'.valid /\ id'.pc = pc /\ id'.word = word /\ id'.hwlp = hwlp
        /\ id'.to = Junk /\ ~id'.failed
        /\ id'.dec = dec
    BY <2>1
  <2>4. hwlp => id'.dec = dec_if
    BY <2>2, <2>3
  <2> QED BY <1>2, <2>3, <2>4 DEF pc, word, hwlp
<1>3. CASE ~i.ready /\ c.clear
  <2>1. NextId(c, i) = [EmptyId EXCEPT !.pc = id.pc, !.failed = failed]
    BY <1>3, Zenon DEF NextId
  <2> HIDE DEF failed
  <2>2. EmptyId \in IdType /\ ~EmptyId.valid /\ EmptyId.to = Junk /\ ~EmptyId.hwlp
    <3>1. 0 \in Addr /\ Junk \in Half /\ NoLoop \in 0..N_HWLP
      BY FetchAssumption DEF Addr, Half, Junk, NoLoop, N_HWLP
    <3> QED BY <3>1, NothingIsPair DEF EmptyId, IdType
  <2>3. ~id'.valid /\ id'.to = Junk /\ id'.failed = failed /\ ~id'.hwlp
    BY <2>1, <2>2 DEF IdType
  <2> QED BY <1>3, <2>3 DEF failed
<1>4. CASE ~i.ready /\ ~c.clear
  <2>1. NextId(c, i) = [id EXCEPT !.to = IF c.mark # Junk THEN c.mark ELSE @]
    BY <1>4, Zenon DEF NextId
  <2>2. KeepsInId(c)
    BY <1>1, <2>1 DEF IdType, KeepsInId
  <2> QED BY <1>4, <2>2
<1> QED BY <1>2, <1>3, <1>4

-----------------------------------------------------------------------------
(* The cycles of the controls the controller uses.                         *)

(* What every cycle does to the loop registers.                            *)
LEMMA ClockWrites ==
    ASSUME LoopsBehave, OrderInv, NEW c \in Controls, NEW setup \in BOOLEAN, setup => ctl = "RUN",
           Clock(c, setup)
    PROVE  Written(c.clear) /\ c.clear \in BOOLEAN /\ LoopRegs'
<1>1. c.clear \in BOOLEAN
  BY DEF Controls
<1>2. Written(c.clear)
  BY LoopsWritten DEF Written
<1> QED BY <1>1, <1>2, LoopRegsKept

(* A cycle in which the PC is set: what was fetched is gone.               *)
LEMMA BranchCycle ==
    ASSUME LoopsBehave, OrderInv, NEW c \in Controls, c.branch, c.req, NEW setup \in BOOLEAN,
           Clock(c, setup)
    PROVE  /\ Phase' /\ Jumps' /\ Contents' /\ Requested' /\ PcIf' = c.target /\ ~Flagged'
           /\ c.clear => Empties /\ ~id'.failed
           /\ ~c.clear => KeepsInId(c)
<1>1. PICK gnt \in BOOLEAN, rvalid \in BOOLEAN : Edge(c, setup, gnt, rvalid)
  BY Zenon DEF Clock
<1>2. IInv /\ Phase /\ PrefetchTypeOK
  BY DEF OrderInv, IInv, TypeOK
<1>3. PICK i \in Inputs :
        /\ Driven(i) /\ PrefetchCycle(i)
        /\ i.req = c.req /\ i.branch = c.branch /\ i.target = c.target
        /\ i.hwloop <=> Ends
        /\ Ends => i.hwtarget = Goal
        /\ i.ready => c.take /\ ~c.branch
        /\ id' = NextId(c, i)
        /\ dec_if' = IF Ends THEN Lowest(EndingAt(PcIf)) ELSE dec_if
  BY <1>1, <1>2, EdgeInputs
<1>4. /\ JumpRequests(i, c.target)
      /\ rdata_Q' = <<>> /\ ~is_hwlp_Q'[0] /\ ~is_hwlp_Q'[1] /\ hwlp_CS' = "NONE"
  BY <1>2, <1>3, BranchRequests
<1>5. Phase' /\ ~Flagged' /\ ~Held' /\ Run' = <<>>
  BY <1>4 DEF Phase, Flagged, Held, Run
<1>6. Jumps'
  BY <1>4, <1>5 DEF Jumps
<1>7. Requested'
  BY <1>3, <1>4, <1>5, JumpKept
<1>8. Contents'
  BY <1>5 DEF Contents, Ordered
<1>9. PcIf' = c.target
  BY <1>4, NextPcIf DEF JumpRequests
<1>10. ~i.ready /\ FetchFailed(i) = FALSE
  BY <1>3 DEF FetchFailed
<1>11. /\ c.clear => Empties /\ ~id'.failed
       /\ ~c.clear => KeepsInId(c)
  BY <1>2, <1>3, <1>10, NextIdIs DEF Empties
<1> QED BY <1>5, <1>6, <1>7, <1>8, <1>9, <1>11

(* Any other cycle: the PC of the IF stage moves with an instruction into  *)
(* ID, whose word is the memory there, or stays.                           *)
LEMMA FlowCycle ==
    ASSUME LoopsBehave, OrderInv, IInv', Requested, NEW c \in Controls, ~c.branch,
           c.take => c.req /\ c.clear,
           NEW setup \in BOOLEAN, setup => ctl = "RUN", Clock(c, setup)
    PROVE  /\ Phase' /\ Jumps' /\ Contents' /\ Requested'
           /\ dec_if' = IF Ends THEN Lowest(EndingAt(PcIf)) ELSE dec_if
           /\ \/ /\ c.take /\ TakesNext /\ (Flagged' <=> Ends)
                 /\ PcIf' = IF Ends THEN Goal ELSE After(PcIf)
              \/ /\ c.clear /\ Empties /\ (Flagged' <=> Flagged) /\ PcIf' = PcIf
              \/ /\ ~c.clear /\ KeepsInId(c) /\ (Flagged' <=> Flagged) /\ PcIf' = PcIf
<1>1. PICK gnt \in BOOLEAN, rvalid \in BOOLEAN : Edge(c, setup, gnt, rvalid)
  BY Zenon DEF Clock
<1>2. /\ IInv /\ LoopRegs /\ Phase /\ Jumps /\ Contents
      /\ TypeOK /\ PrefetchTypeOK /\ TargetIsStored /\ RoomForRequest /\ OneFetchOwed
      /\ TypeOK' /\ PrefetchTypeOK' /\ TargetIsStored'
  BY DEF OrderInv, IInv, TypeOK
<1>3. PICK i \in Inputs :
        /\ Driven(i) /\ PrefetchCycle(i)
        /\ i.req = c.req /\ i.branch = c.branch /\ i.target = c.target
        /\ i.hwloop <=> Ends
        /\ Ends => i.hwtarget = Goal
        /\ i.ready => c.take /\ ~c.branch
        /\ id' = NextId(c, i)
        /\ dec_if' = IF Ends THEN Lowest(EndingAt(PcIf)) ELSE dec_if
  BY <1>1, <1>2, EdgeInputs
<1>4. LoopSide(i)
  BY <1>2, <1>3, LoopSideHolds
<1>5. Flowing(i)
  BY <1>2, <1>3, <1>4 DEF Flowing
<1>6. FlowsOn(i)
  BY <1>5, Flow
<1>7. /\ Phase' /\ Contents' /\ Requested'
      /\ PcIf' = IF i.ready THEN IF Ends THEN Goal ELSE After(PcIf) ELSE PcIf
      /\ Flagged' <=> IF i.ready THEN Ends ELSE Flagged
      /\ hwlp_CS' = "IN" \/ Held' => Ends /\ ~i.ready
      /\ Held' => RunAddr' = Goal
  BY <1>3, <1>6 DEF FlowsOn
<1>8. Ends => ~Odd(PcIf) /\ ~Flagged /\ Goal \in Starts
  BY <1>2, EndsFacts
<1>9. Written(c.clear) /\ c.clear \in BOOLEAN
  BY ClockWrites
<1>10. /\ i.ready => /\ id'.valid /\ id'.pc = OutAddr(In(i)) /\ id'.word = OutRdata(In(i))
                     /\ id'.hwlp = OutIsHwlp(In(i)) /\ id'.to = Junk /\ ~id'.failed
                     /\ OutIsHwlp(In(i)) => id'.dec = dec_if
       /\ ~i.ready /\ c.clear => /\ ~id'.valid /\ id'.to = Junk /\ id'.failed = FetchFailed(i)
                                 /\ ~id'.hwlp
       /\ ~i.ready /\ ~c.clear => KeepsInId(c)
  BY <1>2, <1>3, NextIdIs
<1>11. CASE i.ready
  <2>1. Jumps'
    BY <1>7, <1>8, <1>11 DEF Jumps, Starts
  <2>2. OutAddr(In(i)) = PcIf /\ (OutIsHwlp(In(i)) <=> Flagged)
    BY <1>2, InputWires
  <2>3. /\ OutRdata(In(i))[1] = PcIf
        /\ PcIf \notin Compressed => OutRdata(In(i))[2] = (PcIf + 1) % Halves
    BY <1>5, <1>11, TakenIsMemory
  <2>4. id'.hwlp <=> Flagged
    BY <1>10, <1>11, <2>2, Zenon
  <2>5. WordInId'
    BY <1>10, <1>11, <2>2, <2>3 DEF WordInId
  <2>6. TakesNext
    BY <1>10, <1>11, <2>2, <2>4, <2>5 DEF TakesNext
  <2> QED BY <1>3, <1>7, <1>11, <2>1, <2>6
<1>12. CASE ~i.ready
  <2>1. c.clear => Empties
    <3>1. FetchFailed(i) => Stuck'
      BY <1>5, FaultIsStuck
    <3> QED BY <1>10, <1>12, <3>1 DEF Empties
  <2>2. ~c.clear => KeepsInId(c)
    BY <1>10, <1>12
  <2>3. Jumps'
    <3>1. /\ EndingNext(PcIf) = EndingAt(PcIf)
          /\ \A k \in EndingAt(PcIf) : hwlp_start'[k] = hwlp_start[k]
      BY <1>2, <1>9, <2>1, <2>2, EndingStays DEF Empties, KeepsInId
    <3>2. EndingAt(PcIf)' = EndingAt(PcIf)
      BY <1>7, <1>12, <3>1 DEF EndingNext, EndingAt
    <3>3. Ends' <=> Ends
      BY <3>2 DEF Ends
    <3>4. Ends => Goal' = Goal
      <4>1. EndingAt(PcIf) \in SUBSET Loops
        BY DEF EndingAt
      <4>2. Ends => Lowest(EndingAt(PcIf)) \in EndingAt(PcIf)
        BY <4>1, LowestIs DEF Ends
      <4>3. Goal' = hwlp_start'[Lowest(EndingAt(PcIf))]
        BY <3>2 DEF Goal, Lowest
      <4> HIDE DEF EndingAt, Lowest
      <4> QED BY <3>1, <4>2, <4>3 DEF Goal
    <3>5. Starts' = Starts
      BY DEF Starts, Iterating, After
    <3>6. PcIf' = PcIf /\ (Flagged' <=> Flagged)
      BY <1>7, <1>12
    <3> QED BY <1>2, <1>7, <1>12, <3>3, <3>4, <3>5, <3>6 DEF Jumps
  <2>4. PcIf' = PcIf /\ (Flagged' <=> Flagged)
    BY <1>7, <1>12
  <2> QED BY <1>3, <1>7, <2>1, <2>2, <2>3, <2>4
<1> QED BY <1>11, <1>12

(* While the core is in reset nothing is asked for.                        *)
LEMMA HoldCycle ==
    ASSUME LoopsBehave, OrderInv, ctl = "RESET", NEW c \in Controls,
           ~c.req, ~c.branch, ~c.take, ~c.clear, c.mark = Junk, Clock(c, FALSE)
    PROVE  /\ Phase' /\ Jumps' /\ Contents' /\ NothingAsked' /\ KeepsInId(c)
           /\ hwlp_counter' = hwlp_counter
<1>1. PICK gnt \in BOOLEAN, rvalid \in BOOLEAN : Edge(c, FALSE, gnt, rvalid)
  BY Zenon DEF Clock
<1>2. IInv /\ Quiet /\ Phase /\ TypeOK /\ PrefetchTypeOK
  BY DEF OrderInv, InStep, IInv, TypeOK
<1>3. PICK i \in Inputs :
        /\ Driven(i) /\ PrefetchCycle(i)
        /\ i.req = c.req /\ i.branch = c.branch /\ i.target = c.target
        /\ i.hwloop <=> Ends
        /\ i.ready => c.take /\ ~c.branch
        /\ id' = NextId(c, i)
  BY <1>1, <1>2, EdgeInputs
<1>4. ~i.hwloop
  <2>1. \A k \in Loops : ~(Rounds[k] > 1)
    <3> TAKE k \in Loops
    <3>1. hwlp_counter[k] = 0 /\ Rounds[k] = hwlp_counter[k]
      BY <1>2, RoundsAre DEF Quiet
    <3> QED BY <3>1
  <2> QED BY <1>3, <2>1 DEF Ends, EndingAt
<1>5. /\ CS = "IDLE" /\ rdata_Q = <<>> /\ ~i.ready /\ ~i.branch /\ ~i.req
      /\ hwlp_CS = "NONE" /\ ~is_hwlp_Q[0] /\ ~is_hwlp_Q[1]
  BY <1>2, <1>3 DEF Quiet, NothingAsked, Phase
<1>6. ~FifoValid(i.rvalid) /\ ~AsksNext(i)
  BY <1>5 DEF FifoValid, AsksNext
<1>7. CS' = "IDLE"
  <2>1. PlainRequests(i)
    BY <1>2, <1>3, <1>4, <1>5, UnmaskedRequests
  <2> QED BY <1>5, <1>6, <2>1 DEF PlainRequests
<1>8. FifoClear(i) = FALSE
  BY <1>5 DEF FifoClear, HwlpBranch
<1>9. In(i) \in FifoInputs /\ ~In(i).valid
  BY <1>2, <1>6, InputWires
<1>10. FifoCycle(In(i), FALSE, FALSE)
  <2>1. i.ready = FALSE
    BY <1>5 DEF Inputs
  <2> QED BY <1>3, <1>8, <2>1 DEF PrefetchCycle
<1>11. rdata_Q' = <<>> /\ ~is_hwlp_Q'[0] /\ ~is_hwlp_Q'[1]
  BY <1>2, <1>5, <1>9, <1>10, NothingArrives DEF PrefetchTypeOK
<1>12. hwlp_CS' = "NONE"
  BY <1>3, <1>4, <1>5 DEF PrefetchCycle, NextHwlp
<1>13. Phase' /\ ~Flagged' /\ ~Held' /\ Run' = <<>>
  BY <1>11, <1>12 DEF Phase, Flagged, Held, Run
<1>14. Jumps'
  BY <1>12, <1>13 DEF Jumps
<1>15. Contents'
  BY <1>13 DEF Contents, Ordered
<1>16. KeepsInId(c)
  BY <1>2, <1>3, <1>5, NextIdIs
<1>17. hwlp_counter' = hwlp_counter
  <2>1. Keeps(Counted(c.clear))
    BY LoopsWritten
  <2> QED BY <2>1 DEF Keeps, Counted
<1> QED BY <1>7, <1>11, <1>12, <1>13, <1>14, <1>15, <1>16, <1>17 DEF NothingAsked

-----------------------------------------------------------------------------
(* The steps of the controller.                                            *)

LEMMA InitOrder == Init => OrderInv
<1> SUFFICES ASSUME Init PROVE OrderInv
  OBVIOUS
<1>1. IInv
  BY InitInv
<1>2. rdata_Q = <<>> /\ CS = "IDLE" /\ hwlp_CS = "NONE" /\ ~is_hwlp_Q[0] /\ ~is_hwlp_Q[1]
  BY DEF Init, PrefetchInit, FifoInit
<1>3. Phase /\ ~Flagged /\ ~Held /\ Run = <<>>
  BY <1>2 DEF Phase, Flagged, Held, Run
<1>4. Contents
  BY <1>3 DEF Contents, Ordered
<1>5. Jumps
  BY <1>2, <1>3 DEF Jumps
<1>6. \A k \in Loops : hwlp_counter[k] = 0
  BY DEF Init, HwloopInit
<1>7. LoopRegs
  BY <1>6 DEF LoopRegs
<1>8. ~id.hwlp /\ ~id.valid /\ ~id.failed /\ id.to = Junk /\ ctl = "RESET"
  BY DEF Init, EmptyId
<1>9. ~at.done
  BY DEF Init
<1>10. Quiet
  BY <1>2, <1>6, <1>8, <1>9 DEF Quiet, NothingAsked
<1>11. IdInStep
  BY <1>8 DEF IdInStep
<1>12. InStep
  BY <1>8, <1>9, <1>10, <1>11 DEF InStep
<1> QED BY <1>1, <1>3, <1>4, <1>5, <1>7, <1>12 DEF OrderInv

LEMMA ControlFields ==
    /\ LET c == [Plain EXCEPT !.req = FALSE]
       IN  ~c.req /\ ~c.branch /\ ~c.take /\ ~c.clear /\ c.mark = Junk
    /\ LET c == [Plain EXCEPT !.clear = TRUE]
       IN  c.req /\ ~c.branch /\ ~c.take /\ c.clear = TRUE
    /\ LET c == [Plain EXCEPT !.req = FALSE, !.clear = TRUE]
       IN  ~c.req /\ ~c.branch /\ ~c.take /\ c.clear = TRUE
    /\ \A a : LET c == [Plain EXCEPT !.branch = TRUE, !.target = a, !.clear = TRUE]
              IN  c.req /\ c.branch /\ c.target = a /\ ~c.take /\ c.clear = TRUE
BY DEF Plain

LEMMA EmptyFollows == ~id.valid => NextEnding = Ending /\ NextPc = Follow
BY DEF NextEnding, NextPc, Follow

LEMMA EmptyFollowsNext == ~id'.valid => NextEnding' = Ending' /\ NextPc' = Follow'
<1>1. (~id.valid => NextEnding = Ending /\ NextPc = Follow)'
  BY EmptyFollows, PTL
<1> QED BY <1>1

\* The instruction in ID leaves and none is taken.
LEMMA EmptiedSync ==
    ASSUME LoopsBehave, OrderInv, IInv', Written(TRUE), at' = Left, Synchronous, Empties,
           PcIf' = PcIf, Flagged' <=> Flagged,
           dec_if' = IF Ends THEN Lowest(EndingAt(PcIf)) ELSE dec_if
    PROVE  Synchronous'
<1>1. Ending' = NextEnding /\ Follow' = NextPc
  BY LeftFollows DEF IInv
<1>2. NextEnding' = Ending' /\ NextPc' = Follow'
  BY EmptyFollowsNext DEF Empties
<1>3. Flagged => dec_if' = dec_if
  BY EndsFacts DEF OrderInv, IInv
<1>4. Lowest(NextEnding') = Lowest(NextEnding)
  BY <1>1, <1>2
<1>5. Lowest(NextEnding)' = Lowest(NextEnding')
  BY DEF Lowest
<1> HIDE DEF NextEnding, NextPc, Ending, Follow, Lowest
<1> QED BY <1>1, <1>2, <1>3, <1>4, <1>5 DEF Synchronous

\* The instruction in ID leaves and the next one is taken.
LEMMA TakenSync ==
    ASSUME LoopsBehave, OrderInv, IInv', Written(TRUE), at' = Left, Synchronous, TakesNext,
           Flagged' <=> Ends, PcIf' = IF Ends THEN Goal ELSE After(PcIf),
           dec_if' = IF Ends THEN Lowest(EndingAt(PcIf)) ELSE dec_if, ctl' = "RUN"
    PROVE  Synchronous' /\ IdInStep'
<1> DEFINE ks == EndingAt(PcIf)
<1>1. Ending' = NextEnding /\ Follow' = NextPc
  BY LeftFollows DEF IInv
<1>2. Ends => ~Flagged
  BY EndsFacts DEF OrderInv, IInv
<1>3. /\ EndingNext(PcIf) = ks
      /\ \A k \in ks : hwlp_start'[k] = hwlp_start[k]
  <2>1. ~(id'.valid /\ id'.hwlp) \/ EndingAt(PcIf) = {}
    BY <1>2 DEF TakesNext, Ends
  <2> QED BY <2>1, EndingStays DEF IInv
<1>4. NextEnding' = ks
  <2>1. EndingAt(id.pc)' = EndingNext(PcIf)
    BY DEF EndingAt, EndingNext, TakesNext
  <2> QED BY <1>3, <2>1 DEF NextEnding, TakesNext
<1>5. ks \in SUBSET Loops
  BY DEF EndingAt
<1>6. ks # {} => Lowest(ks) \in ks
  BY <1>5, LowestIs
<1>7. Lowest(NextEnding)' = Lowest(ks)
  BY <1>4 DEF Lowest
<1>8. NextPc' = IF ks # {} THEN hwlp_start'[Lowest(ks)] ELSE After(PcIf)
  BY <1>4, <1>7 DEF NextPc, TakesNext, After, Lowest
<1>9. Ends <=> ks # {}
  BY DEF Ends
<1>10. Ends => Goal = hwlp_start[Lowest(ks)]
  BY DEF Goal
<1> HIDE DEF ks
<1>11. PcIf' = NextPc'
  BY <1>3, <1>6, <1>8, <1>9, <1>10
<1>12. Synchronous'
  <2>1. dec_if' = IF Ends THEN Lowest(ks) ELSE dec_if
    BY DEF ks
  <2> HIDE DEF NextEnding, NextPc, Ending, Follow, Lowest, Ends
  <2> QED BY <1>4, <1>7, <1>9, <1>11, <2>1 DEF Synchronous
<1>13. IdInStep'
  <2>1. Lowest(Ending)' = Lowest(NextEnding)
    BY <1>1 DEF Lowest
  <2>2. id'.pc = Follow'
    BY <1>1 DEF Synchronous, TakesNext
  <2> HIDE DEF NextEnding, NextPc, Ending, Follow, Lowest
  <2>3. id'.hwlp <=> Ending' # {}
    BY <1>1 DEF TakesNext, Synchronous
  <2>4. id'.hwlp => id'.dec = Lowest(Ending)'
    BY <2>1 DEF TakesNext, Synchronous
  <2> QED BY <2>2, <2>3, <2>4 DEF IdInStep, TakesNext
<1> QED BY <1>12, <1>13

\* The instruction in ID stays there.
LEMMA KeptInStep ==
    ASSUME LoopsBehave, OrderInv, NEW c, Written(FALSE), at' = at, KeepsInId(c), ctl' = ctl,
           c.mark = Junk \/ SetupAt(id.pc) = NoSetup, ~id.failed
    PROVE  IdInStep'
<1>1. /\ Ending' # {} <=> Ending # {}
      /\ Ending # {} => Lowest(Ending') = Lowest(Ending)
      /\ Follow' = Follow
  BY WaitFollows
<1>2. IdInStep
  BY DEF OrderInv, InStep
<1>3. Lowest(Ending)' = Lowest(Ending')
  BY DEF Lowest
<1>4. WordInId' <=> WordInId
  BY DEF KeepsInId, WordInId
<1>5. SetupAt(id.pc)' = SetupAt(id.pc)
  BY DEF KeepsInId, SetupAt, NoSetup
<1>6. id'.to # Junk => SetupAt(id.pc)' = NoSetup
  BY <1>2, <1>5 DEF KeepsInId, IdInStep
<1> HIDE DEF Ending, Follow, Lowest, SetupAt
<1>7. /\ id'.valid => id'.pc = Follow' /\ ctl' = "RUN" /\ WordInId'
      /\ id'.hwlp => id'.valid
      /\ id'.valid => (id'.hwlp <=> Ending' # {})
      /\ id'.hwlp => id'.dec = Lowest(Ending)'
      /\ ~id'.failed
  BY <1>1, <1>2, <1>3, <1>4 DEF IdInStep, KeepsInId
<1> QED BY <1>6, <1>7 DEF IdInStep

LEMMA KeptSync ==
    ASSUME LoopsBehave, OrderInv, IInv', NEW c, Written(FALSE), at' = at,
           KeepsInId(c), c.mark = Junk,
           Synchronous, PcIf' = PcIf, Flagged' <=> Flagged,
           dec_if' = IF Ends THEN Lowest(EndingAt(PcIf)) ELSE dec_if
    PROVE  Synchronous'
<1>1. ~id.valid => Ending' = Ending /\ hwlp_start' = hwlp_start
  BY WaitFollows
<1>2. /\ EndingNext(id.pc) = EndingAt(id.pc)
      /\ \A k \in EndingAt(id.pc) : hwlp_start'[k] = hwlp_start[k]
  BY EndingStays DEF KeepsInId, IInv
<1>3. EndingAt(id.pc)' = EndingNext(id.pc)
  BY DEF EndingAt, EndingNext, KeepsInId
<1>4. id'.valid = id.valid /\ id'.to = id.to /\ id'.pc = id.pc
  BY DEF KeepsInId
<1>5. NextEnding' = NextEnding /\ \A k \in NextEnding : hwlp_start'[k] = hwlp_start[k]
  BY <1>1, <1>2, <1>3, <1>4 DEF NextEnding
<1>6. NextEnding \in SUBSET Loops
  BY DEF NextEnding, Ending, EndingAt
<1>7. NextEnding # {} => Lowest(NextEnding) \in NextEnding
  BY <1>6, LowestIs
<1>8. Lowest(NextEnding)' = Lowest(NextEnding)
  BY <1>5 DEF Lowest
<1>9. NextPc' = NextPc
  <2>1. NextPc' = IF NextEnding' # {} THEN hwlp_start'[Lowest(NextEnding)]
                  ELSE IF ~id.valid THEN IF at.done THEN After(at.pc) ELSE at.pc
                  ELSE IF id.to # Junk THEN id.to ELSE After(id.pc)
    BY <1>4, <1>8 DEF NextPc, After
  <2> HIDE DEF NextEnding, Lowest
  <2> QED BY <1>5, <1>7, <2>1 DEF NextPc
<1>10. Flagged => dec_if' = dec_if
  BY EndsFacts DEF OrderInv, IInv
<1> HIDE DEF NextEnding, NextPc, Lowest
<1> QED BY <1>5, <1>8, <1>9, <1>10 DEF Synchronous

\* The PC is set from outside or by a branch in EX.
LEMMA SetStep ==
    ASSUME LoopsBehave, OrderInv, NEW a \in Targets, ctl' = "RUN", at' = ExactlyAt(a),
           Clock([Plain EXCEPT !.branch = TRUE, !.target = a, !.clear = TRUE], FALSE)
    PROVE  LoopRegs' /\ Phase' /\ Jumps' /\ Contents' /\ InStep'
<1> DEFINE c == [Plain EXCEPT !.branch = TRUE, !.target = a, !.clear = TRUE]
<1>1. c \in Controls /\ c.req /\ c.branch /\ c.target = a /\ ~c.take /\ c.clear
  BY PlainTypes, ControlFields, ProgramAssumption
<1> HIDE DEF c
<1>2. Clock(c, FALSE)
  BY DEF c
<1>3. LoopRegs'
  BY <1>1, <1>2, ClockWrites
<1>4. /\ Phase' /\ Jumps' /\ Contents' /\ Requested' /\ PcIf' = a /\ ~Flagged'
      /\ Empties /\ ~id'.failed
  BY <1>1, <1>2, BranchCycle
<1>5. at'.pc = a /\ at'.done = FALSE
  BY DEF ExactlyAt
<1>6. Ending' = {} /\ Follow' = a
  BY <1>5 DEF Ending, Follow
<1>7. Synchronous'
  BY <1>4, <1>6, EmptyFollowsNext DEF Synchronous, Empties
<1>8. IdInStep'
  BY <1>4 DEF IdInStep, Empties
<1> QED BY <1>3, <1>4, <1>5, <1>7, <1>8 DEF InStep

\* Nothing is taken into ID and what is there leaves or is stopped.
LEMMA ClearCycle ==
    ASSUME LoopsBehave, OrderInv, IInv', ctl # "RESET", NEW c \in Controls,
           ~c.branch, ~c.take, c.clear = TRUE, NEW setup \in BOOLEAN, setup => ctl = "RUN",
           Clock(c, setup)
    PROVE  /\ LoopRegs' /\ Phase' /\ Jumps' /\ Contents' /\ Requested' /\ IdInStep'
           /\ Written(TRUE) /\ Empties
           /\ Synchronous /\ at' = Left => Synchronous'
<1>1. Requested
  BY DEF OrderInv, InStep
<1>2. Written(TRUE) /\ LoopRegs'
  BY ClockWrites
<1>3. /\ Phase' /\ Jumps' /\ Contents' /\ Requested'
      /\ dec_if' = IF Ends THEN Lowest(EndingAt(PcIf)) ELSE dec_if
      /\ Empties /\ (Flagged' <=> Flagged) /\ PcIf' = PcIf
  BY <1>1, FlowCycle
<1>4. IdInStep'
  BY <1>3 DEF IdInStep, Empties
<1>5. Synchronous /\ at' = Left => Synchronous'
  BY <1>2, <1>3, EmptiedSync
<1> QED BY <1>2, <1>3, <1>4, <1>5

LEMMA AdvanceStep ==
    ASSUME LoopsBehave, OrderInv, IInv', Advance
    PROVE  LoopRegs' /\ Phase' /\ Jumps' /\ Contents' /\ InStep'
<1>1. PICK ready \in BOOLEAN, halt_if \in BOOLEAN, setup \in BOOLEAN :
        /\ Clock([Plain EXCEPT !.take = ready /\ ~halt_if, !.clear = ready], setup)
        /\ at' = IF ready THEN Left ELSE at
  BY DEF Advance
<1> DEFINE take == ready /\ ~halt_if
           c == [Plain EXCEPT !.take = take, !.clear = ready]
<1>2. c \in Controls /\ c.req /\ ~c.branch /\ c.take = take /\ c.clear = ready /\ c.mark = Junk
  <2>1. c \in Controls
    BY AdvanceTypes, Zenon
  <2> HIDE DEF take
  <2>2. c.req /\ ~c.branch /\ c.take = take /\ c.clear = ready /\ c.mark = Junk
    BY DEF Plain
  <2> QED BY <2>1, <2>2
<1>3. c.take => c.req /\ c.clear
  BY <1>2
<1> HIDE DEF c, take
<1>4. Clock(c, setup)
  BY <1>1, Zenon DEF c, take
<1>5. ctl = "RUN" /\ ctl' = "RUN" /\ ~id.failed
  BY DEF Advance
<1>6. Requested /\ Synchronous
  BY <1>5 DEF OrderInv, InStep
<1>7. Written(c.clear) /\ LoopRegs'
  BY <1>2, <1>4, <1>5, ClockWrites
<1>8. /\ Phase' /\ Jumps' /\ Contents' /\ Requested'
      /\ dec_if' = IF Ends THEN Lowest(EndingAt(PcIf)) ELSE dec_if
      /\ \/ /\ c.take /\ TakesNext /\ (Flagged' <=> Ends)
            /\ PcIf' = IF Ends THEN Goal ELSE After(PcIf)
         \/ /\ c.clear /\ Empties /\ (Flagged' <=> Flagged) /\ PcIf' = PcIf
         \/ /\ ~c.clear /\ KeepsInId(c) /\ (Flagged' <=> Flagged) /\ PcIf' = PcIf
  BY <1>2, <1>3, <1>4, <1>5, <1>6, FlowCycle
<1>9. c.clear => Written(TRUE) /\ at' = Left
  <2>1. c.clear => c.clear = TRUE
    BY <1>2
  <2> QED BY <1>1, <1>2, <1>7, <2>1
<1>10. ~c.clear => Written(FALSE) /\ at' = at
  <2>1. ~c.clear => c.clear = FALSE
    BY <1>2
  <2> QED BY <1>1, <1>2, <1>7, <2>1
<1>11. CASE /\ c.take /\ TakesNext /\ (Flagged' <=> Ends)
            /\ PcIf' = IF Ends THEN Goal ELSE After(PcIf)
  <2>1. Synchronous' /\ IdInStep'
    BY <1>3, <1>5, <1>6, <1>8, <1>9, <1>11, TakenSync
  <2> QED BY <1>5, <1>7, <1>8, <2>1 DEF InStep
<1>12. CASE c.clear /\ Empties /\ (Flagged' <=> Flagged) /\ PcIf' = PcIf
  <2>1. Synchronous'
    BY <1>6, <1>8, <1>9, <1>12, EmptiedSync
  <2>2. IdInStep'
    BY <1>12 DEF IdInStep, Empties
  <2> QED BY <1>5, <1>7, <1>8, <2>1, <2>2 DEF InStep
<1>13. CASE ~c.clear /\ KeepsInId(c) /\ (Flagged' <=> Flagged) /\ PcIf' = PcIf
  <2>1. Synchronous'
    BY <1>2, <1>6, <1>8, <1>10, <1>13, KeptSync
  <2>2. IdInStep'
    BY <1>2, <1>5, <1>10, <1>13, KeptInStep
  <2> QED BY <1>5, <1>7, <1>8, <2>1, <2>2 DEF InStep
<1> QED BY <1>8, <1>11, <1>12, <1>13

LEMMA JumpStep ==
    ASSUME LoopsBehave, OrderInv, Jump
    PROVE  LoopRegs' /\ Phase' /\ Jumps' /\ Contents' /\ InStep'
<1>1. PICK a \in Targets, ready \in BOOLEAN :
        /\ Clock([Plain EXCEPT !.branch = TRUE, !.target = a, !.clear = ready, !.mark = a], FALSE)
        /\ at' = IF ready THEN ExactlyAt(a) ELSE at
  BY DEF Jump
<1> DEFINE c == [Plain EXCEPT !.branch = TRUE, !.target = a, !.clear = ready, !.mark = a]
<1>2. /\ c \in Controls /\ c.req /\ c.branch /\ c.target = a /\ ~c.take
      /\ c.clear = ready /\ c.mark = a
  <2>1. c \in Controls
    BY PlainTypes, ProgramAssumption, Zenon
  <2>2. c.req /\ c.branch /\ c.target = a /\ ~c.take /\ c.clear = ready /\ c.mark = a
    BY DEF Plain
  <2> QED BY <2>1, <2>2
<1> HIDE DEF c
<1>3. Clock(c, FALSE)
  BY <1>1 DEF c
<1>4. ctl = "RUN" /\ ctl' = "RUN" /\ id.valid /\ SetupAt(id.pc) = NoSetup
  BY DEF Jump
<1>5. ~id.failed
  BY <1>4 DEF OrderInv, InStep, IdInStep
<1>6. Written(c.clear) /\ LoopRegs'
  BY <1>2, <1>3, ClockWrites
<1>7. /\ Phase' /\ Jumps' /\ Contents' /\ Requested' /\ PcIf' = a /\ ~Flagged'
      /\ c.clear => Empties /\ ~id'.failed
      /\ ~c.clear => KeepsInId(c)
  BY <1>2, <1>3, BranchCycle
<1>8. CASE ready
  <2>1. at'.pc = a /\ at'.done = FALSE
    BY <1>1, <1>8 DEF ExactlyAt
  <2>2. Ending' = {} /\ Follow' = a
    BY <2>1 DEF Ending, Follow
  <2>3. Synchronous'
    BY <1>2, <1>7, <1>8, <2>2, EmptyFollowsNext DEF Synchronous, Empties
  <2>4. IdInStep'
    BY <1>2, <1>7, <1>8 DEF IdInStep, Empties
  <2> QED BY <1>4, <1>6, <1>7, <2>3, <2>4 DEF InStep
<1>9. CASE ~ready
  <2>1. a # Junk
    BY ProgramAssumption, FetchAssumption DEF Addr, Junk
  <2>2. id'.to = a /\ id'.valid /\ KeepsInId(c)
    BY <1>2, <1>4, <1>7, <1>9, <2>1 DEF KeepsInId
  <2>3. NextEnding' = {} /\ NextPc' = a
    BY <2>1, <2>2 DEF NextEnding, NextPc
  <2>4. Synchronous'
    BY <1>7, <2>3 DEF Synchronous
  <2>5. c.clear = FALSE /\ at' = at
    BY <1>1, <1>2, <1>9
  <2>6. IdInStep'
    BY <1>4, <1>5, <1>6, <2>2, <2>5, KeptInStep
  <2> QED BY <1>4, <1>6, <1>7, <2>4, <2>6 DEF InStep
<1> QED BY <1>8, <1>9

\* A fault at the start of a loop would lose the decrement.
LEMMA FaultEnding ==
    ASSUME LoopsBehave, OrderInv, ctl = "RUN", id.failed
    PROVE  Ending = {} /\ ~Held
<1>1. /\ ~id.valid /\ Stuck /\ Synchronous /\ Requested
      /\ Jumps /\ Contents /\ Phase /\ TypeOK /\ PrefetchTypeOK /\ LoopRegs
  BY DEF OrderInv, InStep, IdInStep, IInv, TypeOK
<1>2. ~Held
  <2> SUFFICES ASSUME Held PROVE FALSE
    OBVIOUS
  <2>1. ~Odd(PcIf)
    BY <1>1, EndsFacts DEF Jumps
  <2>2. rdata_Q # <<>>
    BY HeldFacts DEF OrderInv, IInv, TypeOK
  <2> QED BY <1>1, <2>1, <2>2 DEF Stuck
<1>3. PcIf = Follow /\ NextEnding = Ending
  BY <1>1, EmptyFollows DEF Synchronous
<1>4. Ending = {}
  <2> SUFFICES ASSUME Ending # {} PROVE FALSE
    OBVIOUS
  <2>1. Ending \in SUBSET Loops
    BY DEF Ending
  <2> DEFINE l == Lowest(Ending)
  <2>2. l \in Ending /\ PcIf = hwlp_start[l]
    BY <1>3, <2>1, LowestIs DEF Follow
  <2> HIDE DEF l
  <2>3. l \in Loops /\ hwlp_counter[l] > 1
    BY <2>2 DEF Ending
  <2>4. PICK s \in Iterating : hwlp_start[l] = After(s.at)
    BY <1>1, <2>3 DEF LoopRegs
  <2>5. First(s) \cap Denied = {}
    <3>1. (Behind(s) \cup First(s)) \cap Denied = {}
      BY Zenon DEF LoopsBehave
    <3> QED BY <3>1
  <2>6. WordOf(PcIf) \in First(s) /\ NextWord(PcIf) \in First(s) /\ PcIf \in Addr
    BY <1>1, <2>2, <2>4, PcIfType DEF First
  <2>7. WordOf(instr_addr_q) \in Denied
    BY <1>1 DEF Stuck, Requested
  <2>8. CASE rdata_Q = <<>>
    <3>1. instr_addr_q = PcIf
      BY <2>8, PcIfIs
    <3> QED BY <2>5, <2>6, <2>7, <3>1
  <2>9. CASE Len(rdata_Q) = 1
    <3>1. rdata_Q # <<>> /\ LastOf(rdata_Q) = rdata_Q[1]
      <4>1. Len(<<>>) = 0
        OBVIOUS
      <4>2. LastOf(rdata_Q) = rdata_Q[1]
        BY <2>9 DEF LastOf
      <4> QED BY <2>9, <4>1, <4>2
    <3>2. Run = rdata_Q /\ RunAddr = PcIf
      BY <1>1, <1>2, FreeFacts
    <3>3. instr_addr_q = NextWord(WordOf(PcIf))
      BY <1>1, <3>1, <3>2 DEF Stuck, Requested, Contents
    <3>4. WordOf(instr_addr_q) = NextWord(PcIf)
      BY <2>6, <3>3, WordFacts
    <3> QED BY <2>5, <2>6, <2>7, <3>4
  <2> QED BY <1>1, <2>8, <2>9 DEF Stuck
<1> QED BY <1>2, <1>4

LEMMA IdleStep == OrderInv /\ UNCHANGED vars => OrderInv'
<1> SUFFICES ASSUME OrderInv, UNCHANGED vars PROVE OrderInv'
  OBVIOUS
<1>1. /\ UNCHANGED <<rdata_Q, addr_Q, is_hwlp_Q, CS, hwlp_CS, instr_addr_q>>
      /\ UNCHANGED <<hwlp_start, hwlp_end, hwlp_counter, ctl, id, dec_if, owed, at>>
  BY DEF vars, prefetchVars, fifoVars, hwloopVars
<1>2. IInv'
  BY StepInv DEF OrderInv
<1>3. PcIf' = PcIf /\ Run' = Run
  BY <1>1 DEF PcIf, OutAddr, FifoIn, Run
<1>4. RunAddr' = RunAddr /\ (Held' <=> Held) /\ (Flagged' <=> Flagged)
  BY <1>1, <1>3 DEF RunAddr, Held, Flagged
<1>5. Rounds' = Rounds
  BY <1>1 DEF Rounds
<1>6. EndingAt(PcIf)' = EndingAt(PcIf) /\ EndingAt(id.pc)' = EndingAt(id.pc) /\ Ending' = Ending
  BY <1>1, <1>3, <1>5 DEF EndingAt, Ending
<1>7. (Ends' <=> Ends) /\ Goal' = Goal
  BY <1>1, <1>6 DEF Ends, Goal, Lowest
<1>8. NextEnding' = NextEnding /\ Follow' = Follow
  BY <1>1, <1>6 DEF NextEnding, Follow, Lowest, After
<1>9. NextPc' = NextPc
  BY <1>1, <1>8 DEF NextPc, Lowest, After
<1>10. LoopRegs'
  BY <1>1 DEF OrderInv, LoopRegs, Iterating, After
<1>11. Phase'
  BY <1>1 DEF OrderInv, Phase
<1>12. Starts' = Starts
  BY DEF Starts, Iterating, After
<1>13. Jumps'
  BY <1>1, <1>3, <1>4, <1>7, <1>12 DEF OrderInv, Jumps
<1>14. Contents'
  BY <1>1, <1>3, <1>4 DEF OrderInv, Contents, Ordered
<1>15. (Requested' <=> Requested) /\ (Quiet' <=> Quiet)
  <2>1. Requested' <=> Requested
    BY <1>1, <1>3, <1>4 DEF Requested, LastOf
  <2>2. Quiet' <=> Quiet
    BY <1>1 DEF Quiet, NothingAsked
  <2> QED BY <2>1, <2>2
<1>16. Synchronous' <=> Synchronous
  BY <1>1, <1>3, <1>4, <1>8, <1>9 DEF Synchronous, Lowest
<1>17. IdInStep' <=> IdInStep
  <2>1. Stuck' <=> Stuck
    BY <1>1, <1>3 DEF Stuck
  <2>2. WordInId' <=> WordInId
    BY <1>1 DEF WordInId
  <2>3. SetupAt(id.pc)' = SetupAt(id.pc) /\ Lowest(Ending)' = Lowest(Ending)
    BY <1>1, <1>6 DEF SetupAt, Lowest
  <2> HIDE DEF Ending, Follow, Lowest, SetupAt
  <2> QED BY <1>1, <1>6, <1>8, <2>1, <2>2, <2>3 DEF IdInStep
<1>18. InStep'
  BY <1>1, <1>6, <1>15, <1>16, <1>17 DEF OrderInv, InStep
<1> QED BY <1>2, <1>10, <1>11, <1>13, <1>14, <1>18 DEF OrderInv

-----------------------------------------------------------------------------
(* Every step keeps the invariant, and the invariant is what is claimed.   *)

LEMMA StepOrder ==
    ASSUME LoopsBehave
    PROVE  OrderInv /\ [Next]_vars => OrderInv'
<1> SUFFICES ASSUME OrderInv, [Next]_vars PROVE OrderInv'
  OBVIOUS
<1>1. IInv'
  BY StepInv DEF OrderInv
<1>2. CASE UNCHANGED vars
  BY <1>2, IdleStep
<1> SUFFICES ASSUME Next PROVE LoopRegs' /\ Phase' /\ Jumps' /\ Contents' /\ InStep'
  BY <1>1, <1>2 DEF OrderInv
<1> DEFINE c == [Plain EXCEPT !.clear = TRUE]
           s == [Plain EXCEPT !.req = FALSE, !.clear = TRUE]
           h == [Plain EXCEPT !.req = FALSE]
<1>3. /\ c \in Controls /\ ~c.branch /\ ~c.take /\ c.clear = TRUE
      /\ s \in Controls /\ ~s.branch /\ ~s.take /\ s.clear = TRUE
      /\ h \in Controls /\ ~h.req /\ ~h.branch /\ ~h.take /\ ~h.clear /\ h.mark = Junk
  BY ControlFields, PlainTypes
<1>4. CASE Hold
  <2>1. ctl = "RESET" /\ ctl' = "RESET" /\ at' = at /\ Clock(h, FALSE)
    BY <1>4 DEF Hold
  <2> HIDE DEF h, c, s
  <2>2. /\ Phase' /\ Jumps' /\ Contents' /\ NothingAsked' /\ KeepsInId(h)
        /\ hwlp_counter' = hwlp_counter
    BY <1>3, <2>1, HoldCycle
  <2>3. LoopRegs'
    BY <1>3, <2>1, ClockWrites
  <2>4. Quiet
    BY <2>1 DEF OrderInv, InStep
  <2>5. Quiet'
    BY <2>1, <2>2, <2>4 DEF Quiet, KeepsInId
  <2>6. IdInStep'
    <3>1. id'.to = id.to /\ id'.pc = id.pc /\ id'.hwlp = id.hwlp /\ ~id'.valid /\ ~id'.failed
      BY <1>3, <2>2, <2>4 DEF KeepsInId, Quiet
    <3>2. SetupAt(id.pc)' = SetupAt(id.pc)
      BY <3>1 DEF SetupAt, NoSetup
    <3>3. ~id.hwlp /\ (id.to # Junk => SetupAt(id.pc) = NoSetup)
      BY <2>4 DEF OrderInv, InStep, IdInStep, Quiet
    <3> QED BY <3>1, <3>2, <3>3 DEF IdInStep
  <2> QED BY <2>1, <2>2, <2>3, <2>5, <2>6 DEF InStep, Quiet
<1>5. CASE Boot \/ Branch \/ SetPc
  BY <1>5, SetStep DEF Boot, Branch, SetPc
<1>6. CASE Advance
  BY <1>1, <1>6, AdvanceStep
<1>7. CASE Jump
  BY <1>7, JumpStep
<1>8. CASE Trap
  <2>1. ctl = "RUN" /\ ctl' = "FLUSH" /\ at' = [pc |-> id.pc, done |-> FALSE]
    BY <1>8 DEF Trap, StoppedAt
  <2>2. PICK setup \in BOOLEAN : Clock(c, setup)
    BY <1>8 DEF Trap
  <2> HIDE DEF c, s, h
  <2>3. LoopRegs' /\ Phase' /\ Jumps' /\ Contents' /\ Requested' /\ IdInStep'
    BY <1>1, <1>3, <2>1, <2>2, ClearCycle
  <2>4. at'.done = FALSE
    BY <2>1
  <2> QED BY <2>1, <2>3, <2>4 DEF InStep
<1>9. CASE HaltBehind
  <2>1. /\ ctl = "RUN" /\ ctl' = "FLUSH" /\ at' = Left /\ Clock(c, TRUE)
        /\ id.valid /\ ~InLoopEnd(id.pc)
    BY <1>9 DEF HaltBehind
  <2> HIDE DEF c, s, h
  <2>2. Synchronous
    BY <2>1 DEF OrderInv, InStep
  <2>3. /\ LoopRegs' /\ Phase' /\ Jumps' /\ Contents' /\ Requested' /\ IdInStep'
        /\ Synchronous' /\ Written(TRUE)
    BY <1>1, <1>3, <2>1, <2>2, ClearCycle
  <2>4. NextEnding = {}
    <3>1. \A k \in Loops : hwlp_end[k] = id.pc => ~(Rounds[k] > 1)
      <4> TAKE k \in Loops
      <4>1. hwlp_counter[k] \in Nat /\ Rounds[k] \in Int /\ Rounds[k] <= hwlp_counter[k]
        BY LoopTypesHere DEF OrderInv, IInv
      <4>2. hwlp_end[k] = id.pc => ~(hwlp_counter[k] > 0)
        BY <2>1 DEF InLoopEnd
      <4> QED BY <4>1, <4>2
    <3>2. EndingAt(id.pc) = {}
      BY <3>1 DEF EndingAt
    <3> QED BY <2>1, <3>2 DEF NextEnding
  <2>5. Ending' = {}
    BY <1>1, <2>1, <2>3, <2>4, LeftFollows DEF IInv
  <2> QED BY <2>1, <2>3, <2>5 DEF InStep
<1>10. CASE FetchFault
  <2>1. ctl = "RUN" /\ ctl' = "FLUSH" /\ at' = at /\ id.failed /\ Clock(c, FALSE)
    BY <1>10 DEF FetchFault
  <2> HIDE DEF c, s, h
  <2>2. Synchronous /\ ~id.valid
    BY <2>1 DEF OrderInv, InStep, IdInStep
  <2>3. at' = Left
    BY <2>1, <2>2 DEF Left
  <2>4. /\ LoopRegs' /\ Phase' /\ Jumps' /\ Contents' /\ Requested' /\ IdInStep'
        /\ Synchronous' /\ Written(TRUE)
    BY <1>1, <1>3, <2>1, <2>2, <2>3, ClearCycle
  <2>5. Ending' = {}
    BY <2>1, <2>2, <2>4, FaultEnding, WaitFollows
  <2> QED BY <2>1, <2>4, <2>5 DEF InStep
<1>11. ASSUME NEW d \in Controls, ~d.branch, ~d.take, d.clear = TRUE, Clock(d, FALSE),
              ctl \in {"FLUSH", "SLEEP"}, at' = at, ctl' \in {"FLUSH", "RUN", "SLEEP"},
              ctl' # "FLUSH" => at.done
       PROVE  LoopRegs' /\ Phase' /\ Jumps' /\ Contents' /\ InStep'
  <2>1. ~id.valid /\ ctl # "RESET" /\ ctl # "RUN"
    BY <1>11 DEF OrderInv, InStep, IdInStep
  <2>2. at' = Left
    BY <1>11, <2>1 DEF Left
  <2>3. at.done => Synchronous /\ Ending = {}
    BY <2>1 DEF OrderInv, InStep
  <2>4. /\ LoopRegs' /\ Phase' /\ Jumps' /\ Contents' /\ Requested' /\ IdInStep' /\ Written(TRUE)
        /\ at.done => Synchronous'
    BY <1>1, <1>11, <2>1, <2>2, <2>3, ClearCycle
  <2>5. at.done => Ending' = {}
    BY <1>11, <2>1, <2>3, <2>4, WaitFollows
  <2> QED BY <1>11, <2>4, <2>5 DEF InStep
<1>12. CASE Flush
  BY <1>3, <1>11, <1>12 DEF Flush
<1>13. CASE Sleep
  <2>1. at.done
    BY <1>13 DEF Sleep, OrderInv, InStep
  <2> QED BY <1>3, <1>11, <1>13, <2>1 DEF Sleep
<1> QED BY <1>4, <1>5, <1>6, <1>7, <1>8, <1>9, <1>10, <1>12, <1>13 DEF Next

\* The abstract specification, in the terms of this module.
LEMMA StreamIs ==
    ASSUME OrderInv
    PROVE  /\ Stream!Ending = Ending
           /\ Stream!Following = Follow
           /\ id.valid => Stream!Counted = Rounds
           /\ Ending = {} => Stream!Counted = hwlp_counter
<1>1. Stream!Ending = Ending
  BY DEF Stream!Ending, Ending, Loops, N_HWLP
<1>2. Stream!Jumping = Lowest(Ending)
  BY <1>1 DEF Stream!Jumping, Lowest
<1>3. Stream!Following = Follow
  BY <1>1, <1>2 DEF Stream!Following, Follow, After, Stream!After
<1>4. Stream!Counted =
        IF Ending # {} THEN [hwlp_counter EXCEPT ![Lowest(Ending)] = @ - 1] ELSE hwlp_counter
  BY <1>1, <1>2 DEF Stream!Counted
<1>5. Rounds = IF id.valid /\ Ending # {}
               THEN [hwlp_counter EXCEPT ![Lowest(Ending)] = @ - 1] ELSE hwlp_counter
  BY RoundsAre
<1> HIDE DEF Ending, Follow, Rounds
<1> QED BY <1>1, <1>3, <1>4, <1>5

LEMMA OrderImplies ==
    ASSUME LoopsBehave
    PROVE  OrderInv => WordIsMemory /\ PcIfFollows /\ FaultIsDue
<1> SUFFICES ASSUME OrderInv PROVE WordIsMemory /\ PcIfFollows /\ FaultIsDue
  OBVIOUS
<1>1. WordIsMemory
  BY DEF OrderInv, InStep, IdInStep, WordInId, WordIsMemory
<1>2. PcIfFollows
  <2> SUFFICES ASSUME ctl = "RUN" \/ (ctl # "RESET" /\ at.done) PROVE PcIfFollows
    BY DEF PcIfFollows
  <2>1. PcIf = NextPc /\ TypeOK
    BY DEF OrderInv, InStep, Synchronous, IInv
  <2>2. Stream!Following = Follow
    BY StreamIs
  <2> DEFINE e == {k \in Loops : PcIsEnd(k, id.pc, DecInId)}
  <2>3. e = EndingAt(id.pc)
    BY <2>1, PcIsEndIs DEF EndingAt
  <2>4. e # {} => (CHOOSE k \in e : \A j \in e : k <= j) = Lowest(e)
    <3>1. e \in SUBSET Loops
      OBVIOUS
    <3> HIDE DEF e
    <3> SUFFICES ASSUME e # {} PROVE (CHOOSE k \in e : \A j \in e : k <= j) = Lowest(e)
      OBVIOUS
    <3>2. Lowest(e) \in e /\ \A j \in e : Lowest(e) <= j
      BY <3>1, LowestIs
    <3> DEFINE k == CHOOSE k \in e : \A j \in e : k <= j
    <3>3. k \in e /\ \A j \in e : k <= j
      BY <3>2
    <3> HIDE DEF k
    <3>4. k <= Lowest(e) /\ Lowest(e) <= k /\ k \in Nat /\ Lowest(e) \in Nat
      <4>1. \A j \in e : j \in Nat
        BY <3>1 DEF Loops, N_HWLP
      <4> HIDE DEF Lowest
      <4> QED BY <3>2, <3>3, <4>1
    <3>5. k = Lowest(e)
      BY <3>4
    <3> QED BY <3>5 DEF k
  <2>5. ~id.valid => NextPc = Follow
    BY EmptyFollows
  <2>6. id.valid /\ id.to # Junk => NextPc = id.to
    BY DEF NextPc, NextEnding
  <2>7. id.valid /\ id.to = Junk =>
           NextPc = IF e = {} THEN After(id.pc) ELSE hwlp_start[Lowest(e)]
    BY <2>3 DEF NextPc, NextEnding
  <2> HIDE DEF e, Lowest, NextPc, Follow
  <2>8. PcIf = IF ~id.valid THEN Stream!Following
               ELSE IF id.to # Junk THEN id.to
               ELSE IF e = {} THEN After(id.pc)
               ELSE hwlp_start[CHOOSE k \in e : \A j \in e : k <= j]
    BY <2>1, <2>2, <2>4, <2>5, <2>6, <2>7
  <2> QED BY <2>8, Zenon DEF PcIfFollows, e
<1>3. FaultIsDue
  <2> SUFFICES ASSUME ctl = "RUN", id.failed PROVE FaultIsDue
    BY DEF FaultIsDue
  <2>1. /\ Stuck /\ Requested /\ Contents /\ Phase /\ ~id.valid /\ Synchronous
        /\ TypeOK /\ PrefetchTypeOK /\ PcIf \in Addr
    BY PcIfType DEF OrderInv, InStep, IdInStep, IInv, TypeOK
  <2>2. Stream!Following = PcIf
    BY <2>1, StreamIs, EmptyFollows DEF Synchronous
  <2>3. ~Held
    BY FaultEnding
  <2>4. WordOf(instr_addr_q) \in Denied
    BY <2>1 DEF Stuck, Requested
  <2>5. CASE rdata_Q = <<>>
    <3>1. WordOf(PcIf) \in Denied
      BY <2>4, <2>5, PcIfIs
    <3> QED BY <2>2, <3>1 DEF FaultIsDue
  <2>6. CASE Len(rdata_Q) = 1 /\ Odd(PcIf) /\ PcIf \notin Compressed
    <3>1. rdata_Q # <<>> /\ LastOf(rdata_Q) = rdata_Q[1]
      <4>1. Len(<<>>) = 0
        OBVIOUS
      <4>2. LastOf(rdata_Q) = rdata_Q[1]
        BY <2>6 DEF LastOf
      <4> QED BY <2>6, <4>1, <4>2
    <3>2. Run = rdata_Q /\ RunAddr = PcIf
      BY <2>1, <2>3, FreeFacts
    <3>3. instr_addr_q = NextWord(rdata_Q[1][1]) /\ rdata_Q[1][1] = WordOf(PcIf)
      BY <2>1, <3>1, <3>2 DEF Stuck, Requested, Contents
    <3>4. instr_addr_q = NextWord(PcIf) /\ NextWord(PcIf) \in Addr
      BY <2>1, <3>3, WordFacts
    <3>5. After(PcIf) = NextWord(PcIf) + 1
      BY <2>1, <2>6, AfterFacts
    <3>6. (After(PcIf) + Halves - 1) % Halves = NextWord(PcIf)
      <4>1. NextWord(PcIf) \in Nat /\ NextWord(PcIf) < Halves
        BY <3>4, FetchAssumption DEF Addr
      <4>2. (After(PcIf) + Halves - 1) = NextWord(PcIf) + Halves
        BY <3>5, <4>1, FetchAssumption
      <4>3. (NextWord(PcIf) + Halves) % Halves = NextWord(PcIf)
        BY <4>1, ModHalves, FetchAssumption
      <4> QED BY <4>2, <4>3
    <3> QED BY <2>2, <2>4, <3>4, <3>6 DEF FaultIsDue
  <2> QED BY <2>1, <2>5, <2>6 DEF Stuck
<1> QED BY <1>1, <1>2, <1>3

LEMMA OrderAlways ==
    ASSUME LoopsBehave PROVE Spec => []OrderInv
<1>1. OrderInv /\ [Next]_vars => OrderInv'
  BY StepOrder
<1> QED BY <1>1, InitOrder, PTL DEF Spec

(* In a program whose loops behave, however it is compressed, denied,      *)
(* stalled, stopped, branched and looped, the word in ID is the memory at  *)
(* its PC: both halves of it, if the instruction has two.                  *)
THEOREM FetchesMemory == ASSUME LoopsBehave PROVE Spec => []WordIsMemory
<1>1. OrderInv => WordIsMemory
  BY OrderImplies
<1> QED BY <1>1, OrderAlways, PTL

(* The PC of the IF stage, which a trap or lp.setup saves, is that of the  *)
(* instruction behind the one in ID: the start of the loop where its last  *)
(* round is not yet done, as the registers will be when ID has left.       *)
THEOREM SavedPcFollows == ASSUME LoopsBehave PROVE Spec => []PcIfFollows
<1>1. OrderInv => PcIfFollows
  BY OrderImplies
<1> QED BY <1>1, OrderAlways, PTL

(* A fetch fault is raised only for an instruction of which a word is      *)
(* denied and that is the next to be executed, not for a word that was     *)
(* fetched ahead and jumped over.                                          *)
THEOREM FaultsAreDue == ASSUME LoopsBehave PROVE Spec => []FaultIsDue
<1>1. OrderInv => FaultIsDue
  BY OrderImplies
<1> QED BY <1>1, OrderAlways, PTL

-----------------------------------------------------------------------------
(* The refinement.                                                         *)

LEMMA ImplementsInit == Init => Stream!Init
BY DEF Init, HwloopInit, Stream!Init, Loops, N_HWLP

\* What the hardware writes is what the stream writes.
LEMMA WritesIs ==
    ASSUME NEW n, NEW s, Writes(s, n)
    PROVE  s \in Stream!SetupAt(id.pc) /\ Stream!Write(s, n)
BY DEF Writes, Stream!SetupAt, Stream!Write, Stream!After, After

LEMMA KeepsIs ==
    ASSUME NEW n, Keeps(n)
    PROVE  Stream!Keep(n)
BY DEF Keeps, Stream!Keep

\* Setting the PC.
LEMMA SetImplements ==
    ASSUME LoopsBehave, OrderInv, NEW c \in Controls, c.clear = TRUE, Clock(c, FALSE),
           NEW a \in Targets, at' = ExactlyAt(a), id.valid \/ Ending = {}
    PROVE  Stream!Next
<1>1. Keeps(Counted(c.clear))
  BY LoopsWritten
<1>2. Counted(c.clear) = Stream!Counted
  <2>1. Ending = {} => Rounds = hwlp_counter
    BY RoundsAre
  <2> HIDE DEF Rounds, Ending
  <2> QED BY <2>1, StreamIs DEF Counted
<1>3. Stream!Keep(Stream!Counted)
  <2> DEFINE n == Stream!Counted
  <2>1. Keeps(n)
    BY <1>1, <1>2, Zenon
  <2> HIDE DEF n
  <2>2. Stream!Keep(n)
    BY <2>1, KeepsIs
  <2> QED BY <2>2 DEF n
<1>4. a \in Stream!Addr
  BY ProgramAssumption DEF Stream!Addr, Addr
<1> QED BY <1>3, <1>4, Zenon DEF Stream!Next, Stream!Redirect, ExactlyAt

\* The instruction leaves ID.
LEMMA LeaveImplements ==
    ASSUME LoopsBehave, OrderInv, NEW c \in Controls, c.clear = TRUE, ctl = "RUN",
           Clock(c, TRUE), at' = Left
    PROVE  [Stream!Next]_(Stream!vars)
<1>1. \/ Keeps(Rounds) /\ (id.valid => \A s \in Setups : s.at # id.pc)
      \/ \E s \in Setups : Writes(s, Rounds)
  <2>1. Counted(c.clear) = Rounds
    BY DEF Counted
  <2>2. \/ Keeps(Counted(c.clear)) /\ (TRUE /\ id.valid => \A s \in Setups : s.at # id.pc)
        \/ TRUE /\ \E s \in Setups : Writes(s, Counted(c.clear))
    BY LoopsWritten
  <2> QED BY <2>1, <2>2, Zenon
<1>2. CASE ~id.valid
  <2>1. Keeps(Rounds) /\ Rounds = hwlp_counter
    <3>1. \A s : ~Writes(s, Rounds)
      BY <1>2 DEF Writes
    <3> QED BY <1>1, <1>2, <3>1, RoundsAre
  <2> HIDE DEF Rounds
  <2> QED BY <1>2, <2>1 DEF Left, Stream!vars, Keeps
<1>3. CASE id.valid
  <2>1. Stream!Counted = Rounds /\ Stream!Following = Follow /\ id.pc = Follow
    BY <1>3, StreamIs DEF OrderInv, InStep, IdInStep
  <2> HIDE DEF Rounds, Follow
  <2>2. CASE id.to # Junk
    <3>1. id.to \in Stream!Addr
      <4>1. id.to \in Half
        BY LoopTypesHere DEF OrderInv, IInv
      <4> QED BY <2>2, <4>1, FetchAssumption DEF Half, Junk, Stream!Addr
    <3>2. at' = [pc |-> id.to, done |-> FALSE]
      BY <1>3, <2>2 DEF Left
    <3>3. Stream!Keep(Stream!Counted)
      <4>1. Keeps(Rounds)
        BY <1>1, <2>2 DEF Writes
      <4>2. Stream!Keep(Rounds)
        BY <4>1, KeepsIs
      <4> QED BY <2>1, <4>2, Zenon
    <3> QED BY <3>1, <3>2, <3>3, Zenon DEF Stream!Next, Stream!Redirect
  <2>3. CASE id.to = Junk
    <3>1. at' = [pc |-> Stream!Following, done |-> TRUE]
      BY <1>3, <2>1, <2>3 DEF Left
    <3>2. IF Stream!SetupAt(Stream!Following) = {} THEN Stream!Keep(Stream!Counted)
          ELSE \E s \in Stream!SetupAt(Stream!Following) : Stream!Write(s, Stream!Counted)
      <4>1. CASE Keeps(Rounds) /\ \A s \in Setups : s.at # id.pc
        <5>1. Stream!SetupAt(Stream!Following) = {}
          BY <2>1, <4>1 DEF Stream!SetupAt
        <5>2. Stream!Keep(Rounds)
          BY <4>1, KeepsIs
        <5> QED BY <2>1, <5>1, <5>2, Zenon
      <4>2. CASE \E s \in Setups : Writes(s, Rounds)
        <5>1. PICK s \in Setups : Writes(s, Rounds)
          BY <4>2
        <5>2. s \in Stream!SetupAt(id.pc) /\ Stream!Write(s, Rounds)
          BY <5>1, WritesIs
        <5>3. s \in Stream!SetupAt(Stream!Following) /\ Stream!Write(s, Stream!Counted)
          BY <2>1, <5>2, Zenon
        <5> QED BY <5>3, Zenon
      <4> QED BY <1>1, <1>3, <4>1, <4>2
    <3> QED BY <3>1, <3>2, Zenon DEF Stream!Next, Stream!Execute
  <2> QED BY <2>2, <2>3
<1> QED BY <1>2, <1>3

\* The instruction in ID stays, or none is there.
LEMMA StayImplements ==
    ASSUME LoopsBehave, OrderInv, NEW c \in Controls, NEW setup \in BOOLEAN, setup => ctl = "RUN",
           Clock(c, setup), at' = at, ~(c.clear /\ id.valid)
    PROVE  [Stream!Next]_(Stream!vars)
<1>1. Counted(c.clear) = hwlp_counter
  BY RoundsAre DEF Counted
<1>2. Keeps(hwlp_counter) \/ \E s \in Setups : Writes(s, hwlp_counter)
  <2>1. Keeps(Counted(c.clear)) \/ \E s \in Setups : Writes(s, Counted(c.clear))
    BY LoopsWritten
  <2> QED BY <1>1, <2>1, Zenon
<1>3. CASE Keeps(hwlp_counter)
  BY <1>3 DEF Keeps, Stream!vars
<1>4. CASE \E s \in Setups : Writes(s, hwlp_counter)
  <2>1. PICK s \in Setups : Writes(s, hwlp_counter)
    BY <1>4
  <2>2. s \in Stream!SetupAt(id.pc) /\ Stream!Write(s, hwlp_counter)
    BY <2>1, WritesIs
  <2>3. id.pc = Stream!Following
    BY <2>1, StreamIs DEF OrderInv, InStep, IdInStep, Writes
  <2>4. Stream!SetUp
    BY <2>2, <2>3, Zenon DEF Stream!SetUp
  <2> QED BY <2>4, Zenon DEF Stream!Next
<1> QED BY <1>2, <1>3, <1>4

\* The instruction in ID is stopped before it is executed.
LEMMA StopImplements ==
    ASSUME LoopsBehave, OrderInv, NEW c \in Controls, c.clear = TRUE, NEW setup \in BOOLEAN,
           ctl = "RUN", Clock(c, setup), id.valid, at' = [pc |-> id.pc, done |-> FALSE]
    PROVE  Stream!Next
<1>1. Stream!Counted = Rounds /\ id.pc = Stream!Following
  BY StreamIs DEF OrderInv, InStep, IdInStep
<1>2. Keeps(Rounds) \/ \E s \in Setups : Writes(s, Rounds)
  <2>1. Counted(c.clear) = Rounds
    BY DEF Counted
  <2>2. Keeps(Counted(c.clear)) \/ \E s \in Setups : Writes(s, Counted(c.clear))
    BY LoopsWritten
  <2> QED BY <2>1, <2>2, Zenon
<1> HIDE DEF Rounds
<1>3. \/ Stream!Keep(Stream!Counted)
      \/ \E s \in Stream!SetupAt(Stream!Following) : Stream!Write(s, Stream!Counted)
  <2>1. CASE Keeps(Rounds)
    <3>1. Stream!Keep(Rounds)
      BY <2>1, KeepsIs
    <3> QED BY <1>1, <3>1, Zenon
  <2>2. CASE \E s \in Setups : Writes(s, Rounds)
    <3>1. PICK s \in Setups : Writes(s, Rounds)
      BY <2>2
    <3>2. s \in Stream!SetupAt(id.pc) /\ Stream!Write(s, Rounds)
      BY <3>1, WritesIs
    <3> QED BY <1>1, <3>2, Zenon
  <2> QED BY <1>2, <2>1, <2>2
<1> QED BY <1>1, <1>3, Zenon DEF Stream!Next, Stream!Stop

LEMMA StepImplements ==
    ASSUME LoopsBehave, OrderInv, [Next]_vars
    PROVE  [Stream!Next]_(Stream!vars)
<1>1. CASE UNCHANGED vars
  BY <1>1 DEF vars, hwloopVars, Stream!vars
<1> SUFFICES ASSUME Next PROVE [Stream!Next]_(Stream!vars)
  BY <1>1
<1> DEFINE c == [Plain EXCEPT !.clear = TRUE]
           s == [Plain EXCEPT !.req = FALSE, !.clear = TRUE]
           h == [Plain EXCEPT !.req = FALSE]
<1>2. c \in Controls /\ c.clear = TRUE /\ s \in Controls /\ h \in Controls /\ ~h.clear
  BY ControlFields, PlainTypes
<1> HIDE DEF c, s, h
<1>3. CASE Hold
  BY <1>2, <1>3, StayImplements DEF Hold, h
<1>4. ASSUME NEW a \in Targets, at' = ExactlyAt(a), id.valid \/ Ending = {},
             Clock([Plain EXCEPT !.branch = TRUE, !.target = a, !.clear = TRUE], FALSE)
      PROVE  Stream!Next
  <2> DEFINE b == [Plain EXCEPT !.branch = TRUE, !.target = a, !.clear = TRUE]
  <2>1. b \in Controls /\ b.clear = TRUE
    BY PlainTypes, ControlFields, ProgramAssumption
  <2> HIDE DEF b
  <2>2. Clock(b, FALSE)
    BY <1>4 DEF b
  <2> QED BY <1>4, <2>1, <2>2, SetImplements
<1>5. CASE Boot
  <2>1. Ending = {}
    BY <1>5 DEF Boot, OrderInv, InStep, Quiet, Ending
  <2> QED BY <1>4, <1>5, <2>1 DEF Boot
<1>6. CASE Branch
  <2>1. Ending = {}
    <3>1. \A k \in Loops : hwlp_end[k] = at.pc => ~(hwlp_counter[k] > 1)
      <4> TAKE k \in Loops
      <4>1. hwlp_counter[k] \in Nat
        BY LoopTypesHere DEF OrderInv, IInv
      <4>2. hwlp_end[k] = at.pc => ~(hwlp_counter[k] > 0)
        BY <1>6 DEF Branch, InLoopEnd
      <4> QED BY <4>1, <4>2
    <3> QED BY <3>1 DEF Ending
  <2> QED BY <1>4, <1>6, <2>1 DEF Branch
<1>7. CASE SetPc
  <2>1. Ending = {}
    <3>1. ctl = "FLUSH"
      BY <1>7 DEF SetPc
    <3>2. at.done => Ending = {}
      BY <3>1 DEF OrderInv, InStep
    <3>3. ~at.done => Ending = {}
      BY DEF Ending
    <3> QED BY <3>2, <3>3
  <2> QED BY <1>4, <1>7, <2>1 DEF SetPc
<1>8. CASE Jump
  <2>1. PICK a \in Targets, ready \in BOOLEAN :
          /\ Clock([Plain EXCEPT !.branch = TRUE, !.target = a, !.clear = ready, !.mark = a], FALSE)
          /\ at' = IF ready THEN ExactlyAt(a) ELSE at
    BY <1>8 DEF Jump
  <2> DEFINE j == [Plain EXCEPT !.branch = TRUE, !.target = a, !.clear = ready, !.mark = a]
  <2>2. j \in Controls /\ j.clear = ready
    <3>1. j \in Controls
      BY PlainTypes, ProgramAssumption, Zenon
    <3>2. j.clear = ready
      BY DEF Plain
    <3> QED BY <3>1, <3>2
  <2> HIDE DEF j
  <2>3. Clock(j, FALSE) /\ id.valid
    BY <1>8, <2>1 DEF j, Jump
  <2>4. CASE ready
    <3>1. j.clear = TRUE /\ at' = ExactlyAt(a)
      BY <2>1, <2>2, <2>4
    <3> QED BY <2>2, <2>3, <3>1, SetImplements
  <2>5. CASE ~ready
    <3>1. ~j.clear /\ at' = at
      BY <2>1, <2>2, <2>5
    <3> QED BY <2>2, <2>3, <3>1, StayImplements
  <2> QED BY <2>4, <2>5
<1>9. CASE Advance
  <2>1. PICK ready \in BOOLEAN, halt_if \in BOOLEAN, setup \in BOOLEAN :
          /\ ready => setup
          /\ Clock([Plain EXCEPT !.take = ready /\ ~halt_if, !.clear = ready], setup)
          /\ at' = IF ready THEN Left ELSE at
    BY <1>9 DEF Advance
  <2> DEFINE take == ready /\ ~halt_if
             j == [Plain EXCEPT !.take = take, !.clear = ready]
  <2>2. j \in Controls /\ j.clear = ready
    <3>1. j \in Controls
      BY AdvanceTypes, Zenon
    <3> HIDE DEF take
    <3>2. j.clear = ready
      BY DEF Plain
    <3> QED BY <3>1, <3>2
  <2> HIDE DEF j, take
  <2>3. Clock(j, setup)
    BY <2>1, Zenon DEF j, take
  <2>4. ctl = "RUN"
    BY <1>9 DEF Advance
  <2>5. CASE ready
    <3>1. setup = TRUE /\ at' = Left /\ j.clear = TRUE
      BY <2>1, <2>2, <2>5
    <3> QED BY <2>2, <2>3, <2>4, <3>1, LeaveImplements
  <2>6. CASE ~ready
    <3>1. at' = at /\ ~j.clear
      BY <2>1, <2>2, <2>6
    <3> QED BY <2>2, <2>3, <2>4, <3>1, StayImplements
  <2> QED BY <2>5, <2>6
<1>10. CASE Trap
  <2>1. ctl = "RUN" /\ id.valid /\ at' = [pc |-> id.pc, done |-> FALSE]
    BY <1>10 DEF Trap, StoppedAt
  <2>2. PICK setup \in BOOLEAN : Clock(c, setup)
    BY <1>10 DEF Trap, c
  <2> QED BY <1>2, <2>1, <2>2, StopImplements
<1>11. CASE HaltBehind
  <2>1. ctl = "RUN" /\ at' = Left /\ Clock(c, TRUE)
    BY <1>11 DEF HaltBehind, c
  <2> QED BY <1>2, <2>1, LeaveImplements
<1>12. CASE FetchFault
  <2>1. at' = at /\ Clock(c, FALSE) /\ id.failed
    BY <1>12 DEF FetchFault, c
  <2>2. ~id.valid
    BY <2>1 DEF OrderInv, InStep, IdInStep
  <2> QED BY <1>2, <2>1, <2>2, StayImplements
<1>13. CASE Flush
  <2>1. at' = at /\ Clock(c, FALSE) /\ ctl = "FLUSH"
    BY <1>13 DEF Flush, c
  <2>2. ~id.valid
    BY <2>1 DEF OrderInv, InStep, IdInStep
  <2> QED BY <1>2, <2>1, <2>2, StayImplements
<1>14. CASE Sleep
  <2>1. at' = at /\ Clock(s, FALSE) /\ ctl = "SLEEP"
    BY <1>14 DEF Sleep, s
  <2>2. ~id.valid
    BY <2>1 DEF OrderInv, InStep, IdInStep
  <2> QED BY <1>2, <2>1, <2>2, StayImplements
<1> QED BY <1>3, <1>5, <1>6, <1>7, <1>8, <1>9, <1>10, <1>11, <1>12, <1>13, <1>14 DEF Next

(* The prefetch buffer, its FIFO, the IF stage and the loop controller     *)
(* execute the instructions of the program in order, loops included, as    *)
(* InstructionStream has them: a cycle is one step of the stream or none.  *)
THEOREM StreamImplemented == ASSUME LoopsBehave PROVE Spec => ImplementsStream
<1>1. OrderInv /\ [Next]_vars => [Stream!Next]_(Stream!vars)
  BY StepImplements
<1> QED BY <1>1, ImplementsInit, OrderAlways, PTL DEF Spec, ImplementsStream, Stream!Spec
=============================================================================
