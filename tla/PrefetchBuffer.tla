--------------------------- MODULE PrefetchBuffer ---------------------------
(***************************************************************************)
(* rtl/riscv_prefetch_buffer.sv with its FIFO: the state machine that      *)
(* fetches words from the instruction memory and the one that follows a    *)
(* hardware loop jump.  The operators take i, the inputs of the cycle:     *)
(*   req, branch, target       request of the controller, a new PC         *)
(*   hwloop, hwtarget          the PC at the output is the end of a loop   *)
(*   gnt, rvalid, rdata, err   the answers of the memory and the PMP       *)
(*   ready                     the IF stage takes an instruction           *)
(***************************************************************************)
EXTENDS FetchFifo

VARIABLES
    CS,             \* the fetch state machine
    hwlp_CS,        \* the hardware loop state machine
    instr_addr_q    \* the address last requested

prefetchVars == <<fifoVars, CS, hwlp_CS, instr_addr_q>>

FetchStates == {"IDLE", "WAIT_GNT", "WAIT_RVALID", "WAIT_ABORTED", "WAIT_JUMP"}
HwlpStates  == {"NONE", "IN", "FETCHING", "DONE", "UNALIGNED_COMPRESSED", "UNALIGNED"}

PrefetchTypeOK ==
    /\ FifoTypeOK
    /\ CS \in FetchStates
    /\ hwlp_CS \in HwlpStates
    /\ instr_addr_q \in Addr

PrefetchInit ==
    /\ FifoInit
    /\ CS = "IDLE"
    /\ hwlp_CS = "NONE"
    /\ instr_addr_q = 0

-----------------------------------------------------------------------------
(* The wires between the two machines and the FIFO.                        *)

\* Mutant: the late answer to an aborted request enters the FIFO.
FifoValid_Aborted(rvalid) == CS \in {"WAIT_RVALID", "WAIT_ABORTED"} /\ rvalid
FifoValid(rvalid) == CS = "WAIT_RVALID" /\ rvalid

FifoIn(rvalid, rdata) ==
    [valid |-> FifoValid(rvalid), addr |-> instr_addr_q,
     data  |-> IF FifoValid(rvalid) THEN rdata ELSE <<Junk, Junk>>,
     jump  |-> hwlp_CS = "FETCHING"]
In(i) == FifoIn(i.rvalid, i.rdata)

\* Before a loop end that straddles two words the rest of it must be fetched.
CompressedEnd(i) == OutValid(In(i)) /\ UnalignedIsCompressed(In(i)) /\ Odd(instr_addr_q)
WaitsForEnd(i)   == ~CompressedEnd(i) /\ Odd(instr_addr_q) /\ ~OutValid(In(i))
Speculative(i)   == hwlp_CS = "NONE" /\ i.hwloop /\ (CompressedEnd(i) \/ WaitsForEnd(i))

HwlpBranch == hwlp_CS = "UNALIGNED_COMPRESSED"
Masked(i) ==
    \/ hwlp_CS = "NONE" /\ i.hwloop /\ ~Odd(instr_addr_q)
    \/ hwlp_CS = "UNALIGNED" /\ OutValid(In(i))
    \/ hwlp_CS = "IN"
MaskedStored(i) == Masked(i) /\ ValidStored(In(i))

Redirected(i) == i.branch \/ HwlpBranch
BranchAddr(i) == IF i.branch THEN i.target ELSE instr_addr_q

-----------------------------------------------------------------------------
(* The fetch state machine.                                                *)

\* A state that may ask for the next word wants to, unless the FIFO is full.
Wants(i) ==
    CASE CS = "IDLE"        -> i.req /\ (InReady \/ Redirected(i) \/ MaskedStored(i))
      [] CS = "WAIT_RVALID" -> i.req /\ (InReady \/ Redirected(i) \/ Masked(i))
      [] OTHER -> FALSE

InstrReq(i) ==
    CASE CS = "IDLE"         -> Wants(i)
      [] CS = "WAIT_JUMP"    -> i.branch
      [] CS = "WAIT_GNT"     -> TRUE
      [] CS = "WAIT_RVALID"  -> Wants(i) /\ i.rvalid
      [] CS = "WAIT_ABORTED" -> i.rvalid

\* A jump that is known while the last request is not answered yet.
Aborts(i) ==
    /\ CS = "WAIT_RVALID" /\ Wants(i) /\ ~i.rvalid
    /\ Redirected(i) \/ (Masked(i) /\ OutValid(In(i)))

FetchIsHwlp(i) ==
    CASE CS = "IDLE"        -> Wants(i) /\ MaskedStored(i)
      [] CS = "WAIT_GNT"    -> ~Redirected(i) /\ MaskedStored(i)
      [] CS = "WAIT_RVALID" -> Masked(i) /\ (InstrReq(i) \/ (Aborts(i) /\ ~Redirected(i)))
      [] OTHER -> FALSE

InstrAddr(i) ==
    CASE CS = "WAIT_JUMP" -> i.target
      [] CS # "WAIT_JUMP" /\ Redirected(i) -> BranchAddr(i)
      [] OTHER ->
            IF CS # "WAIT_ABORTED" /\ (IF CS = "WAIT_RVALID" THEN Masked(i) ELSE MaskedStored(i))
            THEN i.hwtarget
            ELSE IF CS \in {"WAIT_GNT", "WAIT_ABORTED"} THEN instr_addr_q
            ELSE NextWord(instr_addr_q)

AddrValid(i) ==
    CASE CS \in {"IDLE", "WAIT_JUMP"} -> InstrReq(i)
      [] CS = "WAIT_GNT"     -> Redirected(i) \/ MaskedStored(i)
      [] CS = "WAIT_RVALID"  -> InstrReq(i) \/ Aborts(i)
      [] CS = "WAIT_ABORTED" -> Redirected(i)

\* The PMP is not looked at in the cycle a jump leaves WAIT_JUMP.
Refused(i) == i.err /\ CS # "WAIT_JUMP"

\* Mutant: an aborted request is repeated before its old answer is there.
NextFetch_SkipsAborted(i) ==
    CASE InstrReq(i) ->
            IF Refused(i) THEN "WAIT_JUMP" ELSE IF i.gnt THEN "WAIT_RVALID" ELSE "WAIT_GNT"
      [] ~InstrReq(i) /\ Aborts(i) -> "WAIT_GNT"
      [] ~InstrReq(i) /\ FifoValid(i.rvalid) -> "IDLE"
      [] OTHER -> CS
NextFetch(i) ==
    CASE InstrReq(i) ->
            IF Refused(i) THEN "WAIT_JUMP" ELSE IF i.gnt THEN "WAIT_RVALID" ELSE "WAIT_GNT"
      [] ~InstrReq(i) /\ Aborts(i) -> "WAIT_ABORTED"
      [] ~InstrReq(i) /\ FifoValid(i.rvalid) -> "IDLE"
      [] OTHER -> CS

\* Mutant: a fault is reported while instructions before it are in the FIFO.
FetchFailed_Early(i) == CS = "WAIT_JUMP" /\ ~i.branch
\* Mutant: a fault is not reported.
FetchFailed_Never(i) == FALSE
FetchFailed(i) == CS = "WAIT_JUMP" /\ ~i.branch /\ ~OutValid(In(i))

-----------------------------------------------------------------------------
(* The hardware loop state machine.                                        *)

NextHwlp(i) ==
    LET v == OutValid(In(i))
        answered == i.rvalid /\ CS # "WAIT_ABORTED"
        follow   == IF FetchIsHwlp(i) THEN "FETCHING" ELSE "IN"
        step ==
            CASE hwlp_CS = "NONE" /\ i.hwloop ->
                    IF CompressedEnd(i) THEN "UNALIGNED_COMPRESSED"
                    ELSE IF WaitsForEnd(i) THEN "UNALIGNED" ELSE follow
              [] hwlp_CS = "UNALIGNED" /\ v     -> "FETCHING"
              [] hwlp_CS = "UNALIGNED_COMPRESSED" -> "FETCHING"
              [] hwlp_CS = "IN"                 -> follow
              [] hwlp_CS = "FETCHING" /\ answered ->
                    IF v /\ OutIsHwlp(In(i)) THEN "NONE" ELSE "DONE"
              [] hwlp_CS = "DONE" /\ v /\ OutIsHwlp(In(i)) -> "NONE"
              [] OTHER -> hwlp_CS
    IN  IF i.branch THEN "NONE" ELSE step

\* Mutant: a loop jump leaves the words behind the loop in the FIFO.
FifoClear_BranchOnly(i) == i.branch \/ HwlpBranch
FifoClear(i) ==
    \/ i.branch
    \/ HwlpBranch
    \/ /\ i.ready
       /\ \/ hwlp_CS = "NONE" /\ i.hwloop
          \/ hwlp_CS = "UNALIGNED" /\ OutValid(In(i))
          \/ hwlp_CS = "IN"
          \/ hwlp_CS = "FETCHING" /\ ~(i.rvalid /\ CS # "WAIT_ABORTED")

PrefetchCycle(i) ==
    /\ CS' = NextFetch(i)
    /\ hwlp_CS' = NextHwlp(i)
    /\ instr_addr_q' =
          IF ~AddrValid(i) THEN instr_addr_q
          ELSE IF Speculative(i) /\ ~i.branch THEN i.hwtarget ELSE InstrAddr(i)
    /\ FifoCycle(In(i), i.ready, FifoClear(i))
=============================================================================
