------------------------------ MODULE FetchPath ------------------------------
(***************************************************************************)
(* The way of an instruction from the memory to the ID stage: the prefetch *)
(* buffer, the IF stage with its IF/ID registers (rtl/riscv_if_stage.sv),  *)
(* the hardware loops, and an instruction memory that grants a request and *)
(* answers it after any time.  The controller is what the cycles below let *)
(* it do; the program is the constants.                                    *)
(***************************************************************************)
EXTENDS PrefetchBuffer, HardwareLoops

CONSTANTS
    Denied,     \* the words the PMP does not let the core execute
    Setups,     \* the hardware loop instructions: at, reg, end, count
    Targets     \* where the PC may be set to

VARIABLES
    ctl,        \* the controller: RESET, RUN, FLUSH or SLEEP
    id,         \* the IF/ID registers
    dec_if,     \* hwlp_dec_cnt_if
    owed,       \* the word the memory has granted and not answered, or Junk
    at          \* the last instruction that left ID (done), or the one that must come next

vars == <<prefetchVars, hwloopVars, ctl, id, dec_if, owed, at>>

ASSUME ProgramAssumption ==
    /\ \A w \in Denied : w \in Addr /\ ~Odd(w)
    /\ \A t \in Targets : t \in Addr
    /\ \A s \in Setups : s \in [at : Addr, reg : Loops, end : Addr, count : 0..(Counts - 1)]

After(a) == (a + IF a \in Compressed THEN 1 ELSE 2) % Halves
NoSetup  == [at |-> Junk, reg |-> NoLoop, end |-> 0, count |-> 0]
SetupAt(a) == IF \E s \in Setups : s.at = a THEN CHOOSE s \in Setups : s.at = a ELSE NoSetup

EmptyId == [valid |-> FALSE, pc |-> 0, word |-> <<Junk, Junk>>, hwlp |-> FALSE,
            dec |-> NoLoop, failed |-> FALSE, to |-> Junk]

TypeOK ==
    /\ PrefetchTypeOK
    /\ hwlp_start \in [Loops -> Addr] /\ hwlp_end \in [Loops -> Addr]
    /\ hwlp_counter \in [Loops -> 0..(Counts - 1)]
    /\ ctl \in {"RESET", "RUN", "FLUSH", "SLEEP"}
    /\ id \in [valid : BOOLEAN, pc : Addr, word : Pair, hwlp : BOOLEAN,
               dec : 0..N_HWLP, failed : BOOLEAN, to : Half]
    /\ dec_if \in 0..N_HWLP
    /\ owed \in Half
    /\ at \in [pc : Addr, done : BOOLEAN]

Init ==
    /\ PrefetchInit
    /\ HwloopInit
    /\ ctl = "RESET"
    /\ id = EmptyId
    /\ dec_if = NoLoop
    /\ owed = Junk
    /\ at = [pc |-> 0, done |-> FALSE]

-----------------------------------------------------------------------------
(* One cycle.  c is what the controller does: req, branch and target, take *)
(* (the ID stage is ready and IF is not halted) and clear (the instruction *)
(* in ID leaves or is stopped); setup says that ID writes loop registers.  *)
(* The inputs i are bound by a set, so that TLC computes them once.        *)

DecInId == IF id.valid /\ id.hwlp THEN id.dec ELSE NoLoop

PcIf == OutAddr(FifoIn(FALSE, <<Junk, Junk>>))

\* The word the memory answers with.
Stored == IF owed = Junk THEN <<Junk, Junk>> ELSE <<owed, owed + 1>>

\* The inputs of the prefetch buffer before the memory and IF react.
Asked(c, rvalid) ==
    [req |-> c.req, branch |-> c.branch, target |-> c.target,
     hwloop |-> HwloopJump(PcIf, DecInId),
     hwtarget |-> HwloopTarget(PcIf, DecInId),
     gnt |-> FALSE, rvalid |-> rvalid, rdata |-> Stored, err |-> FALSE, ready |-> FALSE]

Takes(c, i) == c.take /\ ~c.branch /\ ~HwlpBranch /\ OutValid(In(i))

Answered(c, i, gnt) ==
    [i EXCEPT !.gnt = gnt,
              !.err = InstrReq(i) /\ WordOf(InstrAddr(i)) \in Denied,
              !.ready = Takes(c, i)]

NextId(c, i) ==
    IF i.ready
    THEN [valid |-> TRUE, pc |-> OutAddr(In(i)), word |-> OutRdata(In(i)),
          hwlp |-> OutIsHwlp(In(i)), dec |-> IF OutIsHwlp(In(i)) THEN dec_if ELSE NoLoop,
          failed |-> FALSE, to |-> Junk]
    ELSE IF c.clear THEN [EmptyId EXCEPT !.pc = id.pc, !.failed = FetchFailed(i)]
    ELSE [id EXCEPT !.to = IF c.mark # Junk THEN c.mark ELSE @]

Edge(c, setup, gnt, rvalid) ==
    \E i \in {Answered(c, Asked(c, rvalid), gnt)} :
        LET w == IF setup /\ id.valid THEN SetupAt(id.pc) ELSE NoSetup
        IN  /\ rvalid => owed # Junk
            /\ gnt => InstrReq(i) /\ ~i.err
            /\ PrefetchCycle(i)
            /\ HwloopCycle(w, PcIf, id.dec, id.valid /\ id.hwlp /\ c.clear)
            /\ id' = NextId(c, i)
            /\ dec_if' = IF i.hwloop THEN DecCnt(PcIf, DecInId) ELSE dec_if
            /\ owed' = IF gnt THEN WordOf(InstrAddr(i)) ELSE IF rvalid THEN Junk ELSE owed

Clock(c, setup) == \E gnt \in BOOLEAN, rvalid \in BOOLEAN : Edge(c, setup, gnt, rvalid)

Plain == [req |-> TRUE, branch |-> FALSE, target |-> 0,
          take |-> FALSE, clear |-> FALSE, mark |-> Junk]

-----------------------------------------------------------------------------
(* What the controller may do in a cycle.                                  *)

Left == IF ~id.valid THEN at
        ELSE IF id.to # Junk THEN [pc |-> id.to, done |-> FALSE]
        ELSE [pc |-> id.pc, done |-> TRUE]
StoppedAt == IF id.valid THEN [pc |-> id.pc, done |-> FALSE] ELSE at

ExactlyAt(a) == [pc |-> a, done |-> FALSE]

Hold ==     \* reset, before fetch_enable_i
    /\ ctl = "RESET"
    /\ Clock([Plain EXCEPT !.req = FALSE], FALSE)
    /\ UNCHANGED <<ctl, at>>

Boot ==
    /\ ctl = "RESET"
    /\ \E a \in Targets :
          /\ Clock([Plain EXCEPT !.branch = TRUE, !.target = a, !.clear = TRUE], FALSE)
          /\ at' = ExactlyAt(a)
    /\ ctl' = "RUN"

\* The ID stage is stalled, or its instruction leaves it; IF may be halted.
Advance ==
    /\ ctl = "RUN" /\ ~id.failed
    /\ \E ready \in BOOLEAN, halt_if \in BOOLEAN, setup \in BOOLEAN :
          /\ ready => setup
          /\ Clock([Plain EXCEPT !.take = ready /\ ~halt_if, !.clear = ready], setup)
          /\ at' = IF ready THEN Left ELSE at
    /\ UNCHANGED ctl

InLoopEnd(a) == \E k \in Loops : hwlp_end[k] = a /\ hwlp_counter[k] > 0

\* A jump sets the PC from ID, in its first cycle there.
Jump ==
    /\ ctl = "RUN" /\ id.valid /\ id.to = Junk
    /\ SetupAt(id.pc) = NoSetup /\ ~InLoopEnd(id.pc)
    /\ \E a \in Targets, ready \in BOOLEAN :
          /\ Clock([Plain EXCEPT !.branch = TRUE, !.target = a, !.clear = ready, !.mark = a], FALSE)
          /\ at' = IF ready THEN ExactlyAt(a) ELSE at
    /\ UNCHANGED ctl

\* A branch is taken in EX; the instruction behind it is stopped in ID.
Branch ==
    /\ ctl = "RUN" /\ at.done /\ ~InLoopEnd(at.pc)
    /\ \E a \in Targets :
          /\ Clock([Plain EXCEPT !.branch = TRUE, !.target = a, !.clear = TRUE], FALSE)
          /\ at' = ExactlyAt(a)
    /\ UNCHANGED ctl

\* An interrupt, an exception or a debug request stops the instruction in ID.
Trap ==
    /\ ctl = "RUN" /\ id.valid
    /\ \E setup \in BOOLEAN : Clock([Plain EXCEPT !.clear = TRUE], setup)
    /\ at' = StoppedAt
    /\ ctl' = "FLUSH"

\* wfi, fence.i, CSR accesses and single steps: none may follow the instruction.
HaltBehind ==
    /\ ctl = "RUN" /\ id.valid /\ ~InLoopEnd(id.pc)
    /\ Clock([Plain EXCEPT !.clear = TRUE], TRUE)
    /\ at' = Left
    /\ ctl' = "FLUSH"

FetchFault ==
    /\ ctl = "RUN" /\ id.failed
    /\ Clock([Plain EXCEPT !.clear = TRUE], FALSE)
    /\ ctl' = "FLUSH"
    /\ UNCHANGED at

Flush ==
    /\ ctl = "FLUSH"
    /\ Clock([Plain EXCEPT !.clear = TRUE], FALSE)
    /\ ctl' \in {"FLUSH", "RUN", "SLEEP"}
    /\ ctl' # "FLUSH" => at.done /\ ~id.failed
    /\ UNCHANGED at

SetPc ==
    /\ ctl = "FLUSH"
    /\ \E a \in Targets :
          /\ Clock([Plain EXCEPT !.branch = TRUE, !.target = a, !.clear = TRUE], FALSE)
          /\ at' = ExactlyAt(a)
    /\ ctl' = "RUN"

Sleep ==
    /\ ctl = "SLEEP"
    /\ Clock([Plain EXCEPT !.req = FALSE, !.clear = TRUE], FALSE)
    /\ ctl' \in {"SLEEP", "RUN"}
    /\ UNCHANGED at

Next ==
    \/ Hold \/ Boot \/ Advance \/ Jump \/ Branch \/ Trap \/ HaltBehind
    \/ FetchFault \/ Flush \/ SetPc \/ Sleep

Spec == Init /\ [][Next]_vars

(* The clock does not stop, the ID stage is ready again and again, and the *)
(* memory neither refuses nor withholds an answer for ever.                *)
Flows(gnt, rvalid) ==
    /\ ctl = "RUN" /\ ~id.failed
    /\ UNCHANGED ctl
    /\ at' = Left
    /\ Edge([Plain EXCEPT !.take = TRUE, !.clear = TRUE], TRUE, gnt, rvalid)

FairSpec ==
    /\ Spec
    /\ WF_vars(\E gnt \in BOOLEAN, rvalid \in BOOLEAN : Flows(gnt, rvalid))
    /\ SF_vars(\E rvalid \in BOOLEAN : Flows(TRUE, rvalid))
    /\ SF_vars(\E gnt \in BOOLEAN : Flows(gnt, TRUE))

-----------------------------------------------------------------------------
(* Properties.                                                             *)

(* The word of every instruction in ID is the memory at its PC: nothing    *)
(* aborted, stale or misaligned gets through the FIFO.                     *)
WordIsMemory ==
    id.valid => /\ id.word[1] = id.pc
                /\ id.pc \notin Compressed => id.word[2] = (id.pc + 1) % Halves

(* The commented assertion of the FIFO: no word arrives when it is full.   *)
RoomForAnswer ==
    owed # Junk /\ CS = "WAIT_RVALID" => Len(rdata_Q) < DEPTH \/ hwlp_CS = "FETCHING"

(* The prefetch buffer waits for an answer exactly while one is owed.      *)
OneFetchOwed == owed # Junk <=> CS \in {"WAIT_RVALID", "WAIT_ABORTED"}

Stream == INSTANCE InstructionStream
    WITH start <- hwlp_start, end <- hwlp_end, count <- hwlp_counter

(* Instructions leave ID in program order, with every loop iterated as     *)
(* often as its counter says, whatever is stopped, aborted or late.        *)
ImplementsStream == Stream!Spec

(* The PC of the IF stage, which exceptions and lp.setup save, is that of  *)
(* the instruction that follows.                                           *)
PcIfFollows ==
    (ctl = "RUN" \/ (ctl # "RESET" /\ at.done)) /\ ~HwlpBranch =>
        PcIf = IF ~id.valid THEN Stream!Following
                      ELSE IF id.to # Junk THEN id.to
                      ELSE LET e == {k \in Loops : PcIsEnd(k, id.pc, DecInId)}
                           IN  IF e = {} THEN After(id.pc)
                               ELSE hwlp_start[CHOOSE k \in e : \A j \in e : k <= j]

(* An instruction access fault is raised only for a following instruction  *)
(* that needs a word the core may not execute.                             *)
FaultIsDue ==
    ctl = "RUN" /\ id.failed =>
        LET first == Stream!Following
            last  == (After(first) + Halves - 1) % Halves
        IN  {WordOf(first), WordOf(last)} \cap Denied # {}

(* With a memory that answers, an empty ID stage gets the next instruction *)
(* or learns that it may not be fetched.                                   *)
Starved == ctl = "RUN" /\ ~id.valid /\ ~id.failed
NextArrives == Starved ~> ~Starved

-----------------------------------------------------------------------------
(* The programs the theorems about what is fetched are for.  Of a hardware *)
(* loop that jumps back:                                                   *)
(*  - the end begins a word; otherwise its second half may be lost;        *)
(*  - neither a loop instruction nor the one behind it is its end: the     *)
(*    registers are not yet written when the end is recognised;            *)
(*  - the loop instruction is not right behind the end, and the first      *)
(*    instruction of the loop does not write the registers of the loop:    *)
(*    while it stalls it has written them, and InstructionStream, which    *)
(*    has not, would compute another decrement;                            *)
(*  - the words fetched behind the end before the jump and those of the    *)
(*    start are not denied: a refusal there loses the jump's decrement.    *)

Iterating == {s \in Setups : s.count > 1}

Behind(s) == {NextWord(s.end), NextWord(NextWord(s.end)), NextWord(NextWord(NextWord(s.end)))}
First(s)  == {WordOf(After(s.at)), NextWord(After(s.at))}

LoopsBehave ==
    \A s \in Iterating :
        /\ ~Odd(s.end)
        /\ \A t \in Setups : t.at # s.end /\ After(t.at) # s.end
        /\ After(s.end) # s.at
        /\ \A t \in Setups : t.at = After(s.at) => t.reg # s.reg /\ t.end # s.end
        /\ (Behind(s) \cup First(s)) \cap Denied = {}
=============================================================================
